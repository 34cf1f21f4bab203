---------------------------- MODULE CodeGenProofs ----------------------------
(***************************************************************************)
(* Proofs about the code generator.  Of CodeGen, for every set of          *)
(* registers, every fragment of the language and every function written in *)
(* it: what is left of the walk always uses up exactly the operands and    *)
(* the open calls there are, the stack holds exactly what the open calls   *)
(* have pushed, and the pool knows the registers of the operands, no two   *)
(* of which share one.  Of Branches, for functions of any size: at each    *)
(* place of the code it is known how many slots have been pushed at least, *)
(* and with which outcomes of the last comparison it is reached, whatever  *)
(* path leads there; and every jump has one target.                        *)
(***************************************************************************)
EXTENDS CodeGen, Branches, FiniteSetTheorems, SequenceTheorems, WellFoundedInduction, TLAPS

-----------------------------------------------------------------------------
(* Sequences of anything *)

IsSeq(s) == \E S : s \in Seq(S)

LEMMA SeqFacts ==
    ASSUME NEW s, IsSeq(s)
    PROVE  Len(s) \in Nat /\ DOMAIN s = 1..Len(s) /\ (s = << >> <=> Len(s) = 0)
<1>1. PICK S : s \in Seq(S)
  BY DEF IsSeq
<1> QED
  BY <1>1

LEMMA SeqAppend ==
    ASSUME NEW s, IsSeq(s), NEW x
    PROVE  /\ IsSeq(Append(s, x)) /\ Len(Append(s, x)) = Len(s) + 1
           /\ \A i \in 1..Len(s) : Append(s, x)[i] = s[i]
           /\ Append(s, x)[Len(s) + 1] = x
<1>1. PICK S : s \in Seq(S)
  BY DEF IsSeq
<1>2. s \in Seq(S \cup {x}) /\ x \in S \cup {x}
  BY <1>1, SeqMonotonic
<1>3. /\ Append(s, x) \in Seq(S \cup {x}) /\ Len(Append(s, x)) = Len(s) + 1
      /\ \A i \in 1..Len(s) : Append(s, x)[i] = s[i]
      /\ Append(s, x)[Len(s) + 1] = x
  BY <1>2
<1> QED
  BY <1>3 DEF IsSeq

LEMMA SeqFirst ==
    ASSUME NEW s, IsSeq(s), NEW n \in 0..Len(s)
    PROVE  /\ IsSeq(SubSeq(s, 1, n)) /\ Len(SubSeq(s, 1, n)) = n
           /\ \A i \in 1..n : SubSeq(s, 1, n)[i] = s[i]
<1>1. PICK S : s \in Seq(S)
  BY DEF IsSeq
<1>2. /\ SubSeq(s, 1, n) \in Seq(S) /\ Len(SubSeq(s, 1, n)) = n
      /\ \A i \in 1..n : SubSeq(s, 1, n)[i] = s[i]
  BY <1>1
<1> QED
  BY <1>2 DEF IsSeq

LEMMA SeqRest ==
    ASSUME NEW s, IsSeq(s), s # << >>
    PROVE  /\ Len(s) \in Nat \ {0}
           /\ IsSeq(Tail(s)) /\ Len(Tail(s)) = Len(s) - 1
           /\ \A i \in 1..Len(s) - 1 : Tail(s)[i] = s[i + 1]
<1>1. PICK S : s \in Seq(S)
  BY DEF IsSeq
<1>2. /\ Tail(s) \in Seq(S) /\ Len(Tail(s)) = Len(s) - 1 /\ Len(s) \in Nat \ {0}
      /\ \A i \in 1..Len(s) - 1 : Tail(s)[i] = s[i + 1]
  BY <1>1
<1> QED
  BY <1>2 DEF IsSeq

LEMMA SeqJoin ==
    ASSUME NEW s, IsSeq(s), NEW t, IsSeq(t)
    PROVE  /\ IsSeq(s \o t) /\ Len(s \o t) = Len(s) + Len(t)
           /\ \A i \in 1..Len(s) : (s \o t)[i] = s[i]
           /\ \A i \in 1..Len(t) : (s \o t)[Len(s) + i] = t[i]
<1>1. PICK S, T : s \in Seq(S) /\ t \in Seq(T)
  BY DEF IsSeq
<1>2. s \in Seq(S \cup T) /\ t \in Seq(S \cup T)
  BY <1>1, SeqMonotonic
<1>3. /\ s \o t \in Seq(S \cup T) /\ Len(s \o t) = Len(s) + Len(t)
      /\ \A i \in 1..Len(s) : (s \o t)[i] = s[i]
      /\ \A i \in 1..Len(t) : (s \o t)[Len(s) + i] = t[i]
  BY <1>2
<1> QED
  BY <1>3 DEF IsSeq

\* A set of numbers has its least element.
LEMMA LeastNumber ==
    ASSUME NEW S, S \subseteq Nat, S # {}
    PROVE  \E m \in S : \A y \in S : m <= y
<1> DEFINE R == OpToRel(<, Nat)
<1>1. IsWellFoundedOn(R, Nat)
  BY NatLessThanWellFounded
<1>2. \A x, y \in Nat : x < y => <<x, y>> \in R
  BY DEF OpToRel
<1> HIDE DEF R
<1>3. PICK x \in S : \A y \in S : ~ (<<y, x>> \in R)
  BY <1>1, WFMin
<1>4. ASSUME NEW y \in S PROVE x <= y
  <2>1. x \in Nat /\ y \in Nat /\ ~ (y < x)
    BY Zenon, <1>2, <1>3
  <2> QED
    BY <2>1
<1> QED
  BY <1>4

-----------------------------------------------------------------------------
(* Chains of tasks *)

\* The operands a task takes and the operands it leaves.
Takes(t) ==
    IF t.k = "binary" THEN 2
    ELSE IF t.k \in {"not", "index", "pass", "assign", "field", "item", "cond", "ret"} THEN 1
    ELSE 0

Leaves(t) == IF t.k \in {"expr", "binary", "not", "index", "result"} THEN 1 ELSE 0

\* The registers are released only where no operand is left that needs one.
ClearsSafely(t, o) ==
    /\ t.k = "expr" => t.clear = FALSE \/ o = 0
    /\ t.k = "binary" => t.clear = FALSE \/ o = 2
    /\ t.k \in {"assign", "field", "item", "cond", "ret"} => o = 1
    /\ t.k = "called" => o = 0

\* The task t turns o operands and c open calls into o1 and c1.  A call
\* statement ends only if q.bare = 1: the outermost call has not saved RAX.
\* While the call c is open, the first q.base[c] operands are those from before.
Does(t, o, c, o1, c1, q) ==
    /\ "k" \in DOMAIN t
    /\ o >= Takes(t) /\ o1 = o - Takes(t) + Leaves(t)
    /\ t.k \in {"arg", "pass", "result", "called"} => c > 0
    /\ t.k = "called" => c = 1 /\ q.bare = 1
    /\ c1 = IF t.k \in {"result", "called"} THEN c - 1 ELSE c
    /\ t.k = "stmts" => o = 0 /\ c = 0
    /\ ClearsSafely(t, o)
    /\ c > 0 => q.base[c] \in Nat /\ o - Takes(t) >= q.base[c]
    /\ t.k = "result" => o = q.base[c]

\* The tasks w together turn o operands and c open calls into oe and ce.
Chain(w, o, c, oe, ce, q) ==
    /\ IsSeq(w)
    /\ \E O, C \in [1..(Len(w) + 1) -> Nat] :
         /\ O[1] = o /\ C[1] = c /\ O[Len(w) + 1] = oe /\ C[Len(w) + 1] = ce
         /\ \A i \in 1..Len(w) : Does(w[i], O[i], C[i], O[i + 1], C[i + 1], q)

LEMMA ChainJoin ==
    ASSUME NEW q, NEW u, NEW v, NEW o, NEW c, NEW om, NEW cm, NEW oe, NEW ce,
           Chain(u, o, c, om, cm, q), Chain(v, om, cm, oe, ce, q)
    PROVE  Chain(u \o v, o, c, oe, ce, q)
<1> DEFINE m == Len(u)
           n == Len(v)
           w == u \o v
<1>1. /\ m \in Nat /\ n \in Nat /\ IsSeq(w) /\ Len(w) = m + n
      /\ \A i \in 1..m : w[i] = u[i]
      /\ \A i \in 1..n : w[m + i] = v[i]
  BY SeqFacts, SeqJoin DEF Chain
<1>2. PICK O1, C1 \in [1..(m + 1) -> Nat] :
        /\ O1[1] = o /\ C1[1] = c /\ O1[m + 1] = om /\ C1[m + 1] = cm
        /\ \A i \in 1..m : Does(u[i], O1[i], C1[i], O1[i + 1], C1[i + 1], q)
  BY DEF Chain
<1>3. PICK O2, C2 \in [1..(n + 1) -> Nat] :
        /\ O2[1] = om /\ C2[1] = cm /\ O2[n + 1] = oe /\ C2[n + 1] = ce
        /\ \A i \in 1..n : Does(v[i], O2[i], C2[i], O2[i + 1], C2[i + 1], q)
  BY DEF Chain
<1> DEFINE O == [i \in 1..(m + n + 1) |-> IF i <= m THEN O1[i] ELSE O2[i - m]]
           C == [i \in 1..(m + n + 1) |-> IF i <= m THEN C1[i] ELSE C2[i - m]]
<1> HIDE DEF m, n, w
<1>4. O \in [1..(m + n + 1) -> Nat] /\ C \in [1..(m + n + 1) -> Nat]
  BY <1>1, <1>2, <1>3
<1>5. O[1] = o /\ C[1] = c /\ O[m + n + 1] = oe /\ C[m + n + 1] = ce
  BY <1>1, <1>2, <1>3
<1>6. \A i \in 1..(m + 1) : O[i] = O1[i] /\ C[i] = C1[i]
  BY <1>1, <1>2, <1>3
<1>7. \A i \in 1..(n + 1) : O[m + i] = O2[i] /\ C[m + i] = C2[i]
  BY <1>1, <1>2, <1>3
<1>8. ASSUME NEW i \in 1..(m + n) PROVE Does(w[i], O[i], C[i], O[i + 1], C[i + 1], q)
  <2> HIDE DEF O, C
  <2>1. CASE i <= m
    <3>1. i \in 1..m /\ i + 1 \in 1..(m + 1) /\ i \in 1..(m + 1)
      BY <1>1, <2>1
    <3> QED
      BY <1>1, <1>2, <1>6, <3>1
  <2>2. CASE ~ (i <= m)
    <3>0. i - m \in 1..n /\ i = m + (i - m)
      BY <1>1, <2>2
    <3>1. PICK j \in 1..n : i = m + j
      BY <3>0
    <3>2. j + 1 \in 1..(n + 1) /\ j \in 1..(n + 1) /\ i + 1 = m + (j + 1)
      BY <1>1, <3>1
    <3> QED
      BY <1>1, <1>3, <1>7, <3>1, <3>2
  <2> QED
    BY <2>1, <2>2
<1> HIDE DEF O, C
<1> QED
  BY <1>1, <1>4, <1>5, <1>8 DEF Chain, w

LEMMA ChainRest ==
    ASSUME NEW q, NEW w, NEW o, NEW c, NEW oe, NEW ce, Chain(w, o, c, oe, ce, q), w # << >>
    PROVE  \E o1, c1 \in Nat : /\ Does(w[1], o, c, o1, c1, q)
                               /\ Chain(Tail(w), o1, c1, oe, ce, q)
<1> DEFINE n == Len(w)
           v == Tail(w)
<1>1. /\ n \in Nat \ {0} /\ IsSeq(v) /\ Len(v) = n - 1
      /\ \A i \in 1..n - 1 : v[i] = w[i + 1]
  BY SeqRest DEF Chain
<1>2. PICK O, C \in [1..(n + 1) -> Nat] :
        /\ O[1] = o /\ C[1] = c /\ O[n + 1] = oe /\ C[n + 1] = ce
        /\ \A i \in 1..n : Does(w[i], O[i], C[i], O[i + 1], C[i + 1], q)
  BY DEF Chain
<1> DEFINE P == [i \in 1..n |-> O[i + 1]]
           D == [i \in 1..n |-> C[i + 1]]
<1> HIDE DEF n, v
<1>3. P \in [1..(n - 1 + 1) -> Nat] /\ D \in [1..(n - 1 + 1) -> Nat]
  BY <1>1, <1>2
<1>4. P[1] = O[2] /\ D[1] = C[2] /\ P[n - 1 + 1] = oe /\ D[n - 1 + 1] = ce
  BY <1>1, <1>2
<1>5. ASSUME NEW i \in 1..n - 1 PROVE Does(v[i], P[i], D[i], P[i + 1], D[i + 1], q)
  <2>1. i + 1 \in 1..n /\ i \in 1..n /\ P[i] = O[i + 1] /\ D[i] = C[i + 1]
        /\ P[i + 1] = O[i + 1 + 1] /\ D[i + 1] = C[i + 1 + 1]
    BY <1>1
  <2> HIDE DEF P, D
  <2> QED
    BY <1>1, <1>2, <2>1
<1>6. O[2] \in Nat /\ C[2] \in Nat /\ Does(w[1], o, c, O[2], C[2], q)
  BY <1>1, <1>2
<1> HIDE DEF P, D
<1>7. Chain(v, O[2], C[2], oe, ce, q)
  BY <1>1, <1>3, <1>4, <1>5 DEF Chain
<1> QED
  BY <1>6, <1>7 DEF v

LEMMA ChainNone ==
    ASSUME NEW q, NEW o \in Nat, NEW c \in Nat
    PROVE  Chain(<< >>, o, c, o, c, q)
<1> DEFINE O == [i \in 1..1 |-> o]
           C == [i \in 1..1 |-> c]
<1>1. IsSeq(<< >>) /\ Len(<< >>) = 0
  BY EmptySeq DEF IsSeq
<1>2. O \in [1..(0 + 1) -> Nat] /\ C \in [1..(0 + 1) -> Nat]
      /\ O[1] = o /\ C[1] = c /\ O[0 + 1] = o /\ C[0 + 1] = c
  OBVIOUS
<1> HIDE DEF O, C
<1> QED
  BY <1>1, <1>2 DEF Chain

LEMMA ChainOne ==
    ASSUME NEW q, NEW a, NEW o \in Nat, NEW c \in Nat, NEW o1 \in Nat, NEW c1 \in Nat,
           Does(a, o, c, o1, c1, q)
    PROVE  Chain(<<a>>, o, c, o1, c1, q)
<1> DEFINE O == [i \in 1..2 |-> IF i = 1 THEN o ELSE o1]
           C == [i \in 1..2 |-> IF i = 1 THEN c ELSE c1]
<1>1. IsSeq(<<a>>) /\ Len(<<a>>) = 1 /\ <<a>>[1] = a
  <2>1. a \in {a}
    OBVIOUS
  <2>2. <<a>> \in Seq({a})
    BY <2>1
  <2>3. Len(<<a>>) = 1 /\ <<a>>[1] = a
    OBVIOUS
  <2>4. IsSeq(<<a>>)
    BY Zenon, <2>2 DEF IsSeq
  <2> QED
    BY <2>3, <2>4
<1>2. O \in [1..(1 + 1) -> Nat] /\ C \in [1..(1 + 1) -> Nat]
      /\ O[1] = o /\ C[1] = c /\ O[1 + 1] = o1 /\ C[1 + 1] = c1
  OBVIOUS
<1> HIDE DEF O, C
<1>3. \A i \in 1..1 : Does(<<a>>[i], O[i], C[i], O[i + 1], C[i + 1], q)
  BY <1>1, <1>2
<1> QED
  BY <1>1, <1>2, <1>3 DEF Chain

LEMMA ChainAppend ==
    ASSUME NEW q, NEW u, NEW a, NEW o, NEW c, NEW om \in Nat, NEW cm \in Nat,
           NEW oe \in Nat, NEW ce \in Nat,
           Chain(u, o, c, om, cm, q), Does(a, om, cm, oe, ce, q)
    PROVE  Chain(Append(u, a), o, c, oe, ce, q)
<1>1. Chain(<<a>>, om, cm, oe, ce, q)
  BY ChainOne
<1>2. PICK S : u \in Seq(S)
  BY DEF Chain, IsSeq
<1>3. u \in Seq(S \cup {a}) /\ a \in S \cup {a}
  BY <1>2, SeqMonotonic
<1>4. Append(u, a) = u \o <<a>>
  BY <1>3, AppendIsConcat
<1> QED
  BY <1>1, <1>4, ChainJoin

LEMMA ChainTwo ==
    ASSUME NEW q, NEW a, NEW b, NEW o \in Nat, NEW c \in Nat, NEW o1 \in Nat, NEW c1 \in Nat,
           NEW o2 \in Nat, NEW c2 \in Nat,
           Does(a, o, c, o1, c1, q), Does(b, o1, c1, o2, c2, q)
    PROVE  Chain(<<a, b>>, o, c, o2, c2, q)
<1>1. Chain(<<a>>, o, c, o1, c1, q)
  BY ChainOne
<1>2. <<a, b>> = Append(<<a>>, b)
  OBVIOUS
<1> QED
  BY <1>1, <1>2, ChainAppend

LEMMA ChainThree ==
    ASSUME NEW q, NEW a, NEW b, NEW d, NEW o \in Nat, NEW c \in Nat, NEW o1 \in Nat, NEW c1 \in Nat,
           NEW o2 \in Nat, NEW c2 \in Nat, NEW o3 \in Nat, NEW c3 \in Nat,
           Does(a, o, c, o1, c1, q), Does(b, o1, c1, o2, c2, q), Does(d, o2, c2, o3, c3, q)
    PROVE  Chain(<<a, b, d>>, o, c, o3, c3, q)
<1>1. Chain(<<a, b>>, o, c, o2, c2, q)
  BY ChainTwo
<1>2. <<a, b, d>> = Append(<<a, b>>, d)
  OBVIOUS
<1> QED
  BY <1>1, <1>2, ChainAppend

\* The tasks of a call use up one open call and leave its result, if they end
\* in one.
LEMMA ChainCall ==
    ASSUME NEW q, NEW n \in Nat, NEW clear, NEW end \in {"result", "called"},
           NEW o \in Nat, NEW c \in Nat, clear = FALSE \/ o = 0, q.base[c + 1] = o,
           end = "called" => o = 0 /\ c = 0 /\ q.bare = 1
    PROVE  Chain(CallTasks(n, clear, end), o, c + 1,
                 IF end = "result" THEN o + 1 ELSE o, c, q)
<1> DEFINE w == CallTasks(n, clear, end)
           oe == IF end = "result" THEN o + 1 ELSE o
           O == [j \in 1..(3 * n + 2) |->
                   IF j = 3 * n + 2 THEN oe
                   ELSE IF (j + 2) % 3 = 2 THEN o + 1 ELSE o]
           C == [j \in 1..(3 * n + 2) |-> IF j = 3 * n + 2 THEN c ELSE c + 1]
           T(j) == IF j > 3 * n THEN [k |-> end]
                   ELSE ArgTasks((j + 2) \div 3, clear)[((j + 2) % 3) + 1]
<1>1. w = [j \in 1..(3 * n + 1) |-> T(j)]
  BY DEF CallTasks
<1>2. 3 * n + 1 \in Nat /\ Len(w) = 3 * n + 1
  BY <1>1
<1>3. IsSeq(w)
  <2> DEFINE S == {T(j) : j \in 1..(3 * n + 1)}
  <2>1. w \in [1..(3 * n + 1) -> S]
    BY <1>1
  <2>2. w \in Seq(S)
    BY <1>2, <2>1, SeqDef
  <2> QED
    BY <2>2 DEF IsSeq
<1>4. /\ O \in [1..(3 * n + 2) -> Nat] /\ C \in [1..(3 * n + 2) -> Nat]
      /\ O[1] = o /\ C[1] = c + 1 /\ O[3 * n + 2] = oe /\ C[3 * n + 2] = c
  OBVIOUS
<1>5. ASSUME NEW j \in 1..(3 * n + 1) PROVE Does(w[j], O[j], C[j], O[j + 1], C[j + 1], q)
  <2>1. w[j] = T(j)
    BY <1>1
  <2>2. CASE j = 3 * n + 1
    <3>1. w[j] = [k |-> end]
      BY <2>1, <2>2
    <3>2. O[j] = o /\ C[j] = c + 1 /\ O[j + 1] = oe /\ C[j + 1] = c
      BY <2>2
    <3> HIDE DEF O, C, w, T
    <3> QED
      BY <3>1, <3>2 DEF Does, Takes, Leaves, ClearsSafely
  <2>3. CASE j # 3 * n + 1 /\ (j + 2) % 3 = 0
    <3>1. w[j].k = "arg" /\ "k" \in DOMAIN w[j]
      BY <2>1, <2>3 DEF ArgTasks
    <3>2. O[j] = o /\ C[j] = c + 1 /\ O[j + 1] = o /\ C[j + 1] = c + 1
      BY <2>3
    <3> HIDE DEF O, C, w, T
    <3> QED
      BY <3>1, <3>2 DEF Does, Takes, Leaves, ClearsSafely
  <2>4. CASE j # 3 * n + 1 /\ (j + 2) % 3 = 1
    <3>1. w[j].k = "expr" /\ "k" \in DOMAIN w[j] /\ w[j].clear = clear
      BY <2>1, <2>4 DEF ArgTasks, Whole, E
    <3>2. O[j] = o /\ C[j] = c + 1 /\ O[j + 1] = o + 1 /\ C[j + 1] = c + 1
      BY <2>4
    <3> HIDE DEF O, C, w, T
    <3>3. ClearsSafely(w[j], o)
      BY <3>1 DEF ClearsSafely
    <3>4. Takes(w[j]) = 0 /\ Leaves(w[j]) = 1 /\ o - 0 = o /\ o >= 0 /\ c + 1 > 0
      BY <3>1 DEF Takes, Leaves
    <3> QED
      BY <3>1, <3>2, <3>3, <3>4 DEF Does
  <2>5. CASE j # 3 * n + 1 /\ (j + 2) % 3 = 2
    <3>1. w[j].k = "pass" /\ "k" \in DOMAIN w[j]
      BY <2>1, <2>5 DEF ArgTasks
    <3>0. (j + 1 + 2) % 3 # 2 /\ j + 1 \in 1..(3 * n + 2) /\ j + 1 # 3 * n + 2
      BY <2>5
    <3>2. O[j] = o + 1 /\ C[j] = c + 1 /\ O[j + 1] = o /\ C[j + 1] = c + 1
      BY <2>5, <3>0
    <3> HIDE DEF O, C, w, T
    <3>3. ClearsSafely(w[j], o + 1)
      BY <3>1 DEF ClearsSafely
    <3>4. Takes(w[j]) = 1 /\ Leaves(w[j]) = 0 /\ (o + 1) - 1 = o /\ o + 1 >= 1 /\ c + 1 > 0
      BY <3>1 DEF Takes, Leaves
    <3> QED
      BY <3>1, <3>2, <3>3, <3>4 DEF Does
  <2> QED
    BY <2>2, <2>3, <2>4, <2>5
<1> HIDE DEF O, C, w, T
<1>6. Len(w) + 1 = 3 * n + 2
  BY <1>2
<1> QED
  BY <1>2, <1>3, <1>4, <1>5, <1>6 DEF Chain, w

\* Calls that are opened later are closed before the tasks that are left.
LEMMA ChainBelow ==
    ASSUME NEW q, NEW p, NEW w, NEW o, NEW c \in Nat, NEW oe, NEW ce,
           Chain(w, o, c, oe, ce, q),
           c = 0 \/ p.bare = q.bare, \A i \in 1..c : p.base[i] = q.base[i]
    PROVE  Chain(w, o, c, oe, ce, p)
<1> DEFINE n == Len(w)
<1>1. n \in Nat
  BY SeqFacts DEF Chain
<1>2. PICK O, C \in [1..(n + 1) -> Nat] :
        /\ O[1] = o /\ C[1] = c /\ O[n + 1] = oe /\ C[n + 1] = ce
        /\ \A i \in 1..n : Does(w[i], O[i], C[i], O[i + 1], C[i + 1], q)
  BY DEF Chain
<1> DEFINE S == {j \in 1..(n + 1) : ~ (C[j] <= c)}
<1> HIDE DEF n
<1>3. S = {}
  <2> SUFFICES ASSUME S # {} PROVE FALSE
    OBVIOUS
  <2>1. S \subseteq Nat
    BY <1>1
  <2>2. PICK j \in S : \A y \in S : j <= y
    BY <2>1, LeastNumber
  <2>3. j \in 1..(n + 1) /\ ~ (C[j] <= c) /\ j # 1
    BY <1>2, <2>2
  <2>4. j - 1 \in 1..n /\ j - 1 \in 1..(n + 1) /\ ~ (j <= j - 1) /\ (j - 1) + 1 = j
    BY <1>1, <2>3
  <2>5. C[j - 1] <= c
    BY <2>2, <2>4
  <2>6. Does(w[j - 1], O[j - 1], C[j - 1], O[j], C[j], q)
    BY <1>2, <2>4
  <2>7. C[j] \in Nat /\ C[j - 1] \in Nat
    BY <1>2, <2>3, <2>4
  <2>8. C[j] = C[j - 1] \/ C[j] = C[j - 1] - 1
    BY <2>6 DEF Does
  <2> QED
    BY <2>3, <2>5, <2>7, <2>8
<1>4. ASSUME NEW i \in 1..n PROVE Does(w[i], O[i], C[i], O[i + 1], C[i + 1], p)
  <2>1. i \in 1..(n + 1) /\ Does(w[i], O[i], C[i], O[i + 1], C[i + 1], q)
    BY <1>1, <1>2
  <2>2. C[i] <= c /\ C[i] \in Nat
    BY <1>2, <1>3, <2>1
  <2>3. C[i] > 0 => p.base[C[i]] = q.base[C[i]] /\ p.bare = q.bare
    BY <2>2
  <2> QED
    BY <2>1, <2>2, <2>3 DEF Does
<1> QED
  BY <1>2, <1>4 DEF Chain, n

-----------------------------------------------------------------------------
(* What the open calls have pushed *)

FrameOK(f) == /\ DOMAIN f = {"pad", "rax", "spilled", "want"}
              /\ f.pad \in BOOLEAN /\ f.rax \in BOOLEAN
              /\ IsSeq(f.spilled)

\* n slots, if the holds b is set.
Taken(b, n) == IF b THEN n ELSE 0

\* The slots a call has taken: one for RAX, d of padding, and one for each
\* register of an argument that was in use.
Saved(f, d) == Taken(f.rax, 1) + Taken(f.pad, d) + Len(f.spilled)

\* The calls cs have pushed p slots.
Stacked(cs, d, p) ==
    /\ IsSeq(cs)
    /\ \E P \in [0..Len(cs) -> Nat] :
         /\ P[0] = 0 /\ P[Len(cs)] = p
         /\ \A i \in 1..Len(cs) : FrameOK(cs[i]) /\ P[i] = P[i - 1] + Saved(cs[i], d)

LEMMA SavedIsNat ==
    ASSUME NEW f, FrameOK(f), NEW d \in Nat
    PROVE  Saved(f, d) \in Nat
<1>1. Len(f.spilled) \in Nat
  BY SeqFacts DEF FrameOK
<1>2. Taken(f.rax, 1) \in Nat /\ Taken(f.pad, d) \in Nat
  BY DEF Taken
<1> QED
  BY <1>1, <1>2 DEF Saved

LEMMA StackedNone ==
    ASSUME NEW d PROVE Stacked(<< >>, d, 0)
<1> DEFINE P == [i \in 0..0 |-> 0]
<1>1. IsSeq(<< >>) /\ Len(<< >>) = 0
  BY EmptySeq DEF IsSeq
<1>2. P \in [0..0 -> Nat] /\ P[0] = 0
  OBVIOUS
<1> HIDE DEF P
<1> QED
  BY <1>1, <1>2 DEF Stacked

LEMMA StackedEmpty ==
    ASSUME NEW cs, NEW d, NEW p, Stacked(cs, d, p), Len(cs) = 0
    PROVE  p = 0 /\ cs = << >>
<1>1. p = 0
  BY DEF Stacked
<1> QED
  BY <1>1, SeqFacts DEF Stacked

LEMMA StackedSize ==
    ASSUME NEW cs, NEW d, NEW p, Stacked(cs, d, p)
    PROVE  p \in Nat /\ Len(cs) \in Nat
<1>1. Len(cs) \in Nat
  BY SeqFacts DEF Stacked
<1> QED
  BY <1>1 DEF Stacked

LEMMA StackedAppend ==
    ASSUME NEW cs, NEW d \in Nat, NEW p, Stacked(cs, d, p), NEW f, FrameOK(f)
    PROVE  Stacked(Append(cs, f), d, p + Saved(f, d))
<1> DEFINE n == Len(cs)
           v == Append(cs, f)
           q == p + Saved(f, d)
<1>1. /\ n \in Nat /\ IsSeq(v) /\ Len(v) = n + 1
      /\ \A i \in 1..n : v[i] = cs[i]
      /\ v[n + 1] = f
  BY SeqFacts, SeqAppend DEF Stacked
<1>2. PICK P \in [0..n -> Nat] :
         /\ P[0] = 0 /\ P[n] = p
         /\ \A i \in 1..n : FrameOK(cs[i]) /\ P[i] = P[i - 1] + Saved(cs[i], d)
  BY DEF Stacked
<1>3. p \in Nat /\ q \in Nat
  <2>1. n \in 0..n
    BY <1>1
  <2>2. p \in Nat
    BY <1>2, <2>1
  <2>3. Saved(f, d) \in Nat
    BY SavedIsNat
  <2> QED
    BY <2>2, <2>3
<1> DEFINE Q == [i \in 0..(n + 1) |-> IF i = n + 1 THEN q ELSE P[i]]
<1> HIDE DEF n, v
<1>4. Q \in [0..(n + 1) -> Nat] /\ Q[0] = 0 /\ Q[n + 1] = q /\ \A i \in 0..n : Q[i] = P[i]
  BY <1>1, <1>2, <1>3
<1>5. ASSUME NEW i \in 1..(n + 1) PROVE FrameOK(v[i]) /\ Q[i] = Q[i - 1] + Saved(v[i], d)
  <2> HIDE DEF Q
  <2>1. CASE i = n + 1
    <3>1. i - 1 = n /\ n \in 0..n
      BY <1>1, <2>1
    <3> QED
      BY <1>1, <1>2, <1>4, <2>1, <3>1
  <2>2. CASE i # n + 1
    <3>1. i \in 1..n /\ i \in 0..n /\ i - 1 \in 0..n
      BY <1>1, <2>2
    <3> QED
      BY <1>1, <1>2, <1>4, <3>1
  <2> QED
    BY <2>1, <2>2
<1> HIDE DEF Q, q
<1>6. Stacked(v, d, q)
  BY <1>1, <1>4, <1>5 DEF Stacked
<1> QED
  BY <1>6 DEF v, q

LEMMA StackedFront ==
    ASSUME NEW cs, NEW d \in Nat, NEW p, Stacked(cs, d, p), Len(cs) > 0
    PROVE  /\ FrameOK(cs[Len(cs)])
           /\ Stacked(Front(cs), d, p - Saved(cs[Len(cs)], d))
           /\ Len(Front(cs)) = Len(cs) - 1
<1> DEFINE n == Len(cs)
           v == SubSeq(cs, 1, n - 1)
<1>1. n \in Nat /\ n - 1 \in 0..n
  BY SeqFacts DEF Stacked
<1>2. /\ IsSeq(v) /\ Len(v) = n - 1
      /\ \A i \in 1..n - 1 : v[i] = cs[i]
  BY <1>1, SeqFirst DEF Stacked
<1>3. PICK P \in [0..n -> Nat] :
         /\ P[0] = 0 /\ P[n] = p
         /\ \A i \in 1..n : FrameOK(cs[i]) /\ P[i] = P[i - 1] + Saved(cs[i], d)
  BY DEF Stacked
<1> DEFINE Q == [i \in 0..(n - 1) |-> P[i]]
           q == p - Saved(cs[n], d)
<1>4. Front(cs) = v
  BY DEF Front
<1> HIDE DEF n, v
<1>5. FrameOK(cs[n]) /\ Saved(cs[n], d) \in Nat /\ P[n - 1] = q
  <2>1. n \in 1..n /\ n - 1 \in 0..n
    BY <1>1 DEF n
  <2>2. FrameOK(cs[n]) /\ p = P[n - 1] + Saved(cs[n], d)
    BY <1>3, <2>1
  <2>3. Saved(cs[n], d) \in Nat /\ P[n - 1] \in Nat
    BY <1>3, <2>1, <2>2, SavedIsNat
  <2> QED
    BY <2>2, <2>3
<1>6. Q \in [0..(n - 1) -> Nat] /\ Q[0] = 0 /\ Q[n - 1] = q /\ \A i \in 0..(n - 1) : Q[i] = P[i]
  <2> HIDE DEF q
  <2> QED
    BY <1>1, <1>3, <1>5
<1>7. ASSUME NEW i \in 1..(n - 1) PROVE FrameOK(v[i]) /\ Q[i] = Q[i - 1] + Saved(v[i], d)
  <2>1. i \in 1..n /\ i \in 0..(n - 1) /\ i - 1 \in 0..(n - 1)
    BY <1>1
  <2> HIDE DEF Q
  <2> QED
    BY <1>2, <1>3, <1>6, <2>1
<1> HIDE DEF Q, q
<1>8. Stacked(v, d, q)
  BY <1>2, <1>6, <1>7 DEF Stacked
<1> QED
  BY <1>2, <1>4, <1>5, <1>8 DEF q, n

\* The frame of the last call is replaced by another one.
LEMMA StackedLast ==
    ASSUME NEW cs, NEW d \in Nat, NEW p, Stacked(cs, d, p), Len(cs) > 0, NEW f, FrameOK(f)
    PROVE  /\ Stacked([cs EXCEPT ![Len(cs)] = f], d,
                      p - Saved(cs[Len(cs)], d) + Saved(f, d))
           /\ Len([cs EXCEPT ![Len(cs)] = f]) = Len(cs)
<1> DEFINE n == Len(cs)
           v == [cs EXCEPT ![n] = f]
           q == p - Saved(cs[n], d) + Saved(f, d)
<1>1. n \in Nat /\ n \in 1..n /\ DOMAIN cs = 1..n
  BY SeqFacts DEF Stacked
<1>2. /\ IsSeq(v) /\ Len(v) = n
      /\ v[n] = f /\ \A i \in 1..n - 1 : v[i] = cs[i]
  <2>1. PICK S : cs \in Seq(S)
    BY DEF Stacked, IsSeq
  <2>2. cs \in Seq(S \cup {f}) /\ f \in S \cup {f}
    BY <2>1, SeqMonotonic
  <2>3. /\ v \in Seq(S \cup {f}) /\ Len(v) = n
        /\ \A j \in 1..n : v[j] = IF j = n THEN f ELSE cs[j]
    BY <1>1, <2>2, ExceptSeq
  <2> HIDE DEF v, n
  <2>4. v[n] = f /\ \A i \in 1..n - 1 : v[i] = cs[i]
    BY <1>1, <2>3
  <2> QED
    BY <2>3, <2>4 DEF IsSeq
<1>3. PICK P \in [0..n -> Nat] :
         /\ P[0] = 0 /\ P[n] = p
         /\ \A i \in 1..n : FrameOK(cs[i]) /\ P[i] = P[i - 1] + Saved(cs[i], d)
  BY DEF Stacked
<1> HIDE DEF n, v
<1>4. q = P[n - 1] + Saved(f, d) /\ P[n - 1] \in Nat /\ Saved(f, d) \in Nat
  <2>1. n - 1 \in 0..n
    BY <1>1
  <2>2. FrameOK(cs[n]) /\ p = P[n - 1] + Saved(cs[n], d)
    BY <1>1, <1>3
  <2>3. Saved(cs[n], d) \in Nat /\ P[n - 1] \in Nat /\ Saved(f, d) \in Nat
    BY <1>3, <2>1, <2>2, SavedIsNat
  <2> QED
    BY <2>2, <2>3
<1> DEFINE Q == [i \in 0..n |-> IF i = n THEN q ELSE P[i]]
<1>5. Q \in [0..n -> Nat] /\ Q[0] = 0 /\ Q[n] = q /\ \A i \in 0..(n - 1) : Q[i] = P[i]
  <2>1. q \in Nat /\ n > 0
    BY <1>1, <1>4
  <2> HIDE DEF q
  <2> QED
    BY <1>1, <1>3, <2>1
<1>6. ASSUME NEW i \in 1..n PROVE FrameOK(v[i]) /\ Q[i] = Q[i - 1] + Saved(v[i], d)
  <2> HIDE DEF Q
  <2>1. CASE i = n
    <3>1. n - 1 \in 0..(n - 1)
      BY <1>1
    <3> QED
      BY <1>2, <1>4, <1>5, <2>1, <3>1
  <2>2. CASE i # n
    <3>1. i \in 1..n - 1 /\ i \in 0..(n - 1) /\ i - 1 \in 0..(n - 1)
      BY <1>1, <2>2
    <3> QED
      BY <1>2, <1>3, <1>5, <3>1
  <2> QED
    BY <2>1, <2>2
<1> HIDE DEF Q, q
<1>7. Stacked(v, d, q)
  BY <1>2, <1>5, <1>6 DEF Stacked
<1> QED
  BY <1>2, <1>7 DEF v, q, n

-----------------------------------------------------------------------------
(* Code that leaves the stack pointer alone *)

Fields == {"used", "regs", "mem", "sp", "cur", "tot", "wild", "trap", "misaligned"}

\* From s to t neither the stack pointer nor the size of the frame changes, and
\* no register is released.
Keeps(s, t) ==
    DOMAIN s = Fields =>
        /\ DOMAIN t = Fields /\ t.sp = s.sp /\ t.cur = s.cur /\ t.tot = s.tot
        /\ s.used \subseteq t.used

LEMMA KeepsTrans ==
    ASSUME NEW s, NEW t, NEW u, Keeps(s, t), Keeps(t, u)
    PROVE  Keeps(s, u)
  BY DEF Keeps

LEMMA KeepsSame ==
    ASSUME NEW s PROVE Keeps(s, s)
  BY DEF Keeps

LEMMA KeepsUse ==
    ASSUME NEW s, NEW r PROVE Keeps(s, use_reg(s, r))
  BY DEF Keeps, use_reg, Fields

LEMMA KeepsWrite ==
    ASSUME NEW s, NEW loc, NEW v PROVE Keeps(s, Write(s, loc, v))
  BY DEF Keeps, Write, Fields

LEMMA KeepsWild ==
    ASSUME NEW s PROVE Keeps(s, [s EXCEPT !.wild = TRUE])
  BY DEF Keeps, Fields

LEMMA KeepsMov ==
    ASSUME NEW s, NEW src, NEW dst PROVE Keeps(s, Mov(s, src, dst))
<1> DEFINE t == Write(s, dst, Read(s, src))
<1>1. Keeps(s, t)
  BY KeepsWrite
<1> HIDE DEF t
<1>2. Keeps(t, [t EXCEPT !.wild = TRUE])
  BY KeepsWild
<1>3. Keeps(s, [t EXCEPT !.wild = TRUE])
  BY <1>1, <1>2, KeepsTrans
<1> QED
  BY <1>1, <1>3 DEF Mov, t

LEMMA KeepsMath ==
    ASSUME NEW s, NEW op, NEW src, NEW dst PROVE Keeps(s, Math(s, op, src, dst))
  BY KeepsWrite DEF Math

LEMMA KeepsLea ==
    ASSUME NEW s, NEW loc, NEW r PROVE Keeps(s, Lea(s, loc, r))
  BY DEF Keeps, Lea, Fields

LEMMA KeepsIdiv ==
    ASSUME NEW s, NEW loc PROVE Keeps(s, Idiv(s, loc))
<1> DEFINE q == Quot(s.regs["RAX"], Read(s, loc))
           m == s.regs["RAX"] - Read(s, loc) * q
<1>1. Keeps(s, [s EXCEPT !.trap = TRUE])
  BY DEF Keeps, Fields
<1>2. \A x, y : Keeps(s, [s EXCEPT !.regs["RAX"] = x, !.regs["RDX"] = y])
  BY DEF Keeps, Fields
<1> QED
  BY <1>1, <1>2 DEF Idiv

LEMMA KeepsIntoReg ==
    ASSUME NEW s, NEW loc PROVE Keeps(s, IntoReg(s, loc).s)
<1> DEFINE r == free_reg(s)
           t == use_reg(s, r)
<1>1. Keeps(s, t)
  BY KeepsUse
<1>2. Keeps(t, Mov(t, loc, InReg(r)))
  BY KeepsMov
<1>3. IntoReg(s, loc).s = Mov(t, loc, InReg(r))
  BY DEF IntoReg
<1> HIDE DEF t, r
<1> QED
  BY <1>1, <1>2, <1>3, KeepsTrans

LEMMA KeepsIndex ==
    ASSUME NEW s, NEW n, NEW idx, NEW is_addr PROVE Keeps(s, index_arr(s, n, idx, is_addr).s)
<1> DEFINE tmp == free_reg(s)
           s1 == use_reg(s, tmp)
           arr == free_reg(s1)
           s2 == use_reg(s1, arr)
           m == Mov(s2, idx, InReg(tmp))
           s3 == IF idx.k = "const" THEN s2
                 ELSE Math(m, "mul", Lit(8), InReg(tmp))
           s4 == IF is_addr THEN Lea(s3, Slot(n), arr) ELSE Mov(s3, Slot(n), InReg(arr))
           by == IF idx.k = "const" THEN Lit(8 * idx.n) ELSE InReg(tmp)
           s5 == Math(s4, "add", by, InReg(arr))
<1>0. index_arr(s, n, idx, is_addr).s = s5
  BY DEF index_arr
<1> HIDE DEF by, arr, tmp
<1>1. Keeps(s, s1) /\ Keeps(s1, s2)
  BY KeepsUse
<1> HIDE DEF s1, s2
<1>2. Keeps(s2, m)
  BY KeepsMov DEF m
<1> HIDE DEF m
<1>3. Keeps(m, Math(m, "mul", Lit(8), InReg(tmp)))
  BY KeepsMath
<1>4. Keeps(s2, s3)
  BY <1>2, <1>3, KeepsTrans, KeepsSame
<1> HIDE DEF s3
<1>5. Keeps(s3, s4)
  BY KeepsLea, KeepsMov
<1> HIDE DEF s4
<1>6. Keeps(s4, s5)
  BY KeepsMath
<1> HIDE DEF s5
<1>7. Keeps(s, s2)
  BY <1>1, KeepsTrans
<1>8. Keeps(s, s3)
  BY <1>4, <1>7, KeepsTrans
<1>9. Keeps(s, s4)
  BY <1>5, <1>8, KeepsTrans
<1> QED
  BY <1>0, <1>6, <1>9, KeepsTrans

LEMMA KeepsNot ==
    ASSUME NEW s, NEW x PROVE Keeps(s, NotCode(s, x).s)
<1> DEFINE tmp == free_reg(s)
           s1 == use_reg(s, tmp)
           m == Mov(s1, x.loc, InReg(tmp))
           s2 == IF is_stack_offset(x.loc) THEN m ELSE s1
           val == IF is_stack_offset(x.loc) THEN InReg(tmp) ELSE x.loc
           cond == free_reg(s2)
           u == use_reg(s2, cond)
           s3 == Mov(u, Lit(0), InReg(cond))
           s4 == IF Read(s3, val) # 1 THEN Mov(s3, Lit(1), InReg(cond)) ELSE s3
<1>0. NotCode(s, x).s = s4
  BY DEF NotCode
<1> HIDE DEF tmp, val, cond
<1>1. Keeps(s, s1)
  BY KeepsUse
<1> HIDE DEF s1
<1>2. Keeps(s1, s2)
  BY KeepsMov, KeepsSame
<1> HIDE DEF s2
<1>3. Keeps(s2, u)
  BY KeepsUse
<1> HIDE DEF u
<1>4. Keeps(u, s3)
  BY KeepsMov
<1> HIDE DEF s3
<1>5. Keeps(s3, s4)
  BY KeepsMov, KeepsSame
<1> HIDE DEF s4
<1>6. Keeps(s, s2)
  BY <1>1, <1>2, KeepsTrans
<1>7. Keeps(s, u)
  BY <1>3, <1>6, KeepsTrans
<1>8. Keeps(s, s3)
  BY <1>4, <1>7, KeepsTrans
<1> QED
  BY <1>0, <1>5, <1>8, KeepsTrans

-----------------------------------------------------------------------------
(* Binary operations *)

OpFields == {"s", "l", "r", "swapped"}

\* From the operands c to d: their machines.
OpKeeps(c, d) ==
    DOMAIN c = OpFields => DOMAIN d = OpFields /\ Keeps(c.s, d.s)

LEMMA OpKeepsTrans ==
    ASSUME NEW c, NEW d, NEW e, OpKeeps(c, d), OpKeeps(d, e)
    PROVE  OpKeeps(c, e)
  BY KeepsTrans DEF OpKeeps

LEMMA OpKeepsSame ==
    ASSUME NEW c PROVE OpKeeps(c, c)
  BY KeepsSame DEF OpKeeps

LEMMA OrderKeeps ==
    ASSUME NEW s, NEW op, NEW l, NEW r
    PROVE  /\ DOMAIN order_operands(s, op, l, r) = OpFields
           /\ Keeps(s, order_operands(s, op, l, r).s)
<1> DEFINE right == IF op = "sub" THEN l ELSE r
           t == IntoReg(s, right)
           c == order_operands(s, op, l, r)
<1>1. Keeps(s, s) /\ Keeps(s, t.s)
  BY KeepsSame, KeepsIntoReg
<1>2. DOMAIN c = OpFields /\ (c.s = s \/ c.s = t.s)
  BY DEF order_operands, OpFields
<1> HIDE DEF c, t
<1>3. Keeps(s, c.s)
  BY <1>1, <1>2
<1> QED
  BY <1>2, <1>3 DEF c

LEMMA LoadKeeps ==
    ASSUME NEW c PROVE OpKeeps(c, LoadLeft(c)) /\ OpKeeps(c, LoadRight(c))
<1>1. \A m, x : OpKeeps(c, [c EXCEPT !.s = IntoReg(c.s, m).s, !.l = x])
  <2> TAKE m, x
  <2>1. Keeps(c.s, IntoReg(c.s, m).s)
    BY KeepsIntoReg
  <2> QED
    BY <2>1 DEF OpKeeps, OpFields
<1>2. \A m, x : OpKeeps(c, [c EXCEPT !.s = IntoReg(c.s, m).s, !.r = x])
  <2> TAKE m, x
  <2>1. Keeps(c.s, IntoReg(c.s, m).s)
    BY KeepsIntoReg
  <2> QED
    BY <2>1 DEF OpKeeps, OpFields
<1>3. OpKeeps(c, LoadLeft(c))
  BY <1>1, OpKeepsSame DEF LoadLeft
<1>4. OpKeeps(c, LoadRight(c))
  BY <1>2, OpKeepsSame DEF LoadRight
<1> QED
  BY <1>3, <1>4

LEMMA LoadElementsKeeps ==
    ASSUME NEW c, NEW larr, NEW rarr PROVE OpKeeps(c, LoadElements(c, larr, rarr))
<1> DEFINE c1 == IF ~ larr THEN c ELSE IF c.swapped THEN LoadRight(c) ELSE LoadLeft(c)
           c2 == IF ~ rarr THEN c1 ELSE IF c.swapped THEN LoadLeft(c1) ELSE LoadRight(c1)
<1>1. LoadElements(c, larr, rarr) = c2
  BY DEF LoadElements
<1>2. OpKeeps(c, c1)
  BY LoadKeeps, OpKeepsSame
<1> HIDE DEF c1
<1>3. OpKeeps(c1, c2)
  BY LoadKeeps, OpKeepsSame
<1> HIDE DEF c2
<1> QED
  BY <1>1, <1>2, <1>3, OpKeepsTrans

LEMMA RightInRegKeeps ==
    ASSUME NEW c PROVE OpKeeps(c, RightInReg(c))
<1>1. \A x : OpKeeps(c, [c EXCEPT !.s = IntoReg(c.s, c.r).s, !.r = x])
  <2> TAKE x
  <2>1. Keeps(c.s, IntoReg(c.s, c.r).s)
    BY KeepsIntoReg
  <2> QED
    BY <2>1 DEF OpKeeps, OpFields
<1> QED
  BY <1>1, OpKeepsSame DEF RightInReg

LEMMA OperandsKeep ==
    ASSUME NEW s, NEW op, NEW x, NEW y
    PROVE  DOMAIN Operands(s, op, x, y) = OpFields /\ Keeps(s, Operands(s, op, x, y).s)
<1> DEFINE c == order_operands(s, op, x.loc, y.loc)
           d == LoadElements(c, x.arr, y.arr)
           e == RightInReg(d)
<1>1. DOMAIN c = OpFields /\ Keeps(s, c.s)
  BY OrderKeeps
<1> HIDE DEF c
<1>2. OpKeeps(c, d)
  BY LoadElementsKeeps
<1> HIDE DEF d
<1>3. OpKeeps(d, e)
  BY RightInRegKeeps
<1>4. e = Operands(s, op, x, y)
  BY DEF Operands, e, d, c
<1> HIDE DEF e
<1>5. DOMAIN e = OpFields /\ Keeps(c.s, e.s)
  BY <1>1, <1>2, <1>3, OpKeepsTrans DEF OpKeeps
<1> QED
  BY <1>1, <1>4, <1>5, KeepsTrans

LEMMA BinopKeeps ==
    ASSUME NEW c, NEW op PROVE OpKeeps(c, from_binop(c, op))
<1>1. Keeps(c.s, Math(c.s, op, c.l, c.r))
  BY KeepsMath
<1> QED
  BY <1>1 DEF OpKeeps, OpFields, from_binop

LEMMA CmpKeeps ==
    ASSUME NEW c, NEW op PROVE OpKeeps(c, from_binop_cmp(c, op))
<1> DEFINE cond == free_reg(c.s)
           s1 == use_reg(c.s, cond)
           src == IF c.l.k = "const" THEN c.l ELSE c.r
           dst == IF c.l.k = "const" THEN c.r ELSE c.l
           t == IF is_stack_offset(dst) THEN IntoReg(s1, dst) ELSE [s |-> s1, loc |-> dst]
           ts == IF is_stack_offset(dst) THEN IntoReg(s1, dst).s ELSE s1
           s2 == Mov(t.s, Lit(0), InReg(cond))
           holds == Meaning(op, Read(s2, t.loc), Read(s2, src)) = 1
           s3 == IF holds THEN Mov(s2, Lit(1), InReg(cond)) ELSE s2
<1>0. from_binop_cmp(c, op) = [c EXCEPT !.s = s3, !.r = InReg(cond)]
  BY DEF from_binop_cmp
<1>1. t.s = ts
  OBVIOUS
<1> HIDE DEF holds, src, cond, t
<1>2. Keeps(c.s, s1)
  BY KeepsUse
<1> HIDE DEF s1
<1>3. Keeps(s1, ts)
  BY KeepsIntoReg, KeepsSame
<1> HIDE DEF dst, ts
<1>4. Keeps(ts, s2)
  BY <1>1, KeepsMov
<1> HIDE DEF s2
<1>5. Keeps(s2, s3)
  BY KeepsMov, KeepsSame
<1> HIDE DEF s3
<1>6. Keeps(c.s, ts)
  BY <1>2, <1>3, KeepsTrans
<1>7. Keeps(c.s, s2)
  BY <1>4, <1>6, KeepsTrans
<1>8. Keeps(c.s, s3)
  BY <1>5, <1>7, KeepsTrans
<1> QED
  BY <1>0, <1>8 DEF OpKeeps, OpFields

\* From s to t the stack pointer moves by n slots.
Moves(s, t, n) ==
    DOMAIN s = Fields /\ s.sp \in Int =>
        DOMAIN t = Fields /\ t.sp = s.sp + n /\ t.cur = s.cur /\ t.tot = s.tot

LEMMA MovesTrans ==
    ASSUME NEW s, NEW t, NEW u, NEW n \in Int, NEW m \in Int,
           Moves(s, t, n), Moves(t, u, m)
    PROVE  Moves(s, u, n + m)
  BY DEF Moves

LEMMA KeepsMoves ==
    ASSUME NEW s, NEW t, Keeps(s, t) PROVE Moves(s, t, 0)
  BY DEF Keeps, Moves

LEMMA ReleaseMoves ==
    ASSUME NEW s, NEW kept PROVE Moves(s, release(s, kept), 0)
  BY DEF Moves, release, Fields

LEMMA ClearMoves ==
    ASSUME NEW s, NEW loc, NEW can_clear
    PROVE  Moves(s, clear_regs_except(s, loc, can_clear), 0)
<1>1. Moves(s, s, 0)
  BY KeepsSame, KeepsMoves
<1> QED
  BY <1>1, ReleaseMoves DEF clear_regs_except

LEMMA PushMoves ==
    ASSUME NEW s, NEW v PROVE Moves(s, Push(s, v), 1)
  BY DEF Moves, Push, Fields

LEMMA PopMoves ==
    ASSUME NEW s, NEW r PROVE Moves(s, Pop(s, r), -1)
  BY DEF Moves, Pop, Fields

LEMMA AllocaMoves ==
    ASSUME NEW s, NEW n PROVE Moves(s, Alloca(s, n), n)
  BY DEF Moves, Alloca, Fields

\* A register that is handed out was not used, and is not the one excepted.
LEMMA FreshReg ==
    ASSUME NEW s, NEW except
    PROVE  FirstFree(s, except) = "none" \/ FirstFree(s, except) \notin s.used \cup except
<1> DEFINE free == {i \in 1..Len(RegOrder) : RegOrder[i] \notin s.used \cup except}
<1>1. CASE free = {}
  BY <1>1 DEF FirstFree
<1>2. CASE free # {}
  <2>1. free \subseteq Nat
    BY CodeGenAssumption
  <2>2. \E i \in free : \A j \in free : i <= j
    BY <1>2, <2>1, LeastNumber
  <2> DEFINE k == CHOOSE i \in free : \A j \in free : i <= j
  <2>3. k \in free
    BY <2>2
  <2>4. FirstFree(s, except) = RegOrder[k]
    BY <1>2 DEF FirstFree
  <2> HIDE DEF k
  <2> QED
    BY <2>3, <2>4
<1> QED
  BY <1>1, <1>2

LEMMA OtherReg ==
    ASSUME NEW s, NEW r \in Regs PROVE free_reg_except(s, r) # r
  BY FreshReg, CodeGenAssumption DEF free_reg_except

\* A register is saved, or was not used, or its operand has moved to another.
LEMMA SpillEffect ==
    ASSUME NEW c, DOMAIN c = OpFields, NEW reg \in Regs, NEW other \in Regs
    PROVE  LET x == SpillFor(c, reg, other)
           IN  /\ DOMAIN x.c = OpFields
               /\ \/ /\ x.spilled /\ Moves(c.s, x.c.s, 1)
                     /\ x.c.l = c.l /\ c.l # InReg(reg)
                     /\ x.c.r = c.r /\ c.r # InReg(reg)
                  \/ /\ ~ x.spilled /\ Moves(c.s, x.c.s, 0)
                     /\ x.c.l = c.l \/ x.c.l # InReg(other)
                     /\ x.c.r = c.r \/ x.c.r # InReg(other)
<1> DEFINE x == SpillFor(c, reg, other)
           s1 == Push(c.s, c.s.regs[reg])
           new == free_reg_except(s1, other)
           u == use_reg(s1, new)
           s2 == Pop(u, new)
           moved == c.r = InReg(reg) \/ c.l = InReg(reg)
           cr == IF c.r = InReg(reg) THEN InReg(new) ELSE c.r
           cl == IF c.l = InReg(reg) THEN InReg(new) ELSE c.l
<1>1. Moves(c.s, s1, 1)
  BY PushMoves
<1>2. InReg(new) # InReg(other)
  BY OtherReg DEF InReg
<1>3. Moves(c.s, s2, 0)
  <2>1. Moves(s1, u, 0)
    BY KeepsUse, KeepsMoves
  <2>2. Moves(u, s2, -1)
    BY PopMoves
  <2> HIDE DEF s1, u, s2
  <2>3. Moves(c.s, u, 1)
    BY <1>1, <2>1, MovesTrans
  <2> QED
    BY <2>2, <2>3, MovesTrans
<1>4. Moves(c.s, c.s, 0)
  BY KeepsSame, KeepsMoves
<1>5. x = IF reg \notin c.s.used THEN [c |-> c, spilled |-> FALSE]
          ELSE IF ~ moved THEN [c |-> [c EXCEPT !.s = s1], spilled |-> TRUE]
          ELSE [c |-> [c EXCEPT !.s = s2, !.r = cr, !.l = cl], spilled |-> FALSE]
  BY DEF SpillFor, OpFields
<1> HIDE DEF x, s1, s2, new, u
<1>6. CASE reg \notin c.s.used
  <2>1. x.c = c /\ x.spilled = FALSE
    BY <1>5, <1>6
  <2> QED
    BY <1>4, <2>1 DEF x
<1>7. CASE reg \in c.s.used /\ ~ moved
  <2>1. x.c = [c EXCEPT !.s = s1] /\ x.spilled = TRUE
    BY <1>5, <1>7
  <2>2. DOMAIN x.c = OpFields /\ x.c.s = s1 /\ x.c.l = c.l /\ x.c.r = c.r
    BY <2>1 DEF OpFields
  <2> QED
    BY <1>1, <1>7, <2>1, <2>2 DEF x
<1>8. CASE reg \in c.s.used /\ moved
  <2>1. x.c = [c EXCEPT !.s = s2, !.r = cr, !.l = cl] /\ x.spilled = FALSE
    BY <1>5, <1>8
  <2>2. DOMAIN x.c = OpFields /\ x.c.s = s2 /\ x.c.l = cl /\ x.c.r = cr
    BY <2>1 DEF OpFields
  <2>3. (cl = c.l \/ cl # InReg(other)) /\ (cr = c.r \/ cr # InReg(other))
    BY <1>2
  <2> QED
    BY <1>3, <2>1, <2>2, <2>3 DEF x
<1> QED
  BY <1>6, <1>7, <1>8

\* A division pops what it has pushed.
LEMMA DivideMoves ==
    ASSUME NEW c, DOMAIN c = OpFields
    PROVE  Moves(c.s, Divide(c).s, 0)
<1> DEFINE a == SpillFor(c, "RAX", "RDX")
           d == SpillFor(a.c, "RDX", "RAX")
           m == Mov(d.c.s, d.c.l, InReg("RAX"))
           i == Idiv(m, d.c.r)
           s2 == Mov(i, InReg("RAX"), d.c.r)
           s3 == IF a.spilled /\ d.c.r # InReg("RAX") THEN Pop(s2, "RAX") ELSE s2
           s4 == IF d.spilled /\ d.c.l # InReg("RDX") THEN Pop(s3, "RDX") ELSE s3
<1>0. Divide(c) = [d.c EXCEPT !.s = s4]
  BY DEF Divide
<1>1. "RAX" \in Regs /\ "RDX" \in Regs
  BY CodeGenAssumption
<1>2. /\ DOMAIN a.c = OpFields
      /\ \/ /\ a.spilled /\ Moves(c.s, a.c.s, 1)
            /\ a.c.l = c.l /\ c.l # InReg("RAX")
            /\ a.c.r = c.r /\ c.r # InReg("RAX")
         \/ ~ a.spilled /\ Moves(c.s, a.c.s, 0)
  BY <1>1, SpillEffect
<1> HIDE DEF a
<1>3. /\ DOMAIN d.c = OpFields
      /\ \/ /\ d.spilled /\ Moves(a.c.s, d.c.s, 1)
            /\ d.c.l = a.c.l /\ a.c.l # InReg("RDX")
            /\ d.c.r = a.c.r
         \/ /\ ~ d.spilled /\ Moves(a.c.s, d.c.s, 0)
            /\ d.c.r = a.c.r \/ d.c.r # InReg("RAX")
  BY <1>1, <1>2, SpillEffect
<1> HIDE DEF d
<1>4. Keeps(d.c.s, s2)
  <2>1. Keeps(d.c.s, m)
    BY KeepsMov
  <2>2. Keeps(m, i)
    BY KeepsIdiv
  <2>3. Keeps(i, s2)
    BY KeepsMov
  <2> HIDE DEF m, i, s2
  <2> QED
    BY <2>1, <2>2, <2>3, KeepsTrans
<1> HIDE DEF m, i, s2
<1>5. Moves(s2, s3, IF a.spilled THEN -1 ELSE 0)
  <2>1. a.spilled => d.c.r # InReg("RAX")
    BY <1>2, <1>3
  <2>2. Moves(s2, Pop(s2, "RAX"), -1) /\ Moves(s2, s2, 0)
    BY PopMoves, KeepsSame, KeepsMoves
  <2> QED
    BY <2>1, <2>2
<1> HIDE DEF s3
<1>6. Moves(s3, s4, IF d.spilled THEN -1 ELSE 0)
  <2>1. d.spilled => d.c.l # InReg("RDX")
    BY <1>3
  <2>2. Moves(s3, Pop(s3, "RDX"), -1) /\ Moves(s3, s3, 0)
    BY PopMoves, KeepsSame, KeepsMoves
  <2> QED
    BY <2>1, <2>2
<1> HIDE DEF s4
<1> DEFINE x == IF a.spilled THEN 1 ELSE 0
           y == IF d.spilled THEN 1 ELSE 0
<1>7. Moves(c.s, a.c.s, x) /\ Moves(a.c.s, d.c.s, y) /\ Moves(d.c.s, s2, 0)
  BY <1>2, <1>3, <1>4, KeepsMoves
<1>8. Moves(s2, s3, -x) /\ Moves(s3, s4, -y) /\ x \in Int /\ y \in Int
  BY <1>5, <1>6
<1> HIDE DEF x, y
<1>9. Moves(c.s, s4, 0)
  <2>1. Moves(c.s, d.c.s, x + y)
    BY <1>7, <1>8, MovesTrans
  <2>2. Moves(c.s, s2, x + y + 0)
    BY <1>7, <1>8, <2>1, MovesTrans
  <2>3. Moves(c.s, s3, x + y + 0 + (-x))
    BY <1>8, <2>2, MovesTrans
  <2>4. Moves(c.s, s4, x + y + 0 + (-x) + (-y))
    BY <1>8, <2>3, MovesTrans
  <2>5. x + y + 0 + (-x) + (-y) = 0
    BY <1>8
  <2> QED
    BY <2>4, <2>5
<1>10. Divide(c).s = s4
  BY <1>0, <1>3 DEF OpFields
<1> QED
  BY <1>9, <1>10

\* Whatever the operator, its code leaves the stack as it was.
LEMMA OperatorMoves ==
    ASSUME NEW s, NEW op, NEW x, NEW y, NEW clear
    PROVE  LET c == OperatorCode(Operands(s, op, x, y), op)
           IN  Moves(s, clear_regs_except(c.s, c.r, clear), 0)
<1> DEFINE a == Operands(s, op, x, y)
           c == OperatorCode(a, op)
           t == clear_regs_except(c.s, c.r, clear)
<1>1. DOMAIN a = OpFields /\ Keeps(s, a.s)
  BY OperandsKeep
<1> HIDE DEF a
<1>2. Moves(a.s, c.s, 0)
  <2>1. Moves(a.s, from_binop_cmp(a, op).s, 0)
    BY <1>1, CmpKeeps, KeepsMoves DEF OpKeeps
  <2>2. Moves(a.s, from_binop(a, op).s, 0)
    BY <1>1, BinopKeeps, KeepsMoves DEF OpKeeps
  <2>3. Moves(a.s, Divide(a).s, 0)
    BY <1>1, DivideMoves
  <2> QED
    BY <2>1, <2>2, <2>3 DEF OperatorCode
<1> HIDE DEF c
<1>3. Moves(c.s, t, 0)
  BY ClearMoves
<1> HIDE DEF t
<1>4. Moves(s, a.s, 0)
  BY <1>1, KeepsMoves
<1>5. Moves(s, c.s, 0 + 0)
  BY <1>2, <1>4, MovesTrans
<1>6. Moves(s, t, 0 + 0 + 0)
  BY <1>3, <1>5, MovesTrans
<1>7. Moves(s, t, 0)
  BY <1>6
<1> QED
  BY <1>7 DEF t, c, a

-----------------------------------------------------------------------------
(* Calls and statements *)

\* The slots that align a stack of t slots.
Pad(t) == 2 - (t % 2)

Machine(s) == DOMAIN s = Fields /\ s.sp \in Int /\ s.cur \in Int /\ s.tot \in Nat

LEMMA BeginEffect ==
    ASSUME NEW s, Machine(s)
    PROVE  LET t == BeginCall(s)
           IN  /\ t.pad \in BOOLEAN /\ Machine(t.s)
               /\ t.s.cur = s.cur /\ Pad(t.s.tot) = Pad(s.tot)
               /\ t.s.sp = s.sp + Taken(t.pad, Pad(s.tot))
<1> DEFINE t == BeginCall(s)
           pad == s.tot % 2 # 0 \/ s.tot = 0
           n == 2 - (s.tot % 2)
           a == Alloca(s, n)
           b == [a EXCEPT !.tot = IF @ = 0 THEN 2 ELSE @]
<1>1. t.s = (IF ~ pad THEN s ELSE b) /\ t.pad = pad
  BY DEF BeginCall
<1>2. s.tot \in Nat /\ s.sp \in Int /\ s.cur \in Int /\ n \in Int /\ Pad(s.tot) = n
  BY DEF Machine, Pad
<1>5. CASE pad
  <2>0. pad = TRUE
    BY Zenon, <1>5
  <2> HIDE DEF pad
  <2>1. t.pad = TRUE /\ t.s = b
    <3> HIDE DEF t, b
    <3>1. t.s = b
      BY <1>1, <2>0
    <3>2. t.pad = TRUE
      BY Zenon, <1>1, <2>0
    <3> QED
      BY <3>1, <3>2
  <2>2. DOMAIN a = Fields /\ a.sp = s.sp + n /\ a.cur = s.cur /\ a.tot = s.tot
    BY AllocaMoves DEF Moves, Machine
  <2> HIDE DEF a
  <2>3. /\ DOMAIN b = Fields /\ b.sp = s.sp + n /\ b.cur = s.cur
        /\ b.tot = IF s.tot = 0 THEN 2 ELSE s.tot
    BY <2>2 DEF Fields
  <2> HIDE DEF b, n
  <2>4. b.tot \in Nat /\ Pad(b.tot) = Pad(s.tot)
    <3>1. CASE s.tot = 0
      <4>1. 2 % 2 = 0 /\ 0 % 2 = 0
        OBVIOUS
      <4> QED
        BY <2>3, <3>1, <4>1 DEF Pad
    <3>2. CASE s.tot # 0
      <4>1. b.tot = s.tot
        BY <2>3, <3>2
      <4> QED
        BY <1>2, <4>1
    <3> QED
      BY <3>1, <3>2
  <2>5. Machine(b)
    BY <1>2, <2>3, <2>4 DEF Machine
  <2>6. Taken(TRUE, Pad(s.tot)) = n
    BY <1>2 DEF Taken
  <2> HIDE DEF t
  <2> QED
    BY <2>1, <2>3, <2>4, <2>5, <2>6 DEF t
<1>6. CASE ~ pad
  <2>0. pad = FALSE
    BY Zenon, <1>6
  <2> HIDE DEF pad
  <2>1. t.pad = FALSE /\ t.s = s
    BY Zenon, <1>1, <2>0
  <2>2. Taken(FALSE, Pad(s.tot)) = 0
    BY DEF Taken
  <2> HIDE DEF t
  <2>3. s.sp = s.sp + 0
    BY <1>2
  <2>4. t.pad \in BOOLEAN
    BY <2>1
  <2>5. t.s.sp = s.sp + Taken(t.pad, Pad(s.tot))
    BY <2>1, <2>2, <2>3
  <2> QED
    BY <2>1, <2>4, <2>5 DEF t
<1> QED
  BY <1>5, <1>6

LEMMA EnterKeeps ==
    ASSUME NEW s, NEW n PROVE Keeps(s, Enter(s, n))
<1>1. \A x, y, z : Keeps(s, [s EXCEPT !.regs = x, !.mem = y, !.misaligned = z])
  BY DEF Keeps, Fields
<1> QED
  BY <1>1 DEF Enter

LEMMA PopAllMoves ==
    ASSUME NEW s, NEW rs PROVE Moves(s, PopAll(s, rs), -Len(rs))
<1>1. \A n, x : DOMAIN s = Fields =>
        LET t == [s EXCEPT !.sp = n, !.regs = x]
        IN  DOMAIN t = Fields /\ t.sp = n /\ t.cur = s.cur /\ t.tot = s.tot
  BY DEF Fields
<1> QED
  BY <1>1 DEF Moves, PopAll

\* A call gives back the slots it has taken, but for the one of RAX.
LEMMA EndEffect ==
    ASSUME NEW s, Machine(s), NEW f, FrameOK(f)
    PROVE  Moves(s, EndCall(s, f), -(Taken(f.pad, Pad(s.tot)) + Len(f.spilled)))
<1> DEFINE s1 == Enter(s, Len(f.want))
           s2 == IF f.pad THEN Alloca(s1, -(2 - (s1.tot % 2))) ELSE s1
           s3 == PopAll(s2, f.spilled)
           s4 == use_reg(s3, "RAX")
           x == -Taken(f.pad, Pad(s.tot))
           y == -Len(f.spilled)
<1>0. EndCall(s, f) = s4
  BY DEF EndCall
<1>1. Moves(s, s1, 0) /\ s1.tot = s.tot
  BY EnterKeeps, KeepsMoves DEF Keeps, Machine
<1> HIDE DEF s1
<1>2. Moves(s1, s2, x)
  <2>1. CASE f.pad
    <3>1. s2 = Alloca(s1, -Pad(s.tot)) /\ x = -Pad(s.tot)
      BY <1>1, <2>1 DEF Pad, Taken
    <3> HIDE DEF s2, x
    <3> QED
      BY <3>1, AllocaMoves
  <2>2. CASE ~ f.pad
    <3>1. s2 = s1
      BY <2>2
    <3>2. Taken(f.pad, Pad(s.tot)) = 0
      BY <2>2 DEF Taken
    <3>3. x = 0
      <4> DEFINE k == Taken(f.pad, Pad(s.tot))
      <4>1. k = 0
        BY <3>2
      <4>2. k \in Int => x = 0 - k
        OBVIOUS
      <4> HIDE DEF k, x
      <4> QED
        BY <4>1, <4>2
    <3> HIDE DEF s2, x
    <3>4. Moves(s1, s1, 0)
      BY KeepsSame, KeepsMoves
    <3> QED
      BY <3>1, <3>3, <3>4
  <2> QED
    BY <2>1, <2>2 DEF FrameOK
<1>3. x \in Int /\ y \in Int /\ -(Taken(f.pad, Pad(s.tot)) + Len(f.spilled)) = x + y
  <2>1. Pad(s.tot) \in Int /\ Len(f.spilled) \in Int
    BY SeqFacts DEF Machine, FrameOK, Pad
  <2>2. Taken(f.pad, Pad(s.tot)) \in Int
    BY <2>1 DEF Taken
  <2> QED
    BY <2>1, <2>2
<1> HIDE DEF s2
<1>4. Moves(s2, s3, y)
  BY PopAllMoves
<1> HIDE DEF s3
<1>5. Moves(s3, s4, 0)
  BY KeepsUse, KeepsMoves
<1> HIDE DEF s4, x, y
<1>6. Moves(s, s2, 0 + x)
  BY <1>1, <1>2, <1>3, MovesTrans
<1>7. Moves(s, s3, 0 + x + y)
  BY <1>3, <1>4, <1>6, MovesTrans
<1>8. Moves(s, s4, 0 + x + y + 0)
  BY <1>3, <1>5, <1>7, MovesTrans
<1>9. 0 + x + y + 0 = x + y
  BY <1>3
<1> QED
  BY <1>0, <1>3, <1>8, <1>9

LEMMA StoreMoves ==
    ASSUME NEW s, NEW l, NEW larr, NEW r, NEW rarr
    PROVE  Moves(s, Store(s, l, larr, r, rarr), 0)
<1> DEFINE kept == clear_regs_except(s, l, TRUE)
<1>1. Moves(s, kept, 0) /\ Moves(s, s, 0)
  BY ClearMoves, KeepsSame, KeepsMoves
<1>2. ASSUME NEW x, NEW y, NEW z, Moves(x, y, 0), Moves(y, z, 0) PROVE Moves(x, z, 0)
  <2>1. Moves(x, z, 0 + 0)
    BY <1>2, MovesTrans
  <2> QED
    BY <2>1
<1>3. Moves(s, StoreElement(s, l, larr, r), 0)
  <2> DEFINE k == IF larr THEN kept ELSE s
             tmp == IntoReg(k, At(r.r))
             u == Mov(tmp.s, tmp.loc, IF larr THEN At(l.r) ELSE l)
  <2>0. StoreElement(s, l, larr, r) = u
    BY DEF StoreElement
  <2> HIDE DEF kept
  <2>1. Moves(s, k, 0)
    BY <1>1
  <2> HIDE DEF k
  <2>2. Moves(k, tmp.s, 0)
    BY KeepsIntoReg, KeepsMoves
  <2> HIDE DEF tmp
  <2>3. Moves(tmp.s, u, 0)
    BY KeepsMov, KeepsMoves
  <2> HIDE DEF u
  <2>4. Moves(k, u, 0)
    BY <1>2, <2>2, <2>3
  <2> QED
    BY <1>2, <2>0, <2>1, <2>4
<1>4. Moves(s, StoreValue(s, l, larr, r), 0)
  <2> DEFINE before == IntoReg(s, r)
             after == IntoReg(kept, r)
             b == release(before.s, {})
             u1 == Mov(after.s, after.loc, At(l.r))
             u2 == Mov(kept, r, At(l.r))
             u3 == Mov(b, before.loc, l)
             u4 == Mov(kept, r, l)
  <2>0. StoreValue(s, l, larr, r) \in {u1, u2, u3, u4}
    BY DEF StoreValue
  <2> HIDE DEF kept
  <2>1. Moves(s, before.s, 0) /\ Moves(kept, after.s, 0)
    BY KeepsIntoReg, KeepsMoves
  <2> HIDE DEF before, after
  <2>2. Moves(before.s, b, 0)
    BY ReleaseMoves
  <2> HIDE DEF b
  <2>3. Moves(after.s, u1, 0) /\ Moves(kept, u2, 0) /\ Moves(b, u3, 0) /\ Moves(kept, u4, 0)
    BY KeepsMov, KeepsMoves
  <2> HIDE DEF u1, u2, u3, u4
  <2>4. Moves(s, after.s, 0) /\ Moves(s, b, 0)
    BY <1>1, <1>2, <2>1, <2>2
  <2>5. Moves(s, u1, 0) /\ Moves(s, u2, 0) /\ Moves(s, u3, 0) /\ Moves(s, u4, 0)
    BY <1>1, <1>2, <2>3, <2>4
  <2> QED
    BY <2>0, <2>5
<1> QED
  BY <1>1, <1>3, <1>4 DEF Store

LEMMA AllocEffect ==
    ASSUME NEW s, Machine(s), NEW n \in Nat, NEW zero
    PROVE  LET t == alloc_stack(s, n, zero)
           IN  Machine(t) /\ t.sp - t.cur = s.sp - s.cur
<1>1. \A m : LET t == [s EXCEPT !.sp = @ + n, !.cur = @ + n, !.tot = @ + n, !.mem = m]
             IN  /\ DOMAIN t = Fields
                 /\ t.sp = s.sp + n /\ t.cur = s.cur + n /\ t.tot = s.tot + n
  BY DEF Fields, Machine
<1> DEFINE t == alloc_stack(s, n, zero)
<1>2. DOMAIN t = Fields /\ t.sp = s.sp + n /\ t.cur = s.cur + n /\ t.tot = s.tot + n
  BY <1>1 DEF alloc_stack
<1> HIDE DEF t
<1>3. Machine(t) /\ t.sp - t.cur = s.sp - s.cur
  BY <1>2 DEF Machine
<1> QED
  BY <1>3 DEF t

-----------------------------------------------------------------------------
(* The register pool *)

\* No register is released from s to t.
Grows(s, t) == DOMAIN s = Fields => DOMAIN t = Fields /\ s.used \subseteq t.used

LEMMA GrowsTrans ==
    ASSUME NEW s, NEW t, NEW u, Grows(s, t), Grows(t, u)
    PROVE  Grows(s, u)
  BY DEF Grows

LEMMA KeepsGrows ==
    ASSUME NEW s, NEW t, Keeps(s, t) PROVE Grows(s, t)
  BY DEF Keeps, Grows

LEMMA PushGrows ==
    ASSUME NEW s, NEW v PROVE Grows(s, Push(s, v))
  BY DEF Grows, Push, Fields

LEMMA PopGrows ==
    ASSUME NEW s, NEW r PROVE Grows(s, Pop(s, r))
  BY DEF Grows, Pop, Fields

LEMMA AllocaGrows ==
    ASSUME NEW s, NEW n PROVE Grows(s, Alloca(s, n))
  BY DEF Grows, Alloca, Fields

LEMMA PopAllGrows ==
    ASSUME NEW s, NEW rs PROVE Grows(s, PopAll(s, rs))
<1>1. \A n, x : Grows(s, [s EXCEPT !.sp = n, !.regs = x])
  BY DEF Grows, Fields
<1> QED
  BY <1>1 DEF PopAll

LEMMA BeginGrows ==
    ASSUME NEW s PROVE Grows(s, BeginCall(s).s)
<1> DEFINE a == Alloca(s, 2 - (s.tot % 2))
           b == [a EXCEPT !.tot = IF @ = 0 THEN 2 ELSE @]
<1>1. BeginCall(s).s = s \/ BeginCall(s).s = b
  BY DEF BeginCall
<1>2. Grows(s, a)
  BY AllocaGrows
<1> HIDE DEF a
<1>3. Grows(a, b)
  BY DEF Grows, Fields
<1> HIDE DEF b
<1>4. Grows(s, s) /\ Grows(s, b)
  BY <1>2, <1>3, GrowsTrans DEF Grows
<1> QED
  BY <1>1, <1>4

\* A call takes RAX.
LEMMA EndGrows ==
    ASSUME NEW s, DOMAIN s = Fields, NEW f
    PROVE  Grows(s, EndCall(s, f)) /\ "RAX" \in EndCall(s, f).used
<1> DEFINE s1 == Enter(s, Len(f.want))
           s2 == IF f.pad THEN Alloca(s1, -(2 - (s1.tot % 2))) ELSE s1
           s3 == PopAll(s2, f.spilled)
           s4 == use_reg(s3, "RAX")
<1>0. EndCall(s, f) = s4
  BY DEF EndCall
<1>1. Grows(s, s1)
  BY EnterKeeps, KeepsGrows
<1> HIDE DEF s1
<1>2. Grows(s1, s2)
  <2>1. Grows(s1, s1)
    BY DEF Grows
  <2> QED
    BY <2>1, AllocaGrows
<1> HIDE DEF s2
<1>3. Grows(s2, s3)
  BY PopAllGrows
<1> HIDE DEF s3
<1>4. Grows(s3, s4)
  BY KeepsUse, KeepsGrows
<1>5. Grows(s, s3)
  BY <1>1, <1>2, <1>3, GrowsTrans
<1>6. "RAX" \in s4.used
  BY <1>5 DEF use_reg, Grows, Fields
<1> HIDE DEF s4
<1> QED
  BY <1>0, <1>4, <1>5, <1>6, GrowsTrans

\* The register a location is in, or its address.
RegOf(loc) == IF loc.k \in {"reg", "at"} THEN {loc.r} ELSE {}

LEMMA RegOfReg ==
    ASSUME NEW r
    PROVE  /\ RegOf(InReg(r)) = {r} /\ RegOf(At(r)) = {r}
           /\ ~ is_stack_offset(InReg(r)) /\ InReg(r).r = r
  BY DEF RegOf, InReg, At, is_stack_offset

LEMMA RegOfOther ==
    ASSUME NEW n
    PROVE  RegOf(Slot(n)) = {} /\ RegOf(Lit(n)) = {}
  BY DEF RegOf, Slot, Lit

\* The register of loc has been handed out between s and t.
Got(s, t, loc) ==
    DOMAIN s = Fields => RegOf(loc) \subseteq t.used /\ RegOf(loc) \cap s.used \subseteq {"none"}

LEMMA TakenReg ==
    ASSUME NEW s, NEW except, NEW t, Grows(use_reg(s, FirstFree(s, except)), t)
    PROVE  Got(s, t, InReg(FirstFree(s, except)))
<1> DEFINE r == FirstFree(s, except)
           u == use_reg(s, r)
<1> SUFFICES ASSUME DOMAIN s = Fields
             PROVE  RegOf(InReg(r)) \subseteq t.used /\ RegOf(InReg(r)) \cap s.used \subseteq {"none"}
  BY DEF Got
<1>1. r = "none" \/ r \notin s.used
  BY FreshReg
<1>2. RegOf(InReg(r)) = {r}
  BY RegOfReg
<1> HIDE DEF r
<1>3. DOMAIN u = Fields /\ r \in u.used
  BY DEF use_reg, Fields
<1>4. u.used \subseteq t.used
  BY <1>3 DEF Grows, r
<1> QED
  BY <1>1, <1>2, <1>3, <1>4

LEMMA IntoRegGets ==
    ASSUME NEW s, NEW loc
    PROVE  /\ Got(s, IntoReg(s, loc).s, IntoReg(s, loc).loc)
           /\ IntoReg(s, loc).loc = InReg(free_reg(s))
<1> DEFINE r == free_reg(s)
           u == use_reg(s, r)
           t == Mov(u, loc, InReg(r))
<1>1. IntoReg(s, loc).s = t /\ IntoReg(s, loc).loc = InReg(r)
  BY DEF IntoReg
<1>2. Grows(u, t)
  BY KeepsMov, KeepsGrows
<1>3. Got(s, t, InReg(r))
  BY <1>2, TakenReg DEF free_reg
<1> QED
  BY <1>1, <1>3

\* A register handed out later was not handed out before.
LEMMA GotLater ==
    ASSUME NEW s, NEW t, NEW u, NEW loc, Grows(s, t), Got(t, u, loc)
    PROVE  Got(s, u, loc)
  BY DEF Got, Grows

\* The address of an element is in a register of its own.
LEMMA IndexGets ==
    ASSUME NEW s, NEW n, NEW idx, NEW is_addr
    PROVE  Got(s, index_arr(s, n, idx, is_addr).s, index_arr(s, n, idx, is_addr).loc)
<1> DEFINE tmp == free_reg(s)
           s1 == use_reg(s, tmp)
           arr == free_reg(s1)
           s2 == use_reg(s1, arr)
           m == Mov(s2, idx, InReg(tmp))
           s3 == IF idx.k = "const" THEN s2
                 ELSE Math(m, "mul", Lit(8), InReg(tmp))
           s4 == IF is_addr THEN Lea(s3, Slot(n), arr) ELSE Mov(s3, Slot(n), InReg(arr))
           by == IF idx.k = "const" THEN Lit(8 * idx.n) ELSE InReg(tmp)
           s5 == Math(s4, "add", by, InReg(arr))
<1>0. index_arr(s, n, idx, is_addr).s = s5 /\ index_arr(s, n, idx, is_addr).loc = InReg(arr)
  BY DEF index_arr
<1> HIDE DEF by, tmp
<1>1. Grows(s, s1)
  BY KeepsUse, KeepsGrows
<1> HIDE DEF s1
<1>2. Grows(s2, s5)
  <2> HIDE DEF s2, arr
  <2>1. Keeps(s2, m)
    BY KeepsMov DEF m
  <2> HIDE DEF m
  <2>2. Keeps(m, Math(m, "mul", Lit(8), InReg(tmp)))
    BY KeepsMath
  <2>3. Keeps(s2, s3)
    BY <2>1, <2>2, KeepsTrans, KeepsSame
  <2> HIDE DEF s3
  <2>4. Keeps(s3, s4)
    BY KeepsLea, KeepsMov
  <2> HIDE DEF s4
  <2>5. Keeps(s4, s5)
    BY KeepsMath
  <2> HIDE DEF s5
  <2>6. Keeps(s2, s4)
    BY <2>3, <2>4, KeepsTrans
  <2> QED
    BY <2>5, <2>6, KeepsTrans, KeepsGrows
<1> HIDE DEF s5
<1>3. Got(s1, s5, InReg(arr))
  BY <1>2, TakenReg DEF free_reg
<1> HIDE DEF arr
<1> QED
  BY <1>0, <1>1, <1>3, GotLater

LEMMA NotGets ==
    ASSUME NEW s, NEW x PROVE Got(s, NotCode(s, x).s, NotCode(s, x).loc)
<1> DEFINE tmp == free_reg(s)
           s1 == use_reg(s, tmp)
           m == Mov(s1, x.loc, InReg(tmp))
           s2 == IF is_stack_offset(x.loc) THEN m ELSE s1
           val == IF is_stack_offset(x.loc) THEN InReg(tmp) ELSE x.loc
           cond == free_reg(s2)
           u == use_reg(s2, cond)
           s3 == Mov(u, Lit(0), InReg(cond))
           s4 == IF Read(s3, val) # 1 THEN Mov(s3, Lit(1), InReg(cond)) ELSE s3
<1>0. NotCode(s, x).s = s4 /\ NotCode(s, x).loc = InReg(cond)
  BY DEF NotCode
<1> HIDE DEF tmp, val
<1>1. Keeps(s, s1)
  BY KeepsUse
<1> HIDE DEF s1
<1>2. Keeps(s1, s2)
  BY KeepsMov, KeepsSame
<1> HIDE DEF s2
<1>3. Grows(u, s4)
  <2> HIDE DEF u, cond
  <2>1. Keeps(u, s3)
    BY KeepsMov
  <2> HIDE DEF s3
  <2>2. Keeps(s3, s4)
    BY KeepsMov, KeepsSame
  <2> HIDE DEF s4
  <2> QED
    BY <2>1, <2>2, KeepsTrans, KeepsGrows
<1> HIDE DEF s4
<1>4. Got(s2, s4, InReg(cond))
  BY <1>3, TakenReg DEF free_reg
<1>5. Grows(s, s2)
  BY <1>1, <1>2, KeepsTrans, KeepsGrows
<1> HIDE DEF cond
<1> QED
  BY <1>0, <1>4, <1>5, GotLater

\* loc needs registers of V only; none of them was in U, but for those of P.
Mine(U, P, V, loc) == RegOf(loc) \subseteq V /\ RegOf(loc) \cap U \subseteq P \cup {"none"}

LEMMA MineLater ==
    ASSUME NEW U, NEW P, NEW V, NEW W, NEW loc, Mine(U, P, V, loc), V \subseteq W
    PROVE  Mine(U, P, W, loc)
  BY DEF Mine

LEMMA GotMine ==
    ASSUME NEW U, NEW P, NEW s, NEW t, NEW loc, DOMAIN s = Fields, U \subseteq s.used,
           Got(s, t, loc)
    PROVE  Mine(U, P, t.used, loc)
  BY DEF Got, Mine

\* The operands c, where the registers P were those of the operands so far and
\* U those in use.
OpFrom(U, P, c) ==
    /\ DOMAIN c = OpFields /\ DOMAIN c.s = Fields /\ U \subseteq c.s.used
    /\ Mine(U, P, c.s.used, c.l) /\ Mine(U, P, c.s.used, c.r)

LEMMA OrderFrom ==
    ASSUME NEW s, DOMAIN s = Fields, NEW P, P \subseteq s.used, NEW op,
           NEW l, RegOf(l) \subseteq P, NEW r, RegOf(r) \subseteq P
    PROVE  OpFrom(s.used, P, order_operands(s, op, l, r))
<1> DEFINE right == IF op = "sub" THEN l ELSE r
           t == IntoReg(s, right)
           c == order_operands(s, op, l, r)
<1>1. DOMAIN c = OpFields
  BY DEF order_operands, OpFields
<1>2. \/ c.s = s /\ c.l \in {l, r} /\ c.r \in {l, r}
      \/ c.s = t.s /\ c.l \in {l, r} /\ c.r = t.loc
  BY DEF order_operands
<1>3. DOMAIN t.s = Fields /\ s.used \subseteq t.s.used
  BY KeepsIntoReg DEF Keeps
<1>4. Mine(s.used, P, t.s.used, t.loc)
  BY IntoRegGets, GotMine
<1>5. ASSUME NEW loc \in {l, r} PROVE Mine(s.used, P, s.used, loc)
  BY DEF Mine
<1> HIDE DEF c, t
<1>6. ASSUME NEW loc \in {l, r} PROVE Mine(s.used, P, t.s.used, loc)
  BY <1>3, <1>5, MineLater
<1> QED
  BY <1>1, <1>2, <1>3, <1>4, <1>5, <1>6 DEF OpFrom, c

\* One of the operands is loaded into a register.
LEMMA IntoFrom ==
    ASSUME NEW U, NEW P, NEW c, OpFrom(U, P, c), NEW m
    PROVE  LET t == IntoReg(c.s, m)
           IN  /\ OpFrom(U, P, [c EXCEPT !.s = t.s, !.l = t.loc])
               /\ OpFrom(U, P, [c EXCEPT !.s = t.s, !.r = t.loc])
<1> DEFINE t == IntoReg(c.s, m)
           d == [c EXCEPT !.s = t.s, !.l = t.loc]
           e == [c EXCEPT !.s = t.s, !.r = t.loc]
<1>1. DOMAIN t.s = Fields /\ c.s.used \subseteq t.s.used
  BY KeepsIntoReg DEF Keeps, OpFrom
<1>2. Mine(U, P, t.s.used, t.loc)
  BY IntoRegGets, GotMine DEF OpFrom
<1> HIDE DEF t
<1>3. Mine(U, P, t.s.used, c.l) /\ Mine(U, P, t.s.used, c.r) /\ U \subseteq t.s.used
  BY <1>1, MineLater DEF OpFrom
<1>4. DOMAIN d = OpFields /\ d.s = t.s /\ d.l = t.loc /\ d.r = c.r
  BY DEF OpFrom, OpFields
<1>5. DOMAIN e = OpFields /\ e.s = t.s /\ e.l = c.l /\ e.r = t.loc
  BY DEF OpFrom, OpFields
<1> HIDE DEF d, e
<1>6. OpFrom(U, P, d) /\ OpFrom(U, P, e)
  BY <1>1, <1>2, <1>3, <1>4, <1>5 DEF OpFrom
<1> QED
  BY <1>6 DEF d, e, t

LEMMA LoadElementsFrom ==
    ASSUME NEW U, NEW P, NEW c, OpFrom(U, P, c), NEW larr, NEW rarr
    PROVE  OpFrom(U, P, LoadElements(c, larr, rarr))
<1> DEFINE c1 == IF ~ larr THEN c ELSE IF c.swapped THEN LoadRight(c) ELSE LoadLeft(c)
           c2 == IF ~ rarr THEN c1 ELSE IF c.swapped THEN LoadLeft(c1) ELSE LoadRight(c1)
<1>1. LoadElements(c, larr, rarr) = c2
  BY DEF LoadElements
<1>2. ASSUME NEW d, OpFrom(U, P, d)
      PROVE  OpFrom(U, P, LoadLeft(d)) /\ OpFrom(U, P, LoadRight(d))
  BY <1>2, IntoFrom DEF LoadLeft, LoadRight
<1>3. OpFrom(U, P, c1)
  BY <1>2
<1> HIDE DEF c1
<1>4. OpFrom(U, P, c2)
  BY <1>2, <1>3
<1> QED
  BY <1>1, <1>4

LEMMA OperandsFrom ==
    ASSUME NEW s, DOMAIN s = Fields, NEW P, P \subseteq s.used, NEW op,
           NEW x, RegOf(x.loc) \subseteq P, NEW y, RegOf(y.loc) \subseteq P
    PROVE  /\ OpFrom(s.used, P, Operands(s, op, x, y))
           /\ ~ is_stack_offset(Operands(s, op, x, y).r)
<1> DEFINE c == order_operands(s, op, x.loc, y.loc)
           d == LoadElements(c, x.arr, y.arr)
           t == IntoReg(d.s, d.r)
           e == [d EXCEPT !.s = t.s, !.r = t.loc]
<1>1. OpFrom(s.used, P, c)
  BY OrderFrom
<1> HIDE DEF c
<1>2. OpFrom(s.used, P, d)
  BY <1>1, LoadElementsFrom
<1>0. Operands(s, op, x, y) = IF is_stack_offset(d.r) THEN e ELSE d
  BY DEF Operands, RightInReg, c
<1> HIDE DEF d
<1>3. OpFrom(s.used, P, e)
  BY <1>2, IntoFrom
<1>4. e.r = t.loc
  BY <1>2 DEF OpFrom, OpFields
<1>5. ~ is_stack_offset(t.loc)
  BY IntoRegGets, RegOfReg
<1> HIDE DEF e, t
<1> QED
  BY <1>0, <1>2, <1>3, <1>4, <1>5

LEMMA CmpFrom ==
    ASSUME NEW U, NEW P, NEW c, OpFrom(U, P, c), NEW op
    PROVE  LET d == from_binop_cmp(c, op)
           IN  OpFrom(U, P, d) /\ ~ is_stack_offset(d.r)
<1> DEFINE cond == free_reg(c.s)
           s1 == use_reg(c.s, cond)
           src == IF c.l.k = "const" THEN c.l ELSE c.r
           dst == IF c.l.k = "const" THEN c.r ELSE c.l
           t == IF is_stack_offset(dst) THEN IntoReg(s1, dst) ELSE [s |-> s1, loc |-> dst]
           ts == IF is_stack_offset(dst) THEN IntoReg(s1, dst).s ELSE s1
           s2 == Mov(t.s, Lit(0), InReg(cond))
           holds == Meaning(op, Read(s2, t.loc), Read(s2, src)) = 1
           s3 == IF holds THEN Mov(s2, Lit(1), InReg(cond)) ELSE s2
           d == [c EXCEPT !.s = s3, !.r = InReg(cond)]
<1>0. from_binop_cmp(c, op) = d
  BY DEF from_binop_cmp
<1>1. t.s = ts
  OBVIOUS
<1> HIDE DEF holds, src, t
<1>2. Keeps(c.s, s1)
  BY KeepsUse
<1>3. Keeps(s1, s3)
  <2> HIDE DEF s1, cond
  <2>1. Keeps(s1, ts)
    BY KeepsIntoReg, KeepsSame
  <2> HIDE DEF dst, ts
  <2>2. Keeps(ts, s2)
    BY <1>1, KeepsMov
  <2> HIDE DEF s2
  <2>3. Keeps(s2, s3)
    BY KeepsMov, KeepsSame
  <2> HIDE DEF s3
  <2> QED
    BY <2>1, <2>2, <2>3, KeepsTrans
<1> HIDE DEF s3
<1>4. Grows(s1, s3)
  BY <1>3, KeepsGrows
<1>5. Got(c.s, s3, InReg(cond))
  BY <1>4, TakenReg DEF free_reg
<1> HIDE DEF s1, cond
<1>6. DOMAIN s3 = Fields /\ c.s.used \subseteq s3.used
  BY <1>2, <1>3 DEF Keeps, OpFrom
<1>7. Mine(U, P, s3.used, InReg(cond)) /\ Mine(U, P, s3.used, c.l) /\ U \subseteq s3.used
  BY <1>5, <1>6, GotMine, MineLater DEF OpFrom
<1>8. DOMAIN d = OpFields /\ d.s = s3 /\ d.l = c.l /\ d.r = InReg(cond)
  BY DEF OpFrom, OpFields
<1> HIDE DEF d
<1>9. ~ is_stack_offset(InReg(cond))
  BY RegOfReg
<1> QED
  BY <1>0, <1>6, <1>7, <1>8, <1>9 DEF OpFrom

\* An operand that makes room moves to a register of its own.
LEMMA SpillFrom ==
    ASSUME NEW U, NEW P, NEW c, OpFrom(U, P, c), ~ is_stack_offset(c.r),
           NEW reg, NEW other
    PROVE  LET d == SpillFor(c, reg, other).c
           IN  OpFrom(U, P, d) /\ ~ is_stack_offset(d.r)
<1> DEFINE s1 == Push(c.s, c.s.regs[reg])
           new == FirstFree(s1, {other})
           u == use_reg(s1, new)
           s2 == Pop(u, new)
           cr == IF c.r = InReg(reg) THEN InReg(new) ELSE c.r
           cl == IF c.l = InReg(reg) THEN InReg(new) ELSE c.l
           a == [c EXCEPT !.s = s1]
           b == [c EXCEPT !.s = s2, !.r = cr, !.l = cl]
           d == SpillFor(c, reg, other).c
<1>0. DOMAIN c = OpFields /\ DOMAIN c.s = Fields
  BY DEF OpFrom
<1>1. d = c \/ d = a \/ d = b
  BY <1>0 DEF SpillFor, free_reg_except, OpFields
<1> HIDE DEF d
<1>2. DOMAIN s1 = Fields /\ c.s.used \subseteq s1.used
  BY <1>0, PushGrows DEF Grows
<1> HIDE DEF s1
<1>3. OpFrom(U, P, a) /\ a.r = c.r
  <2>1. DOMAIN a = OpFields /\ a.s = s1 /\ a.l = c.l /\ a.r = c.r
    BY <1>0 DEF OpFields
  <2>2. Mine(U, P, s1.used, c.l) /\ Mine(U, P, s1.used, c.r)
    BY <1>2, MineLater DEF OpFrom
  <2> HIDE DEF a
  <2> QED
    BY <1>2, <2>1, <2>2 DEF OpFrom
<1>4. OpFrom(U, P, b) /\ ~ is_stack_offset(b.r)
  <2>1. Grows(u, s2)
    BY PopGrows
  <2>2. Grows(s1, u)
    BY KeepsUse, KeepsGrows
  <2>3. Got(s1, s2, InReg(new))
    <3> HIDE DEF s2
    <3> QED
      BY <2>1, TakenReg
  <2> HIDE DEF s2, u, new
  <2>4. DOMAIN s2 = Fields /\ s1.used \subseteq s2.used
    BY <1>2, <2>1, <2>2, GrowsTrans DEF Grows
  <2>5. U \subseteq s1.used /\ U \subseteq s2.used /\ c.s.used \subseteq s2.used
    BY <1>2, <2>4 DEF OpFrom
  <2>6. Mine(U, P, s2.used, InReg(new))
    BY <1>2, <2>3, <2>5, GotMine
  <2>7. Mine(U, P, s2.used, c.l) /\ Mine(U, P, s2.used, c.r)
    BY <2>5, MineLater DEF OpFrom
  <2>8. Mine(U, P, s2.used, cl) /\ Mine(U, P, s2.used, cr)
    BY <2>6, <2>7
  <2>9. ~ is_stack_offset(cr)
    BY RegOfReg
  <2> HIDE DEF cl, cr
  <2>10. DOMAIN b = OpFields /\ b.s = s2 /\ b.l = cl /\ b.r = cr
    BY <1>0 DEF OpFields
  <2> HIDE DEF b
  <2> QED
    BY <2>4, <2>5, <2>8, <2>9, <2>10 DEF OpFrom
<1> HIDE DEF a, b
<1>5. OpFrom(U, P, d) /\ ~ is_stack_offset(d.r)
  BY <1>1, <1>3, <1>4
<1> QED
  BY <1>5 DEF d

LEMMA DivideFrom ==
    ASSUME NEW U, NEW P, NEW c, OpFrom(U, P, c), ~ is_stack_offset(c.r)
    PROVE  OpFrom(U, P, Divide(c)) /\ ~ is_stack_offset(Divide(c).r)
<1> DEFINE a == SpillFor(c, "RAX", "RDX")
           d == SpillFor(a.c, "RDX", "RAX")
           m == Mov(d.c.s, d.c.l, InReg("RAX"))
           i == Idiv(m, d.c.r)
           s2 == Mov(i, InReg("RAX"), d.c.r)
           s3 == IF a.spilled /\ d.c.r # InReg("RAX") THEN Pop(s2, "RAX") ELSE s2
           s4 == IF d.spilled /\ d.c.l # InReg("RDX") THEN Pop(s3, "RDX") ELSE s3
           e == [d.c EXCEPT !.s = s4]
<1>0. Divide(c) = e
  BY DEF Divide
<1>1. OpFrom(U, P, a.c) /\ ~ is_stack_offset(a.c.r)
  BY SpillFrom
<1> HIDE DEF a
<1>2. OpFrom(U, P, d.c) /\ ~ is_stack_offset(d.c.r)
  BY <1>1, SpillFrom
<1> HIDE DEF d
<1>3. Grows(d.c.s, s4)
  <2>1. Keeps(d.c.s, m)
    BY KeepsMov
  <2>2. Keeps(m, i)
    BY KeepsIdiv
  <2>3. Keeps(i, s2)
    BY KeepsMov
  <2> HIDE DEF m, i, s2
  <2>4. Keeps(d.c.s, s2)
    BY <2>1, <2>2, <2>3, KeepsTrans
  <2>5. Grows(s2, s3)
    <3>1. Grows(s2, s2)
      BY DEF Grows
    <3> QED
      BY <3>1, PopGrows
  <2> HIDE DEF s3
  <2>6. Grows(s3, s4)
    <3>1. Grows(s3, s3)
      BY DEF Grows
    <3> QED
      BY <3>1, PopGrows
  <2> HIDE DEF s4
  <2> QED
    BY <2>4, <2>5, <2>6, KeepsGrows, GrowsTrans
<1> HIDE DEF s4
<1>4. DOMAIN s4 = Fields /\ d.c.s.used \subseteq s4.used
  BY <1>2, <1>3 DEF Grows, OpFrom
<1>5. Mine(U, P, s4.used, d.c.l) /\ Mine(U, P, s4.used, d.c.r) /\ U \subseteq s4.used
  BY <1>2, <1>4, MineLater DEF OpFrom
<1>6. DOMAIN e = OpFields /\ e.s = s4 /\ e.l = d.c.l /\ e.r = d.c.r
  BY <1>2 DEF OpFrom, OpFields
<1> HIDE DEF e
<1> QED
  BY <1>0, <1>2, <1>4, <1>5, <1>6 DEF OpFrom

LEMMA BinopFrom ==
    ASSUME NEW U, NEW P, NEW c, OpFrom(U, P, c), NEW op
    PROVE  OpFrom(U, P, from_binop(c, op)) /\ from_binop(c, op).r = c.r
<1> DEFINE t == Math(c.s, op, c.l, c.r)
           d == from_binop(c, op)
<1>1. DOMAIN t = Fields /\ c.s.used \subseteq t.used
  BY KeepsMath DEF Keeps, OpFrom
<1>2. DOMAIN d = OpFields /\ d.s = t /\ d.l = c.l /\ d.r = c.r
  BY DEF from_binop, OpFrom, OpFields
<1> HIDE DEF t, d
<1>3. Mine(U, P, t.used, c.l) /\ Mine(U, P, t.used, c.r)
  BY <1>1, MineLater DEF OpFrom
<1>4. OpFrom(U, P, d)
  BY <1>1, <1>2, <1>3 DEF OpFrom
<1> QED
  BY <1>2, <1>4 DEF d

\* The result of an operator is in a register of its operands or in one that
\* was free, and that register stays in use.
LEMMA OperatorPool ==
    ASSUME NEW s, DOMAIN s = Fields, NEW op, NEW clear,
           NEW x, RegOf(x.loc) \subseteq s.used, NEW y, RegOf(y.loc) \subseteq s.used
    PROVE  LET c == OperatorCode(Operands(s, op, x, y), op)
               t == clear_regs_except(c.s, c.r, clear)
           IN  /\ RegOf(c.r) \subseteq t.used
               /\ clear = FALSE => s.used \subseteq t.used
               /\ RegOf(c.r) \cap s.used \subseteq RegOf(x.loc) \cup RegOf(y.loc) \cup {"none"}
<1> DEFINE P == RegOf(x.loc) \cup RegOf(y.loc)
           a == Operands(s, op, x, y)
           c == OperatorCode(a, op)
           t == clear_regs_except(c.s, c.r, clear)
<1>1. OpFrom(s.used, P, a) /\ ~ is_stack_offset(a.r)
  BY OperandsFrom
<1> HIDE DEF a, P
<1>2. OpFrom(s.used, P, c) /\ ~ is_stack_offset(c.r)
  <2>1. OpFrom(s.used, P, from_binop_cmp(a, op)) /\ ~ is_stack_offset(from_binop_cmp(a, op).r)
    BY <1>1, CmpFrom
  <2>2. OpFrom(s.used, P, from_binop(a, op)) /\ ~ is_stack_offset(from_binop(a, op).r)
    BY <1>1, BinopFrom
  <2>3. OpFrom(s.used, P, Divide(a)) /\ ~ is_stack_offset(Divide(a).r)
    BY <1>1, DivideFrom
  <2> QED
    BY <2>1, <2>2, <2>3 DEF OperatorCode
<1> HIDE DEF c
<1>3. Mine(s.used, P, c.s.used, c.r) /\ s.used \subseteq c.s.used /\ DOMAIN c.s = Fields
  BY <1>2 DEF OpFrom
<1>4. CASE ~ clear
  <2>1. t = c.s
    BY <1>4 DEF clear_regs_except
  <2> HIDE DEF t
  <2> QED
    BY <1>3, <2>1 DEF Mine, P, a, c, t
<1>5. CASE clear
  <2> DEFINE kept == IF c.r.k = "reg" THEN {c.r.r} ELSE {}
  <2>1. t = release(c.s, kept)
    BY <1>5 DEF clear_regs_except
  <2> HIDE DEF t
  <2>2. RegOf(c.r) = kept
    BY <1>2 DEF RegOf, is_stack_offset
  <2> HIDE DEF kept
  <2>3. t.used = kept \cup (c.s.used \cap {"none"})
    BY <1>3, <2>1 DEF release, Fields
  <2> QED
    BY <1>3, <1>5, <2>2, <2>3 DEF Mine, P, a, c, t
<1> QED
  BY <1>4, <1>5

-----------------------------------------------------------------------------
(* The stack and the open calls *)

StackOK(s, cs) == Machine(s) /\ Stacked(cs, Pad(s.tot), s.sp - s.cur)

\* 1 while a call statement is open: the outermost call has not saved RAX.
Bare(cs) == IF Len(cs) > 0 /\ Taken(cs[1].rax, 1) = 0 THEN 1 ELSE 0

LEMMA PadIsNat ==
    ASSUME NEW t \in Nat PROVE Pad(t) \in Nat
  BY DEF Pad

LEMMA StackBasics ==
    ASSUME NEW s, NEW cs, StackOK(s, cs)
    PROVE  /\ Machine(s) /\ Pad(s.tot) \in Nat /\ s.sp - s.cur \in Int
           /\ Stacked(cs, Pad(s.tot), s.sp - s.cur)
<1>1. Machine(s) /\ Stacked(cs, Pad(s.tot), s.sp - s.cur)
  BY DEF StackOK
<1>2. s.tot \in Nat /\ s.sp \in Int /\ s.cur \in Int
  BY <1>1 DEF Machine
<1>3. Pad(s.tot) \in Nat
  BY <1>2, PadIsNat
<1> QED
  BY <1>1, <1>2, <1>3

LEMMA StackMoved ==
    ASSUME NEW s, NEW cs, StackOK(s, cs), NEW t, Moves(s, t, 0)
    PROVE  StackOK(t, cs)
<1>1. Machine(s)
  BY DEF StackOK
<1>2. DOMAIN t = Fields /\ t.sp = s.sp + 0 /\ t.cur = s.cur /\ t.tot = s.tot
  BY <1>1 DEF Moves, Machine
<1>3. Machine(t) /\ t.sp - t.cur = s.sp - s.cur
  BY <1>1, <1>2 DEF Machine
<1> QED
  BY <1>2, <1>3 DEF StackOK

LEMMA StackClear ==
    ASSUME NEW s, Machine(s), s.sp = s.cur
    PROVE  StackOK(s, << >>)
<1>1. s.sp - s.cur = 0
  BY DEF Machine
<1> QED
  BY <1>1, StackedNone DEF StackOK

\* A call is opened: RAX is saved or not, and the stack is padded.
LEMMA StackCall ==
    ASSUME NEW s, NEW cs, StackOK(s, cs), NEW rax \in BOOLEAN, NEW s0,
           Machine(s0), s0.cur = s.cur, s0.tot = s.tot, s0.sp = s.sp + Taken(rax, 1)
    PROVE  LET t == BeginCall(s0)
               ds == Append(cs, Frame(t.pad, rax))
           IN  /\ StackOK(t.s, ds) /\ Len(ds) = Len(cs) + 1 /\ Len(cs) \in Nat
               /\ ds[Len(ds)].rax = rax
               /\ \A i \in 1..Len(cs) : ds[i] = cs[i]
<1> DEFINE t == BeginCall(s0)
           f == Frame(t.pad, rax)
           d == Pad(s.tot)
<1>1. /\ t.pad \in BOOLEAN /\ Machine(t.s)
      /\ t.s.cur = s.cur /\ Pad(t.s.tot) = d
      /\ t.s.sp = s0.sp + Taken(t.pad, d)
  BY BeginEffect
<1> HIDE DEF t
<1>2. FrameOK(f) /\ f.rax = rax /\ f.pad = t.pad /\ Len(f.spilled) = 0
  <2>1. IsSeq(<< >>) /\ Len(<< >>) = 0
    BY EmptySeq DEF IsSeq
  <2>2. DOMAIN f = {"pad", "rax", "spilled", "want"} /\ f.spilled = << >>
    BY DEF Frame
  <2>3. f.rax = rax /\ f.pad = t.pad
    BY DEF Frame
  <2> HIDE DEF f
  <2> QED
    BY <1>1, <2>1, <2>2, <2>3 DEF FrameOK
<1> HIDE DEF f
<1>3. d \in Nat /\ s.sp \in Int /\ s.cur \in Int /\ Machine(s)
  BY PadIsNat DEF StackOK, Machine
<1> HIDE DEF d
<1>4. Stacked(Append(cs, f), d, (s.sp - s.cur) + Saved(f, d))
  BY <1>2, <1>3, StackedAppend DEF StackOK, d
<1>5. Saved(f, d) = Taken(rax, 1) + Taken(t.pad, d) + 0
  BY <1>2 DEF Saved
<1>6. Taken(rax, 1) \in Int /\ Taken(t.pad, d) \in Int
  BY <1>3 DEF Taken
<1>7. t.s.sp - t.s.cur = (s.sp - s.cur) + Saved(f, d)
  BY <1>1, <1>3, <1>5, <1>6
<1>8. StackOK(t.s, Append(cs, f))
  BY <1>1, <1>4, <1>7 DEF StackOK
<1>9. IsSeq(cs)
  BY DEF StackOK, Stacked
<1>10. /\ Len(Append(cs, f)) = Len(cs) + 1 /\ Append(cs, f)[Len(cs) + 1] = f
       /\ Len(cs) \in Nat /\ \A i \in 1..Len(cs) : Append(cs, f)[i] = cs[i]
  BY <1>9, SeqAppend, SeqFacts
<1> QED
  BY <1>2, <1>8, <1>10 DEF f, t

\* The last call has pushed n slots more.
LEMMA StackSpill ==
    ASSUME NEW s, NEW cs, StackOK(s, cs), Len(cs) > 0, NEW t, NEW f, FrameOK(f),
           f.rax = cs[Len(cs)].rax, f.pad = cs[Len(cs)].pad, NEW n \in Nat,
           Len(f.spilled) = Len(cs[Len(cs)].spilled) + n, Moves(s, t, n)
    PROVE  LET ds == [cs EXCEPT ![Len(cs)] = f]
           IN  StackOK(t, ds) /\ Len(ds) = Len(cs) /\ Bare(ds) = Bare(cs)
<1> DEFINE c == Len(cs)
           g == cs[c]
           d == Pad(s.tot)
           p == s.sp - s.cur
           ds == [cs EXCEPT ![c] = f]
<1>1. Machine(s) /\ d \in Nat /\ p \in Int /\ Stacked(cs, d, p)
  BY StackBasics
<1>2. DOMAIN t = Fields /\ t.sp = s.sp + n /\ t.cur = s.cur /\ t.tot = s.tot
  BY <1>1 DEF Moves, Machine
<1>3. Machine(t) /\ t.sp - t.cur = p + n
  BY <1>1, <1>2 DEF Machine
<1>4. FrameOK(g)
  BY <1>1, StackedFront
<1> HIDE DEF d, p
<1>5. Stacked(ds, d, p - Saved(g, d) + Saved(f, d)) /\ Len(ds) = c
  BY <1>1, StackedLast
<1>6. Saved(f, d) = Saved(g, d) + n /\ Saved(g, d) \in Nat
  <2>1. Len(g.spilled) \in Nat
    BY <1>4, SeqFacts DEF FrameOK
  <2>2. Taken(g.rax, 1) \in Nat /\ Taken(g.pad, d) \in Nat
    BY <1>1 DEF Taken
  <2>3. Saved(f, d) = Taken(g.rax, 1) + Taken(g.pad, d) + (Len(g.spilled) + n)
    BY DEF Saved
  <2>4. Saved(g, d) = Taken(g.rax, 1) + Taken(g.pad, d) + Len(g.spilled)
    BY DEF Saved
  <2> QED
    BY <2>1, <2>2, <2>3, <2>4
<1>7. p - Saved(g, d) + Saved(f, d) = p + n
  BY <1>1, <1>6
<1>8. StackOK(t, ds)
  BY <1>2, <1>3, <1>5, <1>7 DEF StackOK, d
<1>9. DOMAIN cs = 1..c /\ c \in Nat
  BY <1>1, SeqFacts DEF Stacked
<1>10. \A i \in 1..c : ds[i].rax = cs[i].rax
  <2> TAKE i \in 1..c
  <2>1. ds[i] = IF i = c THEN f ELSE cs[i]
    BY <1>9
  <2> HIDE DEF ds
  <2> QED
    BY <2>1
<1> HIDE DEF ds
<1>11. Bare(ds) = Bare(cs)
  <2>1. 1 \in 1..c
    BY <1>9
  <2> QED
    BY <1>5, <1>10, <2>1 DEF Bare
<1> QED
  BY <1>5, <1>8, <1>11 DEF ds

\* A frame that is changed keeps its holds.
LEMMA SpillFlags ==
    ASSUME NEW cs, IsSeq(cs), NEW f, f.rax = cs[Len(cs)].rax
    PROVE  \A i \in 1..Len(cs) : [cs EXCEPT ![Len(cs)] = f][i].rax = cs[i].rax
<1> TAKE i \in 1..Len(cs)
<1> DEFINE ds == [cs EXCEPT ![Len(cs)] = f]
<1>1. DOMAIN cs = 1..Len(cs)
  BY SeqFacts
<1>2. ds[i] = IF i = Len(cs) THEN f ELSE cs[i]
  BY <1>1
<1> HIDE DEF ds
<1>3. ds[i].rax = cs[i].rax
  BY <1>2
<1> QED
  BY <1>3 DEF ds

\* The last call has given back what it had taken.
LEMMA StackReturn ==
    ASSUME NEW s, NEW cs, StackOK(s, cs), Len(cs) > 0, NEW t,
           Moves(s, t, 0 - Saved(cs[Len(cs)], Pad(s.tot)))
    PROVE  /\ StackOK(t, Front(cs)) /\ Len(Front(cs)) = Len(cs) - 1
           /\ Len(cs) = 1 \/ Bare(Front(cs)) = Bare(cs)
           /\ \A i \in 1..Len(cs) - 1 : Front(cs)[i] = cs[i]
<1> DEFINE c == Len(cs)
           d == Pad(s.tot)
           p == s.sp - s.cur
           n == Saved(cs[c], d)
<1>1. Machine(s) /\ d \in Nat /\ p \in Int /\ Stacked(cs, d, p)
  BY StackBasics
<1> HIDE DEF d, p
<1>2. FrameOK(cs[c]) /\ Stacked(Front(cs), d, p - n) /\ Len(Front(cs)) = c - 1
  BY <1>1, StackedFront
<1>3. n \in Nat
  BY <1>1, <1>2, SavedIsNat
<1>4. DOMAIN t = Fields /\ t.sp = s.sp + (0 - n) /\ t.cur = s.cur /\ t.tot = s.tot
  BY <1>1 DEF Moves, Machine, d
<1> HIDE DEF n
<1>5. Machine(t) /\ t.sp - t.cur = p - n
  BY <1>1, <1>3, <1>4 DEF Machine, p
<1>6. StackOK(t, Front(cs))
  BY <1>2, <1>4, <1>5 DEF StackOK, d
<1>7. ASSUME c > 1 PROVE Bare(Front(cs)) = Bare(cs)
  <2>1. IsSeq(cs) /\ c \in Nat /\ c - 1 \in 0..c
    BY <1>1, <1>7, SeqFacts DEF Stacked
  <2>2. Front(cs)[1] = cs[1]
    BY <1>7, <2>1, SeqFirst DEF Front
  <2>3. Len(Front(cs)) > 0 /\ Len(cs) > 0
    BY <1>2, <1>7, <2>1
  <2> QED
    BY <2>2, <2>3 DEF Bare
<1>8. c \in Nat
  BY <1>1, SeqFacts DEF Stacked
<1>9. \A i \in 1..c - 1 : Front(cs)[i] = cs[i]
  <2>1. IsSeq(cs) /\ c - 1 \in 0..c
    BY <1>1, <1>8 DEF Stacked
  <2> QED
    BY <2>1, SeqFirst DEF Front
<1>10. Len(cs) = 1 \/ Bare(Front(cs)) = Bare(cs)
  <2>1. c > 0 /\ c \in Int
    BY <1>8
  <2> HIDE DEF c
  <2>2. c = 1 \/ c > 1
    BY <2>1
  <2> QED
    BY <1>7, <2>2 DEF c
<1> QED
  BY <1>2, <1>6, <1>9, <1>10

-----------------------------------------------------------------------------
(* The registers of the operands *)

\* The registers of the operands ops are in use, U, and no two operands share
\* one; without the second if a trait method may be called, see Result.
Apart(U, ops, K) ==
    /\ \A i \in 1..Len(ops) : RegOf(ops[i].loc) \subseteq U
    /\ "meth" \notin K =>
         \A i, j \in 1..Len(ops) :
           i # j => RegOf(ops[i].loc) \cap RegOf(ops[j].loc) \subseteq {"none"}

LEMMA ApartNone ==
    ASSUME NEW U, NEW ops, Len(ops) = 0, NEW K PROVE Apart(U, ops, K)
  BY DEF Apart

LEMMA ApartMore ==
    ASSUME NEW U, NEW V, U \subseteq V, NEW ops, NEW K, Apart(U, ops, K)
    PROVE  Apart(V, ops, K)
  BY DEF Apart

LEMMA ApartFirst ==
    ASSUME NEW U, NEW ops, IsSeq(ops), NEW K, Apart(U, ops, K), NEW n \in 0..Len(ops)
    PROVE  Apart(U, SubSeq(ops, 1, n), K)
<1>1. /\ Len(SubSeq(ops, 1, n)) = n /\ Len(ops) \in Nat
      /\ \A i \in 1..n : SubSeq(ops, 1, n)[i] = ops[i]
  BY SeqFirst, SeqFacts
<1>2. \A i \in 1..n : i \in 1..Len(ops)
  BY <1>1
<1> QED
  BY <1>1, <1>2 DEF Apart

LEMMA ApartAppend ==
    ASSUME NEW U, NEW V, U \subseteq V, NEW ops, IsSeq(ops), NEW K, Apart(U, ops, K),
           NEW x, RegOf(x.loc) \subseteq V,
           "meth" \notin K =>
             \A i \in 1..Len(ops) : RegOf(ops[i].loc) \cap RegOf(x.loc) \subseteq {"none"}
    PROVE  Apart(V, Append(ops, x), K)
<1> DEFINE xs == Append(ops, x)
           n == Len(ops)
<1>1. /\ Len(xs) = n + 1 /\ n \in Nat /\ xs[n + 1] = x
      /\ \A i \in 1..n : xs[i] = ops[i]
  BY SeqAppend, SeqFacts
<1> HIDE DEF xs
<1>2. \A i \in 1..n + 1 : i \in 1..n \/ i = n + 1
  BY <1>1
<1> HIDE DEF n
<1>3. \A i \in 1..n : RegOf(xs[i].loc) \subseteq U
  BY <1>1 DEF Apart, n
<1>4. \A i \in 1..Len(xs) : RegOf(xs[i].loc) \subseteq V
  BY <1>1, <1>2, <1>3
<1>5. ASSUME "meth" \notin K, NEW i \in 1..Len(xs), NEW j \in 1..Len(xs), i # j
      PROVE  RegOf(xs[i].loc) \cap RegOf(xs[j].loc) \subseteq {"none"}
  <2>1. CASE i \in 1..n /\ j \in 1..n
    BY <1>1, <1>5, <2>1 DEF Apart, n
  <2>2. CASE i \in 1..n /\ j = n + 1
    BY <1>1, <1>5, <2>2 DEF n
  <2>3. CASE i = n + 1 /\ j \in 1..n
    BY <1>1, <1>5, <2>3 DEF n
  <2> QED
    BY <1>1, <1>2, <1>5, <2>1, <2>2, <2>3
<1>6. Apart(V, xs, K)
  BY Zenon, <1>4, <1>5 DEF Apart
<1> QED
  BY <1>6 DEF xs

\* A register that has just been handed out belongs to no operand.
LEMMA ApartFresh ==
    ASSUME NEW s, DOMAIN s = Fields, NEW t, Grows(s, t),
           NEW ops, IsSeq(ops), NEW K, Apart(s.used, ops, K), NEW x, Got(s, t, x.loc)
    PROVE  Apart(t.used, Append(ops, x), K)
<1>1. /\ s.used \subseteq t.used /\ RegOf(x.loc) \subseteq t.used
      /\ RegOf(x.loc) \cap s.used \subseteq {"none"}
  BY DEF Grows, Got
<1>2. ASSUME NEW i \in 1..Len(ops)
      PROVE  RegOf(ops[i].loc) \cap RegOf(x.loc) \subseteq {"none"}
  BY <1>1 DEF Apart
<1> QED
  BY <1>1, <1>2, ApartAppend

\* While call i is open the first b[i] operands are those from before it.  If
\* it has not saved RAX, none of them is in that register.
Bottoms(b, ops, cs, K) ==
    \A i \in 1..Len(cs) :
      /\ \A j \in 1..i : b[j] <= b[i]
      /\ "meth" \notin K /\ cs[i].rax = FALSE =>
           \A m \in 1..b[i] : "RAX" \notin RegOf(ops[m].loc)

Q(cs, b) == [bare |-> Bare(cs), base |-> b]

\* Before the first call.
Zero == [i \in Nat |-> 0]

LEMMA BottomsZero ==
    ASSUME NEW ops, NEW cs, Len(cs) \in Nat, NEW K PROVE Bottoms(Zero, ops, cs, K)
  BY DEF Bottoms, Zero

\* What is below the operands a task takes stays below.
LEMMA BottomsKept ==
    ASSUME NEW b \in [Nat -> Nat], NEW t, NEW ops, NEW cs, Len(ops) \in Nat, Len(cs) \in Nat,
           NEW o1, NEW c1, NEW q, q.base = b, Does(t, Len(ops), Len(cs), o1, c1, q),
           NEW K, Bottoms(b, ops, cs, K),
           NEW xs, \A m \in 1..(Len(ops) - Takes(t)) : xs[m] = ops[m],
           NEW ds, Len(ds) \in 0..Len(cs), \A i \in 1..Len(ds) : ds[i].rax = cs[i].rax
    PROVE  Bottoms(b, xs, ds, K)
<1> SUFFICES ASSUME NEW i \in 1..Len(ds)
             PROVE  /\ \A j \in 1..i : b[j] <= b[i]
                    /\ "meth" \notin K /\ ds[i].rax = FALSE =>
                         \A m \in 1..b[i] : "RAX" \notin RegOf(xs[m].loc)
  BY DEF Bottoms
<1> DEFINE c == Len(cs)
           o == Len(ops)
           n == o - Takes(t)
<1>0. c \in Nat /\ o \in Nat /\ Len(ds) \in 0..c /\ i \in 1..Len(ds)
  OBVIOUS
<1>1. Takes(t) \in Nat
  BY DEF Takes
<1>2. c > 0 => n >= b[c]
  BY DEF Does
<1>3. \A k \in 1..c : \A j \in 1..k : b[j] <= b[k]
  BY DEF Bottoms
<1>4. "meth" \notin K /\ cs[i].rax = FALSE /\ i \in 1..c =>
        \A m \in 1..b[i] : "RAX" \notin RegOf(ops[m].loc)
  BY DEF Bottoms
<1>5. \A m \in 1..n : xs[m] = ops[m]
  OBVIOUS
<1>6. n \in Int
  BY <1>0, <1>1
<1> HIDE DEF c, o, n
<1>7. i \in 1..c /\ c \in 1..c /\ i \in 1..c /\ c > 0 /\ i \in Nat
  BY <1>0
<1>8. b[i] <= b[c] /\ b[i] \in Nat /\ b[c] \in Nat
  BY <1>3, <1>7
<1>9. \A m \in 1..b[i] : m \in 1..n
  <2> DEFINE x == b[i]
             y == b[c]
  <2>1. n >= y /\ x <= y /\ x \in Nat /\ y \in Nat
    BY <1>2, <1>7, <1>8
  <2> HIDE DEF x, y
  <2>2. \A m \in 1..x : m \in 1..n
    BY <1>6, <2>1
  <2> QED
    BY <2>2 DEF x
<1> QED
  BY <1>3, <1>4, <1>5, <1>7, <1>9

LEMMA SetAbove ==
    ASSUME NEW b \in [Nat -> Nat], NEW c \in Nat, NEW o \in Nat
    PROVE  LET b2 == [b EXCEPT ![c + 1] = o]
           IN  b2 \in [Nat -> Nat] /\ b2[c + 1] = o /\ \A i \in 1..c : b2[i] = b[i]
<1> DEFINE k == c + 1
           b2 == [b EXCEPT ![k] = o]
<1>1. k \in Nat /\ \A i \in 1..c : i \in Nat /\ i # k
  OBVIOUS
<1> HIDE DEF k
<1>2. b2 \in [Nat -> Nat] /\ b2[k] = o
  BY <1>1
<1>3. \A i \in 1..c : b2[i] = b[i]
  BY <1>1
<1> QED
  BY <1>2, <1>3 DEF k

\* A call is opened on top of o operands.
\* Over the calls cs and their bottoms b a call is opened, with o operands under
\* it.
Opened(b, cs, b2, ds, ops, K, c, o) ==
    /\ Len(cs) = c /\ Len(ds) = c + 1
    /\ c > 0 => o >= b[c]
    /\ b2[c + 1] = o
    /\ \A i \in 1..c : b2[i] = b[i] /\ ds[i] = cs[i]
    /\ "meth" \notin K /\ ds[c + 1].rax = FALSE =>
         \A m \in 1..o : "RAX" \notin RegOf(ops[m].loc)

LEMMA BottomsCall ==
    ASSUME NEW b \in [Nat -> Nat], NEW ops, NEW cs, NEW K, Bottoms(b, ops, cs, K),
           NEW b2, NEW ds, NEW c \in Nat, NEW o \in Nat,
           Opened(b, cs, b2, ds, ops, K, c, o)
    PROVE  Bottoms(b2, ops, ds, K)
<1>0. /\ Len(cs) = c /\ Len(ds) = c + 1
      /\ c > 0 => o >= b[c]
      /\ \A i \in 1..c : ds[i] = cs[i]
      /\ "meth" \notin K /\ ds[c + 1].rax = FALSE =>
           \A m \in 1..o : "RAX" \notin RegOf(ops[m].loc)
  BY DEF Opened
<1>1. b2[c + 1] = o /\ \A i \in 1..c : b2[i] = b[i]
  BY DEF Opened
<1>2. \A i \in 1..c + 1 : i \in 1..c \/ i = c + 1
  OBVIOUS
<1>3. \A i \in 1..c : \A j \in 1..i : b[j] <= b[i]
  BY <1>0 DEF Bottoms
<1>4. ASSUME NEW i \in 1..c, NEW j \in 1..i PROVE b2[j] <= b2[i]
  <2>1. j \in 1..c
    OBVIOUS
  <2> QED
    BY <1>1, <1>3, <2>1
<1>5. ASSUME NEW j \in 1..c + 1 PROVE b2[j] <= b2[c + 1]
  <2>1. CASE j = c + 1
    BY <1>1, <2>1
  <2>2. CASE j \in 1..c
    <3>1. c > 0 /\ c \in 1..c /\ j \in Nat
      BY <2>2
    <3>2. b[j] <= b[c] /\ o >= b[c] /\ b[j] \in Nat /\ b[c] \in Nat
      BY <1>0, <1>3, <2>2, <3>1
    <3>3. b[j] <= o
      BY <3>2
    <3> QED
      BY <1>1, <2>2, <3>3
  <2> QED
    BY <1>2, <2>1, <2>2
<1>6. ASSUME "meth" \notin K, NEW i \in 1..c, ds[i].rax = FALSE, NEW m \in 1..b2[i]
      PROVE  "RAX" \notin RegOf(ops[m].loc)
  <2>1. cs[i].rax = FALSE /\ m \in 1..b[i]
    BY <1>0, <1>1, <1>6
  <2> QED
    BY <1>0, <1>6, <2>1 DEF Bottoms
<1>7. ASSUME NEW i \in 1..c + 1
      PROVE  /\ \A j \in 1..i : b2[j] <= b2[i]
             /\ "meth" \notin K /\ ds[i].rax = FALSE =>
                  \A m \in 1..b2[i] : "RAX" \notin RegOf(ops[m].loc)
  BY <1>0, <1>1, <1>2, <1>4, <1>5, <1>6
<1> QED
  BY <1>0, <1>7 DEF Bottoms

-----------------------------------------------------------------------------
(* The inductive invariant *)

\* The tasks that are left use up the operands and the open calls there are,
\* the stack holds the variables and what the open calls have pushed, and the
\* pool holds the registers of the operands.
RunInv == /\ IsSeq(opnds)
          /\ StackOK(cpu, calls)
          /\ \E b \in [Nat -> Nat] :
               /\ Chain(work, Len(opnds), Len(calls), 0, 0, Q(calls, b))
               /\ Bottoms(b, opnds, calls, Kinds)
          /\ Apart(cpu.used, opnds, Kinds)
          /\ phase = "run" => "none" \notin cpu.used

IInv == frag \in Fragments /\ (phase = "run" => RunInv)

LEMMA HeadTask ==
    ASSUME RunInv, work # << >>
    PROVE  /\ Len(opnds) \in Nat /\ Len(calls) \in Nat /\ IsSeq(opnds)
           /\ \E b \in [Nat -> Nat], o1, c1 \in Nat :
                /\ Does(work[1], Len(opnds), Len(calls), o1, c1, Q(calls, b))
                /\ Chain(Tail(work), o1, c1, 0, 0, Q(calls, b))
                /\ Bottoms(b, opnds, calls, Kinds)
<1>1. Len(opnds) \in Nat /\ Len(calls) \in Nat /\ IsSeq(opnds)
  BY SeqFacts DEF RunInv, StackOK, Stacked
<1>2. PICK b \in [Nat -> Nat] :
        /\ Chain(work, Len(opnds), Len(calls), 0, 0, Q(calls, b))
        /\ Bottoms(b, opnds, calls, Kinds)
  BY DEF RunInv
<1>3. \E o1, c1 \in Nat : /\ Does(work[1], Len(opnds), Len(calls), o1, c1, Q(calls, b))
                          /\ Chain(Tail(work), o1, c1, 0, 0, Q(calls, b))
  BY <1>2, ChainRest
<1> QED
  BY <1>1, <1>2, <1>3

\* A step whose new tasks and operands do what its task had to do.
LEMMA AnyStep ==
    ASSUME RunInv, frag' = frag, work # << >>,
           NEW s, NEW ops, NEW tasks, NEW ds,
           Step(s, ops, tasks), calls' = ds, IsSeq(ops), StackOK(s, ds),
           Apart(s.used, ops, Kinds),
           \A b \in [Nat -> Nat] : \A o1, c1 \in Nat :
             /\ Bottoms(b, opnds, calls, Kinds)
             /\ Does(work[1], Len(opnds), Len(calls), o1, c1, Q(calls, b))
             => \E b2 \in [Nat -> Nat] :
                  /\ Chain(tasks, Len(ops), Len(ds), o1, c1, Q(ds, b2))
                  /\ c1 = 0 \/ Bare(ds) = Bare(calls)
                  /\ \A i \in 1..c1 : b2[i] = b[i]
                  /\ Bottoms(b2, ops, ds, Kinds)
    PROVE  RunInv'
<1>1. PICK b \in [Nat -> Nat], o1, c1 \in Nat :
        /\ Does(work[1], Len(opnds), Len(calls), o1, c1, Q(calls, b))
        /\ Chain(Tail(work), o1, c1, 0, 0, Q(calls, b))
        /\ Bottoms(b, opnds, calls, Kinds)
  BY HeadTask
<1>2. PICK b2 \in [Nat -> Nat] :
        /\ Chain(tasks, Len(ops), Len(ds), o1, c1, Q(ds, b2))
        /\ c1 = 0 \/ Bare(ds) = Bare(calls)
        /\ \A i \in 1..c1 : b2[i] = b[i]
        /\ Bottoms(b2, ops, ds, Kinds)
  BY <1>1
<1>3. Chain(Tail(work), o1, c1, 0, 0, Q(ds, b2))
  <2> DEFINE q == Q(calls, b)
             p == Q(ds, b2)
  <2>1. q.base = b /\ p.base = b2 /\ q.bare = Bare(calls) /\ p.bare = Bare(ds)
    BY DEF Q
  <2>2. (c1 = 0 \/ p.bare = q.bare) /\ \A i \in 1..c1 : p.base[i] = q.base[i]
    BY <1>2, <2>1
  <2>3. Chain(Tail(work), o1, c1, 0, 0, q)
    BY <1>1
  <2> HIDE DEF p, q
  <2>4. Chain(Tail(work), o1, c1, 0, 0, p)
    BY <2>2, <2>3, ChainBelow
  <2> QED
    BY <2>4 DEF p
<1>4. Chain(tasks \o Tail(work), Len(ops), Len(ds), 0, 0, Q(ds, b2))
  BY <1>2, <1>3, ChainJoin
<1>5. cpu' = s /\ opnds' = ops /\ work' = tasks \o Tail(work)
  BY DEF Step
<1>6. phase' = "run" => "none" \notin s.used
  BY DEF Step, OutOfRegs
<1>7. Kinds' = Kinds
  BY DEF Kinds
<1>8. Q(calls, b2)' = Q(ds, b2)
  BY DEF Q, Bare
<1> QED
  BY <1>2, <1>4, <1>5, <1>6, <1>7, <1>8 DEF RunInv

\* A step that opens no call.
LEMMA StepInv ==
    ASSUME RunInv, frag' = frag, work # << >>,
           NEW s, NEW ops, NEW tasks, NEW ds,
           Step(s, ops, tasks), calls' = ds, IsSeq(ops), StackOK(s, ds),
           Apart(s.used, ops, Kinds),
           \A m \in 1..(Len(opnds) - Takes(work[1])) : ops[m] = opnds[m],
           Len(ds) \in 0..Len(calls), \A i \in 1..Len(ds) : ds[i].rax = calls[i].rax,
           \A b \in [Nat -> Nat] : \A o1, c1 \in Nat :
             Does(work[1], Len(opnds), Len(calls), o1, c1, Q(calls, b)) =>
               /\ Chain(tasks, Len(ops), Len(ds), o1, c1, Q(ds, b))
               /\ c1 = 0 \/ Bare(ds) = Bare(calls)
    PROVE  RunInv'
<1>1. Len(opnds) \in Nat /\ Len(calls) \in Nat
  BY HeadTask
<1>2. ASSUME NEW b \in [Nat -> Nat], NEW o1 \in Nat, NEW c1 \in Nat,
             Bottoms(b, opnds, calls, Kinds),
             Does(work[1], Len(opnds), Len(calls), o1, c1, Q(calls, b))
      PROVE  \E b2 \in [Nat -> Nat] :
               /\ Chain(tasks, Len(ops), Len(ds), o1, c1, Q(ds, b2))
               /\ c1 = 0 \/ Bare(ds) = Bare(calls)
               /\ \A i \in 1..c1 : b2[i] = b[i]
               /\ Bottoms(b2, ops, ds, Kinds)
  <2>1. Q(calls, b).base = b
    BY DEF Q
  <2>2. Bottoms(b, ops, ds, Kinds)
    BY <1>1, <1>2, <2>1, BottomsKept
  <2> QED
    BY <1>2, <2>2
<1> QED
  BY <1>2, AnyStep

\* The step leaves calls and the stack as they are.
LEMMA QuietInv ==
    ASSUME RunInv, frag' = frag, work # << >>,
           NEW s, NEW ops, NEW tasks,
           Step(s, ops, tasks), calls' = calls, IsSeq(ops), Moves(cpu, s, 0),
           Apart(s.used, ops, Kinds),
           \A m \in 1..(Len(opnds) - Takes(work[1])) : ops[m] = opnds[m],
           \A b \in [Nat -> Nat] : \A o1, c1 \in Nat :
             Does(work[1], Len(opnds), Len(calls), o1, c1, Q(calls, b)) =>
               Chain(tasks, Len(ops), Len(calls), o1, c1, Q(calls, b))
    PROVE  RunInv'
<1>1. StackOK(s, calls)
  BY StackMoved DEF RunInv
<1>2. Len(calls) \in 0..Len(calls)
  BY HeadTask
<1> QED
  BY <1>1, <1>2, StepInv

\* The operands without the last n.
LEMMA Dropped ==
    ASSUME RunInv, work # << >>, NEW n \in Nat, Takes(work[1]) = n
    PROVE  /\ Len(opnds) - n \in 0..Len(opnds) /\ Len(opnds) >= n
           /\ IsSeq(Drop(n)) /\ Len(Drop(n)) = Len(opnds) - n
           /\ \A m \in 1..(Len(opnds) - n) : Drop(n)[m] = opnds[m]
           /\ Apart(cpu.used, Drop(n), Kinds)
<1>1. PICK b \in [Nat -> Nat], o1, c1 \in Nat :
        Does(work[1], Len(opnds), Len(calls), o1, c1, Q(calls, b))
  BY HeadTask
<1>2. Len(opnds) \in Nat /\ IsSeq(opnds) /\ Apart(cpu.used, opnds, Kinds)
  BY HeadTask DEF RunInv
<1>3. Len(opnds) >= n
  BY <1>1 DEF Does
<1>4. Len(opnds) - n \in 0..Len(opnds)
  BY <1>2, <1>3
<1> QED
  BY <1>2, <1>3, <1>4, SeqFirst, ApartFirst DEF Drop

\* A step that returns the location x: n operands are used for it.
LEMMA ReturnInv ==
    ASSUME RunInv, frag' = frag, work # << >>, NEW n \in Nat,
           Takes(work[1]) = n, Leaves(work[1]) = 1,
           work[1].k \in {"expr", "not", "index", "binary"},
           NEW s, NEW ops, NEW x, ops = (IF n = 0 THEN opnds ELSE Drop(n)),
           Step(s, Append(ops, x), << >>), calls' = calls, Moves(cpu, s, 0),
           Apart(s.used, Append(ops, x), Kinds)
    PROVE  RunInv'
<1>1. Len(opnds) \in Nat /\ Len(calls) \in Nat /\ IsSeq(opnds)
  BY HeadTask
<1>2. /\ Len(opnds) - n \in 0..Len(opnds)
      /\ IsSeq(Drop(n)) /\ Len(Drop(n)) = Len(opnds) - n
      /\ \A m \in 1..(Len(opnds) - n) : Drop(n)[m] = opnds[m]
  BY Dropped
<1>3. /\ IsSeq(ops) /\ Len(ops) = Len(opnds) - n
      /\ \A m \in 1..(Len(opnds) - n) : ops[m] = opnds[m]
  BY <1>1, <1>2
<1>4. /\ IsSeq(Append(ops, x)) /\ Len(Append(ops, x)) = Len(opnds) - n + 1
      /\ \A m \in 1..(Len(opnds) - n) : Append(ops, x)[m] = opnds[m]
  BY <1>3, SeqAppend
<1>5. ASSUME NEW b \in [Nat -> Nat], NEW o1 \in Nat, NEW c1 \in Nat,
             Does(work[1], Len(opnds), Len(calls), o1, c1, Q(calls, b))
      PROVE  Chain(<< >>, Len(Append(ops, x)), Len(calls), o1, c1, Q(calls, b))
  <2>1. o1 = Len(opnds) - n + 1 /\ c1 = Len(calls)
    BY <1>5 DEF Does
  <2>2. Chain(<< >>, o1, c1, o1, c1, Q(calls, b))
    BY ChainNone
  <2> QED
    BY <1>4, <2>1, <2>2
<1> QED
  BY <1>4, <1>5, QuietInv

\* A step that uses the last operand up.
LEMMA UseInv ==
    ASSUME RunInv, frag' = frag, work # << >>, NEW s, NEW ds,
           work[1].k \in {"assign", "field", "item", "cond", "pass"},
           work[1].k = "pass" => cpu.used \subseteq s.used,
           Step(s, Drop(1), << >>), calls' = ds, StackOK(s, ds),
           Len(ds) = Len(calls), Bare(ds) = Bare(calls),
           \A i \in 1..Len(ds) : ds[i].rax = calls[i].rax
    PROVE  RunInv'
<1>1. PICK b \in [Nat -> Nat], o1, c1 \in Nat :
        Does(work[1], Len(opnds), Len(calls), o1, c1, Q(calls, b))
  BY HeadTask
<1>2. Takes(work[1]) = 1 /\ Leaves(work[1]) = 0
  BY DEF Takes, Leaves
<1>3. /\ IsSeq(Drop(1)) /\ Len(Drop(1)) = Len(opnds) - 1
      /\ \A m \in 1..(Len(opnds) - 1) : Drop(1)[m] = opnds[m]
      /\ Apart(cpu.used, Drop(1), Kinds)
  BY <1>2, Dropped
<1>4. Len(opnds) \in Nat /\ Len(calls) \in Nat /\ Len(ds) \in 0..Len(calls)
  BY HeadTask
<1>5. Apart(s.used, Drop(1), Kinds)
  <2>1. CASE work[1].k = "pass"
    BY <1>3, <2>1, ApartMore
  <2>2. CASE work[1].k # "pass"
    <3>1. Len(opnds) = 1
      BY <1>1, <2>2 DEF Does, ClearsSafely
    <3>2. Len(Drop(1)) = 0
      BY <1>3, <3>1
    <3> QED
      BY <3>2, ApartNone
  <2> QED
    BY <2>1, <2>2
<1>6. ASSUME NEW b1 \in [Nat -> Nat], NEW o2 \in Nat, NEW c2 \in Nat,
             Does(work[1], Len(opnds), Len(calls), o2, c2, Q(calls, b1))
      PROVE  Chain(<< >>, Len(Drop(1)), Len(ds), o2, c2, Q(ds, b1))
  <2>0. work[1].k \notin {"result", "called"}
    OBVIOUS
  <2>1. o2 = Len(opnds) - 1 /\ c2 = Len(calls)
    <3>1. o2 = Len(opnds) - 1 + 0
      BY <1>2, <1>6 DEF Does
    <3>2. c2 = Len(calls)
      BY <1>6, <2>0 DEF Does
    <3> QED
      BY <1>4, <3>1, <3>2
  <2>2. Chain(<< >>, o2, c2, o2, c2, Q(ds, b1))
    BY ChainNone
  <2> QED
    BY <1>3, <2>1, <2>2
<1>7. \A m \in 1..(Len(opnds) - Takes(work[1])) : Drop(1)[m] = opnds[m]
  BY <1>2, <1>3
<1> QED
  BY <1>3, <1>4, <1>5, <1>6, <1>7, StepInv

\* A step that walks on into an expression.
LEMMA TreeInv ==
    ASSUME RunInv, frag' = frag, work # << >>, work[1].k = "expr", NEW tasks,
           Step(cpu, opnds, tasks), calls' = calls,
           \A q : \A o, c \in Nat :
             Does(work[1], o, c, o + 1, c, q) => Chain(tasks, o, c, o + 1, c, q)
    PROVE  RunInv'
<1>1. Len(opnds) \in Nat /\ Len(calls) \in Nat /\ IsSeq(opnds)
  BY HeadTask
<1>2. ASSUME NEW b \in [Nat -> Nat], NEW o1 \in Nat, NEW c1 \in Nat,
             Does(work[1], Len(opnds), Len(calls), o1, c1, Q(calls, b))
      PROVE  Chain(tasks, Len(opnds), Len(calls), o1, c1, Q(calls, b))
  <2>1. o1 = Len(opnds) + 1 /\ c1 = Len(calls)
    BY <1>1, <1>2 DEF Does, Takes, Leaves
  <2> QED
    BY <1>1, <1>2, <2>1
<1>3. Moves(cpu, cpu, 0) /\ Apart(cpu.used, opnds, Kinds)
  BY KeepsSame, KeepsMoves DEF RunInv
<1> QED
  BY <1>1, <1>2, <1>3, QuietInv

-----------------------------------------------------------------------------
(* Between two statements *)

LEMMA AtStmts ==
    ASSUME RunInv, work # << >>, work[1].k = "stmts"
    PROVE  /\ opnds = << >> /\ calls = << >>
           /\ Machine(cpu) /\ cpu.sp = cpu.cur
           /\ \A q : Does(Rest, 0, 0, 0, 0, q)
<1>1. PICK b \in [Nat -> Nat], o1, c1 \in Nat :
        Does(work[1], Len(opnds), Len(calls), o1, c1, Q(calls, b))
  BY HeadTask
<1>2. Len(opnds) = 0 /\ Len(calls) = 0 /\ "k" \in DOMAIN work[1]
  BY <1>1 DEF Does
<1>3. opnds = << >>
  BY <1>2, SeqFacts DEF RunInv
<1>4. cpu.sp - cpu.cur = 0 /\ calls = << >>
  BY <1>2, StackedEmpty DEF RunInv, StackOK
<1>5. Machine(cpu) /\ cpu.sp = cpu.cur
  <2>1. Machine(cpu) /\ cpu.sp \in Int /\ cpu.cur \in Int
    BY DEF RunInv, StackOK, Machine
  <2> QED
    BY <1>4, <2>1
<1>6. ASSUME NEW q PROVE Does(Rest, 0, 0, 0, 0, q)
  <2>1. "k" \in DOMAIN Rest /\ Rest.k = "stmts"
    BY <1>2 DEF Rest
  <2> HIDE DEF Rest
  <2> QED
    BY <2>1 DEF Does, Takes, Leaves, ClearsSafely
<1> QED
  BY <1>3, <1>4, <1>5, <1>6

\* The first step of a statement: its variables have been given slots.
LEMMA StmtInv ==
    ASSUME RunInv, frag' = frag, work # << >>, work[1].k = "stmts",
           NEW s, NEW tasks, NEW ds,
           Step(s, opnds, tasks), calls' = ds, StackOK(s, ds), Len(ds) \in Nat,
           Chain(tasks, 0, Len(ds), 0, 0, Q(ds, Zero))
    PROVE  RunInv'
<1>1. opnds = << >> /\ calls = << >>
  BY AtStmts
<1>2. IsSeq(opnds) /\ Len(opnds) = 0 /\ Len(calls) = 0
  BY <1>1, EmptySeq DEF RunInv
<1>3. Apart(s.used, opnds, Kinds)
  BY <1>2, ApartNone
<1>4. Zero \in [Nat -> Nat] /\ Bottoms(Zero, opnds, ds, Kinds)
  BY BottomsZero DEF Zero
<1>5. ASSUME NEW b \in [Nat -> Nat], NEW o1 \in Nat, NEW c1 \in Nat,
             Does(work[1], Len(opnds), Len(calls), o1, c1, Q(calls, b))
      PROVE  \E b2 \in [Nat -> Nat] :
               /\ Chain(tasks, Len(opnds), Len(ds), o1, c1, Q(ds, b2))
               /\ c1 = 0 \/ Bare(ds) = Bare(calls)
               /\ \A i \in 1..c1 : b2[i] = b[i]
               /\ Bottoms(b2, opnds, ds, Kinds)
  <2>1. o1 = 0 /\ c1 = 0
    BY <1>2, <1>5 DEF Does, Takes, Leaves
  <2>2. \A i \in 1..c1 : Zero[i] = b[i]
    BY <2>1
  <2> QED
    BY <1>2, <1>4, <2>1, <2>2
<1> QED
  BY <1>2, <1>3, <1>5, AnyStep

-----------------------------------------------------------------------------
(* Every step keeps the invariant *)

LEMMA OperandLoc ==
    ASSUME NEW loc, NEW want, NEW arr PROVE Operand(loc, want, arr).loc = loc
  BY DEF Operand

LEMMA LeafStep ==
    ASSUME RunInv, frag' = frag, Doing("expr"), NEW s, NEW x,
           Step(s, Append(opnds, x), << >>), calls' = calls,
           Keeps(cpu, s), Got(cpu, s, x.loc)
    PROVE  RunInv'
<1>1. work # << >> /\ work[1].k = "expr" /\ Moves(cpu, s, 0)
  BY KeepsMoves DEF Doing
<1>2. Takes(work[1]) = 0 /\ Leaves(work[1]) = 1
  BY <1>1 DEF Takes, Leaves
<1>3. IsSeq(opnds) /\ DOMAIN cpu = Fields /\ Apart(cpu.used, opnds, Kinds)
  BY DEF RunInv, StackOK, Machine
<1>4. Apart(s.used, Append(opnds, x), Kinds)
  BY <1>3, KeepsGrows, ApartFresh
<1> QED
  BY <1>1, <1>2, <1>4, ReturnInv

LEMMA LeavesStep ==
    ASSUME RunInv, frag' = frag,
           \/ \E v \in Lits : Literal(v)
           \/ \E i \in DOMAIN vars : Variable(i) \/ Deref(i)
           \/ \E i \in DOMAIN vars, j \in 0..1 : Element(i, j)
    PROVE  RunInv'
<1>0. ASSUME NEW loc, RegOf(loc) = {} PROVE Got(cpu, cpu, loc)
  BY <1>0 DEF Got
<1>1. ASSUME NEW v, Literal(v) PROVE RunInv'
  <2> DEFINE x == Operand(Lit(v), v, FALSE)
  <2>1. Doing("expr") /\ calls' = calls /\ Step(cpu, Append(opnds, x), << >>)
    BY <1>1 DEF Literal, NewNode
  <2>2. Got(cpu, cpu, x.loc)
    BY <1>0, OperandLoc, RegOfOther
  <2> HIDE DEF x
  <2> QED
    BY <2>1, <2>2, LeafStep, KeepsSame
<1>2. ASSUME NEW i, Variable(i) PROVE RunInv'
  <2> DEFINE x == Operand(Slot(vars[i].n), env[vars[i].n], FALSE)
  <2>1. Doing("expr") /\ calls' = calls /\ Step(cpu, Append(opnds, x), << >>)
    BY <1>2 DEF Variable, NewNode
  <2>2. Got(cpu, cpu, x.loc)
    BY <1>0, OperandLoc, RegOfOther
  <2> HIDE DEF x
  <2> QED
    BY <2>1, <2>2, LeafStep, KeepsSame
<1>3. ASSUME NEW i, Deref(i) PROVE RunInv'
  <2> DEFINE t == IntoReg(cpu, Slot(vars[i].n))
             x == Operand(At(t.loc.r), env[SlotAt(env[vars[i].n])], FALSE)
  <2>1. Doing("expr") /\ calls' = calls /\ Step(t.s, Append(opnds, x), << >>)
    BY <1>3 DEF Deref, NewNode
  <2>2. Keeps(cpu, t.s)
    BY KeepsIntoReg
  <2>3. Got(cpu, t.s, t.loc) /\ t.loc = InReg(free_reg(cpu))
    BY IntoRegGets
  <2> HIDE DEF t
  <2>4. x.loc = At(t.loc.r)
    BY OperandLoc
  <2> HIDE DEF x
  <2>5. RegOf(x.loc) = RegOf(t.loc)
    BY <2>3, <2>4, RegOfReg
  <2>6. Got(cpu, t.s, x.loc)
    BY <2>3, <2>5 DEF Got
  <2> QED
    BY <2>1, <2>2, <2>6, LeafStep
<1>4. ASSUME NEW i, NEW j, Element(i, j) PROVE RunInv'
  <2> DEFINE t == index_arr(cpu, vars[i].n, Lit(j), work[1].arr = "addr")
             x == Operand(t.loc, env[vars[i].n - j], TRUE)
  <2>1. Doing("expr") /\ calls' = calls /\ Step(t.s, Append(opnds, x), << >>)
    BY <1>4 DEF Element, NewNode
  <2>2. Keeps(cpu, t.s)
    BY KeepsIndex
  <2>3. Got(cpu, t.s, t.loc)
    BY IndexGets
  <2> HIDE DEF t
  <2>4. x.loc = t.loc
    BY OperandLoc
  <2> HIDE DEF x
  <2> QED
    BY <2>1, <2>2, <2>3, <2>4, LeafStep
<1> QED
  BY <1>1, <1>2, <1>3, <1>4

\* The tasks a node of an expression is replaced by.
LEMMA DoesExpr ==
    ASSUME NEW t, "k" \in DOMAIN t, t.k = "expr", NEW o \in Nat, NEW c, NEW q,
           t.clear = FALSE \/ o = 0, c > 0 => q.base[c] \in Nat /\ o >= q.base[c]
    PROVE  Does(t, o, c, o + 1, c, q)
<1>1. Takes(t) = 0 /\ Leaves(t) = 1 /\ o - 0 = o /\ o >= 0
  BY DEF Takes, Leaves
<1>2. ClearsSafely(t, o)
  BY DEF ClearsSafely
<1> QED
  BY <1>1, <1>2 DEF Does

LEMMA DoesE ==
    ASSUME NEW ty, NEW clear, NEW arr, NEW side, NEW op, NEW o \in Nat, NEW c, NEW q,
           clear = FALSE \/ o = 0, c > 0 => q.base[c] \in Nat /\ o >= q.base[c]
    PROVE  Does(E(ty, clear, arr, side, op), o, c, o + 1, c, q)
<1> DEFINE t == E(ty, clear, arr, side, op)
<1>1. "k" \in DOMAIN t /\ t.k = "expr" /\ t.clear = clear
  BY DEF E
<1> HIDE DEF t
<1>2. Does(t, o, c, o + 1, c, q)
  BY <1>1, DoesExpr
<1> QED
  BY <1>2 DEF t

\* The first expression of a statement.
LEMMA DoesFirst ==
    ASSUME NEW t, "k" \in DOMAIN t, t.k = "expr", NEW q
    PROVE  Does(t, 0, 0, 1, 0, q)
  BY DEF Does, Takes, Leaves, ClearsSafely

\* A task that uses the operand of a statement.
LEMMA DoesUse ==
    ASSUME NEW t, "k" \in DOMAIN t, t.k \in {"assign", "field", "item", "cond", "ret"}, NEW q
    PROVE  Does(t, 1, 0, 0, 0, q)
  BY DEF Does, Takes, Leaves, ClearsSafely

LEMMA DoesReturn ==
    ASSUME NEW t, "k" \in DOMAIN t, t.k \in {"not", "index"},
           NEW o \in Nat, NEW c, NEW q, c > 0 => q.base[c] \in Nat /\ o >= q.base[c]
    PROVE  Does(t, o + 1, c, o + 1, c, q)
<1>1. Takes(t) = 1 /\ Leaves(t) = 1 /\ (o + 1) - 1 = o /\ o + 1 >= 1
  BY DEF Takes, Leaves
<1>2. ClearsSafely(t, o + 1)
  BY DEF ClearsSafely
<1> QED
  BY <1>1, <1>2 DEF Does

LEMMA TreesStep ==
    ASSUME RunInv, frag' = frag,
           \/ \E i \in DOMAIN vars : Indexing(i)
           \/ \E op \in Ops : Binary(op)
           \/ Not
    PROVE  RunInv'
<1>0. ASSUME Doing("expr") PROVE work # << >> /\ work[1].k = "expr" /\ "k" \in DOMAIN work[1]
  <2>1. work # << >> /\ work[1].k = "expr"
    BY <1>0 DEF Doing
  <2> QED
    BY <2>1, HeadTask DEF Does
<1>1. ASSUME Doing("expr"), NEW q, NEW o \in Nat, NEW c, Does(work[1], o, c, o + 1, c, q)
      PROVE  /\ work[1].clear = FALSE \/ o = 0
             /\ c > 0 => q.base[c] \in Nat /\ o >= q.base[c]
  <2>1. work[1].k = "expr" /\ Takes(work[1]) = 0 /\ o - 0 = o
    BY <1>0, <1>1 DEF Takes
  <2> QED
    BY <1>1, <2>1 DEF Does, ClearsSafely
<1>2. ASSUME NEW i, Indexing(i) PROVE RunInv'
  <2> DEFINE a == Whole(FALSE, "no")
             b == [k |-> "index", n |-> vars[i].n]
  <2>1. Doing("expr") /\ calls' = calls /\ Step(cpu, opnds, << a, b >>)
    BY <1>2 DEF Indexing, NewNode
  <2>2. "k" \in DOMAIN b /\ b.k = "index"
    OBVIOUS
  <2> HIDE DEF b
  <2>3. ASSUME NEW q, NEW o \in Nat, NEW c \in Nat, Does(work[1], o, c, o + 1, c, q)
        PROVE  Chain(<< a, b >>, o, c, o + 1, c, q)
    <3>0. c > 0 => q.base[c] \in Nat /\ o >= q.base[c]
      BY <1>1, <2>1, <2>3
    <3>1. Does(a, o, c, o + 1, c, q)
      BY <3>0, DoesE DEF Whole
    <3>2. Does(b, o + 1, c, o + 1, c, q)
      BY <2>2, <3>0, DoesReturn
    <3>3. o + 1 \in Nat
      OBVIOUS
    <3> HIDE DEF a
    <3> QED
      BY <3>1, <3>2, <3>3, ChainTwo
  <2> HIDE DEF a
  <2> DEFINE tasks == << a, b >>
  <2>4. Step(cpu, opnds, tasks) /\ calls' = calls
    BY <2>1
  <2>5. \A q : \A o, c \in Nat :
          Does(work[1], o, c, o + 1, c, q) => Chain(tasks, o, c, o + 1, c, q)
    BY <2>3
  <2> HIDE DEF tasks
  <2> QED
    BY <1>0, <2>1, <2>4, <2>5, TreeInv
<1>3. ASSUME NEW op, Binary(op) PROVE RunInv'
  <2> DEFINE a == E("int", FALSE, "addr", "left", op)
             b == E("int", FALSE, "addr", "right", op)
             d == [k |-> "binary", op |-> op, clear |-> work[1].clear]
  <2>1. Doing("expr") /\ calls' = calls /\ Step(cpu, opnds, << a, b, d >>)
    BY <1>3 DEF Binary, NewNode, BinaryTasks
  <2>2. "k" \in DOMAIN d /\ d.k = "binary" /\ d.clear = work[1].clear
    OBVIOUS
  <2> HIDE DEF d
  <2>3. ASSUME NEW q, NEW o \in Nat, NEW c \in Nat, Does(work[1], o, c, o + 1, c, q)
        PROVE  Chain(<< a, b, d >>, o, c, o + 1, c, q)
    <3>0. /\ work[1].clear = FALSE \/ o = 0
          /\ c > 0 => q.base[c] \in Nat /\ o >= q.base[c]
      BY <1>1, <2>1, <2>3
    <3>1. o + 1 \in Nat /\ o + 1 + 1 \in Nat
      OBVIOUS
    <3>2. c > 0 => q.base[c] \in Nat /\ o + 1 >= q.base[c]
      BY <3>0
    <3>3. Does(a, o, c, o + 1, c, q) /\ Does(b, o + 1, c, o + 1 + 1, c, q)
      BY <3>0, <3>1, <3>2, DoesE
    <3> HIDE DEF a, b
    <3>4. Does(d, o + 1 + 1, c, o + 1, c, q)
      <4>1. Takes(d) = 2 /\ Leaves(d) = 1 /\ (o + 1 + 1) - 2 = o /\ o + 1 + 1 >= 2
        BY <2>2 DEF Takes, Leaves
      <4>2. ClearsSafely(d, o + 1 + 1)
        <5>1. d.clear = FALSE \/ o + 1 + 1 = 2
          BY <2>2, <3>0
        <5> QED
          BY <2>2, <5>1 DEF ClearsSafely
      <4> QED
        BY <2>2, <3>0, <4>1, <4>2 DEF Does
    <3> QED
      BY <3>1, <3>3, <3>4, ChainThree
  <2> HIDE DEF a, b
  <2> DEFINE tasks == << a, b, d >>
  <2>4. Step(cpu, opnds, tasks) /\ calls' = calls
    BY <2>1
  <2>5. \A q : \A o, c \in Nat :
          Does(work[1], o, c, o + 1, c, q) => Chain(tasks, o, c, o + 1, c, q)
    BY <2>3
  <2> HIDE DEF tasks
  <2> QED
    BY <1>0, <2>1, <2>4, <2>5, TreeInv
<1>4. ASSUME Not PROVE RunInv'
  <2> DEFINE b == [k |-> "not"]
  <2>1. Doing("expr") /\ calls' = calls /\ Step(cpu, opnds, << work[1], b >>)
    BY <1>4 DEF Not, NewNode
  <2>2. "k" \in DOMAIN b /\ b.k = "not"
    OBVIOUS
  <2> HIDE DEF b
  <2>3. ASSUME NEW q, NEW o \in Nat, NEW c \in Nat, Does(work[1], o, c, o + 1, c, q)
        PROVE  Chain(<< work[1], b >>, o, c, o + 1, c, q)
    <3>0. c > 0 => q.base[c] \in Nat /\ o >= q.base[c]
      BY <1>1, <2>1, <2>3
    <3>2. Does(b, o + 1, c, o + 1, c, q) /\ o + 1 \in Nat
      BY <2>2, <3>0, DoesReturn
    <3> QED
      BY <2>3, <3>2, ChainTwo
  <2> DEFINE tasks == << work[1], b >>
  <2>4. Step(cpu, opnds, tasks) /\ calls' = calls
    BY <2>1
  <2>5. \A q : \A o, c \in Nat :
          Does(work[1], o, c, o + 1, c, q) => Chain(tasks, o, c, o + 1, c, q)
    BY <2>3
  <2> HIDE DEF tasks
  <2> QED
    BY <1>0, <2>1, <2>4, <2>5, TreeInv
<1> QED
  BY <1>2, <1>3, <1>4

\* The steps that return a location for operands they use.
LEMMA ReturnsStep ==
    ASSUME RunInv, frag' = frag, NotEnd \/ BinaryEnd \/ IndexEnd
    PROVE  phase' = "run" => RunInv'
<1>0. DOMAIN cpu = Fields /\ Len(opnds) \in Nat /\ IsSeq(opnds) /\ Apart(cpu.used, opnds, Kinds)
  BY SeqFacts DEF RunInv, StackOK, Machine
<1>1. ASSUME NotEnd PROVE RunInv'
  <2> DEFINE t == NotCode(cpu, Top)
             x == Operand(t.loc, 1 - Top.want, FALSE)
  <2>1. Doing("not") /\ calls' = calls /\ Step(t.s, Append(Drop(1), x), << >>)
    BY <1>1 DEF NotEnd
  <2>2. Moves(cpu, t.s, 0) /\ Grows(cpu, t.s)
    BY KeepsNot, KeepsMoves, KeepsGrows
  <2>3. work # << >> /\ work[1].k = "not" /\ Takes(work[1]) = 1 /\ Leaves(work[1]) = 1
    BY <2>1 DEF Doing, Takes, Leaves
  <2>8. Got(cpu, t.s, t.loc)
    BY NotGets
  <2> HIDE DEF t
  <2>9. x.loc = t.loc
    BY OperandLoc
  <2> HIDE DEF x
  <2>4. Got(cpu, t.s, x.loc)
    BY <2>8, <2>9
  <2>5. IsSeq(Drop(1)) /\ Apart(cpu.used, Drop(1), Kinds)
    BY <2>3, Dropped
  <2>6. Apart(t.s.used, Append(Drop(1), x), Kinds)
    BY <1>0, <2>2, <2>4, <2>5, ApartFresh
  <2> QED
    BY <2>1, <2>2, <2>3, <2>6, ReturnInv
<1>2. ASSUME IndexEnd, phase' = "run" PROVE RunInv'
  <2> DEFINE t == index_arr(cpu, work[1].n, Top.loc, TRUE)
             x == Operand(t.loc, env[work[1].n - Top.want], TRUE)
  <2>1. Doing("index") /\ calls' = calls /\ Step(t.s, Append(Drop(1), x), << >>)
    BY <1>2 DEF IndexEnd, Abandon
  <2>2. Moves(cpu, t.s, 0) /\ Grows(cpu, t.s)
    BY KeepsIndex, KeepsMoves, KeepsGrows
  <2>3. work # << >> /\ work[1].k = "index" /\ Takes(work[1]) = 1 /\ Leaves(work[1]) = 1
    BY <2>1 DEF Doing, Takes, Leaves
  <2>8. Got(cpu, t.s, t.loc)
    BY IndexGets
  <2> HIDE DEF t
  <2>9. x.loc = t.loc
    BY OperandLoc
  <2> HIDE DEF x
  <2>4. Got(cpu, t.s, x.loc)
    BY <2>8, <2>9
  <2>5. IsSeq(Drop(1)) /\ Apart(cpu.used, Drop(1), Kinds)
    BY <2>3, Dropped
  <2>6. Apart(t.s.used, Append(Drop(1), x), Kinds)
    BY <1>0, <2>2, <2>4, <2>5, ApartFresh
  <2> QED
    BY <2>1, <2>2, <2>3, <2>6, ReturnInv
<1>3. ASSUME BinaryEnd, phase' = "run" PROVE RunInv'
  <2> DEFINE op == work[1].op
             clear == work[1].clear
             c == OperatorCode(Operands(cpu, op, Below, Top), op)
             s == clear_regs_except(c.s, c.r, clear)
             x == Operand(c.r, Meaning(op, Below.want, Top.want), FALSE)
             o == Len(opnds)
  <2>1. Doing("binary") /\ calls' = calls /\ Step(s, Append(Drop(2), x), << >>)
    BY <1>3 DEF BinaryEnd, Abandon
  <2>2. Moves(cpu, s, 0)
    BY OperatorMoves
  <2>3. work # << >> /\ work[1].k = "binary" /\ Takes(work[1]) = 2 /\ Leaves(work[1]) = 1
    BY <2>1 DEF Doing, Takes, Leaves
  <2>4. /\ o - 2 \in 0..o /\ o >= 2 /\ IsSeq(Drop(2)) /\ Len(Drop(2)) = o - 2
        /\ \A m \in 1..(o - 2) : Drop(2)[m] = opnds[m]
        /\ Apart(cpu.used, Drop(2), Kinds)
    BY <2>3, Dropped
  <2>5. clear = FALSE \/ o = 2
    BY <2>3, HeadTask DEF Does, ClearsSafely
  <2>6. o \in Nat /\ o \in 1..o /\ o - 1 \in 1..o /\ Top = opnds[o] /\ Below = opnds[o - 1]
    BY <1>0, <2>4 DEF Top, Below
  <2> HIDE DEF o
  <2>7. RegOf(Below.loc) \subseteq cpu.used /\ RegOf(Top.loc) \subseteq cpu.used
    BY <1>0, <2>6 DEF Apart, o
  <2>8. /\ RegOf(c.r) \subseteq s.used
        /\ clear = FALSE => cpu.used \subseteq s.used
        /\ RegOf(c.r) \cap cpu.used \subseteq RegOf(Below.loc) \cup RegOf(Top.loc) \cup {"none"}
    BY <1>0, <2>7, OperatorPool
  <2> HIDE DEF s, c, clear
  <2>9. x.loc = c.r
    BY OperandLoc
  <2> HIDE DEF x
  <2>10. Apart(s.used, Append(Drop(2), x), Kinds)
    <3>1. CASE clear = FALSE
      <4>1. ASSUME "meth" \notin Kinds, NEW i \in 1..Len(Drop(2))
            PROVE  RegOf(Drop(2)[i].loc) \cap RegOf(x.loc) \subseteq {"none"}
        <5>1. Drop(2)[i] = opnds[i] /\ i \in 1..o /\ i # o /\ i # o - 1
          BY <2>4, <2>6
        <5>2. RegOf(opnds[i].loc) \subseteq cpu.used
          BY <1>0, <5>1 DEF Apart, o
        <5>3. /\ RegOf(opnds[i].loc) \cap RegOf(Below.loc) \subseteq {"none"}
              /\ RegOf(opnds[i].loc) \cap RegOf(Top.loc) \subseteq {"none"}
          BY <1>0, <2>6, <4>1, <5>1 DEF Apart, o
        <5> QED
          BY <2>8, <2>9, <5>1, <5>2, <5>3
      <4> QED
        BY <2>4, <2>8, <2>9, <3>1, <4>1, ApartAppend
    <3>2. CASE o = 2
      <4>1. Len(Drop(2)) = 0
        BY <2>4, <3>2
      <4>2. Apart(s.used, Drop(2), Kinds)
        BY <4>1, ApartNone
      <4>3. \A i \in 1..Len(Drop(2)) : RegOf(Drop(2)[i].loc) \cap RegOf(x.loc) \subseteq {"none"}
        BY <4>1
      <4> QED
        BY <2>4, <2>8, <2>9, <4>2, <4>3, ApartAppend
    <3> QED
      BY <2>5, <3>1, <3>2
  <2> QED
    BY <2>1, <2>2, <2>3, <2>10, ReturnInv
<1> QED
  BY <1>1, <1>2, <1>3

\* The outermost call stays the outermost one.
LEMMA BareSame ==
    ASSUME NEW cs, NEW ds, Len(cs) > 0, Len(ds) > 0, ds[1] = cs[1]
    PROVE  Bare(ds) = Bare(cs)
  BY DEF Bare

LEMMA CallStep ==
    ASSUME RunInv, frag' = frag, NEW n \in Nat, NEW kind \in {"call", "meth"}, Call(n, kind)
    PROVE  RunInv'
<1> DEFINE rax == kind = "call" /\ "RAX" \in cpu.used
           s0 == IF rax THEN Push(cpu, cpu.regs["RAX"]) ELSE cpu
           t == BeginCall(s0)
           ds == Append(calls, Frame(t.pad, rax))
           clear == work[1].clear
           tasks == CallTasks(n, clear, "result")
<1>1. Doing("expr") /\ kind \in Kinds /\ calls' = ds /\ Step(t.s, opnds, tasks)
  BY DEF Call, NewNode
<1>2. StackOK(cpu, calls) /\ Machine(cpu) /\ cpu.sp \in Int
  BY DEF RunInv, StackOK, Machine
<1>3. rax \in BOOLEAN
  BY Zenon
<1>4. Machine(s0) /\ s0.cur = cpu.cur /\ s0.tot = cpu.tot /\ s0.sp = cpu.sp + Taken(rax, 1)
  <2>1. CASE rax
    <3>0. rax = TRUE /\ s0 = Push(cpu, cpu.regs["RAX"])
      BY <2>1
    <3>1. Taken(rax, 1) = 1
      BY <3>0 DEF Taken
    <3> HIDE DEF rax, s0
    <3>2. Moves(cpu, s0, 1)
      BY <3>0, PushMoves
    <3>3. DOMAIN s0 = Fields /\ s0.sp = cpu.sp + 1 /\ s0.cur = cpu.cur /\ s0.tot = cpu.tot
      BY <1>2, <3>2 DEF Moves, Machine
    <3>4. Machine(s0)
      BY <1>2, <3>3 DEF Machine
    <3> QED
      BY <3>1, <3>3, <3>4
  <2>2. CASE ~ rax
    <3>0. rax = FALSE /\ s0 = cpu
      BY <2>2
    <3>1. Taken(rax, 1) = 0
      BY <3>0 DEF Taken
    <3> HIDE DEF rax, s0
    <3>2. cpu.sp + 0 = cpu.sp
      BY <1>2
    <3> QED
      BY <1>2, <3>0, <3>1, <3>2
  <2> QED
    BY <2>1, <2>2
<1>12. Grows(cpu, s0)
  <2>1. Grows(cpu, cpu)
    BY DEF Grows
  <2> QED
    BY <2>1, PushGrows
<1>13. rax = FALSE => kind = "meth" \/ "RAX" \notin cpu.used
  OBVIOUS
<1> HIDE DEF rax, s0
<1>5. /\ StackOK(t.s, ds) /\ Len(ds) = Len(calls) + 1 /\ Len(calls) \in Nat
      /\ ds[Len(ds)].rax = rax
      /\ \A i \in 1..Len(calls) : ds[i] = calls[i]
  BY <1>2, <1>3, <1>4, StackCall
<1>6. Len(opnds) \in Nat /\ IsSeq(opnds) /\ work # << >> /\ work[1].k = "expr"
  BY <1>1, HeadTask DEF Doing
<1>7. Apart(cpu.used, opnds, Kinds) /\ DOMAIN cpu = Fields
  BY <1>2 DEF RunInv, Machine
<1>8. Apart(t.s.used, opnds, Kinds)
  <2>1. Grows(s0, t.s)
    BY BeginGrows
  <2> HIDE DEF t
  <2>2. cpu.used \subseteq t.s.used
    BY <1>7, <1>12, <2>1 DEF Grows
  <2> QED
    BY <1>7, <2>2, ApartMore
<1> HIDE DEF ds, t, tasks
<1> DEFINE o == Len(opnds)
           c == Len(calls)
<1>9. o \in Nat /\ c \in Nat /\ Len(ds) = c + 1 /\ \A i \in 1..c : ds[i] = calls[i]
  BY <1>5, <1>6
<1>10. "meth" \notin Kinds /\ ds[c + 1].rax = FALSE =>
         \A m \in 1..o : "RAX" \notin RegOf(opnds[m].loc)
  <2>1. ASSUME "meth" \notin Kinds, ds[c + 1].rax = FALSE PROVE "RAX" \notin cpu.used
    BY <1>1, <1>5, <1>13, <2>1
  <2> QED
    BY <1>7, <2>1 DEF Apart
<1>11. ASSUME NEW q, clear = FALSE \/ o = 0, q.base[c + 1] = o
       PROVE  Chain(tasks, o, c + 1, o + 1, c, q)
  <2>1. Chain(CallTasks(n, clear, "result"), o, c + 1, o + 1, c, q)
    BY <1>9, <1>11, ChainCall
  <2> QED
    BY <2>1 DEF tasks
<1>14. c = 0 \/ Bare(ds) = Bare(calls)
  <2> HIDE DEF c
  <2>1. CASE c > 0
    <3>1. 1 \in 1..c /\ c + 1 > 0
      BY <1>9, <2>1
    <3>2. ds[1] = calls[1] /\ Len(ds) > 0
      BY <1>9, <3>1
    <3> QED
      BY <2>1, <3>2, BareSame DEF c
  <2> QED
    BY <1>9, <2>1
<1>15. \A q : \A o1, c1 \in Nat : Does(work[1], o, c, o1, c1, q) =>
         /\ o1 = o + 1 /\ c1 = c /\ (clear = FALSE \/ o = 0)
         /\ c > 0 => o >= q.base[c]
  <2>1. Takes(work[1]) = 0 /\ Leaves(work[1]) = 1 /\ o - 0 = o
    BY <1>6, <1>9 DEF Takes, Leaves
  <2> HIDE DEF o, c
  <2> QED
    BY <1>6, <1>9, <2>1 DEF Does, ClearsSafely
<1>16. ASSUME NEW b \in [Nat -> Nat], NEW o1 \in Nat, NEW c1 \in Nat,
              Bottoms(b, opnds, calls, Kinds), Does(work[1], o, c, o1, c1, Q(calls, b))
       PROVE  \E b2 \in [Nat -> Nat] :
                /\ Chain(tasks, o, Len(ds), o1, c1, Q(ds, b2))
                /\ c1 = 0 \/ Bare(ds) = Bare(calls)
                /\ \A i \in 1..c1 : b2[i] = b[i]
                /\ Bottoms(b2, opnds, ds, Kinds)
  <2> DEFINE b2 == [b EXCEPT ![c + 1] = o]
             q == Q(ds, b2)
  <2> HIDE DEF o
  <2>1. o1 = o + 1 /\ c1 = c /\ (clear = FALSE \/ o = 0)
    BY <1>15, <1>16
  <2>2. c > 0 => o >= b[c]
    <3>1. Q(calls, b).base = b
      BY DEF Q
    <3> QED
      BY <1>15, <1>16, <3>1
  <2>7. o \in Nat /\ c \in Nat
    BY <1>9
  <2>8. c = Len(calls)
    OBVIOUS
  <2> HIDE DEF c
  <2>9. b2 \in [Nat -> Nat] /\ b2[c + 1] = o /\ \A i \in 1..c : b2[i] = b[i]
    BY <2>7, SetAbove
  <2> HIDE DEF b2
  <2>10. Bottoms(b, opnds, calls, Kinds) /\ Len(calls) = c
    BY <1>16, <2>8
  <2>11. Len(ds) = c + 1 /\ \A i \in 1..c : ds[i] = calls[i]
    BY <1>9
  <2>3. Bottoms(b2, opnds, ds, Kinds)
    <3>1. Opened(b, calls, b2, ds, opnds, Kinds, c, o)
      BY <1>10, <2>2, <2>9, <2>10, <2>11 DEF Opened
    <3> QED
      BY <2>7, <2>10, <3>1, BottomsCall
  <2>4. q.base[c + 1] = o
    BY <2>9 DEF Q
  <2> HIDE DEF q
  <2>5. Chain(tasks, o, c + 1, o + 1, c, q)
    BY <1>11, <2>1, <2>4
  <2>6. Chain(tasks, o, Len(ds), o1, c1, Q(ds, b2))
    BY <1>9, <2>1, <2>5 DEF q
  <2> QED
    BY <1>14, <2>1, <2>3, <2>6, <2>9
<1>17. \A b \in [Nat -> Nat] : \A o1, c1 \in Nat :
         /\ Bottoms(b, opnds, calls, Kinds)
         /\ Does(work[1], Len(opnds), Len(calls), o1, c1, Q(calls, b))
         => \E b2 \in [Nat -> Nat] :
              /\ Chain(tasks, Len(opnds), Len(ds), o1, c1, Q(ds, b2))
              /\ c1 = 0 \/ Bare(ds) = Bare(calls)
              /\ \A i \in 1..c1 : b2[i] = b[i]
              /\ Bottoms(b2, opnds, ds, Kinds)
  BY <1>16
<1> DEFINE s == t.s
<1>18. Step(s, opnds, tasks) /\ calls' = ds
  BY <1>1
<1>19. StackOK(s, ds) /\ Apart(s.used, opnds, Kinds)
  BY <1>5, <1>8
<1>20. IsSeq(opnds) /\ work # << >>
  BY <1>6
<1> HIDE DEF s
<1> QED
  BY Zenon, <1>17, <1>18, <1>19, <1>20, AnyStep

LEMMA ArgStep ==
    ASSUME RunInv, frag' = frag, Arg
    PROVE  RunInv'
<1> DEFINE r == ArgRegs[work[1].i]
           c == Len(calls)
           g == calls[c]
           f == [g EXCEPT !.spilled = Append(@, r)]
           s1 == Push(cpu, cpu.regs[r])
           s2 == use_reg(s1, r)
           s3 == use_reg(cpu, r)
           ds == [calls EXCEPT ![c] = f]
<1>1. Doing("arg")
  BY DEF Arg
<1>2. \/ Step(s2, opnds, << >>) /\ calls' = ds
      \/ Step(s3, opnds, << >>) /\ calls' = calls
  BY DEF Arg
<1>3. work # << >> /\ work[1].k = "arg" /\ IsSeq(opnds) /\ StackOK(cpu, calls)
  BY <1>1 DEF Doing, RunInv
<1>4. PICK b \in [Nat -> Nat], o1, c1 \in Nat :
        Does(work[1], Len(opnds), Len(calls), o1, c1, Q(calls, b))
  BY <1>3, HeadTask
<1>5. Len(calls) > 0
  BY <1>3, <1>4 DEF Does
<1>6. FrameOK(g)
  BY <1>3, <1>5, StackBasics, StackedFront
<1>7. FrameOK(f) /\ f.rax = g.rax /\ f.pad = g.pad /\ Len(f.spilled) = Len(g.spilled) + 1
  <2>1. DOMAIN g = {"pad", "rax", "spilled", "want"} /\ IsSeq(g.spilled)
    BY <1>6 DEF FrameOK
  <2> HIDE DEF g, r
  <2>2. /\ DOMAIN f = {"pad", "rax", "spilled", "want"} /\ f.spilled = Append(g.spilled, r)
        /\ f.rax = g.rax /\ f.pad = g.pad
    BY <2>1
  <2>3. IsSeq(Append(g.spilled, r)) /\ Len(Append(g.spilled, r)) = Len(g.spilled) + 1
    BY <2>1, SeqAppend
  <2> HIDE DEF f
  <2> QED
    BY <1>6, <2>2, <2>3 DEF FrameOK
<1> HIDE DEF f
<1>8. Moves(cpu, s2, 1) /\ Moves(cpu, s3, 0)
  <2>1. Moves(cpu, s1, 1)
    BY PushMoves
  <2>2. Moves(s1, s2, 0) /\ Moves(cpu, s3, 0)
    BY KeepsUse, KeepsMoves
  <2> HIDE DEF s1, s2, s3
  <2>3. Moves(cpu, s2, 1 + 0)
    BY <2>1, <2>2, MovesTrans
  <2> QED
    BY <2>2, <2>3
<1>17. cpu.used \subseteq s2.used /\ cpu.used \subseteq s3.used
  <2>1. DOMAIN cpu = Fields
    BY <1>3 DEF StackOK, Machine
  <2>2. Grows(cpu, s1)
    BY PushGrows
  <2>3. Grows(s1, s2) /\ Grows(cpu, s3)
    BY KeepsUse, KeepsGrows
  <2> HIDE DEF s1, s2, s3
  <2> QED
    BY <2>1, <2>2, <2>3 DEF Grows
<1> HIDE DEF s2, s3
<1>20. StackOK(s2, ds) /\ Len(ds) = Len(calls) /\ Bare(ds) = Bare(calls)
  BY <1>3, <1>5, <1>7, <1>8, StackSpill
<1>21. \A i \in 1..Len(calls) : ds[i].rax = calls[i].rax
  <2>1. IsSeq(calls)
    BY <1>3 DEF StackOK, Stacked
  <2> QED
    BY <1>7, <2>1, SpillFlags
<1>10. StackOK(s3, calls)
  BY <1>3, <1>8, StackMoved
<1> HIDE DEF ds
<1>9. /\ StackOK(s2, ds) /\ Len(ds) = Len(calls) /\ Bare(ds) = Bare(calls)
      /\ \A i \in 1..Len(ds) : ds[i].rax = calls[i].rax
  BY <1>20, <1>21
<1>11. Len(opnds) \in Nat /\ Len(calls) \in Nat
  BY <1>3, HeadTask
<1>12. ASSUME NEW cs, Len(cs) = Len(calls), NEW b1, NEW o2 \in Nat, NEW c2 \in Nat,
              Does(work[1], Len(opnds), Len(calls), o2, c2, Q(calls, b1))
       PROVE  Chain(<< >>, Len(opnds), Len(cs), o2, c2, Q(cs, b1))
  <2>1. o2 = Len(opnds) /\ c2 = Len(calls)
    BY <1>3, <1>11, <1>12 DEF Does, Takes, Leaves
  <2> QED
    BY <1>12, <2>1, ChainNone
<1>13. Takes(work[1]) = 0
  BY <1>3 DEF Takes
<1>14. \A m \in 1..(Len(opnds) - Takes(work[1])) : opnds[m] = opnds[m]
  OBVIOUS
<1>15. Len(calls) \in 0..Len(calls) /\ Len(ds) \in 0..Len(calls)
  BY <1>9, <1>11
<1>16. Apart(s2.used, opnds, Kinds) /\ Apart(s3.used, opnds, Kinds)
  <2>1. cpu.used \subseteq s2.used /\ cpu.used \subseteq s3.used
    BY <1>17
  <2>2. Apart(cpu.used, opnds, Kinds)
    BY DEF RunInv
  <2> QED
    BY <2>1, <2>2, ApartMore
<1>18. CASE Step(s2, opnds, << >>) /\ calls' = ds
  BY <1>3, <1>9, <1>12, <1>14, <1>15, <1>16, <1>18, StepInv
<1>19. CASE Step(s3, opnds, << >>) /\ calls' = calls
  BY <1>3, <1>10, <1>12, <1>14, <1>15, <1>16, <1>19, StepInv
<1> QED
  BY <1>2, <1>18, <1>19

LEMMA PassStep ==
    ASSUME RunInv, frag' = frag, Pass
    PROVE  RunInv'
<1> DEFINE r == ArgRegs[work[1].i]
           src == IF Top.arr THEN At(Top.loc.r) ELSE Top.loc
           c == Len(calls)
           g == calls[c]
           f == [g EXCEPT !.want = Append(@, Top.want)]
           s == Mov(cpu, src, InReg(r))
           ds == [calls EXCEPT ![c] = f]
<1>1. Doing("pass") /\ Step(s, Drop(1), << >>) /\ calls' = ds
  BY DEF Pass
<1>2. Moves(cpu, s, 0) /\ Grows(cpu, s)
  BY KeepsMov, KeepsMoves, KeepsGrows
<1> HIDE DEF s
<1>3. work # << >> /\ work[1].k = "pass" /\ StackOK(cpu, calls)
  BY <1>1 DEF Doing, RunInv
<1>4. PICK b \in [Nat -> Nat], o1, c1 \in Nat :
        Does(work[1], Len(opnds), Len(calls), o1, c1, Q(calls, b))
  BY <1>3, HeadTask
<1>5. Len(calls) > 0
  BY <1>3, <1>4 DEF Does
<1>6. FrameOK(g)
  BY <1>3, <1>5, StackBasics, StackedFront
<1>7. FrameOK(f) /\ f.rax = g.rax /\ f.pad = g.pad /\ Len(f.spilled) = Len(g.spilled) + 0
  <2>1. DOMAIN g = {"pad", "rax", "spilled", "want"} /\ Len(g.spilled) \in Nat
    BY <1>6, SeqFacts DEF FrameOK
  <2> HIDE DEF g
  <2>2. /\ DOMAIN f = {"pad", "rax", "spilled", "want"} /\ f.spilled = g.spilled
        /\ f.rax = g.rax /\ f.pad = g.pad
    BY <2>1
  <2> HIDE DEF f
  <2> QED
    BY <1>6, <2>1, <2>2 DEF FrameOK
<1> HIDE DEF f
<1>10. StackOK(s, ds) /\ Len(ds) = Len(calls) /\ Bare(ds) = Bare(calls)
  BY <1>2, <1>3, <1>5, <1>7, StackSpill
<1>11. \A i \in 1..Len(calls) : ds[i].rax = calls[i].rax
  <2>1. IsSeq(calls)
    BY <1>3 DEF StackOK, Stacked
  <2> QED
    BY <1>7, <2>1, SpillFlags
<1>9. cpu.used \subseteq s.used
  BY <1>2, <1>3 DEF Grows, StackOK, Machine
<1> HIDE DEF ds
<1>8. /\ StackOK(s, ds) /\ Len(ds) = Len(calls) /\ Bare(ds) = Bare(calls)
      /\ \A i \in 1..Len(ds) : ds[i].rax = calls[i].rax
  BY <1>10, <1>11
<1> QED
  BY <1>1, <1>3, <1>8, <1>9, UseInv

\* What EndCall leaves of the slots of the call: the one of RAX.
LEMMA EndMoves ==
    ASSUME StackOK(cpu, calls), Len(calls) > 0
    PROVE  LET f == calls[Len(calls)]
               m == Taken(f.pad, Pad(cpu.tot)) + Len(f.spilled)
           IN  /\ FrameOK(f) /\ m \in Nat /\ Moves(cpu, EndCall(cpu, f), 0 - m)
               /\ Saved(f, Pad(cpu.tot)) = Taken(f.rax, 1) + m
<1> DEFINE f == calls[Len(calls)]
           d == Pad(cpu.tot)
           m == Taken(f.pad, d) + Len(f.spilled)
<1>1. Machine(cpu) /\ d \in Nat /\ FrameOK(f)
  BY StackBasics, StackedFront
<1> HIDE DEF f
<1>2. Moves(cpu, EndCall(cpu, f), -m)
  BY <1>1, EndEffect
<1>3. Len(f.spilled) \in Nat
  BY <1>1, SeqFacts DEF FrameOK
<1> HIDE DEF d
<1>4. Taken(f.pad, d) \in Nat /\ Taken(f.rax, 1) \in Nat
  BY <1>1 DEF Taken
<1>5. m \in Nat /\ -m = 0 - m
  BY <1>3, <1>4
<1>6. Saved(f, d) = Taken(f.rax, 1) + m
  BY <1>3, <1>4 DEF Saved
<1> QED
  BY <1>1, <1>2, <1>5, <1>6 DEF f, d

LEMMA ResultStep ==
    ASSUME RunInv, frag' = frag, Result
    PROVE  RunInv'
<1> DEFINE f == calls[Len(calls)]
           e == EndCall(cpu, f)
           t == IntoReg(e, InReg("RAX")).s
           u == Pop(t, "RAX")
           d == Pad(cpu.tot)
           m == Taken(f.pad, d) + Len(f.spilled)
           ds == Front(calls)
<1>1. Doing("result") /\ calls' = ds
  BY DEF Result
<1>2. \/ f.rax /\ \E x : /\ Step(u, Append(opnds, x), << >>)
                         /\ x.loc = IntoReg(e, InReg("RAX")).loc
      \/ ~ f.rax /\ \E x : /\ Step(e, Append(opnds, x), << >>)
                           /\ x.loc = InReg("RAX")
  <2> DEFINE want == Callee(f.want)
             x == Operand(IntoReg(e, InReg("RAX")).loc, want, FALSE)
             y == Operand(InReg("RAX"), want, FALSE)
  <2>1. \/ f.rax /\ Step(u, Append(opnds, x), << >>)
        \/ ~ f.rax /\ Step(e, Append(opnds, y), << >>)
    BY DEF Result
  <2>2. x.loc = IntoReg(e, InReg("RAX")).loc /\ y.loc = InReg("RAX")
    BY OperandLoc
  <2> HIDE DEF x, y, u, e, f
  <2> QED
    BY <2>1, <2>2
<1>3. work # << >> /\ work[1].k = "result" /\ IsSeq(opnds) /\ StackOK(cpu, calls)
  BY <1>1 DEF Doing, RunInv
<1>4. PICK b \in [Nat -> Nat], o1, c1 \in Nat :
        /\ Does(work[1], Len(opnds), Len(calls), o1, c1, Q(calls, b))
        /\ Bottoms(b, opnds, calls, Kinds)
  BY <1>3, HeadTask
<1>5. Len(calls) > 0
  BY <1>3, <1>4 DEF Does
<1>6. /\ FrameOK(f) /\ m \in Nat /\ Moves(cpu, e, 0 - m)
      /\ Saved(f, d) = Taken(f.rax, 1) + m
  BY <1>3, <1>5, EndMoves
<1>20. DOMAIN cpu = Fields /\ Apart(cpu.used, opnds, Kinds)
  BY <1>3 DEF RunInv, StackOK, Machine
<1>21. Grows(cpu, e) /\ "RAX" \in e.used
  BY <1>20, EndGrows
<1> DEFINE loc == IntoReg(e, InReg("RAX")).loc
<1>22. Got(e, t, loc) /\ Grows(e, t) /\ Grows(t, u)
  BY IntoRegGets, KeepsIntoReg, KeepsGrows, PopGrows
<1> HIDE DEF loc
<1>23. Grows(cpu, u) /\ Got(cpu, u, loc)
  <2> HIDE DEF e, t, u
  <2>1. DOMAIN e = Fields /\ DOMAIN t = Fields /\ cpu.used \subseteq e.used
    BY <1>20, <1>21, <1>22 DEF Grows
  <2>2. t.used \subseteq u.used /\ DOMAIN u = Fields /\ e.used \subseteq t.used
    BY <1>22, <2>1 DEF Grows
  <2>3. RegOf(loc) \subseteq t.used /\ RegOf(loc) \cap e.used \subseteq {"none"}
    BY <1>22, <2>1 DEF Got
  <2> QED
    BY <2>1, <2>2, <2>3 DEF Grows, Got
<1> HIDE DEF e, m, d
<1>7. f.rax => Moves(cpu, u, 0 - Saved(f, d))
  <2> SUFFICES ASSUME f.rax PROVE Moves(cpu, u, 0 - Saved(f, d))
    OBVIOUS
  <2>1. Taken(f.rax, 1) = 1
    BY DEF Taken
  <2>2. Moves(e, t, 0)
    BY KeepsIntoReg, KeepsMoves
  <2> HIDE DEF f, t
  <2>3. Moves(t, u, -1)
    BY PopMoves
  <2> HIDE DEF u
  <2>4. Moves(cpu, t, (0 - m) + 0)
    BY <1>6, <2>2, MovesTrans
  <2>5. Moves(cpu, u, (0 - m) + 0 + (-1))
    BY <1>6, <2>3, <2>4, MovesTrans
  <2>6. (0 - m) + 0 + (-1) = 0 - Saved(f, d)
    <3>1. Saved(f, d) = 1 + m
      BY <1>6, <2>1
    <3>2. (0 - m) + 0 + (-1) = 0 - (1 + m)
      BY <1>6
    <3> QED
      BY <3>1, <3>2
  <2> QED
    BY <2>5, <2>6
<1>8. ~ f.rax => Moves(cpu, e, 0 - Saved(f, d))
  <2> SUFFICES ASSUME ~ f.rax PROVE Moves(cpu, e, 0 - Saved(f, d))
    OBVIOUS
  <2>1. Taken(f.rax, 1) = 0
    BY DEF Taken
  <2> HIDE DEF f
  <2>2. Saved(f, d) = m
    BY <1>6, <2>1
  <2> QED
    BY <1>6, <2>2
<1> HIDE DEF u
<1>14. Len(opnds) \in Nat /\ Len(calls) \in Nat
  BY <1>3, HeadTask
<1>24. ~ f.rax => f.rax = FALSE
  <2>1. f.rax \in BOOLEAN
    BY <1>6 DEF FrameOK
  <2> HIDE DEF f
  <2> QED
    BY <2>1
<1>25. ASSUME "meth" \notin Kinds, ~ f.rax, NEW i \in 1..Len(opnds)
       PROVE  "RAX" \notin RegOf(opnds[i].loc)
  <2> DEFINE c == Len(calls)
             o == Len(opnds)
  <2>1. o = b[c]
    <3>1. Q(calls, b).base = b
      BY DEF Q
    <3> QED
      BY <1>3, <1>4, <3>1 DEF Does
  <2>2. c \in 1..c /\ calls[c].rax = FALSE
    BY <1>5, <1>14, <1>24, <1>25
  <2>3. \A k \in 1..c : "meth" \notin Kinds /\ calls[k].rax = FALSE =>
          \A n \in 1..b[k] : "RAX" \notin RegOf(opnds[n].loc)
    BY <1>4 DEF Bottoms
  <2>4. i \in 1..o
    OBVIOUS
  <2> HIDE DEF c, o
  <2> QED
    BY <1>25, <2>1, <2>2, <2>3, <2>4
<1>26. ASSUME f.rax, NEW x, x.loc = loc PROVE Apart(u.used, Append(opnds, x), Kinds)
  BY <1>3, <1>20, <1>23, <1>26, ApartFresh
<1>27. ASSUME ~ f.rax, NEW x, x.loc = InReg("RAX")
       PROVE  Apart(e.used, Append(opnds, x), Kinds)
  <2>1. RegOf(x.loc) = {"RAX"}
    BY <1>27, RegOfReg
  <2>2. cpu.used \subseteq e.used /\ RegOf(x.loc) \subseteq e.used
    BY <1>20, <1>21, <2>1 DEF Grows
  <2>3. "meth" \notin Kinds =>
          \A i \in 1..Len(opnds) : RegOf(opnds[i].loc) \cap RegOf(x.loc) \subseteq {"none"}
    BY <1>25, <1>27, <2>1
  <2> QED
    BY <1>3, <1>20, <2>2, <2>3, ApartAppend
<1>9. \E s, x : /\ Step(s, Append(opnds, x), << >>) /\ Moves(cpu, s, 0 - Saved(f, d))
               /\ Apart(s.used, Append(opnds, x), Kinds)
  <2>1. \/ f.rax /\ \E x : Step(u, Append(opnds, x), << >>) /\ x.loc = loc
        \/ ~ f.rax /\ \E x : Step(e, Append(opnds, x), << >>) /\ x.loc = InReg("RAX")
    BY <1>2 DEF loc
  <2> HIDE DEF f
  <2> QED
    BY <1>7, <1>8, <1>26, <1>27, <2>1
<1>10. PICK s, x : /\ Step(s, Append(opnds, x), << >>) /\ Moves(cpu, s, 0 - Saved(f, d))
                   /\ Apart(s.used, Append(opnds, x), Kinds)
  BY <1>9
<1>11. /\ StackOK(s, ds) /\ Len(ds) = Len(calls) - 1
       /\ Len(calls) = 1 \/ Bare(ds) = Bare(calls)
       /\ \A i \in 1..Len(calls) - 1 : ds[i] = calls[i]
  BY <1>3, <1>5, <1>10, StackReturn DEF d
<1> HIDE DEF ds
<1> DEFINE ops == Append(opnds, x)
<1>12. /\ IsSeq(ops) /\ Len(ops) = Len(opnds) + 1
       /\ \A i \in 1..Len(opnds) : ops[i] = opnds[i]
  BY <1>3, SeqAppend
<1>16. Step(s, ops, << >>) /\ Apart(s.used, ops, Kinds)
  BY <1>10
<1> HIDE DEF ops
<1>13. ASSUME NEW b1 \in [Nat -> Nat], NEW o2 \in Nat, NEW c2 \in Nat,
              Does(work[1], Len(opnds), Len(calls), o2, c2, Q(calls, b1))
       PROVE  /\ Chain(<< >>, Len(ops), Len(ds), o2, c2, Q(ds, b1))
              /\ c2 = 0 \/ Bare(ds) = Bare(calls)
  <2>1. o2 = Len(opnds) + 1 /\ c2 = Len(calls) - 1
    BY <1>3, <1>13, <1>14 DEF Does, Takes, Leaves
  <2>2. Chain(<< >>, o2, c2, o2, c2, Q(ds, b1))
    BY ChainNone
  <2>3. Len(ops) = o2 /\ Len(ds) = c2
    BY <1>11, <1>12, <2>1
  <2>4. Chain(<< >>, Len(ops), Len(ds), o2, c2, Q(ds, b1))
    BY <2>2, <2>3
  <2>5. CASE Len(calls) = 1
    BY <2>1, <2>4, <2>5
  <2>6. CASE Bare(ds) = Bare(calls)
    BY <2>4, <2>6
  <2> QED
    BY <1>11, <2>5, <2>6
<1>15. \A i \in 1..(Len(opnds) - Takes(work[1])) : ops[i] = opnds[i]
  <2>1. Takes(work[1]) = 0 /\ Len(opnds) - 0 = Len(opnds)
    BY <1>3, <1>14 DEF Takes
  <2> QED
    BY <1>12, <2>1
<1>17. Len(ds) \in 0..Len(calls) /\ \A i \in 1..Len(ds) : ds[i].rax = calls[i].rax
  <2>1. Len(ds) \in 0..Len(calls)
    <3>1. \A n \in Nat : n > 0 => n - 1 \in 0..n
      OBVIOUS
    <3> QED
      BY Zenon, <1>5, <1>11, <1>14, <3>1
  <2>2. \A i \in 1..Len(ds) : ds[i] = calls[i]
    BY <1>11
  <2> QED
    BY <2>1, <2>2
<1> QED
  BY <1>1, <1>3, <1>11, <1>12, <1>13, <1>15, <1>16, <1>17, StepInv

\* The first task is that of a statement, and it gives its variables slots.
LEMMA BeginStmt ==
    ASSUME RunInv, work # << >>, work[1].k = "stmts", NEW n \in Nat, NEW zero
    PROVE  LET s == alloc_stack(cpu, n, zero)
           IN  Machine(s) /\ s.sp = s.cur
<1> DEFINE s == alloc_stack(cpu, n, zero)
<1>1. Machine(cpu) /\ cpu.sp = cpu.cur
  BY AtStmts
<1>2. Machine(s) /\ s.sp - s.cur = cpu.sp - cpu.cur
  BY <1>1, AllocEffect
<1> HIDE DEF s
<1>3. s.sp \in Int /\ s.cur \in Int /\ cpu.sp \in Int
  BY <1>1, <1>2 DEF Machine
<1>4. s.sp = s.cur
  BY <1>1, <1>2, <1>3
<1> QED
  BY <1>2, <1>4 DEF s

\* A statement whose code moves neither the stack nor the variables further.
LEMMA PlainStmt ==
    ASSUME RunInv, frag' = frag, Doing("stmts"), NEW s, Machine(s), s.sp = s.cur,
           NEW t, Moves(s, t, 0), NEW tasks,
           Step(t, opnds, tasks), calls' = calls,
           \A q : Chain(tasks, 0, 0, 0, 0, q)
    PROVE  RunInv'
<1>1. work # << >> /\ work[1].k = "stmts"
  BY DEF Doing
<1>2. calls = << >> /\ Len(calls) = 0
  BY <1>1, AtStmts
<1>3. StackOK(t, calls)
  <2>1. StackOK(s, << >>)
    BY StackClear
  <2> QED
    BY <1>2, <2>1, StackMoved
<1>4. Chain(tasks, 0, Len(calls), 0, 0, Q(calls, Zero))
  BY <1>2
<1>5. Len(calls) \in Nat
  BY <1>2
<1> QED
  BY <1>1, <1>3, <1>4, <1>5, StmtInv

\* The tasks of a statement: an expression, its use, the statements after it.
LEMMA StmtTasks ==
    ASSUME NEW a, "k" \in DOMAIN a, a.k = "expr",
           NEW b, "k" \in DOMAIN b, b.k \in {"assign", "field", "item", "cond"},
           NEW q, Does(Rest, 0, 0, 0, 0, q)
    PROVE  Chain(<< a, b, Rest >>, 0, 0, 0, 0, q)
<1>1. Does(a, 0, 0, 1, 0, q)
  BY DoesFirst
<1>2. Does(b, 1, 0, 0, 0, q)
  BY DoesUse
<1> HIDE DEF Rest
<1> QED
  BY <1>1, <1>2, ChainThree

LEMMA AssignShape ==
    ASSUME NEW l, NEW larr, NEW n
    PROVE  "k" \in DOMAIN Assign(l, larr, n) /\ Assign(l, larr, n).k = "assign"
  BY DEF Assign

LEMMA WholeShape ==
    ASSUME NEW clear, NEW arr
    PROVE  "k" \in DOMAIN Whole(clear, arr) /\ Whole(clear, arr).k = "expr"
  BY DEF Whole, E

\* Statements that assign the value of an expression.
LEMMA AssignsStep ==
    ASSUME RunInv, frag' = frag,
           \/ Let
           \/ \E i \in DOMAIN vars : Set(i) \/ SetDeref(i)
           \/ \E i \in DOMAIN vars, j \in 0..1 : SetElement(i, j)
    PROVE  RunInv'
<1>1. ASSUME Doing("stmts"), NEW s, Machine(s), s.sp = s.cur, NEW t, Moves(s, t, 0),
             NEW l, NEW larr, NEW n, calls' = calls,
             Step(t, opnds, << Whole(TRUE, "addr"), Assign(l, larr, n), Rest >>)
      PROVE  RunInv'
  <2>1. work # << >> /\ work[1].k = "stmts"
    BY <1>1 DEF Doing
  <2>2. \A q : Does(Rest, 0, 0, 0, 0, q)
    BY <2>1, AtStmts
  <2> DEFINE tasks == << Whole(TRUE, "addr"), Assign(l, larr, n), Rest >>
  <2>3. \A q : Chain(tasks, 0, 0, 0, 0, q)
    BY <2>2, WholeShape, AssignShape, StmtTasks
  <2> HIDE DEF tasks
  <2>4. Step(t, opnds, tasks)
    BY <1>1 DEF tasks
  <2> QED
    BY <1>1, <2>3, <2>4, PlainStmt
<1>2. ASSUME Doing("stmts") PROVE Machine(cpu) /\ cpu.sp = cpu.cur
  BY <1>2, AtStmts DEF Doing
<1>3. ASSUME Let PROVE RunInv'
  <2> DEFINE s == alloc_stack(cpu, 1, TRUE)
  <2>1. /\ Doing("stmts") /\ calls' = calls
        /\ Step(s, opnds, << Whole(TRUE, "addr"), Assign(Slot(s.cur), FALSE, s.cur), Rest >>)
    BY <1>3 DEF Let, NewStmt
  <2>2. Machine(s) /\ s.sp = s.cur
    BY <2>1, BeginStmt DEF Doing
  <2> HIDE DEF s
  <2>3. Moves(s, s, 0)
    BY KeepsSame, KeepsMoves
  <2> QED
    BY <1>1, <2>1, <2>2, <2>3
<1>4. ASSUME NEW i, Set(i) PROVE RunInv'
  <2> DEFINE n == vars[i].n
  <2>1. /\ Doing("stmts") /\ calls' = calls
        /\ Step(cpu, opnds, << Whole(TRUE, "addr"), Assign(Slot(n), FALSE, n), Rest >>)
    BY <1>4 DEF Set, NewStmt
  <2> HIDE DEF n
  <2>2. Moves(cpu, cpu, 0)
    BY KeepsSame, KeepsMoves
  <2> QED
    BY <1>1, <1>2, <2>1, <2>2
<1>5. ASSUME NEW i, SetDeref(i) PROVE RunInv'
  <2> DEFINE t == IntoReg(cpu, Slot(vars[i].n))
             l == At(t.loc.r)
             n == SlotAt(env[vars[i].n])
  <2>1. /\ Doing("stmts") /\ calls' = calls
        /\ Step(t.s, opnds, << Whole(TRUE, "addr"), Assign(l, FALSE, n), Rest >>)
    BY <1>5 DEF SetDeref, NewStmt
  <2>2. Moves(cpu, t.s, 0)
    BY KeepsIntoReg, KeepsMoves
  <2> HIDE DEF l, n, t
  <2> QED
    BY <1>1, <1>2, <2>1, <2>2
<1>6. ASSUME NEW i, NEW j, SetElement(i, j) PROVE RunInv'
  <2> DEFINE t == index_arr(cpu, vars[i].n, Lit(j), TRUE)
             n == vars[i].n - j
  <2>1. /\ Doing("stmts") /\ calls' = calls
        /\ Step(t.s, opnds, << Whole(TRUE, "addr"), Assign(t.loc, TRUE, n), Rest >>)
    BY <1>6 DEF SetElement, NewStmt
  <2>2. Moves(cpu, t.s, 0)
    BY KeepsIndex, KeepsMoves
  <2> HIDE DEF t, n
  <2> QED
    BY <1>1, <1>2, <2>1, <2>2
<1> QED
  BY <1>3, <1>4, <1>5, <1>6

\* A statement that is complete at once.
LEMMA AtOnceStep ==
    ASSUME RunInv, frag' = frag,
           \E i \in DOMAIN vars : LetAddr(i)
    PROVE  RunInv'
<1>1. ASSUME Doing("stmts") PROVE \A q : Chain(<<Rest>>, 0, 0, 0, 0, q)
  <2>1. \A q : Does(Rest, 0, 0, 0, 0, q)
    BY <1>1, AtStmts DEF Doing
  <2> HIDE DEF Rest
  <2> QED
    BY <2>1, ChainOne
<1>2. ASSUME NEW i, LetAddr(i) PROVE RunInv'
  <2> DEFINE s == alloc_stack(cpu, 1, TRUE)
             r == free_reg(s)
             u == use_reg(s, r)
             s1 == Lea(u, Slot(vars[i].n), r)
             t == Store(s1, Slot(s.cur), FALSE, InReg(r), FALSE)
  <2>1. Doing("stmts") /\ calls' = calls /\ Step(t, opnds, <<Rest>>)
    BY <1>2 DEF LetAddr, NewStmt
  <2>2. Machine(s) /\ s.sp = s.cur
    BY <2>1, BeginStmt DEF Doing
  <2> HIDE DEF s
  <2>3. Keeps(s, u)
    BY KeepsUse
  <2> HIDE DEF u
  <2>4. Keeps(u, s1)
    BY KeepsLea
  <2> HIDE DEF s1
  <2>5. Moves(s1, t, 0)
    BY StoreMoves
  <2> HIDE DEF t
  <2>6. Moves(s, t, 0)
    <3>1. Moves(s, s1, 0)
      BY <2>3, <2>4, KeepsTrans, KeepsMoves
    <3>2. Moves(s, t, 0 + 0)
      BY <2>5, <3>1, MovesTrans
    <3> QED
      BY <3>2
  <2>7. \A q : Chain(<<Rest>>, 0, 0, 0, 0, q)
    BY <1>1, <2>1
  <2> DEFINE tasks == <<Rest>>
  <2>8. Step(t, opnds, tasks) /\ \A q : Chain(tasks, 0, 0, 0, 0, q)
    BY <2>1, <2>7
  <2> HIDE DEF tasks
  <2> QED
    BY <2>1, <2>2, <2>6, <2>8, PlainStmt
<1> QED
  BY <1>2

\* Conditions and the tags of enumerations.
LEMMA IfEnumStep ==
    ASSUME RunInv, frag' = frag, If \/ \E tag \in 0..1 : LetEnum(tag)
    PROVE  RunInv'
<1>1. ASSUME Doing("stmts") PROVE \A q : Does(Rest, 0, 0, 0, 0, q)
  BY <1>1, AtStmts DEF Doing
<1>2. ASSUME If PROVE RunInv'
  <2> DEFINE a == E("bool", TRUE, "no", "whole", "none")
             b == [k |-> "cond"]
             tasks == << a, b, Rest >>
  <2>1. Doing("stmts") /\ calls' = calls /\ Step(cpu, opnds, tasks)
    BY <1>2 DEF If, NewStmt
  <2>2. Machine(cpu) /\ cpu.sp = cpu.cur
    BY <2>1, AtStmts DEF Doing
  <2>3. "k" \in DOMAIN a /\ a.k = "expr" /\ "k" \in DOMAIN b /\ b.k = "cond"
    BY DEF E
  <2> HIDE DEF a, b
  <2>4. \A q : Chain(tasks, 0, 0, 0, 0, q)
    BY <1>1, <2>1, <2>3, StmtTasks
  <2> HIDE DEF tasks
  <2>5. Moves(cpu, cpu, 0)
    BY KeepsSame, KeepsMoves
  <2> QED
    BY <2>1, <2>2, <2>4, <2>5, PlainStmt
<1>3. ASSUME NEW tag, LetEnum(tag) PROVE RunInv'
  <2> DEFINE s == alloc_stack(cpu, 2, FALSE)
             t == Mov(s, Lit(tag), Slot(s.cur))
             a == Part("item")
             b == [k |-> "item", n |-> s.cur - 1, new |-> << Var(s.cur - 1, "int") >>]
             ab == << a, b >>
             tasks == ab \o << Rest >>
  <2>1. Doing("stmts") /\ calls' = calls /\ Step(t, opnds, tasks)
    BY <1>3 DEF LetEnum, NewStmt, Item
  <2>2. Machine(s) /\ s.sp = s.cur
    BY <2>1, BeginStmt DEF Doing
  <2>3. "k" \in DOMAIN a /\ a.k = "expr" /\ "k" \in DOMAIN b /\ b.k = "item"
    BY DEF Part, E
  <2> HIDE DEF a, b, s
  <2>4. \A q : Chain(ab, 0, 0, 0, 0, q) /\ Chain(<<Rest>>, 0, 0, 0, 0, q)
    <3> TAKE q
    <3>1. Does(a, 0, 0, 1, 0, q) /\ Does(b, 1, 0, 0, 0, q)
      BY <2>3, DoesFirst, DoesUse
    <3>2. Chain(ab, 0, 0, 0, 0, q)
      BY <3>1, ChainTwo
    <3>3. Does(Rest, 0, 0, 0, 0, q)
      BY <1>1, <2>1
    <3> HIDE DEF Rest
    <3>4. Chain(<<Rest>>, 0, 0, 0, 0, q)
      BY <3>3, ChainOne
    <3> QED
      BY <3>2, <3>4
  <2> HIDE DEF ab
  <2>5. \A q : Chain(tasks, 0, 0, 0, 0, q)
    <3> HIDE DEF Rest
    <3> QED
      BY <2>4, ChainJoin
  <2>6. Moves(s, t, 0)
    BY KeepsMov, KeepsMoves
  <2> HIDE DEF tasks, t
  <2> QED
    BY <2>1, <2>2, <2>5, <2>6, PlainStmt
<1> QED
  BY <1>2, <1>3

\* The fields of a struct, the items of an array: two expressions, each of
\* which is used at once.
LEMMA PartsStep ==
    ASSUME RunInv, frag' = frag, LetStruct \/ LetArray
    PROVE  RunInv'
<1>1. ASSUME NEW zero, NEW side, NEW f, NEW g,
             "k" \in DOMAIN f, f.k \in {"field", "item"},
             "k" \in DOMAIN g, g.k \in {"field", "item"},
             Doing("stmts"), calls' = calls,
             Step(alloc_stack(cpu, 2, zero), opnds,
                  << Part(side), f >> \o << Part(side), g >> \o <<Rest>>)
      PROVE  RunInv'
  <2> DEFINE s == alloc_stack(cpu, 2, zero)
             w == Part(side)
             a == << w, f >>
             b == << w, g >>
             ab == a \o b
             tasks == ab \o <<Rest>>
  <2>1. Step(s, opnds, tasks)
    BY <1>1
  <2>2. Machine(s) /\ s.sp = s.cur
    BY <1>1, BeginStmt DEF Doing
  <2>3. \A q : Does(Rest, 0, 0, 0, 0, q)
    BY <1>1, AtStmts DEF Doing
  <2>4. Moves(s, s, 0)
    BY KeepsSame, KeepsMoves
  <2>5. "k" \in DOMAIN w /\ w.k = "expr"
    BY DEF Part, E
  <2> HIDE DEF s, w
  <2>6. \A q : Chain(a, 0, 0, 0, 0, q) /\ Chain(b, 0, 0, 0, 0, q)
    <3> TAKE q
    <3>1. Does(w, 0, 0, 1, 0, q)
      BY <2>5, DoesFirst
    <3>2. Does(f, 1, 0, 0, 0, q) /\ Does(g, 1, 0, 0, 0, q)
      BY <1>1, DoesUse
    <3> QED
      BY <3>1, <3>2, ChainTwo
  <2> HIDE DEF a, b
  <2>7. \A q : Chain(ab, 0, 0, 0, 0, q)
    BY <2>6, ChainJoin
  <2> HIDE DEF ab
  <2>8. \A q : Chain(<<Rest>>, 0, 0, 0, 0, q)
    <3> HIDE DEF Rest
    <3> QED
      BY <2>3, ChainOne
  <2>9. \A q : Chain(tasks, 0, 0, 0, 0, q)
    <3> HIDE DEF Rest
    <3> QED
      BY <2>7, <2>8, ChainJoin
  <2> HIDE DEF tasks
  <2> QED
    BY <1>1, <2>1, <2>2, <2>4, <2>9, PlainStmt
<1>2. ASSUME LetStruct PROVE RunInv'
  <2> DEFINE n == alloc_stack(cpu, 2, TRUE).cur
             F(i) == [k |-> "field", n |-> i]
  <2>1. \A i : "k" \in DOMAIN F(i) /\ F(i).k \in {"field", "item"}
    OBVIOUS
  <2>2. /\ Doing("stmts") /\ calls' = calls
        /\ Step(alloc_stack(cpu, 2, TRUE), opnds,
                << Part("whole"), F(n) >> \o << Part("whole"), F(n - 1) >> \o <<Rest>>)
    BY <1>2 DEF LetStruct, NewStmt
  <2> HIDE DEF F, n
  <2> QED
    BY <1>1, <2>1, <2>2
<1>3. ASSUME LetArray PROVE RunInv'
  <2> DEFINE n == alloc_stack(cpu, 2, FALSE).cur
             Elem(i, new) == [k |-> "item", n |-> i, new |-> new]
  <2>1. \A i, new : "k" \in DOMAIN Elem(i, new) /\ Elem(i, new).k \in {"field", "item"}
    OBVIOUS
  <2>2. /\ Doing("stmts") /\ calls' = calls
        /\ Step(alloc_stack(cpu, 2, FALSE), opnds,
                << Part("item"), Elem(n, << >>) >>
                  \o << Part("item"), Elem(n - 1, << Var(n, "arr") >>) >> \o <<Rest>>)
    BY <1>3 DEF LetArray, NewStmt, Item
  <2> HIDE DEF Elem, n
  <2> QED
    BY <1>1, <2>1, <2>2
<1> QED
  BY <1>2, <1>3

LEMMA RetStep ==
    ASSUME RunInv, frag' = frag, Ret
    PROVE  RunInv'
<1> DEFINE w == Whole(TRUE, IF "retelem" \in Kinds THEN "val" ELSE "no")
           b == [k |-> "ret"]
           tasks == << w, b >>
<1>1. Doing("stmts") /\ calls' = calls /\ Step(cpu, opnds, tasks)
  BY DEF Ret, NewStmt
<1>2. Machine(cpu) /\ cpu.sp = cpu.cur
  BY <1>1, AtStmts DEF Doing
<1>3. Moves(cpu, cpu, 0)
  BY KeepsSame, KeepsMoves
<1>4. "k" \in DOMAIN w /\ w.k = "expr" /\ "k" \in DOMAIN b /\ b.k = "ret"
  BY WholeShape
<1> HIDE DEF w, b
<1>5. \A q : Chain(tasks, 0, 0, 0, 0, q)
  <2> TAKE q
  <2>1. Does(w, 0, 0, 1, 0, q) /\ Does(b, 1, 0, 0, 0, q)
    BY <1>4, DoesFirst, DoesUse
  <2> QED
    BY <2>1, ChainTwo
<1> HIDE DEF tasks
<1> QED
  BY <1>1, <1>2, <1>3, <1>5, PlainStmt

LEMMA CallStmtStep ==
    ASSUME RunInv, frag' = frag, NEW n \in Nat, CallStmt(n)
    PROVE  RunInv'
<1> DEFINE t == BeginCall(cpu)
           rax == FALSE
           f == Frame(t.pad, rax)
           ds == Append(calls, f)
           u == CallTasks(n, FALSE, "called")
           tasks == Append(u, Rest)
<1>1. Doing("stmts") /\ calls' = ds /\ Step(t.s, opnds, tasks)
  BY DEF CallStmt, NewStmt
<1>2. work # << >> /\ work[1].k = "stmts"
  BY <1>1 DEF Doing
<1>3. Machine(cpu) /\ cpu.sp \in Int /\ StackOK(cpu, calls) /\ Len(calls) = 0
  BY <1>2, AtStmts DEF RunInv, Machine
<1>4. rax \in BOOLEAN /\ Taken(rax, 1) = 0
  BY DEF Taken
<1>5. /\ StackOK(t.s, ds) /\ Len(ds) = Len(calls) + 1
      /\ ds[Len(ds)].rax = rax
  <2> HIDE DEF rax
  <2>1. cpu.sp = cpu.sp + Taken(rax, 1)
    <3>1. cpu.sp = cpu.sp + 0
      BY <1>3
    <3> QED
      BY <1>4, <3>1
  <2> DEFINE s0 == cpu
  <2>2. /\ StackOK(cpu, calls) /\ Machine(s0) /\ s0.cur = cpu.cur /\ s0.tot = cpu.tot
        /\ s0.sp = cpu.sp + Taken(rax, 1) /\ rax \in BOOLEAN
    BY <1>3, <1>4, <2>1
  <2>3. s0 = cpu
    OBVIOUS
  <2> HIDE DEF s0
  <2>4. LET v == BeginCall(s0)
            vs == Append(calls, Frame(v.pad, rax))
        IN  /\ StackOK(v.s, vs) /\ Len(vs) = Len(calls) + 1
            /\ vs[Len(vs)].rax = rax
    BY <2>2, StackCall
  <2> QED
    BY <2>3, <2>4
<1> HIDE DEF ds, rax, t
<1>6. Len(ds) = 1 /\ Bare(ds) = 1
  <2>1. Len(ds) = 1
    BY <1>3, <1>5
  <2>2. Taken(ds[1].rax, 1) = 0
    BY <1>4, <1>5, <2>1
  <2> QED
    BY <2>1, <2>2 DEF Bare
<1> DEFINE q == Q(ds, Zero)
<1>7. q.bare = 1 /\ q.base[0 + 1] = 0
  BY <1>6 DEF Q, Zero
<1>8. Does(Rest, 0, 0, 0, 0, q)
  BY <1>2, AtStmts
<1> HIDE DEF q
<1>9. Chain(u, 0, 1, 0, 0, q)
  <2>1. Chain(CallTasks(n, FALSE, "called"), 0, 0 + 1,
              IF "called" = "result" THEN 0 + 1 ELSE 0, 0, q)
    BY <1>7, ChainCall
  <2>2. 0 + 1 = 1 /\ (IF "called" = "result" THEN 0 + 1 ELSE 0) = 0
    OBVIOUS
  <2> QED
    BY Zenon, <2>1, <2>2
<1>10. Chain(tasks, 0, 1, 0, 0, q)
  <2> HIDE DEF u, Rest
  <2> QED
    BY <1>8, <1>9, ChainAppend
<1> HIDE DEF tasks
<1>11. Len(ds) \in Nat /\ Chain(tasks, 0, Len(ds), 0, 0, Q(ds, Zero))
  BY <1>6, <1>10 DEF q
<1>12. StackOK(t.s, ds)
  BY <1>5
<1> QED
  BY <1>1, <1>2, <1>11, <1>12, StmtInv

LEMMA CallStmtEndStep ==
    ASSUME RunInv, frag' = frag, CallStmtEnd
    PROVE  RunInv'
<1> DEFINE f == calls[Len(calls)]
           e == EndCall(cpu, f)
           t == clear_regs_except(e, InReg("RAX"), TRUE)
           d == Pad(cpu.tot)
           m == Taken(f.pad, d) + Len(f.spilled)
           ds == Front(calls)
<1>1. Doing("called") /\ calls' = ds /\ Step(t, opnds, << >>)
  BY DEF CallStmtEnd
<1>2. work # << >> /\ work[1].k = "called" /\ IsSeq(opnds) /\ StackOK(cpu, calls)
  BY <1>1 DEF Doing, RunInv
<1>3. PICK b \in [Nat -> Nat], o1, c1 \in Nat :
        Does(work[1], Len(opnds), Len(calls), o1, c1, Q(calls, b))
  BY <1>2, HeadTask
<1>4. Len(calls) = 1 /\ Bare(calls) = 1 /\ Len(opnds) = 0
  BY <1>2, <1>3 DEF Does, ClearsSafely, Q
<1>5. Taken(f.rax, 1) = 0
  BY <1>4 DEF Bare
<1>6. m \in Nat /\ Moves(cpu, e, 0 - m) /\ Saved(f, d) = Taken(f.rax, 1) + m
  BY <1>2, <1>4, EndMoves
<1>7. Moves(e, t, 0)
  BY ClearMoves
<1> HIDE DEF e, t
<1>8. Moves(cpu, t, 0 - Saved(f, d))
  <2> HIDE DEF f, m, d
  <2>2. Saved(f, d) = m
    BY <1>5, <1>6
  <2>3. Moves(cpu, t, (0 - m) + 0)
    BY <1>6, <1>7, MovesTrans
  <2>4. (0 - m) + 0 = 0 - m
    BY <1>6
  <2> QED
    BY <2>2, <2>3, <2>4
<1>9. StackOK(t, ds) /\ Len(ds) = 0
  <2>1. Len(calls) > 0
    BY <1>4
  <2>2. StackOK(t, ds) /\ Len(ds) = Len(calls) - 1
    BY <1>2, <1>8, <2>1, StackReturn
  <2> QED
    BY <1>4, <2>2
<1> HIDE DEF ds
<1>10. ASSUME NEW b1 \in [Nat -> Nat], NEW o2 \in Nat, NEW c2 \in Nat,
              Does(work[1], Len(opnds), Len(calls), o2, c2, Q(calls, b1))
       PROVE  /\ Chain(<< >>, Len(opnds), Len(ds), o2, c2, Q(ds, b1))
              /\ c2 = 0 \/ Bare(ds) = Bare(calls)
  <2>1. o2 = 0 /\ c2 = 0
    BY <1>2, <1>4, <1>10 DEF Does, Takes, Leaves
  <2>2. Chain(<< >>, o2, c2, o2, c2, Q(ds, b1))
    BY ChainNone
  <2> QED
    BY <1>4, <1>9, <2>1, <2>2
<1>11. Apart(t.used, opnds, Kinds)
  BY <1>4, ApartNone
<1>12. \A m1 \in 1..(Len(opnds) - Takes(work[1])) : opnds[m1] = opnds[m1]
  OBVIOUS
<1>13. Len(ds) \in 0..Len(calls) /\ \A i \in 1..Len(ds) : ds[i].rax = calls[i].rax
  BY <1>4, <1>9
<1> QED
  BY <1>1, <1>2, <1>9, <1>10, <1>11, <1>12, <1>13, StepInv

\* The end of an assignment, a field, an item or a condition.
LEMMA UsesStep ==
    ASSUME RunInv, frag' = frag, AssignEnd \/ FieldEnd \/ ItemEnd \/ Cond
    PROVE  RunInv'
<1>1. ASSUME NEW k \in {"assign", "field", "item", "cond"}, Doing(k), NEW s,
             Moves(cpu, s, 0), Step(s, Drop(1), << >>), calls' = calls
      PROVE  RunInv'
  <2>1. StackOK(s, calls)
    BY <1>1, StackMoved DEF RunInv
  <2>2. work # << >> /\ work[1].k \in {"assign", "field", "item", "cond", "pass"}
    BY <1>1 DEF Doing
  <2>3. work[1].k # "pass"
    BY <1>1 DEF Doing
  <2>4. \A i \in 1..Len(calls) : calls[i].rax = calls[i].rax
    OBVIOUS
  <2> QED
    BY <1>1, <2>1, <2>2, <2>3, <2>4, UseInv
<1>2. ASSUME AssignEnd PROVE RunInv'
  <2> DEFINE s == Store(cpu, work[1].l, work[1].larr, Top.loc, Top.arr)
  <2>1. Doing("assign") /\ Step(s, Drop(1), << >>) /\ calls' = calls
    BY <1>2 DEF AssignEnd
  <2>2. Moves(cpu, s, 0)
    BY StoreMoves
  <2> HIDE DEF s
  <2> QED
    BY <1>1, <2>1, <2>2
<1>3. ASSUME FieldEnd PROVE RunInv'
  <2> DEFINE n == work[1].n
             t == IntoReg(cpu, Top.loc)
             b == release(t.s, cpu.used)
             u1 == Mov(b, t.loc, Slot(n))
             u2 == Mov(cpu, Top.loc, Slot(n))
  <2>1. /\ Doing("field") /\ calls' = calls
        /\ Step(u1, Drop(1), << >>) \/ Step(u2, Drop(1), << >>)
    BY <1>3 DEF FieldEnd
  <2>2. Moves(cpu, t.s, 0)
    BY KeepsIntoReg, KeepsMoves
  <2> HIDE DEF t
  <2>3. Moves(t.s, b, 0)
    BY ReleaseMoves
  <2> HIDE DEF b
  <2>4. Moves(b, u1, 0) /\ Moves(cpu, u2, 0)
    BY KeepsMov, KeepsMoves
  <2> HIDE DEF u1, u2
  <2>5. Moves(cpu, u1, 0)
    <3>1. Moves(cpu, b, 0 + 0)
      BY <2>2, <2>3, MovesTrans
    <3>2. Moves(cpu, u1, 0 + 0 + 0)
      BY <2>4, <3>1, MovesTrans
    <3> QED
      BY <3>2
  <2> QED
    BY <1>1, <2>1, <2>4, <2>5
<1>4. ASSUME ItemEnd PROVE RunInv'
  <2> DEFINE s == Mov(cpu, Top.loc, Slot(work[1].n))
  <2>1. Doing("item") /\ Step(s, Drop(1), << >>) /\ calls' = calls
    BY <1>4 DEF ItemEnd
  <2>2. Moves(cpu, s, 0)
    BY KeepsMov, KeepsMoves
  <2> HIDE DEF s
  <2> QED
    BY <1>1, <2>1, <2>2
<1>5. ASSUME Cond PROVE RunInv'
  <2>1. Doing("cond") /\ Step(cpu, Drop(1), << >>) /\ calls' = calls
    BY <1>5 DEF Cond
  <2>2. Moves(cpu, cpu, 0)
    BY KeepsSame, KeepsMoves
  <2> QED
    BY <1>1, <2>1, <2>2
<1> QED
  BY <1>2, <1>3, <1>4, <1>5

-----------------------------------------------------------------------------
(* The theorem *)

LEMMA InitInv == Init => IInv
<1> SUFFICES ASSUME Init PROVE IInv
  OBVIOUS
<1> DEFINE m == Len(Params)
           a == [k |-> "stmts", left |-> MaxStmts]
<1>1. m \in Nat
  BY CodeGenAssumption
<1>2. opnds = << >> /\ calls = << >> /\ work = <<a>> /\ frag \in Fragments
  BY DEF Init
<1>3. DOMAIN cpu = Fields /\ cpu.sp = m /\ cpu.cur = m /\ cpu.tot = m
  BY DEF Init, Fields
<1>4. Machine(cpu) /\ cpu.sp = cpu.cur
  BY <1>1, <1>3 DEF Machine
<1>5. StackOK(cpu, calls)
  BY <1>2, <1>4, StackClear
<1>6. "k" \in DOMAIN a /\ a.k = "stmts"
  OBVIOUS
<1> HIDE DEF a
<1>7. Does(a, 0, 0, 0, 0, Q(calls, Zero))
  BY <1>6 DEF Does, Takes, Leaves, ClearsSafely
<1>8. Chain(work, 0, 0, 0, 0, Q(calls, Zero))
  BY <1>2, <1>7, ChainOne
<1>9. IsSeq(opnds) /\ Len(opnds) = 0 /\ Len(calls) = 0
  BY <1>2, EmptySeq DEF IsSeq
<1>10. Zero \in [Nat -> Nat] /\ Bottoms(Zero, opnds, calls, Kinds)
  BY <1>9, BottomsZero DEF Zero
<1>11. Apart(cpu.used, opnds, Kinds)
  BY <1>9, ApartNone
<1>12. "none" \notin cpu.used
  BY DEF Init
<1>13. RunInv
  BY <1>5, <1>8, <1>9, <1>10, <1>11, <1>12 DEF RunInv
<1> QED
  BY <1>2, <1>13 DEF IInv

LEMMA NextInv == IInv /\ [Next]_cgvars => IInv'
<1> SUFFICES ASSUME IInv, [Next]_cgvars PROVE IInv'
  OBVIOUS
<1>1. CASE UNCHANGED cgvars
  <2>1. /\ opnds' = opnds /\ cpu' = cpu /\ calls' = calls /\ work' = work
        /\ phase' = phase /\ frag' = frag
    BY <1>1 DEF cgvars
  <2>2. Kinds' = Kinds
    BY <2>1 DEF Kinds
  <2>3. \A b : Q(calls, b)' = Q(calls, b)
    BY <2>1 DEF Q, Bare
  <2>4. RunInv => RunInv'
    BY <2>1, <2>2, <2>3 DEF RunInv
  <2> QED
    BY <2>1, <2>4 DEF IInv
<1>2. ASSUME Next PROVE IInv'
  <2>1. frag' = frag
    BY <1>2 DEF Next
  <2>2. phase = "run" => RunInv
    BY DEF IInv
  <2>3. ASSUME ExprStep PROVE phase' = "run" => RunInv'
    <3>1. ASSUME NEW v \in Lits, Literal(v) PROVE RunInv'
      BY <2>1, <2>2, <3>1, LeavesStep DEF Literal, NewNode, Doing
    <3>2. ASSUME NEW i \in DOMAIN vars, Variable(i) \/ Deref(i) PROVE RunInv'
      BY <2>1, <2>2, <3>2, LeavesStep DEF Variable, Deref, NewNode, Doing
    <3>3. ASSUME NEW i \in DOMAIN vars, Indexing(i) PROVE RunInv'
      BY <2>1, <2>2, <3>3, TreesStep DEF Indexing, NewNode, Doing
    <3>4. ASSUME NEW i \in DOMAIN vars, NEW j \in 0..1, Element(i, j) PROVE RunInv'
      BY <2>1, <2>2, <3>4, LeavesStep DEF Element, NewNode, Doing
    <3>5. ASSUME NEW op \in Ops, Binary(op) PROVE RunInv'
      BY <2>1, <2>2, <3>5, TreesStep DEF Binary, NewNode, Doing
    <3>6. ASSUME NEW n \in 1..MaxArgs, NEW kind \in {"call", "meth"}, Call(n, kind)
          PROVE  RunInv'
      <4>1. n \in Nat
        BY CodeGenAssumption DEF IInv
      <4>2. phase = "run"
        BY <3>6 DEF Call, NewNode, Doing
      <4> QED
        BY <2>1, <2>2, <3>6, <4>1, <4>2, CallStep
    <3>7. ASSUME Not PROVE RunInv'
      BY <2>1, <2>2, <3>7, TreesStep DEF Not, NewNode, Doing
    <3>8. ASSUME NotEnd \/ BinaryEnd \/ IndexEnd PROVE phase' = "run" => RunInv'
      <4>1. phase = "run"
        BY <3>8 DEF NotEnd, BinaryEnd, IndexEnd, Doing
      <4> QED
        BY <2>1, <2>2, <3>8, <4>1, ReturnsStep
    <3>9. ASSUME Arg PROVE RunInv'
      BY <2>1, <2>2, <3>9, ArgStep DEF Arg, Doing
    <3>10. ASSUME Pass PROVE RunInv'
      BY <2>1, <2>2, <3>10, PassStep DEF Pass, Doing
    <3>11. ASSUME Result PROVE RunInv'
      BY <2>1, <2>2, <3>11, ResultStep DEF Result, Doing
    <3> QED
      BY <2>3, <3>1, <3>2, <3>3, <3>4, <3>5, <3>6, <3>7, <3>8, <3>9, <3>10, <3>11
         DEF ExprStep
  <2>4. ASSUME StmtStep PROVE phase' = "run" => RunInv'
    <3>1. ASSUME Let PROVE RunInv'
      BY <2>1, <2>2, <3>1, AssignsStep DEF Let, NewStmt, Doing
    <3>2. ASSUME LetStruct \/ LetArray PROVE RunInv'
      BY <2>1, <2>2, <3>2, PartsStep DEF LetStruct, LetArray, NewStmt, Doing
    <3>3. ASSUME If PROVE RunInv'
      BY <2>1, <2>2, <3>3, IfEnumStep DEF If, NewStmt, Doing
    <3>4. ASSUME Ret PROVE RunInv'
      BY <2>1, <2>2, <3>4, RetStep DEF Ret, NewStmt, Doing
    <3>5. ASSUME NEW i \in DOMAIN vars, Set(i) \/ SetDeref(i) PROVE RunInv'
      BY <2>1, <2>2, <3>5, AssignsStep DEF Set, SetDeref, NewStmt, Doing
    <3>6. ASSUME NEW i \in DOMAIN vars, LetAddr(i) PROVE RunInv'
      BY <2>1, <2>2, <3>6, AtOnceStep DEF LetAddr, NewStmt, Doing
    <3>7. ASSUME NEW i \in DOMAIN vars, NEW j \in 0..1, SetElement(i, j) PROVE RunInv'
      BY <2>1, <2>2, <3>7, AssignsStep DEF SetElement, NewStmt, Doing
    <3>8. ASSUME NEW tag \in 0..1, LetEnum(tag) PROVE RunInv'
      BY <2>1, <2>2, <3>8, IfEnumStep DEF LetEnum, NewStmt, Doing
    <3>9. ASSUME NEW n \in 1..MaxArgs, CallStmt(n) PROVE RunInv'
      <4>1. n \in Nat
        BY CodeGenAssumption DEF IInv
      <4>2. phase = "run"
        BY <3>9 DEF CallStmt, NewStmt, Doing
      <4> QED
        BY <2>1, <2>2, <3>9, <4>1, <4>2, CallStmtStep
    <3>10. ASSUME AssignEnd \/ FieldEnd \/ ItemEnd \/ Cond PROVE RunInv'
      BY <2>1, <2>2, <3>10, UsesStep DEF AssignEnd, FieldEnd, ItemEnd, Cond, Doing
    <3>11. ASSUME CallStmtEnd PROVE RunInv'
      BY <2>1, <2>2, <3>11, CallStmtEndStep DEF CallStmtEnd, Doing
    <3>12. ASSUME RetEnd \/ Finish PROVE phase' # "run"
      BY <3>12 DEF RetEnd, Finish
    <3> QED
      BY <2>4, <3>1, <3>2, <3>3, <3>4, <3>5, <3>6, <3>7, <3>8, <3>9, <3>10,
         <3>11, <3>12 DEF StmtStep
  <2>5. phase' = "run" => RunInv'
    BY <1>2, <2>3, <2>4 DEF Next
  <2> QED
    BY <2>1, <2>5 DEF IInv
<1> QED
  BY <1>1, <1>2

\* Whatever function is compiled, with whatever registers: between two of its
\* statements the stack pointer is where the slots of the variables end, no
\* call is open and no operand is left; every push of gen_call_expr, of the
\* division and of the padding has been popped.
THEOREM StackStaysBalanced == Spec => []StackBalanced
<1>1. IInv => StackBalanced
  <2> SUFFICES ASSUME IInv, Doing("stmts")
               PROVE  cpu.sp = cpu.cur /\ calls = << >> /\ opnds = << >>
    BY DEF StackBalanced
  <2>1. RunInv /\ work # << >> /\ work[1].k = "stmts"
    BY DEF IInv, Doing
  <2> QED
    BY <2>1, AtStmts
<1> QED
  BY <1>1, InitInv, NextInv, PTL DEF Spec

\* The slots of the variables end at or above the stack pointer in every state:
\* a called function, which writes below the stack pointer only, never writes
\* into a variable.
SlotsOwned == phase = "run" => cpu.cur <= cpu.sp

\* Every variable lies above what calls push and what callees use.
THEOREM SlotsStayOwned == Spec => []SlotsOwned
<1>1. IInv => SlotsOwned
  <2> SUFFICES ASSUME IInv, phase = "run" PROVE cpu.cur <= cpu.sp
    BY DEF SlotsOwned
  <2>1. Machine(cpu) /\ Stacked(calls, Pad(cpu.tot), cpu.sp - cpu.cur)
    BY DEF IInv, RunInv, StackOK
  <2>2. cpu.sp - cpu.cur \in Nat /\ cpu.sp \in Int /\ cpu.cur \in Int
    BY <2>1, StackedSize DEF Machine
  <2> QED
    BY <2>2
<1> QED
  BY <1>1, InitInv, NextInv, PTL DEF Spec

\* The pool holds the register of every location build_value has returned and
\* that is still to be used, and two of these locations never share a register:
\* neither the loads, swaps and spills of a binary operator, nor a release by
\* clear_regs_except, nor a call in between takes the register of an operand.
\* The exception is a trait method call, which does not save RAX.
THEOREM OperandsStayApart == Spec => []OperandsApart
<1>1. IInv => OperandsApart
  <2> SUFFICES ASSUME IInv, phase = "run" PROVE OperandsApart
    BY DEF OperandsApart
  <2>1. IsSeq(opnds) /\ Apart(cpu.used, opnds, Kinds) /\ "none" \notin cpu.used
    BY DEF IInv, RunInv
  <2>2. DOMAIN opnds = 1..Len(opnds)
    BY <2>1, SeqFacts
  <2>3. \A i : PendingRegs(i) = RegOf(opnds[i].loc)
    BY DEF PendingRegs, RegOf
  <2>4. \A i \in DOMAIN opnds : PendingRegs(i) \subseteq cpu.used
    BY <2>1, <2>2, <2>3 DEF Apart
  <2>5. ASSUME "meth" \notin Kinds, NEW i \in DOMAIN opnds, NEW j \in DOMAIN opnds, i # j
        PROVE  PendingRegs(i) \cap PendingRegs(j) = {}
    <3>1. PendingRegs(i) \cap PendingRegs(j) \subseteq {"none"}
      BY <2>1, <2>2, <2>3, <2>5 DEF Apart
    <3>2. "none" \notin PendingRegs(i)
      BY <2>1, <2>4
    <3> QED
      BY <3>1, <3>2
  <2> QED
    BY <2>4, <2>5 DEF OperandsApart
<1> QED
  BY <1>1, InitInv, NextInv, PTL DEF Spec

-----------------------------------------------------------------------------
(* Control flow: the code Branches emits *)

\* Size counts what is no mark.
LEMMA SizeIs ==
    ASSUME NEW b
    PROVE  Size(b) = Cardinality({i \in DOMAIN b : b[i].op \notin {"in", "val"}})
  BY DEF Size

LEMMA SizeIsNat ==
    ASSUME NEW b, IsSeq(b)
    PROVE  /\ IsFiniteSet({i \in DOMAIN b : b[i].op \notin {"in", "val"}})
           /\ Size(b) \in Nat
<1>1. DOMAIN b = 1..Len(b) /\ Len(b) \in Nat
  BY SeqFacts
<1>2. IsFiniteSet(1..Len(b))
  BY <1>1, FS_Interval
<1>3. {i \in DOMAIN b : b[i].op \notin {"in", "val"}} \in SUBSET (1..Len(b))
  BY <1>1
<1>4. IsFiniteSet({i \in DOMAIN b : b[i].op \notin {"in", "val"}})
  BY <1>2, <1>3, FS_Subset
<1> QED
  BY <1>4, FS_CardinalityType, SizeIs

-----------------------------------------------------------------------------
(* Control flow: what is left of the walk *)

ArmBlock(t) == t.k = "block" /\ t.arm = TRUE
Opens(t) == t.k = "block" /\ t.arm = FALSE
Bottom(t) == Opens(t) /\ t.depth = 0
Joint == {"then", "merge", "cond"}

\* The task u is what comes after t.
Follows(t, u) ==
    \/ Opens(t) /\ t.depth > 0 /\ u.k \in Joint
    \/ (t.k \in Joint \/ t.k = "match") /\ Opens(u)
    \/ ArmBlock(t) /\ u.k = "armend"
    \/ t.k = "armend" /\ u.k = "match" /\ u.merge = t.merge /\ u.scope = t.scope

Shape(w) ==
    /\ IsSeq(w) /\ w # << >> /\ Bottom(w[Len(w)])
    /\ \A i \in 1..Len(w) - 1 : Follows(w[i], w[i + 1])

\* A task of a walk by which v slots have been handed out.
Task(t, v) ==
    /\ t.k \in {"block", "then", "merge", "cond", "match", "armend"}
    /\ t.k = "block" => t.depth \in Nat /\ t.arm \in BOOLEAN
    /\ ArmBlock(t) => t.depth > 0
    /\ t.k = "match" => /\ DOMAIN t = {"k", "arms", "rest", "merge", "depth", "scope"}
                        /\ t.arms \in Seq(Seq(Patterns)) /\ t.depth \in Nat \ {0}
    /\ t.k # "block" => t.scope \subseteq 1..v

Tasks(w, v) == \A i \in 1..Len(w) : Task(w[i], v)

\* The elements of w when its first gives way to those of c.
LEMMA PutPlaces ==
    ASSUME NEW w, IsSeq(w), w # << >>, NEW c, IsSeq(c)
    PROVE  LET u == c \o Tail(w)
           IN  /\ IsSeq(u) /\ Len(c) \in Nat /\ Len(w) \in Nat \ {0}
               /\ Len(u) = Len(c) + Len(w) - 1
               /\ \A i \in 1..Len(c) : u[i] = c[i]
               /\ \A i \in 2..Len(w) : u[Len(c) + i - 1] = w[i]
               /\ \A i \in 1..Len(u) : i \in 1..Len(c) \/ \E j \in 2..Len(w) : i = Len(c) + j - 1
<1> DEFINE u == c \o Tail(w)
           m == Len(c)
           n == Len(w)
<1>1. /\ n \in Nat \ {0} /\ IsSeq(Tail(w)) /\ Len(Tail(w)) = n - 1
      /\ \A i \in 1..n - 1 : Tail(w)[i] = w[i + 1]
  BY SeqRest
<1>2. /\ IsSeq(u) /\ m \in Nat /\ Len(u) = m + Len(Tail(w))
      /\ \A i \in 1..m : u[i] = c[i]
      /\ \A i \in 1..Len(Tail(w)) : u[m + i] = Tail(w)[i]
  <2> DEFINE t == Tail(w)
  <2>1. IsSeq(t)
    BY <1>1
  <2> HIDE DEF t
  <2>2. /\ IsSeq(c \o t) /\ Len(c \o t) = Len(c) + Len(t)
        /\ \A i \in 1..Len(c) : (c \o t)[i] = c[i]
        /\ \A i \in 1..Len(t) : (c \o t)[Len(c) + i] = t[i]
    BY <2>1, SeqJoin
  <2>3. Len(c) \in Nat
    BY SeqFacts
  <2> QED
    BY <2>2, <2>3 DEF t
<1> HIDE DEF u, m, n
<1>3. Len(u) = m + n - 1
  BY <1>1, <1>2
<1>4. ASSUME NEW i \in 2..n PROVE u[m + i - 1] = w[i]
  <2>1. i - 1 \in 1..n - 1 /\ (i - 1) + 1 = i /\ m + (i - 1) = m + i - 1
    BY <1>1, <1>2
  <2> QED
    BY <1>1, <1>2, <2>1
<1>5. ASSUME NEW i \in 1..Len(u) PROVE i \in 1..m \/ \E j \in 2..n : i = m + j - 1
  <2>1. CASE i > m
    <3>1. i - m + 1 \in 2..n /\ i = m + (i - m + 1) - 1
      BY <1>1, <1>2, <1>3, <2>1
    <3> QED
      BY <3>1
  <2>2. CASE ~ (i > m)
    BY <1>2, <2>2
  <2> QED
    BY <2>1, <2>2
<1> QED
  BY <1>1, <1>2, <1>3, <1>4, <1>5 DEF u, m, n

LEMMA TasksPut ==
    ASSUME NEW w, IsSeq(w), w # << >>, NEW c, IsSeq(c), NEW v, Tasks(w, v), Tasks(c, v)
    PROVE  Tasks(c \o Tail(w), v)
<1> DEFINE u == c \o Tail(w)
<1>1. /\ Len(w) \in Nat \ {0}
      /\ \A i \in 1..Len(c) : u[i] = c[i]
      /\ \A i \in 2..Len(w) : u[Len(c) + i - 1] = w[i]
      /\ \A i \in 1..Len(u) : i \in 1..Len(c) \/ \E j \in 2..Len(w) : i = Len(c) + j - 1
  BY PutPlaces
<1> HIDE DEF u
<1>2. ASSUME NEW i \in 1..Len(u) PROVE Task(u[i], v)
  <2>1. CASE i \in 1..Len(c)
    BY <1>1, <2>1 DEF Tasks
  <2>2. CASE i \notin 1..Len(c)
    <3>1. PICK j \in 2..Len(w) : i = Len(c) + j - 1
      BY <1>1, <2>2
    <3>2. j \in 1..Len(w)
      OBVIOUS
    <3> QED
      BY <1>1, <3>1, <3>2 DEF Tasks
  <2> QED
    BY <2>1, <2>2
<1> QED
  BY <1>2 DEF Tasks, u

LEMMA TasksLater ==
    ASSUME NEW w, NEW v \in Nat, NEW u \in Nat, v <= u, Tasks(w, v)
    PROVE  Tasks(w, u)
<1>1. \A S : S \subseteq 1..v => S \subseteq 1..u
  <2>1. 1..v \subseteq 1..u
    OBVIOUS
  <2> QED
    BY <2>1
<1>2. ASSUME NEW i \in 1..Len(w) PROVE Task(w[i], u)
  BY <1>1 DEF Tasks, Task
<1> QED
  BY <1>2 DEF Tasks

\* The tasks c may stand where w[1] did.
Replaces(c, w) ==
    /\ IsSeq(c) /\ \A i \in 1..Len(c) - 1 : Follows(c[i], c[i + 1])
    /\ \/ Len(c) = 0 /\ Len(w) > 1
       \/ Len(c) > 0 /\ c[Len(c)] = w[1]
       \/ Len(c) > 0 /\ Len(w) > 1 /\ Follows(c[Len(c)], w[2])

LEMMA ShapePut ==
    ASSUME NEW w, Shape(w), NEW c, Replaces(c, w)
    PROVE  /\ Shape(c \o Tail(w))
           /\ Len(c) > 0 => (c \o Tail(w))[1] = c[1]
           /\ Len(c) = 0 => (c \o Tail(w))[1] = w[2]
<1> DEFINE u == c \o Tail(w)
           m == Len(c)
           n == Len(w)
<1>1. /\ IsSeq(u) /\ m \in Nat /\ n \in Nat \ {0} /\ Len(u) = m + n - 1
      /\ \A i \in 1..m : u[i] = c[i]
      /\ \A i \in 2..n : u[m + i - 1] = w[i]
      /\ \A i \in 1..Len(u) : i \in 1..m \/ \E j \in 2..n : i = m + j - 1
  BY PutPlaces DEF Shape, Replaces
<1> HIDE DEF u
<1>2. \A i \in 1..m - 1 : Follows(c[i], c[i + 1])
  BY DEF Replaces
<1>3. \/ m = 0 /\ n > 1
      \/ m > 0 /\ c[m] = w[1]
      \/ m > 0 /\ n > 1 /\ Follows(c[m], w[2])
  BY DEF Replaces
<1>4. Bottom(w[n]) /\ \A i \in 1..n - 1 : Follows(w[i], w[i + 1])
  BY DEF Shape
<1> HIDE DEF m, n
<1>5. u # << >> /\ Len(u) >= 1
  <2>1. Len(u) >= 1
    BY <1>1, <1>3
  <2> QED
    BY <1>1, <2>1, SeqFacts
<1>6. Bottom(u[Len(u)])
  <2>1. CASE n > 1
    <3>1. n \in 2..n /\ m + n - 1 = Len(u)
      BY <1>1, <2>1
    <3>2. u[Len(u)] = w[n]
      BY <1>1, <3>1
    <3> QED
      BY <1>4, <3>2
  <2>2. CASE ~ (n > 1)
    <3>1. n = 1 /\ m > 0 /\ c[m] = w[1] /\ m \in 1..m /\ Len(u) = m
      BY <1>1, <1>3, <2>2
    <3>2. u[Len(u)] = w[n]
      BY <1>1, <3>1
    <3> QED
      BY <1>4, <3>2
  <2> QED
    BY <2>1, <2>2
<1>7. ASSUME NEW i \in 1..Len(u) - 1 PROVE Follows(u[i], u[i + 1])
  <2>1. CASE i < m
    <3>1. i \in 1..m /\ i + 1 \in 1..m /\ i \in 1..m - 1
      BY <1>1, <2>1
    <3> QED
      BY <1>1, <1>2, <3>1
  <2>2. CASE i = m
    <3>1. m > 0 /\ n > 1 /\ m \in 1..m /\ 2 \in 2..n /\ m + 2 - 1 = m + 1 /\ 1 \in 1..n - 1
      BY <1>1, <2>2
    <3>2. u[i] = c[m] /\ u[i + 1] = w[2]
      BY <1>1, <2>2, <3>1
    <3>3. Follows(w[1], w[2])
      BY <1>4, <3>1
    <3> QED
      BY <1>3, <3>1, <3>2, <3>3
  <2>3. CASE i > m
    <3> DEFINE j == i - m + 1
    <3>1. j \in 2..n - 1 /\ j \in 2..n /\ j + 1 \in 2..n /\ j \in 1..n - 1
      BY <1>1, <2>3
    <3>2. i = m + j - 1 /\ i + 1 = m + (j + 1) - 1
      BY <1>1, <2>3
    <3> HIDE DEF j
    <3> QED
      BY <1>1, <1>4, <3>1, <3>2
  <2> QED
    BY <1>1, <2>1, <2>2, <2>3
<1>8. m > 0 => u[1] = c[1]
  BY <1>1
<1>9. m = 0 => u[1] = w[2]
  <2>1. ASSUME m = 0 PROVE 2 \in 2..n /\ m + 2 - 1 = 1
    BY <1>1, <1>3, <2>1
  <2> QED
    BY <1>1, <2>1
<1> QED
  BY <1>1, <1>5, <1>6, <1>7, <1>8, <1>9 DEF Shape, u, m

-----------------------------------------------------------------------------
-----------------------------------------------------------------------------
(* Control flow: the buffers *)

InArm == walk[1].k = "armend" \/ ArmBlock(walk[1])
InMatch == walk[1].k = "match" \/ InArm

\* The code of the function, of which that of an open arm is no part yet.
Main == IF InArm THEN streams[1].outer ELSE asm_buf

StreamFits ==
    IF InMatch
    THEN IsSeq(streams) /\ Len(streams) = 1 /\ DOMAIN streams[1] = {"outer", "arms"}
    ELSE streams = << >>

BuffersFit ==
    /\ IsSeq(asm_buf)
    /\ InMatch => IsSeq(streams[1].arms)
    /\ InArm => IsSeq(streams[1].outer)

BranchInv ==
    /\ current_stack \in Nat /\ scope \subseteq 1..current_stack
    /\ stage = "gen" =>
         /\ pc = 1 /\ sp = 0 /\ Shape(walk) /\ Tasks(walk, current_stack)
         /\ StreamFits /\ BuffersFit
         /\ walk[1].k # "block" => scope = walk[1].scope
    /\ stage = "run" => pc \in Nat \ {0} /\ sp \in Nat /\ IsSeq(asm_buf)

\* A step of the walk.
LEMMA WalkStep ==
    ASSUME BranchInv, stage = "gen", stage' = "gen", pc' = pc, sp' = sp,
           current_stack' \in Nat, current_stack <= current_stack',
           scope' \subseteq 1..current_stack', StreamFits', BuffersFit',
           NEW c, walk' = c \o Tail(walk), Replaces(c, walk), Tasks(c, current_stack'),
           walk'[1].k # "block" => scope' = walk'[1].scope
    PROVE  BranchInv'
<1>1. /\ Shape(walk) /\ Tasks(walk, current_stack) /\ current_stack \in Nat
      /\ pc = 1 /\ sp = 0
  BY DEF BranchInv
<1>2. Shape(walk')
  BY <1>1, ShapePut
<1>3. Tasks(walk', current_stack')
  BY <1>1, TasksLater, TasksPut DEF Shape, Replaces
<1>4. stage' # "run" /\ pc' = 1 /\ sp' = 0
  BY <1>1
<1> QED
  BY <1>2, <1>3, <1>4 DEF BranchInv

\* One that is no part of a match.
LEMMA OutsideStep ==
    ASSUME BranchInv, stage = "gen", stage' = "gen", pc' = pc, sp' = sp,
           streams' = streams, ~ InMatch,
           current_stack' \in Nat, current_stack <= current_stack',
           scope' \subseteq 1..current_stack',
           NEW c, walk' = c \o Tail(walk), Replaces(c, walk), Tasks(c, current_stack'),
           Len(c) > 0 => c[1].k \in Joint \/ Opens(c[1]),
           walk'[1].k # "block" => scope' = walk'[1].scope,
           IsSeq(asm_buf')
    PROVE  BranchInv'
<1>1. Shape(walk) /\ streams = << >>
  BY DEF BranchInv, StreamFits
<1>2. /\ Len(c) > 0 => walk'[1] = c[1]
      /\ Len(c) = 0 => walk'[1] = walk[2] /\ Len(walk) > 1
  BY <1>1, ShapePut DEF Replaces
<1>3. walk'[1].k \in Joint \/ Opens(walk'[1])
  <2>1. CASE Len(c) > 0
    BY <1>2, <2>1
  <2>2. CASE ~ (Len(c) > 0)
    <3>1. Len(c) = 0
      BY <2>2, SeqFacts DEF Replaces
    <3>2. Len(walk) > 1 /\ Len(walk) \in Nat
      BY <1>1, <1>2, <3>1, SeqFacts DEF Shape
    <3>3. 1 \in 1..Len(walk) - 1
      BY <3>2
    <3>4. Follows(walk[1], walk[2])
      BY <1>1, <3>3 DEF Shape
    <3>5. walk[2].k \in Joint \/ Opens(walk[2])
      BY <3>4 DEF Follows, InMatch, InArm
    <3> QED
      BY <1>2, <3>1, <3>5
  <2> QED
    BY <2>1, <2>2
<1>4. ~ InMatch' /\ ~ InArm'
  BY <1>3 DEF InMatch, InArm, ArmBlock, Opens, Joint
<1>5. StreamFits' /\ BuffersFit'
  BY <1>1, <1>4 DEF StreamFits, BuffersFit
<1> QED
  BY <1>5, WalkStep

-----------------------------------------------------------------------------
(* Control flow: short sequences *)

LEMMA Tuples ==
    ASSUME NEW a, NEW b, NEW c
    PROVE  /\ IsSeq(<<a>>) /\ IsSeq(<<a, b>>) /\ IsSeq(<<a, b, c>>)
           /\ Len(<<a>>) = 1 /\ Len(<<a, b>>) = 2 /\ Len(<<a, b, c>>) = 3
<1>1. /\ <<a>> \in Seq({a, b, c}) /\ <<a, b>> \in Seq({a, b, c})
      /\ <<a, b, c>> \in Seq({a, b, c})
  OBVIOUS
<1> QED
  BY <1>1 DEF IsSeq

LEMMA NoneIsSeq == IsSeq(<< >>) /\ Len(<< >>) = 0 /\ ~ (Len(<< >>) > 0)
<1>1. Len(<< >>) = 0
  BY EmptySeq
<1> QED
  BY <1>1, EmptySeq DEF IsSeq

LEMMA TasksShort ==
    ASSUME NEW a, NEW b, NEW c, NEW v
    PROVE  /\ Tasks(<< >>, v)
           /\ Task(a, v) => Tasks(<<a>>, v)
           /\ Task(a, v) /\ Task(b, v) => Tasks(<<a, b>>, v)
           /\ Task(a, v) /\ Task(b, v) /\ Task(c, v) => Tasks(<<a, b, c>>, v)
<1>1. Len(<<a>>) = 1 /\ Len(<<a, b>>) = 2 /\ Len(<<a, b, c>>) = 3
  BY Tuples
<1>3. Tasks(<< >>, v)
  BY NoneIsSeq DEF Tasks
<1>4. Task(a, v) => Tasks(<<a>>, v)
  BY <1>1 DEF Tasks
<1>5. ASSUME Task(a, v), Task(b, v) PROVE Tasks(<<a, b>>, v)
  <2>1. ASSUME NEW i \in 1..2 PROVE Task(<<a, b>>[i], v)
    <3>1. i = 1 \/ i = 2
      OBVIOUS
    <3> QED
      BY <1>5, <3>1
  <2> QED
    BY <1>1, <2>1 DEF Tasks
<1>6. ASSUME Task(a, v), Task(b, v), Task(c, v) PROVE Tasks(<<a, b, c>>, v)
  <2>1. ASSUME NEW i \in 1..3 PROVE Task(<<a, b, c>>[i], v)
    <3>1. i = 1 \/ i = 2 \/ i = 3
      OBVIOUS
    <3> QED
      BY <1>6, <3>1
  <2> QED
    BY <1>1, <2>1 DEF Tasks
<1> QED
  BY <1>3, <1>4, <1>5, <1>6

\* What may stand where the first task of w did.
LEMMA ReplaceShort ==
    ASSUME NEW w, NEW a, NEW b, NEW c
    PROVE  /\ Len(w) > 1 => Replaces(<< >>, w)
           /\ a = w[1] \/ (Len(w) > 1 /\ Follows(a, w[2])) => Replaces(<<a>>, w)
           /\ Follows(a, b) /\ (b = w[1] \/ (Len(w) > 1 /\ Follows(b, w[2]))) =>
                Replaces(<<a, b>>, w)
           /\ Follows(a, b) /\ Follows(b, c) /\ (c = w[1] \/ (Len(w) > 1 /\ Follows(c, w[2]))) =>
                Replaces(<<a, b, c>>, w)
<1>1. /\ IsSeq(<<a>>) /\ IsSeq(<<a, b>>) /\ IsSeq(<<a, b, c>>)
      /\ Len(<<a>>) = 1 /\ Len(<<a, b>>) = 2 /\ Len(<<a, b, c>>) = 3
  BY Tuples
<1>3. Len(w) > 1 => Replaces(<< >>, w)
  BY NoneIsSeq DEF Replaces
<1>4. a = w[1] \/ (Len(w) > 1 /\ Follows(a, w[2])) => Replaces(<<a>>, w)
  BY <1>1 DEF Replaces
<1>5. Follows(a, b) /\ (b = w[1] \/ (Len(w) > 1 /\ Follows(b, w[2]))) => Replaces(<<a, b>>, w)
  BY <1>1 DEF Replaces
<1>6. ASSUME Follows(a, b), Follows(b, c), c = w[1] \/ (Len(w) > 1 /\ Follows(c, w[2]))
      PROVE  Replaces(<<a, b, c>>, w)
  <2>1. ASSUME NEW i \in 1..2 PROVE Follows(<<a, b, c>>[i], <<a, b, c>>[i + 1])
    <3>1. i = 1 \/ i = 2
      OBVIOUS
    <3> QED
      BY <1>6, <3>1
  <2> QED
    BY <1>1, <1>6, <2>1 DEF Replaces
<1> QED
  BY <1>3, <1>4, <1>5, <1>6

-----------------------------------------------------------------------------
(* Control flow: every step keeps the shape of the walk *)

LEMMA WalkFacts ==
    ASSUME BranchInv, stage = "gen"
    PROVE  /\ Shape(walk) /\ Len(walk) \in Nat \ {0} /\ IsSeq(walk) /\ walk # << >>
           /\ StreamFits /\ BuffersFit /\ Tasks(walk, current_stack)
           /\ current_stack \in Nat /\ scope \subseteq 1..current_stack
           /\ Task(walk[1], current_stack)
           /\ Len(walk) > 1 => Follows(walk[1], walk[2]) /\ Task(walk[2], current_stack)
           /\ Bottom(walk[1]) <=> ~ (Len(walk) > 1)
<1>1. /\ Shape(walk) /\ StreamFits /\ BuffersFit /\ Tasks(walk, current_stack)
      /\ current_stack \in Nat /\ scope \subseteq 1..current_stack
  BY DEF BranchInv
<1>2. walk # << >> /\ IsSeq(walk) /\ Len(walk) \in Nat \ {0}
  BY <1>1, SeqFacts DEF Shape
<1>3. Task(walk[1], current_stack) /\ (Len(walk) > 1 => Task(walk[2], current_stack))
  <2>1. 1 \in 1..Len(walk) /\ (Len(walk) > 1 => 2 \in 1..Len(walk))
    BY <1>2
  <2> QED
    BY <1>1, <2>1 DEF Tasks
<1>4. Len(walk) > 1 => Follows(walk[1], walk[2])
  <2>1. Len(walk) > 1 => 1 \in 1..Len(walk) - 1
    BY <1>2
  <2> QED
    BY <1>1, <2>1 DEF Shape
<1>5. Bottom(walk[1]) => ~ (Len(walk) > 1)
  <2>1. ASSUME Bottom(walk[1]) PROVE ~ Follows(walk[1], walk[2])
    BY <2>1 DEF Bottom, Opens, Follows, ArmBlock, Joint
  <2> QED
    BY <1>4, <2>1
<1>6. ~ (Len(walk) > 1) => Bottom(walk[1])
  <2>0. \A n \in Nat \ {0} : ~ (n > 1) => n = 1
    OBVIOUS
  <2>1. ASSUME ~ (Len(walk) > 1) PROVE Len(walk) = 1
    BY <1>2, <2>0, <2>1
  <2> QED
    BY <1>1, <2>1 DEF Shape
<1> QED
  BY <1>1, <1>2, <1>3, <1>4, <1>5, <1>6

\* The first task is a block.
LEMMA BlockFacts ==
    ASSUME BranchInv, AtTask("block")
    PROVE  /\ stage = "gen" /\ walk[1].k = "block" /\ walk[1].depth \in Nat
           /\ walk[1].arm \in BOOLEAN
           /\ walk[1].arm = FALSE <=> ~ InMatch
           /\ walk[1].arm = FALSE <=> Opens(walk[1])
           /\ walk[1].arm = TRUE <=> InArm
           /\ walk[1].arm = TRUE => walk[1].depth > 0
<1>1. stage = "gen" /\ walk[1].k = "block"
  BY DEF AtTask
<1>2. Task(walk[1], current_stack)
  BY <1>1, WalkFacts
<1> QED
  BY <1>1, <1>2 DEF Task, Opens, InMatch, InArm, ArmBlock

LEMMA NewTask ==
    ASSUME NEW t, NEW v
    PROVE  /\ t.k = "block" /\ t.depth \in Nat /\ t.arm = FALSE => Task(t, v)
           /\ t.k \in Joint /\ t.scope \subseteq 1..v => Task(t, v)
<1>1. ASSUME t.k = "block", t.depth \in Nat, t.arm = FALSE PROVE Task(t, v)
  BY <1>1 DEF Task, ArmBlock
<1>2. ASSUME t.k \in Joint, t.scope \subseteq 1..v PROVE Task(t, v)
  BY <1>2 DEF Task, ArmBlock, Joint
<1> QED
  BY <1>1, <1>2

\* The first task stays.
LEMMA StayStep ==
    ASSUME BranchInv, AtTask("block"), stage' = stage, pc' = pc, sp' = sp, streams' = streams,
           current_stack' \in Nat, current_stack <= current_stack',
           scope' \subseteq 1..current_stack',
           walk' = <<walk[1]>> \o Tail(walk), IsSeq(asm_buf')
    PROVE  /\ BranchInv' /\ walk'[1] = walk[1]
           /\ InArm' <=> InArm
           /\ InMatch' <=> InMatch
<1> DEFINE c == <<walk[1]>>
<1>1. stage = "gen" /\ walk[1].k = "block"
  BY BlockFacts
<1>2. /\ Shape(walk) /\ Task(walk[1], current_stack) /\ Tasks(walk, current_stack)
      /\ StreamFits /\ BuffersFit /\ current_stack \in Nat
  BY <1>1, WalkFacts
<1>3. Replaces(c, walk) /\ Len(c) > 0 /\ c[1] = walk[1] /\ Tasks(c, current_stack)
  <2>1. Len(c) = 1 /\ c[1] = walk[1]
    BY Tuples
  <2>2. Replaces(c, walk)
    BY ReplaceShort
  <2>3. Tasks(c, current_stack)
    BY <1>2, TasksShort
  <2> QED
    BY <2>1, <2>2, <2>3
<1>4. walk' = c \o Tail(walk)
  OBVIOUS
<1> HIDE DEF c
<1>5. walk'[1] = walk[1]
  BY <1>2, <1>3, <1>4, ShapePut
<1>6. (InArm' <=> InArm) /\ (InMatch' <=> InMatch)
  BY <1>5 DEF InArm, InMatch
<1>7. StreamFits' /\ BuffersFit'
  BY <1>2, <1>6 DEF StreamFits, BuffersFit
<1>8. Tasks(c, current_stack')
  BY <1>2, <1>3, TasksLater
<1> QED
  BY <1>1, <1>3, <1>4, <1>5, <1>6, <1>7, <1>8, WalkStep

LEMMA LetStep ==
    ASSUME BranchInv, StmtLet
    PROVE  /\ BranchInv' /\ walk'[1] = walk[1]
           /\ InArm' <=> InArm
           /\ InMatch' <=> InMatch
<1>1. /\ AtTask("block") /\ asm_buf' = Append(asm_buf, PushSlot)
      /\ walk' = <<walk[1]>> \o Tail(walk)
      /\ current_stack' = current_stack + 1 /\ scope' = scope \cup {current_stack + 1}
      /\ streams' = streams /\ stage' = stage /\ pc' = pc /\ sp' = sp
  BY DEF StmtLet, StartStmt, Emit, machine
<1>2. current_stack \in Nat /\ scope \subseteq 1..current_stack /\ BuffersFit
  BY <1>1, BlockFacts, WalkFacts
<1>3. current_stack' \in Nat /\ current_stack <= current_stack' /\ scope' \subseteq 1..current_stack'
  BY <1>1, <1>2
<1>4. IsSeq(asm_buf')
  BY <1>1, <1>2, SeqAppend DEF BuffersFit
<1> QED
  BY <1>1, <1>3, <1>4, StayStep

LEMMA CallInBlock ==
    ASSUME BranchInv, StmtCall
    PROVE  /\ BranchInv' /\ walk'[1] = walk[1]
           /\ InArm' <=> InArm
           /\ InMatch' <=> InMatch
<1>1. /\ AtTask("block") /\ asm_buf' = Append(asm_buf, CallWith(scope))
      /\ walk' = <<walk[1]>> \o Tail(walk)
      /\ current_stack' = current_stack /\ scope' = scope
      /\ streams' = streams /\ stage' = stage /\ pc' = pc /\ sp' = sp
  BY DEF StmtCall, StartStmt, Emit, machine
<1>2. current_stack \in Nat /\ scope \subseteq 1..current_stack /\ BuffersFit
  BY <1>1, BlockFacts, WalkFacts
<1>3. current_stack' \in Nat /\ current_stack <= current_stack' /\ scope' \subseteq 1..current_stack'
  BY <1>1, <1>2
<1>4. IsSeq(asm_buf')
  BY <1>1, <1>2, SeqAppend DEF BuffersFit
<1> QED
  BY <1>1, <1>3, <1>4, StayStep

\* The first task ends: the next one is another first task.
LEMMA NextTask ==
    ASSUME BranchInv, stage = "gen", Len(walk) > 1, walk' = << >> \o Tail(walk)
    PROVE  /\ walk'[1] = walk[2] /\ Replaces(<< >>, walk)
           /\ \A v : Tasks(<< >>, v)
<1> DEFINE c == << >>
<1>1. Replaces(c, walk) /\ Len(c) = 0 /\ (\A v : Tasks(c, v)) /\ walk' = c \o Tail(walk)
  BY ReplaceShort, NoneIsSeq, TasksShort
<1>2. Shape(walk)
  BY WalkFacts
<1> HIDE DEF c
<1>3. walk'[1] = walk[2]
  BY <1>1, <1>2, ShapePut
<1> QED
  BY <1>1, <1>3 DEF c

LEMMA EndBlockStep ==
    ASSUME BranchInv, EndBlock
    PROVE  /\ BranchInv' /\ walk'[1] = walk[2] /\ Len(walk) > 1
           /\ InArm' <=> InArm
           /\ InMatch' <=> InMatch
           /\ InArm => walk[2].k = "armend"
           /\ ~ InArm => walk[2].k \in Joint
<1> DEFINE t == walk[1]
           c == << >>
<1>1. AtTask("block") /\ t.depth > 0
  BY DEF EndBlock
<1>2. /\ asm_buf' = asm_buf /\ walk' = << >> \o Tail(walk)
      /\ current_stack' = current_stack /\ scope' = walk[2].scope
      /\ streams' = streams /\ stage' = stage /\ pc' = pc /\ sp' = sp
  BY DEF EndBlock, Emit, machine
<1>3. /\ stage = "gen" /\ t.k = "block" /\ t.depth \in Nat /\ t.arm \in BOOLEAN
      /\ t.arm = FALSE <=> ~ InMatch
      /\ t.arm = FALSE <=> Opens(t)
      /\ t.arm = TRUE <=> InArm
  BY <1>1, BlockFacts
<1>4. ~ Bottom(t)
  BY <1>1, <1>3 DEF Bottom
<1>5. /\ Len(walk) > 1 /\ Follows(t, walk[2]) /\ Task(walk[2], current_stack)
      /\ StreamFits /\ BuffersFit /\ current_stack \in Nat
  BY <1>3, <1>4, WalkFacts
<1>6. walk'[1] = walk[2] /\ Replaces(c, walk) /\ \A v : Tasks(c, v)
  BY <1>2, <1>3, <1>5, NextTask
<1>7. /\ t.arm = TRUE => walk[2].k = "armend"
      /\ t.arm = FALSE => walk[2].k \in Joint
  BY <1>3, <1>5 DEF Follows, ArmBlock, Opens, Joint
<1>8. (InArm' <=> InArm) /\ (InMatch' <=> InMatch)
  BY <1>3, <1>6, <1>7 DEF InArm, InMatch, ArmBlock, Opens, Joint
<1>9. StreamFits' /\ BuffersFit'
  BY <1>2, <1>5, <1>8 DEF StreamFits, BuffersFit
<1>10. walk[2].k # "block" /\ scope' \subseteq 1..current_stack'
  BY <1>2, <1>3, <1>5, <1>7 DEF Task, Joint
<1>11. BranchInv'
  <2> HIDE DEF c
  <2>1. walk' = c \o Tail(walk)
    BY <1>2 DEF c
  <2> QED
    BY <1>2, <1>3, <1>5, <1>6, <1>9, <1>10, <2>1, WalkStep
<1> QED
  BY <1>3, <1>5, <1>6, <1>7, <1>8, <1>11

LEMMA IfStep ==
    ASSUME BranchInv, NestInArms = FALSE, NEW else, StmtIf(else)
    PROVE  BranchInv' /\ ~ InMatch
<1> DEFINE t == walk[1]
           b == Append(asm_buf, Compare({0, 1}))
           name == Name("jmpif", b)
           r == Inner
           u == [k |-> "then", name |-> name, else |-> else, scope |-> scope]
           c == <<r, u, t>>
           e == b \o <<JmpNe(name, 1), In({1})>>
<1>1. AtTask("block") /\ (t.arm => NestInArms)
  BY DEF StmtIf, StartNested, StartStmt
<1>2. /\ asm_buf' = e /\ walk' = c \o Tail(walk)
      /\ current_stack' = current_stack /\ scope' = scope
      /\ streams' = streams /\ stage' = stage /\ pc' = pc /\ sp' = sp
  BY DEF StmtIf, Emit, machine
<1>3. /\ stage = "gen" /\ t.k = "block" /\ t.depth \in Nat /\ ~ InMatch /\ Opens(t)
  BY <1>1, BlockFacts
<1>4. /\ Shape(walk) /\ Task(t, current_stack) /\ BuffersFit
      /\ current_stack \in Nat /\ scope \subseteq 1..current_stack
  BY <1>3, WalkFacts
<1>5. /\ r.k = "block" /\ r.depth = t.depth + 1 /\ r.arm = FALSE
      /\ u.k = "then" /\ u.scope = scope
  BY DEF Inner, Block
<1> HIDE DEF name, r, u
<1>6. Follows(r, u) /\ Follows(u, t)
  BY <1>3, <1>5 DEF Follows, Opens, Joint
<1>7. Task(r, current_stack) /\ Task(u, current_stack)
  <2>1. r.depth \in Nat /\ u.k \in Joint
    BY <1>3, <1>5 DEF Joint
  <2> QED
    BY <1>4, <1>5, <2>1, NewTask
<1>8. Replaces(c, walk) /\ Tasks(c, current_stack) /\ c[1] = r /\ Len(c) > 0 /\ Opens(r)
  <2>1. Len(c) = 3 /\ c[1] = r /\ Opens(r)
    BY <1>5, Tuples DEF Opens
  <2>2. Replaces(c, walk)
    BY <1>6, ReplaceShort
  <2>3. Tasks(c, current_stack)
    BY <1>4, <1>7, TasksShort
  <2> QED
    BY <2>1, <2>2, <2>3
<1>9. IsSeq(e)
  <2>1. IsSeq(b)
    BY <1>4, SeqAppend DEF BuffersFit
  <2> HIDE DEF b
  <2>2. IsSeq(<<JmpNe(name, 1), In({1})>>)
    BY Tuples
  <2> QED
    BY <2>1, <2>2, SeqJoin
<1> HIDE DEF c, e
<1>10. walk'[1] = r
  BY <1>2, <1>4, <1>8, ShapePut
<1>11. walk'[1].k = "block" /\ current_stack <= current_stack' /\ IsSeq(asm_buf')
  <2>1. walk'[1].k = "block"
    BY <1>5, <1>10
  <2>2. IsSeq(asm_buf')
    BY <1>2, <1>9
  <2>3. current_stack <= current_stack'
    BY <1>2, <1>4
  <2> QED
    BY <2>1, <2>2, <2>3
<1> QED
  BY <1>2, <1>3, <1>4, <1>8, <1>11, OutsideStep

LEMMA WhileStep ==
    ASSUME BranchInv, NestInArms = FALSE, StmtWhile
    PROVE  BranchInv' /\ ~ InMatch
<1> DEFINE t == walk[1]
           uncond == Name("uncondwhile", asm_buf)
           b == Append(asm_buf, Jmp(uncond))
           name == Name("jmpwhile", b)
           r == Inner
           u == [k |-> "cond", name |-> name, uncond |-> uncond, scope |-> scope]
           c == <<r, u, t>>
           e == b \o <<Label(name), In({1})>>
<1>1. AtTask("block") /\ (t.arm => NestInArms)
  BY DEF StmtWhile, StartNested, StartStmt
<1>2. /\ asm_buf' = e /\ walk' = c \o Tail(walk)
      /\ current_stack' = current_stack /\ scope' = scope
      /\ streams' = streams /\ stage' = stage /\ pc' = pc /\ sp' = sp
  BY DEF StmtWhile, Emit, machine
<1>3. /\ stage = "gen" /\ t.k = "block" /\ t.depth \in Nat /\ ~ InMatch /\ Opens(t)
  BY <1>1, BlockFacts
<1>4. /\ Shape(walk) /\ Task(t, current_stack) /\ BuffersFit
      /\ current_stack \in Nat /\ scope \subseteq 1..current_stack
  BY <1>3, WalkFacts
<1>5. /\ r.k = "block" /\ r.depth = t.depth + 1 /\ r.arm = FALSE
      /\ u.k = "cond" /\ u.scope = scope
  BY DEF Inner, Block
<1> HIDE DEF name, r, u
<1>6. Follows(r, u) /\ Follows(u, t)
  BY <1>3, <1>5 DEF Follows, Opens, Joint
<1>7. Task(r, current_stack) /\ Task(u, current_stack)
  <2>1. r.depth \in Nat /\ u.k \in Joint
    BY <1>3, <1>5 DEF Joint
  <2> QED
    BY <1>4, <1>5, <2>1, NewTask
<1>8. Replaces(c, walk) /\ Tasks(c, current_stack) /\ c[1] = r /\ Len(c) > 0 /\ Opens(r)
  <2>1. Len(c) = 3 /\ c[1] = r /\ Opens(r)
    BY <1>5, Tuples DEF Opens
  <2>2. Replaces(c, walk)
    BY <1>6, ReplaceShort
  <2>3. Tasks(c, current_stack)
    BY <1>4, <1>7, TasksShort
  <2> QED
    BY <2>1, <2>2, <2>3
<1>9. IsSeq(e)
  <2>1. IsSeq(b)
    BY <1>4, SeqAppend DEF BuffersFit
  <2> HIDE DEF b
  <2>2. IsSeq(<<Label(name), In({1})>>)
    BY Tuples
  <2> QED
    BY <2>1, <2>2, SeqJoin
<1> HIDE DEF c, e
<1>10. walk'[1] = r
  BY <1>2, <1>4, <1>8, ShapePut
<1>11. walk'[1].k = "block" /\ current_stack <= current_stack' /\ IsSeq(asm_buf')
  <2>1. walk'[1].k = "block"
    BY <1>5, <1>10
  <2>2. IsSeq(asm_buf')
    BY <1>2, <1>9
  <2>3. current_stack <= current_stack'
    BY <1>2, <1>4
  <2> QED
    BY <2>1, <2>2, <2>3
<1> QED
  BY <1>2, <1>3, <1>4, <1>8, <1>11, OutsideStep

\* The first task is neither a block nor part of a match.
LEMMA JointFacts ==
    ASSUME BranchInv, stage = "gen", walk[1].k \in Joint
    PROVE  /\ ~ InMatch /\ ~ InArm /\ Len(walk) > 1 /\ Opens(walk[2])
           /\ walk[2].depth \in Nat /\ scope = walk[1].scope
           /\ current_stack \in Nat /\ scope \subseteq 1..current_stack
           /\ IsSeq(asm_buf) /\ Shape(walk)
<1>1. ~ InMatch /\ ~ InArm /\ ~ Bottom(walk[1])
  BY DEF InMatch, InArm, ArmBlock, Bottom, Opens, Joint
<1>2. /\ Len(walk) > 1 /\ Follows(walk[1], walk[2]) /\ Task(walk[2], current_stack)
      /\ current_stack \in Nat /\ scope \subseteq 1..current_stack
      /\ BuffersFit /\ Shape(walk)
  BY <1>1, WalkFacts
<1>3. Opens(walk[2])
  BY <1>2 DEF Follows, ArmBlock, Opens, Joint
<1>4. walk[2].depth \in Nat /\ IsSeq(asm_buf)
  BY <1>2, <1>3 DEF Opens, Task, BuffersFit
<1>5. scope = walk[1].scope
  BY DEF BranchInv, Joint
<1> QED
  BY <1>1, <1>2, <1>3, <1>4, <1>5

\* It ends.
LEMMA JointEnds ==
    ASSUME BranchInv, stage = "gen", walk[1].k \in Joint, stage' = stage, pc' = pc, sp' = sp,
           streams' = streams, current_stack' = current_stack, scope' = scope,
           walk' = << >> \o Tail(walk), IsSeq(asm_buf')
    PROVE  BranchInv'
<1> DEFINE c == << >>
<1>1. /\ ~ InMatch /\ Len(walk) > 1 /\ Opens(walk[2]) /\ current_stack \in Nat
      /\ scope \subseteq 1..current_stack
  BY JointFacts
<1>2. walk'[1] = walk[2] /\ Replaces(c, walk) /\ (\A v : Tasks(c, v)) /\ ~ (Len(c) > 0)
  BY <1>1, NextTask, NoneIsSeq
<1>3. walk' = c \o Tail(walk)
  OBVIOUS
<1>4. walk'[1].k = "block" /\ current_stack <= current_stack'
  BY <1>1, <1>2 DEF Opens
<1> HIDE DEF c
<1> QED
  BY <1>1, <1>2, <1>3, <1>4, OutsideStep

LEMMA ThenStep ==
    ASSUME BranchInv, Then
    PROVE  BranchInv'
<1> DEFINE t == walk[1]
           merge == Name("mergeif", asm_buf)
           b == asm_buf \o <<Jmp(merge), Label(t.name), In({0})>>
           r == Block(walk[2].depth + 1, FALSE)
           u == [k |-> "merge", name |-> merge, scope |-> scope]
           c == <<r, u>>
<1>1. /\ stage = "gen" /\ t.k \in Joint
      /\ current_stack' = current_stack /\ scope' = scope
      /\ streams' = streams /\ stage' = stage /\ pc' = pc /\ sp' = sp
  BY DEF Then, AtTask, machine, Joint
<1>2. /\ ~ InMatch /\ Len(walk) > 1 /\ Opens(walk[2])
      /\ walk[2].depth \in Nat /\ current_stack \in Nat /\ scope \subseteq 1..current_stack
      /\ IsSeq(asm_buf) /\ Shape(walk)
  BY <1>1, JointFacts
<1>3. IsSeq(b)
  <2> DEFINE d == <<Jmp(merge), Label(t.name), In({0})>>
  <2>1. IsSeq(d)
    BY Tuples
  <2> HIDE DEF d
  <2>2. IsSeq(asm_buf \o d)
    BY <1>2, <2>1, SeqJoin
  <2> QED
    BY <2>2 DEF d
<1>4. \/ asm_buf' = b /\ walk' = c \o Tail(walk)
      \/ asm_buf' = Append(b, Label(merge)) /\ walk' = << >> \o Tail(walk)
  BY DEF Then, Emit
<1>5. /\ r.k = "block" /\ r.depth = walk[2].depth + 1 /\ r.arm = FALSE
      /\ u.k = "merge" /\ u.scope = scope
  BY DEF Block
<1> HIDE DEF b, r, u, merge
<1>6. CASE asm_buf' = b /\ walk' = c \o Tail(walk)
  <2>1. Follows(r, u) /\ Follows(u, walk[2]) /\ Opens(r)
    BY <1>2, <1>5 DEF Follows, Opens, Joint
  <2>2. Task(r, current_stack) /\ Task(u, current_stack)
    <3>1. r.depth \in Nat /\ u.k \in Joint
      BY <1>2, <1>5 DEF Joint
    <3> QED
      BY <1>2, <1>5, <3>1, NewTask
  <2>3. Replaces(c, walk) /\ Tasks(c, current_stack) /\ c[1] = r /\ Len(c) > 0
    <3>1. Len(c) = 2 /\ c[1] = r
      BY Tuples
    <3>2. Replaces(c, walk)
      BY <1>2, <2>1, ReplaceShort
    <3>3. Tasks(c, current_stack)
      BY <2>2, TasksShort
    <3> QED
      BY <3>1, <3>2, <3>3
  <2> HIDE DEF c
  <2>4. walk'[1] = r /\ current_stack <= current_stack'
    BY <1>1, <1>2, <1>6, <2>3, ShapePut
  <2> QED
    BY <1>1, <1>2, <1>3, <1>5, <1>6, <2>1, <2>3, <2>4, OutsideStep
<1>7. CASE asm_buf' = Append(b, Label(merge)) /\ walk' = << >> \o Tail(walk)
  <2>1. IsSeq(asm_buf')
    BY <1>3, <1>7, SeqAppend
  <2> QED
    BY <1>1, <1>7, <2>1, JointEnds
<1> QED
  BY <1>4, <1>6, <1>7

LEMMA MergeStep ==
    ASSUME BranchInv, Merge
    PROVE  BranchInv'
<1>1. /\ stage = "gen" /\ walk[1].k \in Joint
      /\ asm_buf' = Append(asm_buf, Label(walk[1].name)) /\ walk' = << >> \o Tail(walk)
      /\ current_stack' = current_stack /\ scope' = scope
      /\ streams' = streams /\ stage' = stage /\ pc' = pc /\ sp' = sp
  BY DEF Merge, AtTask, Emit, machine, Joint
<1>2. IsSeq(asm_buf')
  BY <1>1, JointFacts, SeqAppend
<1> QED
  BY <1>1, <1>2, JointEnds

LEMMA WhileEndStep ==
    ASSUME BranchInv, WhileEnd
    PROVE  BranchInv'
<1> DEFINE t == walk[1]
           b == Append(asm_buf, Label(t.uncond))
<1>1. /\ stage = "gen" /\ t.k \in Joint /\ walk' = << >> \o Tail(walk)
      /\ current_stack' = current_stack /\ scope' = scope
      /\ streams' = streams /\ stage' = stage /\ pc' = pc /\ sp' = sp
      /\ \/ asm_buf' = b \o <<Compare({0, 1}), JmpEq(t.name, 1), In({0})>>
         \/ asm_buf' = b \o <<Val({1}), Jmp(t.name)>>
  BY DEF WhileEnd, AtTask, Emit, machine, Joint
<1>2. IsSeq(b)
  BY <1>1, JointFacts, SeqAppend
<1> HIDE DEF b
<1>3. IsSeq(asm_buf')
  BY <1>1, <1>2, SeqJoin, Tuples
<1> QED
  BY <1>1, <1>3, JointEnds

-----------------------------------------------------------------------------
(* Control flow: matches *)

LEMMA OneSeq ==
    ASSUME NEW x, NEW r, r \in [1..1 -> {x}]
    PROVE  IsSeq(r) /\ Len(r) = 1 /\ r[1] = x
<1>1. DOMAIN r = 1..1 /\ r[1] = x
  OBVIOUS
<1>2. r \in Seq({x})
  BY SeqDef
<1>3. Len(r) = 1
  BY <1>1, <1>2, LenProperties
<1> QED
  BY <1>1, <1>2, <1>3 DEF IsSeq

\* The one stream there is gives way to r.
PutIn(u, s, r) == u = [s EXCEPT ![1] = r]

LEMMA StreamPut ==
    ASSUME NEW s, IsSeq(s), Len(s) = 1, NEW r, NEW u, PutIn(u, s, r)
    PROVE  IsSeq(u) /\ Len(u) = 1 /\ u[1] = r
<1>1. PICK S : s \in Seq(S) /\ Len(s) = 1
  BY DEF IsSeq
<1>2. u \in [1..1 -> {r}]
  BY <1>1 DEF PutIn
<1> QED
  BY <1>2, OneSeq

LEMMA FunSeq ==
    ASSUME NEW n \in Nat, NEW S, NEW f \in [1..n -> S]
    PROVE  IsSeq(f) /\ Len(f) = n
<1>1. f \in Seq(S)
  BY SeqDef
<1>2. Len(f) \in Nat /\ DOMAIN f = 1..Len(f) /\ DOMAIN f = 1..n
  BY <1>1
<1>3. Len(f) = n
  BY <1>1, <1>2, LenProperties
<1> QED
  BY <1>1, <1>3 DEF IsSeq

\* The first task is part of a match.
LEMMA MatchFacts ==
    ASSUME BranchInv, stage = "gen", walk[1].k \in {"match", "armend"}
    PROVE  /\ InMatch /\ (InArm <=> walk[1].k = "armend") /\ Shape(walk) /\ Len(walk) > 1
           /\ IsSeq(streams) /\ Len(streams) = 1 /\ DOMAIN streams[1] = {"outer", "arms"}
           /\ IsSeq(asm_buf) /\ IsSeq(streams[1].arms) /\ (InArm => IsSeq(streams[1].outer))
           /\ current_stack \in Nat /\ scope \subseteq 1..current_stack
           /\ Follows(walk[1], walk[2]) /\ scope = walk[1].scope
           /\ Task(walk[1], current_stack) /\ Task(walk[2], current_stack)
<1>1. InMatch /\ (InArm <=> walk[1].k = "armend") /\ ~ Bottom(walk[1])
  BY DEF InMatch, InArm, ArmBlock, Bottom, Opens
<1>2. /\ Shape(walk) /\ current_stack \in Nat /\ scope \subseteq 1..current_stack
      /\ Len(walk) > 1 /\ Follows(walk[1], walk[2]) /\ StreamFits /\ BuffersFit
      /\ Task(walk[1], current_stack) /\ Task(walk[2], current_stack)
  BY <1>1, WalkFacts
<1>3. IsSeq(streams) /\ Len(streams) = 1 /\ DOMAIN streams[1] = {"outer", "arms"}
  BY <1>1, <1>2 DEF StreamFits
<1>4. IsSeq(asm_buf) /\ IsSeq(streams[1].arms) /\ (InArm => IsSeq(streams[1].outer))
  BY <1>1, <1>2 DEF BuffersFit
<1>5. scope = walk[1].scope
  BY DEF BranchInv
<1> QED
  BY <1>1, <1>2, <1>3, <1>4, <1>5

MatchTask(arms) ==
    [k |-> "match", arms |-> arms, rest |-> Variants, depth |-> walk[1].depth + 1,
     merge |-> Name("matchmerge", asm_buf), scope |-> scope]

LEMMA MatchStep ==
    ASSUME BranchInv, NestInArms = FALSE, NEW arms \in Matches, StmtMatch(arms)
    PROVE  /\ BranchInv' /\ ~ InMatch /\ InMatch' /\ ~ InArm'
           /\ walk'[1] = MatchTask(arms)
           /\ streams' = << [outer |-> << >>, arms |-> << >>] >>
<1> DEFINE t == walk[1]
           u == MatchTask(arms)
           c == <<u, t>>
           r == [outer |-> << >>, arms |-> << >>]
<1>1. AtTask("block") /\ (t.arm => NestInArms)
  BY DEF StmtMatch, StartNested, StartStmt
<1>2. /\ asm_buf' = Append(asm_buf, Val(Variants)) /\ walk' = c \o Tail(walk)
      /\ current_stack' = current_stack /\ scope' = scope
      /\ streams' = Append(streams, r) /\ stage' = stage /\ pc' = pc /\ sp' = sp
  BY DEF StmtMatch, Emit, machine, MatchTask
<1>3. /\ stage = "gen" /\ t.k = "block" /\ t.depth \in Nat /\ ~ InMatch /\ Opens(t)
  BY <1>1, BlockFacts
<1>4. /\ Shape(walk) /\ Task(t, current_stack) /\ BuffersFit /\ StreamFits
      /\ current_stack \in Nat /\ scope \subseteq 1..current_stack
  BY <1>3, WalkFacts
<1>5. /\ u.k = "match" /\ u.arms = arms /\ u.depth = t.depth + 1 /\ u.scope = scope
      /\ DOMAIN u = {"k", "arms", "rest", "merge", "depth", "scope"}
  BY DEF MatchTask
<1>6. DOMAIN r = {"outer", "arms"} /\ r.arms = << >> /\ r.outer = << >>
  OBVIOUS
<1> HIDE DEF u, r
<1>7. Follows(u, t)
  BY <1>3, <1>5 DEF Follows
<1>8. Task(u, current_stack)
  <2>1. arms \in Seq(Seq(Patterns))
    BY BranchesAssumption
  <2>2. u.depth \in Nat \ {0}
    BY <1>3, <1>5
  <2> QED
    BY <1>4, <1>5, <2>1, <2>2 DEF Task, ArmBlock
<1>9. Replaces(c, walk) /\ Tasks(c, current_stack) /\ c[1] = u /\ Len(c) > 0
  <2>1. Len(c) = 2 /\ c[1] = u
    BY Tuples
  <2>2. Replaces(c, walk)
    BY <1>7, ReplaceShort
  <2>3. Tasks(c, current_stack)
    BY <1>4, <1>8, TasksShort
  <2> QED
    BY <2>1, <2>2, <2>3
<1>10. IsSeq(asm_buf')
  BY <1>2, <1>4, SeqAppend DEF BuffersFit
<1> HIDE DEF c
<1>11. walk'[1] = u
  BY <1>2, <1>4, <1>9, ShapePut
<1>12. InMatch' /\ ~ InArm'
  BY <1>5, <1>11 DEF InMatch, InArm, ArmBlock
<1>13. streams = << >> /\ streams' = <<r>>
  BY <1>2, <1>3, <1>4 DEF StreamFits
<1>14. IsSeq(streams') /\ Len(streams') = 1 /\ streams'[1] = r
  BY <1>13, Tuples
<1>15. StreamFits' /\ BuffersFit'
  BY <1>6, <1>10, <1>12, <1>14, NoneIsSeq DEF StreamFits, BuffersFit
<1>16. BranchInv'
  <2>1. current_stack' \in Nat /\ current_stack <= current_stack'
    BY <1>2, <1>4
  <2>2. scope' \subseteq 1..current_stack' /\ Tasks(c, current_stack') /\ scope' = walk'[1].scope
    BY <1>2, <1>4, <1>5, <1>9, <1>11
  <2> QED
    BY <1>2, <1>3, <1>9, <1>15, <2>1, <2>2, WalkStep
<1> QED
  BY <1>3, <1>11, <1>12, <1>13, <1>16 DEF u, r

\* What an arm that is generated next is made of.
ArmTests(pats) ==
    [i \in 1..2 * Len(pats) |->
        IF i % 2 = 1 THEN Test ELSE JmpEq(PatName(pats, i \div 2), pats[i \div 2].v)]
ArmLabels(pats) == [i \in 1..Len(pats) |-> Label(PatName(pats, i))]
ArmEndTask == [k |-> "armend", merge |-> walk[1].merge, scope |-> scope]
LaterArms ==
    [walk[1] EXCEPT !.arms = Tail(walk[1].arms), !.rest = walk[1].rest \ TakenBy(walk[1].arms[1])]

LEMMA ArmStartStep ==
    ASSUME BranchInv, gen_match_arm
    PROVE  /\ BranchInv' /\ InMatch /\ ~ InArm /\ InMatch' /\ InArm'
           /\ walk'[1] = Block(walk[1].depth, TRUE)
           /\ walk' = <<Block(walk[1].depth, TRUE), ArmEndTask, LaterArms>> \o Tail(walk)
           /\ walk[1].arms[1] \in Seq(Patterns)
           /\ streams'[1].outer = asm_buf \o ArmTests(walk[1].arms[1])
           /\ streams'[1].arms = streams[1].arms
           /\ asm_buf' = Append(ArmLabels(walk[1].arms[1]),
                                In(TakenBy(walk[1].arms[1]) \cap walk[1].rest))
<1> DEFINE t == walk[1]
           pats == t.arms[1]
           r == Block(t.depth, TRUE)
           u == ArmEndTask
           v == LaterArms
           c == <<r, u, v>>
           o == asm_buf \o ArmTests(pats)
           b == Append(ArmLabels(pats), In(TakenBy(pats) \cap t.rest))
<1>1. stage = "gen" /\ t.k = "match" /\ t.arms # << >>
  BY DEF gen_match_arm, AtTask
<1>2. /\ walk' = c \o Tail(walk) /\ asm_buf' = b
      /\ streams' = [streams EXCEPT ![Len(streams)].outer = o]
      /\ current_stack' = current_stack /\ scope' = scope
      /\ stage' = stage /\ pc' = pc /\ sp' = sp
  BY DEF gen_match_arm, Emit, machine, ArmTests, ArmLabels, ArmEndTask, LaterArms
<1>3. /\ InMatch /\ ~ InArm /\ Shape(walk) /\ Len(walk) > 1
      /\ IsSeq(streams) /\ Len(streams) = 1 /\ DOMAIN streams[1] = {"outer", "arms"}
      /\ IsSeq(asm_buf) /\ IsSeq(streams[1].arms)
      /\ current_stack \in Nat /\ scope \subseteq 1..current_stack
      /\ Follows(t, walk[2]) /\ scope = t.scope /\ Task(t, current_stack)
  BY <1>1, MatchFacts
<1>4. /\ DOMAIN t = {"k", "arms", "rest", "merge", "depth", "scope"}
      /\ t.arms \in Seq(Seq(Patterns)) /\ t.depth \in Nat \ {0}
  BY <1>1, <1>3 DEF Task
<1>5. pats \in Seq(Patterns) /\ Tail(t.arms) \in Seq(Seq(Patterns))
  BY <1>1, <1>4
<1>6. /\ r.k = "block" /\ r.depth = t.depth /\ r.arm = TRUE
      /\ u.k = "armend" /\ u.merge = t.merge /\ u.scope = scope
  BY DEF Block, ArmEndTask
<1>7. /\ v.k = "match" /\ v.arms = Tail(t.arms) /\ v.merge = t.merge /\ v.depth = t.depth
      /\ v.scope = t.scope /\ DOMAIN v = {"k", "arms", "rest", "merge", "depth", "scope"}
  BY <1>1, <1>4 DEF LaterArms
<1>8. IsSeq(ArmTests(pats)) /\ IsSeq(ArmLabels(pats))
  <2>1. Len(pats) \in Nat /\ 2 * Len(pats) \in Nat
    BY <1>5
  <2>2. PICK S : ArmTests(pats) \in [1..2 * Len(pats) -> S]
    <3>1. ArmTests(pats) \in [1..2 * Len(pats) -> {ArmTests(pats)[i] : i \in 1..2 * Len(pats)}]
      BY DEF ArmTests
    <3> QED
      BY <3>1
  <2>3. PICK R : ArmLabels(pats) \in [1..Len(pats) -> R]
    <3>1. ArmLabels(pats) \in [1..Len(pats) -> {ArmLabels(pats)[i] : i \in 1..Len(pats)}]
      BY DEF ArmLabels
    <3> QED
      BY <3>1
  <2> QED
    BY <2>1, <2>2, <2>3, FunSeq
<1>9. IsSeq(o) /\ IsSeq(b)
  BY <1>3, <1>8, SeqJoin, SeqAppend
<1> HIDE DEF r, u, v, o, b
<1>10. ArmBlock(r) /\ Follows(r, u) /\ Follows(u, v)
  BY <1>3, <1>6, <1>7 DEF Follows, ArmBlock
<1>11. Follows(v, walk[2])
  BY <1>1, <1>3, <1>7 DEF Follows, Opens, ArmBlock, Joint
<1>12. /\ Task(r, current_stack)
       /\ Task(u, current_stack)
       /\ Task(v, current_stack)
  <2>1. Task(r, current_stack)
    <3>1. r.depth \in Nat /\ r.depth > 0
      BY <1>4, <1>6
    <3> QED
      BY <1>6, <3>1 DEF Task
  <2>2. Task(u, current_stack)
    BY <1>3, <1>6 DEF Task, ArmBlock
  <2>3. Task(v, current_stack)
    BY <1>3, <1>4, <1>5, <1>7 DEF Task, ArmBlock
  <2> QED
    BY <2>1, <2>2, <2>3
<1>13. Replaces(c, walk) /\ Tasks(c, current_stack) /\ c[1] = r /\ Len(c) > 0
  <2>1. Len(c) = 3 /\ c[1] = r
    BY Tuples
  <2>2. Replaces(c, walk)
    BY <1>3, <1>10, <1>11, ReplaceShort
  <2>3. Tasks(c, current_stack)
    BY <1>12, TasksShort
  <2> QED
    BY <2>1, <2>2, <2>3
<1> DEFINE d == c
<1>14. Replaces(d, walk) /\ Tasks(d, current_stack) /\ d[1] = r /\ Len(d) > 0 /\ walk' = d \o Tail(walk)
  BY <1>2, <1>13
<1> HIDE DEF d
<1>15. walk'[1] = r
  BY <1>3, <1>14, ShapePut
<1>16. InMatch' /\ InArm'
  BY <1>10, <1>15 DEF InMatch, InArm
<1>17. /\ IsSeq(streams') /\ Len(streams') = 1 /\ DOMAIN streams'[1] = {"outer", "arms"}
       /\ streams'[1].outer = o /\ streams'[1].arms = streams[1].arms
  <2> DEFINE q == streams[1]
             p == [q EXCEPT !.outer = o]
  <2>1. streams' = [streams EXCEPT ![1] = p]
    BY <1>2, <1>3
  <2>2. DOMAIN p = {"outer", "arms"} /\ p.outer = o /\ p.arms = q.arms
    <3>1. DOMAIN q = {"outer", "arms"}
      BY <1>3
    <3> HIDE DEF q
    <3> QED
      BY <3>1
  <2> HIDE DEF p
  <2>3. PutIn(streams', streams, p)
    BY <2>1 DEF PutIn
  <2>4. IsSeq(streams') /\ Len(streams') = 1 /\ streams'[1] = p
    BY <1>3, <2>3, StreamPut
  <2> QED
    BY <2>2, <2>4
<1>18. StreamFits' /\ BuffersFit'
  BY <1>2, <1>3, <1>9, <1>16, <1>17 DEF StreamFits, BuffersFit
<1>19. BranchInv'
  <2>1. current_stack' \in Nat /\ current_stack <= current_stack'
    BY <1>2, <1>3
  <2>2. scope' \subseteq 1..current_stack' /\ Tasks(d, current_stack') /\ walk'[1].k = "block"
    BY <1>2, <1>3, <1>6, <1>14, <1>15
  <2> QED
    BY <1>1, <1>2, <1>14, <1>18, <2>1, <2>2, WalkStep
<1> QED
  BY <1>2, <1>3, <1>5, <1>15, <1>16, <1>17, <1>19 DEF r, u, v, o, b

\* The arm ends: its code is kept, and the buffers are swapped back.
LEMMA ArmEndStep ==
    ASSUME BranchInv, ArmEnd
    PROVE  /\ BranchInv' /\ InMatch /\ InArm /\ InMatch' /\ ~ InArm'
           /\ walk'[1] = walk[2] /\ walk[2].k = "match" /\ walk[2].merge = walk[1].merge
           /\ asm_buf' = streams[1].outer
           /\ streams'[1].arms = streams[1].arms \o Append(asm_buf, Jmp(walk[1].merge))
<1> DEFINE t == walk[1]
           a == streams[1].arms \o Append(asm_buf, Jmp(t.merge))
           c == << >>
<1>1. stage = "gen" /\ t.k = "armend"
  BY DEF ArmEnd, AtTask
<1>2. /\ InMatch /\ InArm /\ Shape(walk) /\ Len(walk) > 1
      /\ IsSeq(streams) /\ Len(streams) = 1 /\ DOMAIN streams[1] = {"outer", "arms"}
      /\ IsSeq(asm_buf) /\ IsSeq(streams[1].arms) /\ IsSeq(streams[1].outer)
      /\ current_stack \in Nat /\ scope \subseteq 1..current_stack
      /\ Follows(t, walk[2]) /\ scope = t.scope
  BY <1>1, MatchFacts
<1>3. /\ walk' = << >> \o Tail(walk) /\ asm_buf' = streams[1].outer
      /\ streams' = [streams EXCEPT ![1].arms = a]
      /\ current_stack' = current_stack /\ scope' = scope
      /\ stage' = stage /\ pc' = pc /\ sp' = sp
  BY <1>2 DEF ArmEnd, Emit, machine
<1>4. walk[2].k = "match" /\ walk[2].merge = t.merge /\ walk[2].scope = t.scope
  BY <1>1, <1>2 DEF Follows, ArmBlock, Opens, Joint
<1>5. IsSeq(a)
  BY <1>2, SeqAppend, SeqJoin
<1> HIDE DEF a
<1>6. walk'[1] = walk[2] /\ Replaces(c, walk) /\ \A v : Tasks(c, v)
  BY <1>1, <1>2, <1>3, NextTask
<1>7. InMatch' /\ ~ InArm'
  BY <1>4, <1>6 DEF InMatch, InArm, ArmBlock
<1>8. /\ IsSeq(streams') /\ Len(streams') = 1 /\ DOMAIN streams'[1] = {"outer", "arms"}
      /\ streams'[1].arms = a
  <2> DEFINE q == streams[1]
             p == [q EXCEPT !.arms = a]
  <2>1. streams' = [streams EXCEPT ![1] = p]
    BY <1>3
  <2>2. DOMAIN p = {"outer", "arms"} /\ p.arms = a
    <3>1. DOMAIN q = {"outer", "arms"}
      BY <1>2
    <3> HIDE DEF q
    <3> QED
      BY <3>1
  <2> HIDE DEF p
  <2>3. PutIn(streams', streams, p)
    BY <2>1 DEF PutIn
  <2>4. IsSeq(streams') /\ Len(streams') = 1 /\ streams'[1] = p
    BY <1>2, <2>3, StreamPut
  <2> QED
    BY <2>2, <2>4
<1>9. StreamFits' /\ BuffersFit'
  BY <1>2, <1>3, <1>5, <1>7, <1>8 DEF StreamFits, BuffersFit
<1>10. BranchInv'
  <2>1. current_stack' \in Nat /\ current_stack <= current_stack'
    BY <1>2, <1>3
  <2>2. scope' \subseteq 1..current_stack' /\ scope' = walk'[1].scope /\ walk' = c \o Tail(walk)
    BY <1>2, <1>3, <1>4, <1>6
  <2> HIDE DEF c
  <2> QED
    BY <1>1, <1>3, <1>6, <1>9, <2>1, <2>2, WalkStep
<1> QED
  BY <1>2, <1>3, <1>4, <1>6, <1>7, <1>8, <1>10 DEF a

\* The match ends: the code of its arms follows that of the comparisons.
LEMMA MatchEndStep ==
    ASSUME BranchInv, MatchEnd
    PROVE  /\ BranchInv' /\ InMatch /\ ~ InArm /\ ~ InMatch'
           /\ walk'[1] = walk[2] /\ Opens(walk[2]) /\ Len(walk) > 1
           /\ asm_buf' = asm_buf \o streams[1].arms \o <<Label(walk[1].merge)>>
<1> DEFINE t == walk[1]
           e == asm_buf \o streams[1].arms \o <<Label(t.merge)>>
           c == << >>
<1>1. stage = "gen" /\ t.k = "match"
  BY DEF MatchEnd, AtTask
<1>2. /\ InMatch /\ ~ InArm /\ Shape(walk) /\ Len(walk) > 1
      /\ IsSeq(streams) /\ Len(streams) = 1
      /\ IsSeq(asm_buf) /\ IsSeq(streams[1].arms)
      /\ current_stack \in Nat /\ scope \subseteq 1..current_stack
      /\ Follows(t, walk[2])
  BY <1>1, MatchFacts
<1>3. /\ walk' = << >> \o Tail(walk) /\ asm_buf' = e
      /\ streams' = Front(streams)
      /\ current_stack' = current_stack /\ scope' = scope
      /\ stage' = stage /\ pc' = pc /\ sp' = sp
  BY <1>2 DEF MatchEnd, Emit, machine
<1>4. Opens(walk[2])
  BY <1>1, <1>2 DEF Follows, ArmBlock, Opens, Joint
<1>5. IsSeq(e)
  BY <1>2, SeqJoin, Tuples
<1> HIDE DEF e
<1>6. walk'[1] = walk[2] /\ Replaces(c, walk) /\ \A v : Tasks(c, v)
  BY <1>1, <1>2, <1>3, NextTask
<1>7. ~ InMatch' /\ ~ InArm'
  BY <1>4, <1>6 DEF InMatch, InArm, ArmBlock, Opens
<1>8. streams' = << >>
  <2>1. 0 \in 0..Len(streams) /\ Len(streams) - 1 = 0
    BY <1>2
  <2>2. streams' = SubSeq(streams, 1, 0)
    BY <1>3, <2>1 DEF Front
  <2>3. IsSeq(SubSeq(streams, 1, 0)) /\ Len(SubSeq(streams, 1, 0)) = 0
    BY <1>2, <2>1, SeqFirst
  <2> QED
    BY <2>2, <2>3, SeqFacts
<1>9. StreamFits' /\ BuffersFit'
  BY <1>3, <1>5, <1>7, <1>8 DEF StreamFits, BuffersFit
<1>10. BranchInv'
  <2>1. current_stack' \in Nat /\ current_stack <= current_stack'
    BY <1>2, <1>3
  <2>2. scope' \subseteq 1..current_stack' /\ walk'[1].k = "block" /\ walk' = c \o Tail(walk)
    BY <1>2, <1>3, <1>4, <1>6 DEF Opens
  <2> HIDE DEF c
  <2> QED
    BY <1>1, <1>3, <1>6, <1>9, <2>1, <2>2, WalkStep
<1> QED
  BY <1>2, <1>3, <1>4, <1>6, <1>7, <1>10 DEF e

-----------------------------------------------------------------------------
(* Control flow: the shape of the walk is an invariant *)

LEMMA BranchStart ==
    ASSUME BranchInit PROVE BranchInv /\ ~ InMatch
<1> DEFINE t == Block(0, FALSE)
<1>1. /\ asm_buf = << >> /\ streams = << >> /\ current_stack = 0 /\ scope = {}
      /\ walk = <<t>> /\ stage = "gen" /\ pc = 1 /\ sp = 0
  BY DEF BranchInit
<1>2. t.k = "block" /\ t.depth = 0 /\ t.arm = FALSE
  BY DEF Block
<1> HIDE DEF t
<1>3. IsSeq(walk) /\ Len(walk) = 1 /\ walk[1] = t
  BY <1>1, Tuples
<1>4. Shape(walk)
  <2>1. walk # << >>
    BY <1>3, SeqFacts
  <2> QED
    BY <1>2, <1>3, <2>1 DEF Shape, Bottom, Opens
<1>5. ~ InArm /\ ~ InMatch
  BY <1>2, <1>3 DEF InArm, InMatch, ArmBlock
<1>6. StreamFits /\ BuffersFit
  BY <1>1, <1>5, NoneIsSeq DEF StreamFits, BuffersFit
<1>7. Tasks(walk, current_stack)
  <2>1. Task(t, current_stack)
    <3>1. t.depth \in Nat
      BY <1>2
    <3> QED
      BY <1>2, <3>1, NewTask
  <2> QED
    BY <1>1, <2>1, TasksShort
<1> QED
  BY <1>1, <1>2, <1>3, <1>4, <1>5, <1>6, <1>7 DEF BranchInv

LEMMA EndFuncStep ==
    ASSUME BranchInv, EndFunc
    PROVE  /\ BranchInv' /\ stage = "gen" /\ ~ InMatch /\ IsSeq(asm_buf)
           /\ pc = 1 /\ sp = 0 /\ walk[1].k = "block"
<1>1. /\ AtTask("block") /\ walk[1].depth = 0 /\ stage' = "run"
      /\ asm_buf' = asm_buf /\ current_stack' = current_stack /\ scope' = scope
      /\ pc' = pc /\ sp' = sp
  BY DEF EndFunc, machine
<1>2. stage = "gen" /\ walk[1].k = "block" /\ ~ InMatch
  <2>1. walk[1].arm # TRUE
    <3>1. ~ (walk[1].depth > 0)
      BY <1>1
    <3> QED
      BY <1>1, <3>1, BlockFacts
  <2> QED
    BY <1>1, <2>1, BlockFacts
<1>3. current_stack \in Nat /\ scope \subseteq 1..current_stack /\ IsSeq(asm_buf)
  BY <1>2, WalkFacts DEF BuffersFit
<1>4. pc = 1 /\ sp = 0
  BY <1>2 DEF BranchInv
<1> QED
  BY <1>1, <1>2, <1>3, <1>4 DEF BranchInv

LEMMA ExecStep ==
    ASSUME BranchInv, Exec
    PROVE  BranchInv'
<1>1. /\ stage = "run" /\ stage' = stage /\ asm_buf' = asm_buf
      /\ current_stack' = current_stack /\ scope' = scope
      /\ pc' = pc + 1 \/ pc' \in DOMAIN asm_buf
      /\ sp' = sp + 1 \/ sp' = sp
  BY DEF Exec, Target
<1>2. /\ pc \in Nat \ {0} /\ sp \in Nat /\ IsSeq(asm_buf)
      /\ current_stack \in Nat /\ scope \subseteq 1..current_stack
  BY <1>1 DEF BranchInv
<1>3. DOMAIN asm_buf = 1..Len(asm_buf) /\ Len(asm_buf) \in Nat
  BY <1>2, SeqFacts
<1>4. pc' \in Nat \ {0}
  BY <1>1, <1>2, <1>3
<1>5. sp' \in Nat
  BY <1>1, <1>2
<1> QED
  BY <1>1, <1>2, <1>4, <1>5 DEF BranchInv

LEMMA BranchNextStep ==
    ASSUME BranchInv, [BranchNext]_brvars, NestInArms = FALSE
    PROVE  BranchInv'
<1>1. CASE StmtLet
  BY <1>1, LetStep
<1>2. CASE StmtCall
  BY <1>2, CallInBlock
<1>3. CASE EndBlock
  BY <1>3, EndBlockStep
<1>4. ASSUME NEW else \in BOOLEAN, StmtIf(else) PROVE BranchInv'
  BY <1>4, IfStep
<1>5. CASE Then
  BY <1>5, ThenStep
<1>6. CASE Merge
  BY <1>6, MergeStep
<1>7. CASE StmtWhile
  BY <1>7, WhileStep
<1>8. CASE WhileEnd
  BY <1>8, WhileEndStep
<1>9. ASSUME NEW arms \in Matches, StmtMatch(arms) PROVE BranchInv'
  BY <1>9, MatchStep
<1>10. CASE gen_match_arm
  BY <1>10, ArmStartStep
<1>11. CASE ArmEnd
  BY <1>11, ArmEndStep
<1>12. CASE MatchEnd
  BY <1>12, MatchEndStep
<1>13. CASE EndFunc
  BY <1>13, EndFuncStep
<1>14. CASE Exec
  BY <1>14, ExecStep
<1>15. CASE Leave
  <2>1. /\ current_stack' = current_stack /\ scope' = scope
        /\ stage' # "gen" /\ stage' # "run"
    BY <1>15 DEF Leave
  <2> QED
    BY <2>1 DEF BranchInv
<1>16. CASE UNCHANGED brvars
  <2>1. /\ asm_buf' = asm_buf /\ current_stack' = current_stack /\ streams' = streams
        /\ walk' = walk /\ scope' = scope /\ stage' = stage /\ pc' = pc /\ sp' = sp
    BY <1>16 DEF brvars
  <2>2. (InArm' <=> InArm) /\ (InMatch' <=> InMatch)
    BY <2>1 DEF InMatch, InArm
  <2>3. (StreamFits' <=> StreamFits) /\ (BuffersFit' <=> BuffersFit)
    BY <2>1, <2>2 DEF StreamFits, BuffersFit
  <2> QED
    BY <2>1, <2>3 DEF BranchInv
<1> QED
  BY <1>1, <1>2, <1>3, <1>4, <1>5, <1>6, <1>7, <1>8, <1>9, <1>10, <1>11, <1>12,
     <1>13, <1>14, <1>15, <1>16 DEF BranchNext

-----------------------------------------------------------------------------
(* Jumps: counting the labels of a name *)

\* A set of places, and one of places that follow them.
Joined(m, n, S, T, U) ==
    /\ m \in Nat /\ n \in Nat
    /\ S \in SUBSET (1..m) /\ T \in SUBSET (1..n) /\ U \in SUBSET (1..(m + n))
    /\ \A i \in 1..m : i \in U <=> i \in S
    /\ \A j \in 1..n : m + j \in U <=> j \in T

LEMMA CardJoin ==
    ASSUME NEW m, NEW n, NEW S, NEW T, NEW U, Joined(m, n, S, T, U)
    PROVE  /\ Cardinality(U) = Cardinality(S) + Cardinality(T)
           /\ Cardinality(S) \in Nat /\ Cardinality(T) \in Nat
<1> DEFINE V == {m + j : j \in T}
           f == [j \in T |-> m + j]
<1>0. /\ m \in Nat /\ n \in Nat
      /\ S \in SUBSET (1..m) /\ T \in SUBSET (1..n) /\ U \in SUBSET (1..(m + n))
      /\ \A i \in 1..m : i \in U <=> i \in S
      /\ \A j \in 1..n : m + j \in U <=> j \in T
  BY DEF Joined
<1>1. IsFiniteSet(S) /\ IsFiniteSet(T)
  <2>1. IsFiniteSet(1..m) /\ IsFiniteSet(1..n)
    BY <1>0, FS_Interval
  <2> QED
    BY <1>0, <2>1, FS_Subset
<1>2. f \in Bijection(T, V)
  <2>1. f \in [T -> V] /\ \A v \in V : \E j \in T : f[j] = v
    BY <1>0
  <2>2. \A i, j \in T : f[i] = f[j] => i = j
    BY <1>0
  <2> HIDE DEF f, V
  <2> QED
    BY <2>1, <2>2 DEF Bijection, Injection, Surjection, IsInjective
<1>3. ExistsBijection(T, V)
  BY <1>2 DEF ExistsBijection
<1>4. IsFiniteSet(V) /\ Cardinality(V) = Cardinality(T)
  BY <1>1, <1>3, FS_Bijection
<1>5. U = S \cup V /\ S \cap V = {}
  <2>1. \A i \in S : i <= m /\ i \in U
    BY <1>0
  <2>2. \A v \in V : ~ (v <= m) /\ v \in U
    BY <1>0
  <2>3. ASSUME NEW i \in U PROVE i \in S \cup V
    <3>1. CASE i <= m
      BY <1>0, <3>1
    <3>2. CASE ~ (i <= m)
      <4>1. i - m \in 1..n /\ i = m + (i - m)
        BY <1>0, <3>2
      <4>2. i - m \in T
        BY <1>0, <4>1
      <4> QED
        BY <4>1, <4>2
    <3> QED
      BY <3>1, <3>2
  <2> HIDE DEF V
  <2> QED
    BY <2>1, <2>2, <2>3
<1> HIDE DEF V
<1>6. Cardinality(S \cup V) = Cardinality(S) + Cardinality(V) - Cardinality(S \cap V)
  BY <1>1, <1>4, FS_Union
<1>7. Cardinality({}) = 0
  BY FS_EmptySet
<1>8. Cardinality(S) \in Nat /\ Cardinality(T) \in Nat
  BY <1>1, FS_CardinalityType
<1>9. Cardinality(U) = Cardinality(S \cup V) /\ Cardinality(S \cap V) = 0
  BY <1>5, <1>7
<1>10. \A a, b \in Nat : a + b - 0 = a + b
  OBVIOUS
<1>11. Cardinality(U) = Cardinality(S) + Cardinality(T)
  BY <1>4, <1>6, <1>8, <1>9, <1>10, Zenon
<1> QED
  BY <1>8, <1>11

LEMMA CardOne ==
    ASSUME NEW S, NEW P \in BOOLEAN, S = IF P THEN {1} ELSE {}
    PROVE  Cardinality(S) = IF P THEN 1 ELSE 0
<1>1. Cardinality({}) = 0
  BY FS_EmptySet
<1>2. Cardinality({1}) = 1
  BY FS_Singleton
<1> QED
  BY <1>1, <1>2

\* How often the instruction x is the label l, and whether it jumps there.
Is(x, l) == IF x = Label(l) THEN 1 ELSE 0
Goes(x, l) == x.op \in {"jmp", "je", "jne"} /\ x.lbl = l

LabelPlaces(s, l) == {i \in 1..Len(s) : s[i] = Label(l)}
Labels(s, l) == Cardinality(LabelPlaces(s, l))
Jumps(s, l) == \E i \in 1..Len(s) : Goes(s[i], l)

LEMMA LabelsNat ==
    ASSUME NEW s, IsSeq(s), NEW l
    PROVE  Labels(s, l) \in Nat /\ IsFiniteSet(LabelPlaces(s, l))
<1>1. Len(s) \in Nat
  BY SeqFacts
<1>2. IsFiniteSet(1..Len(s))
  BY <1>1, FS_Interval
<1>3. IsFiniteSet(LabelPlaces(s, l))
  BY <1>2, FS_Subset DEF LabelPlaces
<1> QED
  BY <1>3, FS_CardinalityType DEF Labels

LEMMA NoCode ==
    ASSUME NEW l PROVE Labels(<< >>, l) = 0 /\ ~ Jumps(<< >>, l)
<1>1. Len(<< >>) = 0 /\ 1..0 = {}
  BY EmptySeq
<1>2. LabelPlaces(<< >>, l) = {}
  BY <1>1 DEF LabelPlaces
<1>3. Labels(<< >>, l) = 0
  BY <1>2, FS_EmptySet DEF Labels
<1>4. ~ Jumps(<< >>, l)
  BY <1>1 DEF Jumps
<1> QED
  BY <1>3, <1>4

\* The elements of s \o t, one after the other.
LEMMA JoinPlaces ==
    ASSUME NEW s, IsSeq(s), NEW t, IsSeq(t)
    PROVE  /\ Len(s) \in Nat /\ Len(t) \in Nat /\ Len(s \o t) = Len(s) + Len(t)
           /\ \A i \in 1..Len(s) : i \in 1..(Len(s) + Len(t)) /\ (s \o t)[i] = s[i]
           /\ \A j \in 1..Len(t) : /\ Len(s) + j \in 1..(Len(s) + Len(t))
                                   /\ (s \o t)[Len(s) + j] = t[j]
           /\ \A i \in 1..(Len(s) + Len(t)) :
                i \in 1..Len(s) \/ \E j \in 1..Len(t) : i = Len(s) + j
<1> DEFINE u == s \o t
           m == Len(s)
           n == Len(t)
<1>1. /\ m \in Nat /\ n \in Nat /\ Len(u) = m + n
      /\ \A i \in 1..m : u[i] = s[i]
      /\ \A i \in 1..n : u[m + i] = t[i]
  BY SeqJoin, SeqFacts
<1> HIDE DEF u, m, n
<1>2. (\A i \in 1..m : i \in 1..(m + n)) /\ \A j \in 1..n : m + j \in 1..(m + n)
  BY <1>1
<1>3. ASSUME NEW i \in 1..(m + n), i \notin 1..m PROVE \E j \in 1..n : i = m + j
  <2>1. i - m \in 1..n /\ i = m + (i - m)
    BY <1>1, <1>3
  <2> QED
    BY <2>1
<1>4. \A i \in 1..(m + n) : i \in 1..m \/ \E j \in 1..n : i = m + j
  BY <1>3
<1> QED
  BY <1>1, <1>2, <1>4 DEF u, m, n

LEMMA CodeJoin ==
    ASSUME NEW s, IsSeq(s), NEW t, IsSeq(t), NEW l
    PROVE  /\ Labels(s \o t, l) = Labels(s, l) + Labels(t, l)
           /\ Jumps(s \o t, l) <=> Jumps(s, l) \/ Jumps(t, l)
<1> DEFINE u == s \o t
           m == Len(s)
           n == Len(t)
<1>1. /\ m \in Nat /\ n \in Nat /\ Len(u) = m + n
      /\ \A i \in 1..m : i \in 1..(m + n) /\ u[i] = s[i]
      /\ \A j \in 1..n : m + j \in 1..(m + n) /\ u[m + j] = t[j]
      /\ \A i \in 1..(m + n) : i \in 1..m \/ \E j \in 1..n : i = m + j
  BY JoinPlaces
<1> HIDE DEF u, m, n
<1>2. Labels(u, l) = Labels(s, l) + Labels(t, l)
  <2> DEFINE S == LabelPlaces(s, l)
             T == LabelPlaces(t, l)
             U == LabelPlaces(u, l)
  <2>1. S \in SUBSET (1..m) /\ T \in SUBSET (1..n) /\ U \in SUBSET (1..(m + n))
    BY <1>1 DEF LabelPlaces, m, n
  <2>2. \A i \in 1..m : i \in U <=> i \in S
    BY <1>1 DEF LabelPlaces, m
  <2>3. \A j \in 1..n : m + j \in U <=> j \in T
    BY <1>1 DEF LabelPlaces, n
  <2> HIDE DEF S, T, U
  <2>4. Joined(m, n, S, T, U)
    BY <1>1, <2>1, <2>2, <2>3 DEF Joined
  <2>5. Cardinality(U) = Cardinality(S) + Cardinality(T)
    BY <2>4, CardJoin
  <2> QED
    BY <2>5 DEF Labels, S, T, U
<1>3. Jumps(u, l) <=> Jumps(s, l) \/ Jumps(t, l)
  <2>1. ASSUME Jumps(u, l) PROVE Jumps(s, l) \/ Jumps(t, l)
    <3>1. PICK i \in 1..(m + n) : Goes(u[i], l)
      BY <1>1, <2>1 DEF Jumps
    <3>2. CASE i \in 1..m
      BY <1>1, <3>1, <3>2 DEF Jumps, m
    <3>3. ASSUME NEW j \in 1..n, i = m + j PROVE Jumps(t, l)
      BY <1>1, <3>1, <3>3 DEF Jumps, n
    <3> QED
      BY <1>1, <3>2, <3>3
  <2>2. ASSUME Jumps(s, l) PROVE Jumps(u, l)
    <3>1. PICK i \in 1..m : Goes(s[i], l)
      BY <2>2 DEF Jumps, m
    <3> QED
      BY <1>1, <3>1 DEF Jumps
  <2>3. ASSUME Jumps(t, l) PROVE Jumps(u, l)
    <3>1. PICK i \in 1..n : Goes(t[i], l)
      BY <2>3 DEF Jumps, n
    <3> QED
      BY <1>1, <3>1 DEF Jumps
  <2> QED
    BY <2>1, <2>2, <2>3
<1> QED
  BY <1>2, <1>3 DEF u

LEMMA CodeOne ==
    ASSUME NEW x, NEW l
    PROVE  Labels(<<x>>, l) = Is(x, l) /\ (Jumps(<<x>>, l) <=> Goes(x, l))
<1>1. Len(<<x>>) = 1 /\ <<x>>[1] = x /\ \A i : i \in 1..1 <=> i = 1
  BY Tuples
<1>2. LabelPlaces(<<x>>, l) = IF x = Label(l) THEN {1} ELSE {}
  BY <1>1 DEF LabelPlaces
<1>3. Labels(<<x>>, l) = Is(x, l)
  BY <1>2, CardOne DEF Labels, Is
<1>4. Jumps(<<x>>, l) <=> Goes(x, l)
  BY <1>1 DEF Jumps
<1> QED
  BY <1>3, <1>4

LEMMA AppendJoin ==
    ASSUME NEW s, IsSeq(s), NEW x, NEW y, NEW z
    PROVE  /\ s \o <<x>> = Append(s, x)
           /\ s \o <<x, y>> = Append(Append(s, x), y)
           /\ s \o <<x, y, z>> = Append(Append(Append(s, x), y), z)
<1>1. PICK S : s \in Seq(S)
  BY DEF IsSeq
<1> DEFINE T == S \cup {x, y, z}
<1>2. s \in Seq(T) /\ x \in T /\ y \in T /\ z \in T
  BY <1>1, SeqMonotonic
<1> HIDE DEF T
<1>3. s \o <<x>> = Append(s, x)
  BY <1>2
<1>4. s \o <<x, y>> = Append(Append(s, x), y)
  BY <1>2
<1>5. s \o <<x, y, z>> = Append(Append(Append(s, x), y), z)
  BY <1>2
<1> QED
  BY <1>3, <1>4, <1>5

\* One instruction more.
LEMMA CodeAppend ==
    ASSUME NEW s, IsSeq(s), NEW x
    PROVE  /\ IsSeq(Append(s, x))
           /\ \A l : /\ Labels(Append(s, x), l) = Labels(s, l) + Is(x, l)
                     /\ Jumps(Append(s, x), l) <=> Jumps(s, l) \/ Goes(x, l)
<1>1. IsSeq(Append(s, x)) /\ IsSeq(<<x>>)
  BY SeqAppend, Tuples
<1>2. Append(s, x) = s \o <<x>>
  BY AppendJoin
<1> QED
  BY <1>1, <1>2, CodeJoin, CodeOne

\* Size counts every instruction that is no mark.
LEMMA SizeAppend ==
    ASSUME NEW b, IsSeq(b), NEW x
    PROVE  /\ Size(b) \in Nat
           /\ Size(Append(b, x)) = IF x.op \in {"in", "val"} THEN Size(b) ELSE Size(b) + 1
<1> DEFINE C(s) == {i \in DOMAIN s : s[i].op \notin {"in", "val"}}
           e == Append(b, x)
           n == Len(b)
<1>1. /\ DOMAIN b = 1..n /\ n \in Nat /\ IsSeq(e) /\ Len(e) = n + 1
      /\ \A i \in 1..n : e[i] = b[i]
      /\ e[n + 1] = x
  BY SeqFacts, SeqAppend
<1>2. DOMAIN e = 1..(n + 1)
  BY <1>1, SeqFacts
<1> HIDE DEF e, n
<1>3. /\ \A i \in 1..(n + 1) : i \in 1..n \/ i = n + 1
      /\ \A i \in 1..n : i \in 1..(n + 1) /\ i # n + 1
      /\ n + 1 \in 1..(n + 1) /\ n + 1 \notin 1..n
  BY <1>1
<1>4. C(e) = IF x.op \in {"in", "val"} THEN C(b) ELSE C(b) \cup {n + 1}
  BY <1>1, <1>2, <1>3
<1>5. n + 1 \notin C(b)
  BY <1>1, <1>3
<1>6. IsFiniteSet(C(b)) /\ Size(b) \in Nat
  BY SizeIsNat
<1> HIDE DEF C
<1>7. Cardinality(C(b) \cup {n + 1}) = Cardinality(C(b)) + 1
  BY <1>5, <1>6, FS_AddElement
<1>8. Size(b) = Cardinality(C(b)) /\ Size(e) = Cardinality(C(e))
  BY SizeIs DEF C
<1> QED
  BY <1>4, <1>6, <1>7, <1>8 DEF e
-----------------------------------------------------------------------------
(* Jumps: the labels and jumps that are still to be emitted *)

Promise(t) ==
    CASE t.k \in {"then", "merge"} -> Label(t.name)
      [] t.k = "cond"              -> Label(t.uncond)
      [] t.k = "match"             -> Label(t.merge)
      [] OTHER                     -> Test

Owes(t, l) == Is(Promise(t), l)
Wants(t, l) == (t.k = "cond" /\ t.name = l) \/ (t.k = "armend" /\ t.merge = l)

OwedPlaces(w, l) == {i \in 1..Len(w) : Promise(w[i]) = Label(l)}
Owed(w, l) == Cardinality(OwedPlaces(w, l))
Wanted(w, l) == \E i \in 1..Len(w) : Wants(w[i], l)

LEMMA OwedNat ==
    ASSUME NEW w, IsSeq(w), NEW l
    PROVE  Owed(w, l) \in Nat
<1>1. Len(w) \in Nat
  BY SeqFacts
<1>2. IsFiniteSet(1..Len(w))
  BY <1>1, FS_Interval
<1>3. IsFiniteSet(OwedPlaces(w, l))
  BY <1>2, FS_Subset DEF OwedPlaces
<1> QED
  BY <1>3, FS_CardinalityType DEF Owed

LEMMA OwedJoin ==
    ASSUME NEW s, IsSeq(s), NEW t, IsSeq(t), NEW l
    PROVE  Owed(s \o t, l) = Owed(s, l) + Owed(t, l)
<1> DEFINE u == s \o t
           m == Len(s)
           n == Len(t)
           S == OwedPlaces(s, l)
           T == OwedPlaces(t, l)
           U == OwedPlaces(u, l)
<1>1. /\ m \in Nat /\ n \in Nat /\ Len(u) = m + n
      /\ \A i \in 1..m : i \in 1..(m + n) /\ u[i] = s[i]
      /\ \A j \in 1..n : m + j \in 1..(m + n) /\ u[m + j] = t[j]
  BY JoinPlaces
<1> HIDE DEF u, m, n
<1>2. S \in SUBSET (1..m) /\ T \in SUBSET (1..n) /\ U \in SUBSET (1..(m + n))
  BY <1>1 DEF OwedPlaces, m, n
<1>3. \A i \in 1..m : i \in U <=> i \in S
  BY <1>1 DEF OwedPlaces, m
<1>4. \A j \in 1..n : m + j \in U <=> j \in T
  BY <1>1 DEF OwedPlaces, n
<1> HIDE DEF S, T, U
<1>5. Joined(m, n, S, T, U)
  BY <1>1, <1>2, <1>3, <1>4 DEF Joined
<1>6. Cardinality(U) = Cardinality(S) + Cardinality(T)
  BY <1>5, CardJoin
<1> QED
  BY <1>6 DEF Owed, S, T, U, u

LEMMA OwedOne ==
    ASSUME NEW t, NEW l
    PROVE  Owed(<<t>>, l) = Owes(t, l) /\ (Wanted(<<t>>, l) <=> Wants(t, l))
<1>1. Len(<<t>>) = 1 /\ <<t>>[1] = t /\ \A i : i \in 1..1 <=> i = 1
  BY Tuples
<1>2. OwedPlaces(<<t>>, l) = IF Promise(t) = Label(l) THEN {1} ELSE {}
  BY <1>1 DEF OwedPlaces
<1>3. Owed(<<t>>, l) = Owes(t, l)
  BY <1>2, CardOne DEF Owed, Owes, Is
<1>4. Wanted(<<t>>, l) <=> Wants(t, l)
  BY <1>1 DEF Wanted
<1> QED
  BY <1>3, <1>4

LEMMA OwedNone ==
    ASSUME NEW l PROVE Owed(<< >>, l) = 0 /\ ~ Wanted(<< >>, l)
<1>1. Len(<< >>) = 0 /\ 1..0 = {}
  BY EmptySeq
<1>2. OwedPlaces(<< >>, l) = {}
  BY <1>1 DEF OwedPlaces
<1>3. Owed(<< >>, l) = 0
  BY <1>2, FS_EmptySet DEF Owed
<1>4. ~ Wanted(<< >>, l)
  BY <1>1 DEF Wanted
<1> QED
  BY <1>3, <1>4

LEMMA WantedJoin ==
    ASSUME NEW s, IsSeq(s), NEW t, IsSeq(t), NEW l, Wanted(s \o t, l)
    PROVE  Wanted(s, l) \/ Wanted(t, l)
<1> DEFINE u == s \o t
           m == Len(s)
           n == Len(t)
<1>1. /\ Len(u) = m + n
      /\ \A i \in 1..m : u[i] = s[i]
      /\ \A j \in 1..n : u[m + j] = t[j]
      /\ \A i \in 1..(m + n) : i \in 1..m \/ \E j \in 1..n : i = m + j
  BY JoinPlaces
<1>2. PICK i \in 1..Len(u) : Wants(u[i], l)
  BY DEF Wanted
<1> HIDE DEF u, m, n
<1>3. CASE i \in 1..m
  BY <1>1, <1>2, <1>3 DEF Wanted, m
<1>4. ASSUME NEW j \in 1..n, i = m + j PROVE Wanted(t, l)
  BY <1>1, <1>2, <1>4 DEF Wanted, n
<1> QED
  BY <1>1, <1>2, <1>3, <1>4

\* The first task of w gives way to those of c.
LEMMA OwedPut ==
    ASSUME NEW w, IsSeq(w), w # << >>, NEW c, IsSeq(c), NEW l
    PROVE  /\ Owed(c \o Tail(w), l) + Owes(w[1], l) = Owed(c, l) + Owed(w, l)
           /\ Owed(c \o Tail(w), l) \in Nat /\ Owed(w, l) \in Nat /\ Owed(c, l) \in Nat
           /\ Owes(w[1], l) \in Nat
           /\ Wanted(c \o Tail(w), l) => Wanted(c, l) \/ Wanted(w, l)
           /\ Wants(w[1], l) => Wanted(w, l)
<1> DEFINE t == Tail(w)
           h == <<w[1]>>
<1>1. /\ Len(w) \in Nat \ {0} /\ IsSeq(t) /\ Len(t) = Len(w) - 1
      /\ \A i \in 1..Len(w) - 1 : t[i] = w[i + 1]
  BY SeqRest
<1>2. w = h \o t
  <2>1. PICK S : w \in Seq(S)
    BY DEF IsSeq
  <2> QED
    BY <2>1
<1>3. IsSeq(h) /\ IsSeq(c \o t)
  <2> HIDE DEF t
  <2> QED
    BY <1>1, Tuples, SeqJoin
<1>4. Owed(h, l) = Owes(w[1], l)
  BY OwedOne
<1>5. Wanted(t, l) => Wanted(w, l)
  <2>1. ASSUME NEW i \in 1..Len(t), Wants(t[i], l) PROVE Wanted(w, l)
    <3>1. i \in 1..Len(w) - 1 /\ i + 1 \in 1..Len(w)
      BY <1>1
    <3>2. t[i] = w[i + 1]
      BY <1>1, <3>1
    <3> HIDE DEF t
    <3> QED
      BY <2>1, <3>1, <3>2 DEF Wanted
  <2> QED
    BY <2>1 DEF Wanted
<1>6. Wants(w[1], l) => Wanted(w, l)
  <2>1. 1 \in 1..Len(w)
    BY <1>1
  <2> QED
    BY <2>1 DEF Wanted
<1> HIDE DEF t, h
<1>7. Owed(w, l) = Owed(h, l) + Owed(t, l)
  BY <1>1, <1>2, <1>3, OwedJoin
<1>8. Owed(c \o t, l) = Owed(c, l) + Owed(t, l)
  BY <1>1, OwedJoin
<1>9. /\ Owed(c \o t, l) \in Nat /\ Owed(w, l) \in Nat /\ Owed(c, l) \in Nat
      /\ Owed(t, l) \in Nat /\ Owed(h, l) \in Nat
  BY <1>1, <1>3, OwedNat
<1>10. Owed(c \o t, l) + Owes(w[1], l) = Owed(c, l) + Owed(w, l)
  BY <1>4, <1>7, <1>8, <1>9
<1>11. Wanted(c \o t, l) => Wanted(c, l) \/ Wanted(w, l)
  BY <1>1, <1>5, WantedJoin
<1> QED
  BY <1>4, <1>6, <1>9, <1>10, <1>11 DEF t

\* One task more.
OneMore(u, s, t) == u = Append(s, t)

LEMMA OwedAppend ==
    ASSUME NEW s, IsSeq(s), NEW t, NEW u, OneMore(u, s, t)
    PROVE  /\ IsSeq(u)
           /\ \A l : /\ Owed(u, l) = Owed(s, l) + Owes(t, l)
                     /\ Wanted(u, l) => Wanted(s, l) \/ Wants(t, l)
<1> DEFINE h == <<t>>
<1>1. IsSeq(u) /\ IsSeq(h)
  BY SeqAppend, Tuples DEF OneMore
<1>2. u = s \o h
  BY AppendJoin DEF OneMore
<1>3. \A l : Owed(h, l) = Owes(t, l) /\ (Wanted(h, l) <=> Wants(t, l))
  BY OwedOne
<1> HIDE DEF h
<1> QED
  BY <1>1, <1>2, <1>3, OwedJoin, WantedJoin

LEMMA OwedTwo ==
    ASSUME NEW a, NEW b
    PROVE  \A l : /\ Owed(<<a, b>>, l) = Owes(a, l) + Owes(b, l)
                  /\ Wanted(<<a, b>>, l) => Wants(a, l) \/ Wants(b, l)
<1> DEFINE s1 == <<a>>
           s2 == <<a, b>>
<1>1. IsSeq(s1) /\ \A l : Owed(s1, l) = Owes(a, l) /\ (Wanted(s1, l) <=> Wants(a, l))
  BY Tuples, OwedOne
<1>2. OneMore(s2, s1, b)
  BY DEF OneMore
<1> HIDE DEF s1, s2
<1>3. \A l : /\ Owed(s2, l) = Owed(s1, l) + Owes(b, l)
             /\ Wanted(s2, l) => Wanted(s1, l) \/ Wants(b, l)
  BY <1>1, <1>2, OwedAppend
<1>4. \A l : /\ Owed(s2, l) = Owes(a, l) + Owes(b, l)
             /\ Wanted(s2, l) => Wants(a, l) \/ Wants(b, l)
  BY <1>1, <1>3
<1> QED
  BY <1>4 DEF s2

LEMMA OwedThree ==
    ASSUME NEW a, NEW b, NEW c
    PROVE  \A l : /\ Owed(<<a, b, c>>, l) = Owes(a, l) + Owes(b, l) + Owes(c, l)
                  /\ Wanted(<<a, b, c>>, l) => Wants(a, l) \/ Wants(b, l) \/ Wants(c, l)
<1> DEFINE s2 == <<a, b>>
           s3 == <<a, b, c>>
<1>1. IsSeq(s2) /\ \A l : /\ Owed(s2, l) = Owes(a, l) + Owes(b, l)
                          /\ Wanted(s2, l) => Wants(a, l) \/ Wants(b, l)
  BY Tuples, OwedTwo, Zenon
<1>2. OneMore(s3, s2, c)
  BY DEF OneMore
<1> HIDE DEF s2, s3
<1>3. \A l : /\ Owed(s3, l) = Owed(s2, l) + Owes(c, l)
             /\ Wanted(s3, l) => Wanted(s2, l) \/ Wants(c, l)
  BY <1>1, <1>2, OwedAppend
<1>4. \A l : /\ Owed(s3, l) = Owes(a, l) + Owes(b, l) + Owes(c, l)
             /\ Wanted(s3, l) => Wants(a, l) \/ Wants(b, l) \/ Wants(c, l)
  BY <1>1, <1>3
<1> QED
  BY <1>4 DEF s3

-----------------------------------------------------------------------------
(* Jumps: how many variables of a scope are on the stack whatever happens *)

\* The slots 1..n belong to the scope S, and n is as large as can be.
Reaches(n, S) == n + 1 \notin S /\ 1..n \subseteq S
Height(S) == CHOOSE n \in Nat : Reaches(n, S)

LEMMA HeightIs ==
    ASSUME NEW c \in Nat, NEW S, S \subseteq 1..c
    PROVE  /\ Height(S) \in Nat /\ Height(S) <= c
           /\ Height(S) + 1 \notin S
           /\ \A i \in 1..Height(S) : i \in S
<1> DEFINE T == {n \in Nat : n + 1 \notin S}
<1>1. c \in T
  OBVIOUS
<1>2. T \subseteq Nat /\ T # {}
  BY <1>1
<1>3. \A n \in Nat : n \notin T => n + 1 \in S
  OBVIOUS
<1>4. \A n \in T : n \in Nat /\ n + 1 \notin S
  OBVIOUS
<1> HIDE DEF T
<1>5. PICK m \in T : \A y \in T : m <= y
  BY <1>2, LeastNumber
<1>6. ASSUME NEW i \in 1..m PROVE i \in S
  <2>1. i - 1 \in Nat /\ ~ (m <= i - 1) /\ (i - 1) + 1 = i
    BY <1>4
  <2> QED
    BY <1>3, <1>5, <2>1
<1>7. m \in Nat /\ Reaches(m, S)
  BY <1>4, <1>6 DEF Reaches
<1>8. Height(S) \in Nat /\ Reaches(Height(S), S)
  BY <1>7 DEF Height
<1> DEFINE n == Height(S)
<1>9. n \in Nat /\ n + 1 \notin S /\ \A i \in 1..n : i \in S
  BY <1>8 DEF Reaches
<1> HIDE DEF n
<1>10. n <= c
  <2>1. CASE n = 0
    BY <2>1
  <2>2. CASE n # 0
    <3>1. n \in 1..n
      BY <1>9, <2>2
    <3>2. n \in 1..c
      BY <1>9, <3>1
    <3> QED
      BY <3>2
  <2> QED
    BY <2>1, <2>2
<1> QED
  BY <1>9, <1>10 DEF n

LEMMA HeightMore ==
    ASSUME NEW c \in Nat, NEW T, T \subseteq 1..c, NEW S, S \subseteq T
    PROVE  Height(S) <= Height(T)
<1> DEFINE m == Height(S)
           n == Height(T)
<1>0. S \subseteq 1..c
  OBVIOUS
<1>1. /\ m \in Nat /\ n \in Nat /\ n + 1 \notin T
      /\ \A i \in 1..m : i \in S
  BY <1>0, HeightIs
<1> HIDE DEF m, n
<1>2. CASE n < m
  <2>1. n + 1 \in 1..m
    BY <1>1, <1>2
  <2> QED
    BY <1>1, <2>1
<1>3. CASE ~ (n < m)
  BY <1>1, <1>3 DEF m, n
<1> QED
  BY <1>2, <1>3 DEF m, n

\* The slot that is handed out next is the only one to raise it, and by one.
LEMMA HeightLet ==
    ASSUME NEW c \in Nat, NEW S, S \subseteq 1..c
    PROVE  Height(S \cup {c + 1}) <= Height(S) + 1
<1> DEFINE T == S \cup {c + 1}
           m == Height(S)
           n == Height(T)
<1>1. c + 1 \in Nat /\ T \subseteq 1..(c + 1)
  OBVIOUS
<1>2. \A i \in T : i \in S \/ i = c + 1
  OBVIOUS
<1> HIDE DEF T
<1>3. /\ m \in Nat /\ n \in Nat /\ m + 1 \notin S
      /\ \A i \in 1..n : i \in T
  BY <1>1, HeightIs
<1> HIDE DEF m, n
<1>4. CASE m + 1 < n
  <2>1. m + 1 \in 1..n /\ m + 2 \in 1..n
    BY <1>3, <1>4
  <2>2. m + 1 = c + 1
    BY <1>2, <1>3, <2>1
  <2>3. m + 2 \in S
    BY <1>2, <1>3, <2>1, <2>2
  <2>4. m + 2 \in 1..c
    BY <2>3
  <2> QED
    BY <1>3, <2>2, <2>4
<1>5. CASE ~ (m + 1 < n)
  BY <1>3, <1>5 DEF m, n, T
<1> QED
  BY <1>4, <1>5 DEF T, m, n

LEMMA HeightNone == Height({}) = 0
<1>1. 0 \in Nat /\ {} \subseteq 1..0
  OBVIOUS
<1>2. Height({}) \in Nat /\ Height({}) <= 0
  BY <1>1, HeightIs
<1> QED
  BY <1>2

-----------------------------------------------------------------------------
(* Jumps: what is known at a place of the code *)

\* What the last comparison may have been, and how many slots have been pushed
\* at least.
Outcomes == {0, 1, NoVal}
Points == [o : SUBSET Outcomes, h : Nat]
Point(o, h) == [o |-> o, h |-> h]

\* What is known at B holds of every state that A allows.
Under(A, B) == A.o \subseteq B.o /\ B.h <= A.h

\* What is known when a jump to l is taken: for the most part the name l says
\* it, and where not it is remembered by the length that is part of the name.
Leads(g, l) ==
    Point(CASE l[1] = "jmpif"    -> {0}
            [] l[1] = "jmpwhile" -> {1}
            [] l[1] \in {"matcharm", "bindval"} -> g[l[2]].o
            [] OTHER             -> Outcomes,
          g[l[2]].h)

\* The instruction x is reached with A, the next one with B.
Through(g, x, A, B) ==
    /\ x.op = "in" => A.o \subseteq x.slots
    /\ x.op = "call" =>
         \A v \in x.slots : v \in Nat /\ (1..v \subseteq x.slots => v <= A.h)
    /\ x.op \in {"cmp", "val"} => x.slots \subseteq B.o
    /\ x.op \in {"jmp", "je", "jne"} => Leads(g, x.lbl).h <= A.h
    /\ x.op = "jmp" => A.o \subseteq Leads(g, x.lbl).o
    /\ x.op = "je" => A.o \cap {x.val} \subseteq Leads(g, x.lbl).o /\ A.o \ {x.val} \subseteq B.o
    /\ x.op = "jne" => A.o \ {x.val} \subseteq Leads(g, x.lbl).o /\ A.o \cap {x.val} \subseteq B.o
    /\ \A l : x = Label(l) => Under(Leads(g, l), A)
    /\ x.op \notin {"cmp", "val", "jmp", "je", "jne"} => A.o \subseteq B.o
    /\ x.op \notin {"jmp", "push"} => B.h <= A.h
    /\ x.op = "push" => B.h <= A.h + 1

Passes(g, c, F) == \A i \in 1..Len(c) : Through(g, c[i], F[i], F[i + 1])

\* The code c is entered with X and left with Y.
Flow(g, c, X, Y) ==
    /\ IsSeq(c)
    /\ \E F \in [Nat -> Points] : Passes(g, c, F) /\ Under(X, F[1]) /\ Under(F[Len(c) + 1], Y)

LEMMA AtIs ==
    ASSUME NEW o, NEW h
    PROVE  /\ Point(o, h).o = o /\ Point(o, h).h = h
           /\ o \in SUBSET Outcomes /\ h \in Nat => Point(o, h) \in Points
  BY DEF Point, Points

LEMMA PointIs ==
    ASSUME NEW A \in Points
    PROVE  A.o \in SUBSET Outcomes /\ A.h \in Nat /\ Under(A, A)
<1>1. A.o \in SUBSET Outcomes /\ A.h \in Nat
  BY DEF Points
<1> QED
  BY <1>1 DEF Under

LEMMA BelowMore ==
    ASSUME NEW A \in Points, NEW B \in Points, NEW C \in Points, Under(A, B), Under(B, C)
    PROVE  Under(A, C)
<1>1. A.h \in Nat /\ B.h \in Nat /\ C.h \in Nat
  BY PointIs
<1> QED
  BY <1>1 DEF Under

LEMMA ThroughMore ==
    ASSUME NEW g, NEW x, NEW A \in Points, NEW B \in Points, NEW C \in Points,
           Through(g, x, A, B), Under(B, C)
    PROVE  Through(g, x, A, C)
<1>1. A.h \in Nat /\ B.h \in Nat /\ C.h \in Nat
  BY PointIs
<1>2. B.o \subseteq C.o /\ C.h <= B.h
  BY DEF Under
<1>3. /\ B.h <= A.h => C.h <= A.h
      /\ B.h <= A.h + 1 => C.h <= A.h + 1
  BY <1>1, <1>2
<1> QED
  BY <1>2, <1>3, Zenon DEF Through

LEMMA FlowNone ==
    ASSUME NEW g, NEW X \in Points, NEW Y \in Points, Under(X, Y)
    PROVE  Flow(g, << >>, X, Y)
<1> DEFINE F == [i \in Nat |-> X]
<1>1. IsSeq(<< >>) /\ Len(<< >>) = 0 /\ 1..0 = {}
  BY NoneIsSeq
<1>2. F \in [Nat -> Points] /\ F[1] = X
  OBVIOUS
<1> HIDE DEF F
<1>3. Passes(g, << >>, F)
  BY <1>1 DEF Passes
<1> QED
  BY <1>1, <1>2, <1>3, PointIs DEF Flow

LEMMA FlowOne ==
    ASSUME NEW g, NEW x, NEW X \in Points, NEW Y \in Points, NEW A \in Points, NEW B \in Points,
           Under(X, A), Through(g, x, A, B), Under(B, Y)
    PROVE  Flow(g, <<x>>, X, Y)
<1> DEFINE F == [i \in Nat |-> IF i = 1 THEN A ELSE B]
<1>1. IsSeq(<<x>>) /\ Len(<<x>>) = 1 /\ <<x>>[1] = x
  BY Tuples
<1>2. F \in [Nat -> Points] /\ F[1] = A /\ F[2] = B
  OBVIOUS
<1> HIDE DEF F
<1>3. Passes(g, <<x>>, F)
  BY <1>1, <1>2 DEF Passes
<1> QED
  BY <1>1, <1>2, <1>3 DEF Flow

LEMMA FlowJoin ==
    ASSUME NEW g, NEW c, NEW d, NEW X \in Points, NEW Y \in Points, NEW Z \in Points,
           Flow(g, c, X, Y), Flow(g, d, Y, Z)
    PROVE  Flow(g, c \o d, X, Z)
<1> DEFINE u == c \o d
           m == Len(c)
           n == Len(d)
<1>1. PICK F \in [Nat -> Points] : Passes(g, c, F) /\ Under(X, F[1]) /\ Under(F[m + 1], Y)
  BY DEF Flow
<1>2. PICK H \in [Nat -> Points] : Passes(g, d, H) /\ Under(Y, H[1]) /\ Under(H[n + 1], Z)
  BY DEF Flow
<1>3. /\ m \in Nat /\ n \in Nat /\ Len(u) = m + n
      /\ \A i \in 1..m : u[i] = c[i]
      /\ \A j \in 1..n : u[m + j] = d[j]
      /\ \A i \in 1..(m + n) : i \in 1..m \/ \E j \in 1..n : i = m + j
  BY JoinPlaces DEF Flow
<1>4. IsSeq(u)
  BY SeqJoin DEF Flow
<1> DEFINE G == [i \in Nat |-> IF i <= m THEN F[i] ELSE H[i - m]]
<1> HIDE DEF u, m, n
<1>0. \A i \in Nat : G[i] = IF i <= m THEN F[i] ELSE H[i - m]
  OBVIOUS
<1>5. G \in [Nat -> Points]
  <2>1. ASSUME NEW i \in Nat PROVE G[i] \in Points
    <3>1. CASE i <= m
      BY <1>1, <3>1
    <3>2. CASE ~ (i <= m)
      <4>1. i - m \in Nat
        BY <1>3, <3>2
      <4>2. G[i] = H[i - m]
        BY <3>2
      <4> QED
        BY <1>2, <4>1, <4>2
    <3> QED
      BY <3>1, <3>2
  <2> QED
    BY <2>1
<1>6. \A i \in 1..m : G[i] = F[i] /\ Under(F[i + 1], G[i + 1])
  <2>1. ASSUME NEW i \in 1..m PROVE G[i] = F[i] /\ Under(F[i + 1], G[i + 1])
    <3>1. i \in Nat /\ i + 1 \in Nat /\ i <= m
      BY <1>3
    <3> HIDE DEF G
    <3>2. CASE i = m
      <4>1. ~ (i + 1 <= m) /\ i + 1 - m = 1
        BY <1>3, <3>2
      <4>2. G[i + 1] = H[1] /\ G[i] = F[i]
        BY <1>0, <1>3, <3>1, <4>1
      <4>3. Under(F[m + 1], H[1])
        <5>1. F[m + 1] \in Points /\ H[1] \in Points
          BY <1>1, <1>2, <3>1, <3>2
        <5> QED
          BY <1>1, <1>2, <5>1, BelowMore
      <4> QED
        BY <3>2, <4>2, <4>3
    <3>3. CASE i # m
      <4>1. i + 1 <= m
        BY <1>3, <3>3
      <4>2. F[i + 1] \in Points
        BY <1>1, <3>1
      <4> QED
        BY <1>0, <3>1, <4>1, <4>2, PointIs
    <3> QED
      BY <3>2, <3>3
  <2> QED
    BY <2>1
<1>7. \A j \in 1..n + 1 : G[m + j] = H[j]
  <2>1. ASSUME NEW j \in 1..n + 1 PROVE G[m + j] = H[j]
    <3>1. m + j \in Nat /\ ~ (m + j <= m) /\ (m + j) - m = j
      BY <1>3
    <3> QED
      BY <3>1
  <2> QED
    BY <2>1
<1>8. Under(X, G[1]) /\ Under(G[m + n + 1], Z)
  <2>1. Under(X, G[1])
    <3>1. CASE m = 0
      <4>1. 1 \in 1..n + 1 /\ m + 1 = 1
        BY <1>3, <3>1
      <4>2. F[1] \in Points /\ H[1] \in Points /\ Under(F[1], Y)
        BY <1>1, <1>2, <4>1
      <4>3. Under(X, Y)
        BY <1>1, <4>2, BelowMore
      <4>4. Under(X, H[1])
        BY <1>2, <4>2, <4>3, BelowMore
      <4>5. G[m + 1] = H[1]
        BY <1>7, <4>1
      <4> HIDE DEF G
      <4> QED
        BY <4>1, <4>4, <4>5
    <3>2. CASE m # 0
      <4>1. 1 \in 1..m
        BY <1>3, <3>2
      <4> QED
        BY <1>1, <1>6, <4>1
    <3> QED
      BY <3>1, <3>2
  <2>2. n + 1 \in 1..n + 1 /\ m + (n + 1) = m + n + 1
    BY <1>3
  <2> QED
    BY <1>2, <1>7, <2>1, <2>2
<1> HIDE DEF G
<1>9. Passes(g, u, G)
  <2>1. ASSUME NEW i \in 1..(m + n) PROVE Through(g, u[i], G[i], G[i + 1])
    <3>1. CASE i \in 1..m
      <4>1. Through(g, u[i], F[i], F[i + 1])
        BY <1>1, <1>3, <3>1 DEF Passes, m
      <4>2. i \in Nat /\ i + 1 \in Nat
        BY <1>3
      <4>3. F[i] \in Points /\ F[i + 1] \in Points /\ G[i + 1] \in Points
        BY <1>1, <1>5, <4>2
      <4>4. G[i] = F[i] /\ Under(F[i + 1], G[i + 1])
        BY <1>6, <3>1
      <4> QED
        BY <4>1, <4>3, <4>4, ThroughMore
    <3>2. ASSUME NEW j \in 1..n, i = m + j PROVE Through(g, u[i], G[i], G[i + 1])
      <4>1. j \in 1..n + 1 /\ j + 1 \in 1..n + 1 /\ i + 1 = m + (j + 1)
        BY <1>3, <3>2
      <4>2. G[i] = H[j] /\ G[i + 1] = H[j + 1] /\ u[i] = d[j]
        BY <1>3, <1>7, <3>2, <4>1
      <4> QED
        BY <1>2, <4>2 DEF Passes, n
    <3> QED
      BY <1>3, <3>1, <3>2
  <2> QED
    BY <1>3, <2>1 DEF Passes
<1>10. Flow(g, u, X, Z)
  BY <1>3, <1>4, <1>5, <1>8, <1>9 DEF Flow
<1> QED
  BY <1>10 DEF u

LEMMA FlowAppend ==
    ASSUME NEW g, NEW c, NEW x, NEW X \in Points, NEW Y \in Points, NEW Z \in Points,
           NEW A \in Points, NEW B \in Points,
           Flow(g, c, X, Y), Under(Y, A), Through(g, x, A, B), Under(B, Z)
    PROVE  Flow(g, Append(c, x), X, Z)
<1>1. Flow(g, <<x>>, Y, Z)
  BY FlowOne
<1>2. Append(c, x) = c \o <<x>>
  BY AppendJoin DEF Flow
<1> DEFINE d == <<x>>
<1>3. Flow(g, d, Y, Z) /\ Append(c, x) = c \o d
  BY <1>1, <1>2
<1> HIDE DEF d
<1>4. Flow(g, c \o d, X, Z)
  BY <1>3, FlowJoin
<1> QED
  BY <1>3, <1>4

LEMMA FlowEnds ==
    ASSUME NEW g, NEW c, NEW X \in Points, NEW Y \in Points, NEW W \in Points, NEW Z \in Points,
           Flow(g, c, X, Y), Under(W, X), Under(Y, Z)
    PROVE  Flow(g, c, W, Z)
<1>1. PICK F \in [Nat -> Points] : Passes(g, c, F) /\ Under(X, F[1]) /\ Under(F[Len(c) + 1], Y)
  BY DEF Flow
<1>2. IsSeq(c) /\ Len(c) \in Nat
  BY SeqFacts DEF Flow
<1>3. F[1] \in Points /\ F[Len(c) + 1] \in Points
  BY <1>1, <1>2
<1>4. Under(W, F[1]) /\ Under(F[Len(c) + 1], Z)
  BY <1>1, <1>3, BelowMore
<1> QED
  BY <1>1, <1>2, <1>4 DEF Flow

\* What is remembered of names the code does not use may change.
LEMMA FlowFresh ==
    ASSUME NEW g, NEW f, NEW c, NEW X, NEW Y, Flow(g, c, X, Y),
           \A l : Labels(c, l) # 0 \/ Jumps(c, l) => Leads(f, l) = Leads(g, l)
    PROVE  Flow(f, c, X, Y)
<1>1. PICK F \in [Nat -> Points] : Passes(g, c, F) /\ Under(X, F[1]) /\ Under(F[Len(c) + 1], Y)
  BY DEF Flow
<1>2. IsSeq(c)
  BY DEF Flow
<1>3. ASSUME NEW i \in 1..Len(c), c[i].op \in {"jmp", "je", "jne"}
      PROVE  Leads(f, c[i].lbl) = Leads(g, c[i].lbl)
  BY <1>3 DEF Jumps, Goes
<1>4. ASSUME NEW i \in 1..Len(c), NEW l, c[i] = Label(l)
      PROVE  Leads(f, l) = Leads(g, l)
  <2>1. i \in LabelPlaces(c, l) /\ IsFiniteSet(LabelPlaces(c, l))
    BY <1>2, <1>4, LabelsNat DEF LabelPlaces
  <2>2. Labels(c, l) # 0
    BY <2>1, FS_EmptySet DEF Labels
  <2> QED
    BY <2>2
<1>5. ASSUME NEW i \in 1..Len(c) PROVE Through(f, c[i], F[i], F[i + 1])
  <2> DEFINE x == c[i]
             A == F[i]
             B == F[i + 1]
  <2>1. Through(g, x, A, B)
    BY <1>1 DEF Passes
  <2>2. /\ x.op \in {"jmp", "je", "jne"} => Leads(f, x.lbl) = Leads(g, x.lbl)
        /\ \A l : x = Label(l) => Leads(f, l) = Leads(g, l)
    BY <1>3, <1>4
  <2> HIDE DEF x, A, B
  <2>3. Through(f, x, A, B)
    <3>1. CASE x.op \in {"jmp", "je", "jne"}
      <4>1. Leads(f, x.lbl) = Leads(g, x.lbl)
        BY <2>2, <3>1
      <4> QED
        BY <2>1, <2>2, <4>1, Zenon DEF Through
    <3>2. CASE x.op \notin {"jmp", "je", "jne"}
      <4>1. x.op # "jmp" /\ x.op # "je" /\ x.op # "jne"
        BY <3>2
      <4> QED
        BY <2>1, <2>2, <3>2, <4>1, Zenon DEF Through
    <3> QED
      BY <3>1, <3>2
  <2> QED
    BY <2>3 DEF x, A, B
<1> QED
  BY <1>1, <1>2, <1>5 DEF Flow, Passes

-----------------------------------------------------------------------------
(* Jumps: the inductive invariant *)

\* The labels of l there are and those promised, and what jumps there.
Held(l) ==
    Labels(asm_buf, l)
    + (IF InMatch THEN Labels(streams[1].arms, l) ELSE 0)
    + (IF InArm THEN Labels(streams[1].outer, l) ELSE 0)

Total(l) == Held(l) + Owed(walk, l)

Asked(l) ==
    \/ Jumps(asm_buf, l) \/ Wanted(walk, l)
    \/ InMatch /\ Jumps(streams[1].arms, l)
    \/ InArm /\ Jumps(streams[1].outer, l)

\* The name l was made of a shorter buffer: not even as long as it is now,
\* unless a match has just begun, which emits nothing.
Old(l) ==
    /\ l[2] \in Nat
    /\ \/ l[2] < Size(Main)
       \/ walk[1].k = "match" /\ l[1] = "matchmerge" /\ l[2] = Size(Main)

Placed(l) ==
    /\ Total(l) <= 1
    /\ Total(l) = 1 => Old(l)
    /\ Asked(l) => Total(l) = 1

\* The scopes of the tasks w lie in s and in each other.
Nest(w, s) ==
    /\ \A i \in 1..Len(w) : w[i].k # "block" => w[i].scope \subseteq s
    /\ \A i \in 1..Len(w), j \in 1..Len(w) :
          i < j /\ w[i].k # "block" /\ w[j].k # "block" => w[j].scope \subseteq w[i].scope

\* Where the name n is jumped to, the scope is S.
Knows(g, n, S) == n[2] \in Nat /\ g[n[2]].h = Height(S)

\* The names of a task are of the kind it was started for.
NameRight(g, t) ==
    /\ t.k = "then" => t.name[1] = "jmpif" /\ Knows(g, t.name, t.scope)
    /\ t.k = "merge" => t.name[1] = "mergeif" /\ Knows(g, t.name, t.scope)
    /\ t.k = "cond" => /\ t.name[1] = "jmpwhile" /\ Knows(g, t.name, t.scope)
                       /\ t.uncond[1] = "uncondwhile" /\ Knows(g, t.uncond, t.scope)
    /\ t.k \in {"match", "armend"} => t.merge[1] = "matchmerge" /\ Knows(g, t.merge, t.scope)

NamesRight(g, w) == \A i \in 1..Len(w) : NameRight(g, w[i])

\* The match that is open.
OpenMatch ==
    IF walk[1].k = "match" THEN walk[1] ELSE IF walk[1].k = "armend" THEN walk[2] ELSE walk[3]

MainScope == IF InMatch THEN OpenMatch.scope ELSE scope

\* The arms are written for one value each, and for all of r.
PlainArms(arms, r) ==
    /\ \A i \in 1..Len(arms) : Len(arms[i]) = 1
    /\ \A v \in r : \E i \in 1..Len(arms) : arms[i][1].v = v

Start == Point(Outcomes, 0)

\* What is known after the comparisons of a match, and where an arm begins or
\* ends: the jump that ends one lets nothing through.
Compared == Point(OpenMatch.rest, Height(OpenMatch.scope))
Between == Point({}, Height(OpenMatch.scope))
Now == Point(Outcomes, Height(scope))

FlowFits(g) ==
    IF InMatch
    THEN /\ OpenMatch.rest \subseteq Variants /\ PlainArms(OpenMatch.arms, OpenMatch.rest)
         /\ Flow(g, Main, Start, Compared)
         /\ Flow(g, streams[1].arms, Between, Between)
         /\ InArm => Flow(g, asm_buf, Between, Now)
    ELSE Flow(g, asm_buf, Start, Now)

\* A name that is made now is jumped to with the scope there is now.
Foresees(g) == \A m \in Nat : Size(Main) <= m => g[m].h = Height(MainScope)

Remembers(g) ==
    /\ g \in [Nat -> Points] /\ Foresees(g)
    /\ NamesRight(g, walk) /\ FlowFits(g)

\* The names of the finished code are unique, and what is known is right.
CodeFits ==
    /\ IsSeq(asm_buf)
    /\ \E g \in [Nat -> Points], F \in [Nat -> Points] :
          Passes(g, asm_buf, F) /\ flag \in F[pc].o /\ F[pc].h <= sp
    /\ \A l : /\ Labels(asm_buf, l) <= 1
              /\ Jumps(asm_buf, l) => Labels(asm_buf, l) = 1 /\ l[2] \in Nat

JumpInv ==
    /\ stage = "gen" => /\ flag = NoVal /\ Nest(walk, scope)
                        /\ \A l : Placed(l)
                        /\ \E g : Remembers(g)
    /\ stage = "run" => CodeFits

LEMMA GenFacts ==
    ASSUME BranchInv, stage = "gen"
    PROVE  /\ IsSeq(walk) /\ walk # << >> /\ Len(walk) \in Nat \ {0} /\ StreamFits
           /\ IsSeq(asm_buf) /\ IsSeq(Main) /\ Size(Main) \in Nat
           /\ InMatch => IsSeq(streams[1].arms)
           /\ InArm => IsSeq(streams[1].outer) /\ InMatch
           /\ ~ InArm => Main = asm_buf
           /\ current_stack \in Nat /\ scope \subseteq 1..current_stack
           /\ Height(scope) \in Nat /\ Height(scope) <= current_stack
<1>1. /\ IsSeq(walk) /\ walk # << >> /\ Len(walk) \in Nat \ {0} /\ StreamFits /\ BuffersFit
      /\ current_stack \in Nat /\ scope \subseteq 1..current_stack
  BY WalkFacts
<1>2. IsSeq(asm_buf) /\ (InMatch => IsSeq(streams[1].arms)) /\ (InArm => IsSeq(streams[1].outer))
  BY <1>1 DEF BuffersFit
<1>3. InArm => InMatch
  BY DEF InMatch
<1>4. IsSeq(Main) /\ (~ InArm => Main = asm_buf)
  BY <1>2 DEF Main
<1>5. Size(Main) \in Nat
  BY <1>4, SizeIsNat
<1>6. Height(scope) \in Nat /\ Height(scope) <= current_stack
  BY <1>1, HeightIs
<1> QED
  BY <1>1, <1>2, <1>3, <1>4, <1>5, <1>6

\* The match that is open is the first task that is one.
LEMMA OpenFacts ==
    ASSUME BranchInv, stage = "gen", InMatch
    PROVE  /\ OpenMatch.k = "match" /\ Task(OpenMatch, current_stack)
           /\ OpenMatch.scope \subseteq 1..current_stack /\ OpenMatch.arms \in Seq(Seq(Patterns))
           /\ Height(OpenMatch.scope) \in Nat
           /\ walk[1].k = "match" => OpenMatch = walk[1] /\ ~ InArm
           /\ walk[1].k = "armend" =>
                /\ Len(walk) > 1 /\ InArm /\ OpenMatch = walk[2]
                /\ OpenMatch.merge = walk[1].merge /\ OpenMatch.scope = walk[1].scope
           /\ walk[1].k = "block" =>
                /\ Len(walk) > 2 /\ InArm /\ walk[2].k = "armend" /\ OpenMatch = walk[3]
                /\ OpenMatch.merge = walk[2].merge /\ OpenMatch.scope = walk[2].scope
           /\ \E i \in 1..Len(walk) : OpenMatch = walk[i]
<1>1. /\ Shape(walk) /\ Len(walk) \in Nat \ {0} /\ Tasks(walk, current_stack)
      /\ current_stack \in Nat /\ Bottom(walk[Len(walk)])
      /\ \A i \in 1..Len(walk) - 1 : Follows(walk[i], walk[i + 1])
      /\ Bottom(walk[1]) <=> ~ (Len(walk) > 1)
  BY WalkFacts DEF Shape
<1>2. /\ OpenMatch.k = "match"
      /\ walk[1].k = "match" => OpenMatch = walk[1] /\ ~ InArm
      /\ walk[1].k = "armend" =>
           /\ Len(walk) > 1 /\ InArm /\ OpenMatch = walk[2]
           /\ OpenMatch.merge = walk[1].merge /\ OpenMatch.scope = walk[1].scope
      /\ walk[1].k = "block" =>
           /\ Len(walk) > 2 /\ InArm /\ walk[2].k = "armend" /\ OpenMatch = walk[3]
           /\ OpenMatch.merge = walk[2].merge /\ OpenMatch.scope = walk[2].scope
      /\ \E i \in 1..Len(walk) : OpenMatch = walk[i]
  <2>0. ~ Bottom(walk[1]) /\ Len(walk) > 1 /\ Follows(walk[1], walk[2])
    <3>1. ~ Bottom(walk[1])
      BY DEF Bottom, Opens, InMatch, InArm, ArmBlock
    <3>2. 1 \in 1..Len(walk) - 1
      BY <1>1, <3>1
    <3> QED
      BY <1>1, <3>1, <3>2
  <2>1. CASE walk[1].k = "match"
    <3>1. 1 \in 1..Len(walk)
      BY <1>1
    <3> QED
      BY <2>1, <3>1 DEF OpenMatch, InArm, ArmBlock
  <2>2. CASE walk[1].k = "armend"
    <3>1. 2 \in 1..Len(walk)
      BY <1>1, <2>0
    <3>2. walk[2].k = "match" /\ walk[2].merge = walk[1].merge /\ walk[2].scope = walk[1].scope
      BY <2>0, <2>2 DEF Follows, Opens, ArmBlock, Joint
    <3> QED
      BY <2>0, <2>2, <3>1, <3>2 DEF OpenMatch, InArm
  <2>3. CASE ArmBlock(walk[1])
    <3>1. walk[1].k = "block" /\ walk[2].k = "armend"
      BY <2>0, <2>3 DEF Follows, Opens, ArmBlock, Joint
    <3>2. Len(walk) > 2
      <4>1. Len(walk) # 2
        BY <1>1, <3>1 DEF Bottom, Opens
      <4>2. \A n \in Nat \ {0} : n > 1 /\ n # 2 => n > 2
        OBVIOUS
      <4> QED
        BY <1>1, <2>0, <4>1, <4>2
    <3>3. 2 \in 1..Len(walk) - 1 /\ 3 \in 1..Len(walk)
      BY <1>1, <3>2
    <3>4. Follows(walk[2], walk[3])
      BY <1>1, <3>3
    <3>5. walk[3].k = "match" /\ walk[3].merge = walk[2].merge /\ walk[3].scope = walk[2].scope
      BY <3>1, <3>4 DEF Follows, Opens, ArmBlock, Joint
    <3> QED
      BY <2>3, <3>1, <3>2, <3>3, <3>5 DEF OpenMatch, InArm
  <2> QED
    BY <2>1, <2>2, <2>3 DEF InMatch, InArm
<1>3. Task(OpenMatch, current_stack)
  BY <1>1, <1>2 DEF Tasks
<1>4. OpenMatch.scope \subseteq 1..current_stack /\ OpenMatch.arms \in Seq(Seq(Patterns))
  BY <1>2, <1>3 DEF Task
<1>5. Height(OpenMatch.scope) \in Nat
  BY <1>1, <1>4, HeightIs
<1> QED
  BY <1>2, <1>3, <1>4, <1>5

LEMMA TotalNat ==
    ASSUME BranchInv, stage = "gen", NEW l
    PROVE  Total(l) \in Nat /\ Held(l) \in Nat /\ Owed(walk, l) \in Nat
<1>1. /\ IsSeq(walk) /\ IsSeq(asm_buf)
      /\ InMatch => IsSeq(streams[1].arms)
      /\ InArm => IsSeq(streams[1].outer)
  BY GenFacts
<1>2. /\ Owed(walk, l) \in Nat /\ Labels(asm_buf, l) \in Nat
      /\ InMatch => Labels(streams[1].arms, l) \in Nat
      /\ InArm => Labels(streams[1].outer, l) \in Nat
  BY <1>1, OwedNat, LabelsNat
<1>3. Held(l) \in Nat
  BY <1>2 DEF Held
<1> QED
  BY <1>2, <1>3 DEF Total

Ind(l, N) == IF l \in N THEN 1 ELSE 0

\* The names N are new: whatever is emitted now, each is used for one place.
LEMMA CountStep ==
    ASSUME BranchInv, stage = "gen", \A l : Placed(l), NEW N,
           \A l : Total(l)' = Total(l) + Ind(l, N),
           \A l : Asked(l)' => Asked(l) \/ l \in N,
           \A l : Old(l) => Old(l)',
           \A l \in N : ~ Old(l) /\ Old(l)'
    PROVE  \A l : Placed(l)'
<1>1. ASSUME NEW l PROVE Placed(l)'
  <2>1. Total(l) \in Nat
    BY TotalNat
  <2>2. /\ Total(l) <= 1 /\ (Total(l) = 1 => Old(l)) /\ (Asked(l) => Total(l) = 1)
    BY DEF Placed
  <2>3. Total(l)' = Total(l) + Ind(l, N) /\ (Asked(l)' => Asked(l) \/ l \in N)
        /\ (Old(l) => Old(l)')
    OBVIOUS
  <2>4. CASE l \in N
    <3>1. Total(l) = 0 /\ Old(l)'
      BY <2>1, <2>2, <2>4
    <3>2. Total(l)' = 1
      BY <2>3, <2>4, <3>1 DEF Ind
    <3> QED
      BY <3>1, <3>2 DEF Placed
  <2>5. CASE l \notin N
    <3>1. Total(l)' = Total(l)
      BY <2>1, <2>3, <2>5 DEF Ind
    <3> QED
      BY <2>2, <2>3, <2>5, <3>1 DEF Placed
  <2> QED
    BY <2>4, <2>5
<1> QED
  BY <1>1

\* The tasks c take the place of the first of w.
LEMMA NamesPut ==
    ASSUME NEW g, NEW w, IsSeq(w), w # << >>, NEW c, IsSeq(c),
           NamesRight(g, w), NamesRight(g, c)
    PROVE  NamesRight(g, c \o Tail(w))
<1> DEFINE u == c \o Tail(w)
<1>1. /\ Len(w) \in Nat \ {0}
      /\ \A i \in 1..Len(c) : u[i] = c[i]
      /\ \A i \in 2..Len(w) : u[Len(c) + i - 1] = w[i]
      /\ \A i \in 1..Len(u) : i \in 1..Len(c) \/ \E j \in 2..Len(w) : i = Len(c) + j - 1
  BY PutPlaces
<1> HIDE DEF u
<1>2. ASSUME NEW i \in 1..Len(u) PROVE NameRight(g, u[i])
  <2>1. CASE i \in 1..Len(c)
    BY <1>1, <2>1 DEF NamesRight
  <2>2. CASE i \notin 1..Len(c)
    <3>1. PICK j \in 2..Len(w) : i = Len(c) + j - 1
      BY <1>1, <2>2
    <3>2. j \in 1..Len(w)
      OBVIOUS
    <3> QED
      BY <1>1, <3>1, <3>2 DEF NamesRight
  <2> QED
    BY <2>1, <2>2
<1> QED
  BY <1>2 DEF NamesRight, u

\* Tasks that are started in the scope s.
AllIn(c, s) == \A i \in 1..Len(c) : c[i].k # "block" => c[i].scope = s

LEMMA NestPut ==
    ASSUME NEW w, IsSeq(w), w # << >>, NEW c, IsSeq(c), NEW s, Nest(w, s), AllIn(c, s)
    PROVE  Nest(c \o Tail(w), s)
<1> DEFINE u == c \o Tail(w)
           m == Len(c)
           n == Len(w)
<1>1. /\ n \in Nat \ {0} /\ m \in Nat /\ Len(u) = m + n - 1
      /\ \A i \in 1..m : u[i] = c[i]
      /\ \A i \in 2..n : u[m + i - 1] = w[i]
      /\ \A i \in 1..Len(u) : i \in 1..m \/ \E j \in 2..n : i = m + j - 1
  BY PutPlaces
<1> HIDE DEF u
<1>2. ASSUME NEW i \in 1..Len(u) PROVE u[i].k # "block" => u[i].scope \subseteq s
  <2>1. CASE i \in 1..m
    BY <1>1, <2>1 DEF AllIn
  <2>2. CASE i \notin 1..m
    <3>1. PICK j \in 2..n : i = m + j - 1
      BY <1>1, <2>2
    <3>2. j \in 1..n
      OBVIOUS
    <3> QED
      BY <1>1, <3>1, <3>2 DEF Nest
  <2> QED
    BY <2>1, <2>2
<1>3. ASSUME NEW i \in 1..Len(u), NEW j \in 1..Len(u), i < j, u[i].k # "block", u[j].k # "block"
      PROVE  u[j].scope \subseteq u[i].scope
  <2>1. CASE i \in 1..m
    <3>1. u[i].scope = s
      BY <1>1, <1>3, <2>1 DEF AllIn
    <3> QED
      BY <1>2, <1>3, <3>1
  <2>2. CASE i \notin 1..m
    <3>1. PICK a \in 2..n : i = m + a - 1
      BY <1>1, <2>2
    <3>2. j \notin 1..m
      BY <1>1, <1>3, <3>1
    <3>3. PICK b \in 2..n : j = m + b - 1
      BY <1>1, <3>2
    <3>4. a \in 1..n /\ b \in 1..n /\ a < b
      BY <1>1, <1>3, <3>1, <3>3
    <3>5. u[i] = w[a] /\ u[j] = w[b]
      BY <1>1, <3>1, <3>3
    <3> QED
      BY <1>3, <3>4, <3>5 DEF Nest
  <2> QED
    BY <2>1, <2>2
<1> QED
  BY <1>2, <1>3 DEF Nest, u

LEMMA NestMore ==
    ASSUME NEW w, NEW s, NEW t, Nest(w, s), s \subseteq t
    PROVE  Nest(w, t)
  BY DEF Nest

\* The scope a block was begun in.
LEMMA NestRest ==
    ASSUME NEW w, IsSeq(w), Len(w) > 1, NEW s, Nest(w, s), w[2].k # "block"
    PROVE  w[2].scope \subseteq s /\ Nest(Tail(w), w[2].scope)
<1> DEFINE u == Tail(w)
           n == Len(w)
<1>1. n \in Nat /\ n > 1 /\ w # << >>
  BY SeqFacts
<1>2. Len(u) = n - 1 /\ \A i \in 1..n - 1 : u[i] = w[i + 1]
  BY <1>1, SeqRest
<1> HIDE DEF u
<1>3. 2 \in 1..n /\ \A i \in 1..n - 1 : i + 1 \in 1..n
  BY <1>1
<1>4. w[2].scope \subseteq s
  BY <1>3 DEF Nest
<1>5. ASSUME NEW i \in 1..Len(u), u[i].k # "block" PROVE u[i].scope \subseteq w[2].scope
  <2>1. CASE i = 1
    BY <1>1, <1>2, <2>1
  <2>2. CASE i # 1
    <3>1. 2 < i + 1 /\ i + 1 \in 1..n
      BY <1>1, <1>2, <1>3, <2>2
    <3> QED
      BY <1>2, <1>3, <1>5, <3>1 DEF Nest
  <2> QED
    BY <2>1, <2>2
<1>6. ASSUME NEW i \in 1..Len(u), NEW j \in 1..Len(u), i < j, u[i].k # "block", u[j].k # "block"
      PROVE  u[j].scope \subseteq u[i].scope
  <2>1. i + 1 \in 1..n /\ j + 1 \in 1..n /\ i + 1 < j + 1
    BY <1>1, <1>2, <1>3, <1>6
  <2>2. u[i] = w[i + 1] /\ u[j] = w[j + 1]
    BY <1>2
  <2> QED
    BY <1>6, <2>1, <2>2 DEF Nest
<1> QED
  BY <1>4, <1>5, <1>6 DEF Nest, u

\* A step that is no part of a match: what it emits.
LEMMA OutsideCount ==
    ASSUME BranchInv, BranchInv', JumpInv, stage = "gen", stage' = "gen",
           streams' = streams, ~ InMatch,
           NEW c, IsSeq(c), walk' = c \o Tail(walk),
           NEW e, IsSeq(e), asm_buf' = e,
           NEW N,
           \A l : Labels(e, l) + Owed(c, l) = Labels(asm_buf, l) + Owes(walk[1], l) + Ind(l, N),
           \A l : Jumps(e, l) \/ Wanted(c, l) =>
                    Jumps(asm_buf, l) \/ Wants(walk[1], l) \/ l \in N,
           \A l \in N : l[2] \in Nat /\ Size(asm_buf) <= l[2] /\ l[2] < Size(e),
           Size(asm_buf) <= Size(e)
    PROVE  (\A l : Placed(l)') /\ ~ InMatch' /\ ~ InArm' /\ Main' = e /\ Size(e) \in Nat
<1>1. /\ IsSeq(walk) /\ walk # << >> /\ StreamFits /\ ~ InArm
      /\ IsSeq(asm_buf) /\ Main = asm_buf /\ Size(asm_buf) \in Nat
  BY GenFacts DEF InMatch
<1>2. \A l : Placed(l)
  BY DEF JumpInv
<1>3. ~ InMatch' /\ ~ InArm' /\ Main' = e
  <2>1. streams' = << >> /\ StreamFits'
    BY <1>1 DEF StreamFits, BranchInv
  <2>2. Len(streams') # 1
    BY <2>1, EmptySeq
  <2>3. ~ InMatch'
    BY <2>1, <2>2 DEF StreamFits
  <2> QED
    BY <2>3 DEF InMatch, Main
<1>5. Size(e) \in Nat
  BY SizeIsNat
<1>6. ASSUME NEW l PROVE Total(l)' = Total(l) + Ind(l, N)
  <2>1. Total(l) = Labels(asm_buf, l) + Owed(walk, l)
    <3>1. Labels(asm_buf, l) \in Nat
      BY <1>1, LabelsNat
    <3> QED
      BY <1>1, <3>1 DEF Total, Held
  <2>2. Total(l)' = Labels(e, l) + Owed(walk', l)
    <3>1. Labels(e, l) \in Nat
      BY LabelsNat
    <3> QED
      BY <1>3, <3>1 DEF Total, Held
  <2>3. /\ Owed(walk', l) + Owes(walk[1], l) = Owed(c, l) + Owed(walk, l)
        /\ Owed(walk', l) \in Nat /\ Owed(walk, l) \in Nat /\ Owed(c, l) \in Nat
        /\ Owes(walk[1], l) \in Nat
    BY <1>1, OwedPut
  <2>4. Labels(e, l) \in Nat /\ Labels(asm_buf, l) \in Nat /\ Ind(l, N) \in Nat
    BY <1>1, LabelsNat DEF Ind
  <2>5. Labels(e, l) + Owed(c, l) = Labels(asm_buf, l) + Owes(walk[1], l) + Ind(l, N)
    OBVIOUS
  <2> DEFINE a == Owed(walk', l)
             b == Labels(asm_buf, l)
             x == Owed(walk, l)
             y == Labels(e, l)
             z == Owed(c, l)
             o == Owes(walk[1], l)
             i == Ind(l, N)
  <2>6. /\ a \in Nat /\ b \in Nat /\ x \in Nat /\ y \in Nat /\ z \in Nat /\ o \in Nat /\ i \in Nat
        /\ a + o = z + x /\ y + z = b + o + i
    BY <2>3, <2>4, <2>5
  <2>7. y + a = (b + x) + i
    <3> HIDE DEF a, b, x, y, z, o, i
    <3> QED
      BY <2>6
  <2> QED
    BY <2>1, <2>2, <2>7, Zenon
<1>7. ASSUME NEW l PROVE Asked(l)' => Asked(l) \/ l \in N
  <2>1. /\ Wanted(walk', l) => Wanted(c, l) \/ Wanted(walk, l)
        /\ Wants(walk[1], l) => Wanted(walk, l)
    BY <1>1, OwedPut
  <2>2. Jumps(e, l) \/ Wanted(c, l) => Jumps(asm_buf, l) \/ Wants(walk[1], l) \/ l \in N
    OBVIOUS
  <2> QED
    BY <1>3, <2>1, <2>2 DEF Asked
<1>8. walk[1].k # "match" /\ ~ (walk'[1].k = "match")
  BY <1>3 DEF InMatch
<1>9. ASSUME NEW l PROVE Old(l) => Old(l)'
  BY <1>1, <1>3, <1>5, <1>8 DEF Old
<1>10. ASSUME NEW l \in N PROVE ~ Old(l) /\ Old(l)'
  <2>1. l[2] \in Nat /\ Size(asm_buf) <= l[2] /\ l[2] < Size(e)
    OBVIOUS
  <2>2. ~ (l[2] < Size(asm_buf))
    BY <1>1, <2>1
  <2> QED
    BY <1>1, <1>3, <1>8, <2>1, <2>2 DEF Old
<1>11. \A l : Placed(l)'
  BY <1>2, <1>6, <1>7, <1>9, <1>10, CountStep
<1> QED
  BY <1>3, <1>5, <1>11

\* What is known outside a match.
LEMMA OutsideFacts ==
    ASSUME BranchInv, stage = "gen", ~ InMatch, NEW g, Remembers(g)
    PROVE  /\ g \in [Nat -> Points] /\ NamesRight(g, walk) /\ NameRight(g, walk[1])
           /\ Flow(g, asm_buf, Start, Now)
           /\ \A m \in Nat : Size(asm_buf) <= m => g[m].h = Height(scope)
<1>1. Main = asm_buf /\ Len(walk) \in Nat \ {0}
  BY GenFacts DEF InMatch
<1>2. 1 \in 1..Len(walk)
  BY <1>1
<1> QED
  BY <1>1, <1>2 DEF Remembers, Foresees, FlowFits, MainScope, NamesRight

\* One that stays in the scope, and what it emits leads on.
LEMMA OutsideJumps ==
    ASSUME BranchInv, BranchInv', JumpInv, stage = "gen", stage' = "gen", flag' = flag,
           streams' = streams, ~ InMatch, scope' = scope,
           NEW c, IsSeq(c), walk' = c \o Tail(walk), AllIn(c, scope),
           NEW e, IsSeq(e), asm_buf' = e,
           \A g : Remembers(g) => NamesRight(g, c) /\ Flow(g, e, Start, Now),
           NEW N,
           \A l : Labels(e, l) + Owed(c, l) = Labels(asm_buf, l) + Owes(walk[1], l) + Ind(l, N),
           \A l : Jumps(e, l) \/ Wanted(c, l) =>
                    Jumps(asm_buf, l) \/ Wants(walk[1], l) \/ l \in N,
           \A l \in N : l[2] \in Nat /\ Size(asm_buf) <= l[2] /\ l[2] < Size(e),
           Size(asm_buf) <= Size(e)
    PROVE  JumpInv'
<1>1. (\A l : Placed(l)') /\ ~ InMatch' /\ ~ InArm' /\ Main' = e /\ Size(e) \in Nat
  BY OutsideCount
<1>2. flag = NoVal /\ Nest(walk, scope)
  BY DEF JumpInv
<1>3. PICK g : Remembers(g)
  BY DEF JumpInv
<1>4. IsSeq(walk) /\ walk # << >> /\ IsSeq(asm_buf) /\ Size(asm_buf) \in Nat
  BY GenFacts, SizeIsNat
<1>5. Nest(walk, scope)'
  BY <1>2, <1>4, NestPut
<1>6. /\ g \in [Nat -> Points] /\ NamesRight(g, walk)
      /\ \A m \in Nat : Size(asm_buf) <= m => g[m].h = Height(scope)
  BY <1>3, OutsideFacts
<1>7. NamesRight(g, c) /\ Flow(g, e, Start, Now)
  BY <1>3
<1>8. NamesRight(g, walk')
  BY <1>4, <1>6, <1>7, NamesPut
<1>9. Foresees(g)'
  <2>1. ASSUME NEW m \in Nat, Size(e) <= m PROVE g[m].h = Height(scope)
    <3>1. Size(asm_buf) <= m
      BY <1>1, <1>4, <2>1
    <3> QED
      BY <1>6, <3>1
  <2> QED
    BY <1>1, <2>1 DEF Foresees, MainScope
<1>10. FlowFits(g)'
  <2>1. Now' = Now
    BY DEF Now
  <2> QED
    BY <1>1, <1>7, <2>1 DEF FlowFits
<1>11. Remembers(g)'
  BY <1>6, <1>8, <1>9, <1>10 DEF Remembers
<1>12. stage' # "run" /\ flag' = NoVal
  BY <1>2
<1> QED
  BY <1>1, <1>5, <1>11, <1>12 DEF JumpInv
-----------------------------------------------------------------------------
(* Jumps: instructions and tasks *)

LEMMA SameLabel ==
    ASSUME NEW n, NEW l
    PROVE  Label(n) = Label(l) <=> n = l
<1>1. Label(n) = Label(l) => Label(n).lbl = Label(l).lbl
  OBVIOUS
<1> QED
  BY <1>1 DEF Label, I

LEMMA IsLabel ==
    ASSUME NEW n, NEW l
    PROVE  Is(Label(n), l) = Ind(l, {n}) /\ ~ Goes(Label(n), l)
<1>1. Label(n) = Label(l) <=> n = l
  BY SameLabel
<1>2. Label(n).op = "label"
  BY DEF Label, I
<1> QED
  BY <1>1, <1>2 DEF Is, Ind, Goes

LEMMA IsOther ==
    ASSUME NEW x, x.op # "label", NEW l
    PROVE  Is(x, l) = 0 /\ x # Label(l)
  BY DEF Is, Label, I

LEMMA NoJump ==
    ASSUME NEW x, x.op \notin {"jmp", "je", "jne"}, NEW l
    PROVE  ~ Goes(x, l)
  BY DEF Goes

LEMMA OnlyJump ==
    ASSUME NEW x, NEW l, Goes(x, l)
    PROVE  x.lbl = l
  BY DEF Goes

LEMMA NoOwes ==
    ASSUME NEW t, NEW l
    PROVE  /\ t.k \in {"block", "armend"} => Owes(t, l) = 0
           /\ t.k \in {"then", "merge"} => Owes(t, l) = Ind(l, {t.name})
           /\ t.k = "cond" => Owes(t, l) = Ind(l, {t.uncond})
           /\ t.k = "match" => Owes(t, l) = Ind(l, {t.merge})
           /\ Wants(t, l) <=> (t.k = "cond" /\ l = t.name) \/ (t.k = "armend" /\ l = t.merge)
<1>1. t.k \in {"block", "armend"} => Owes(t, l) = 0
  <2>1. Test.op # "label"
    BY DEF Test, I
  <2>2. Is(Test, l) = 0
    BY <2>1, IsOther
  <2> QED
    BY <2>2 DEF Owes, Promise
<1>2. /\ t.k \in {"then", "merge"} => Owes(t, l) = Ind(l, {t.name})
      /\ t.k = "cond" => Owes(t, l) = Ind(l, {t.uncond})
      /\ t.k = "match" => Owes(t, l) = Ind(l, {t.merge})
  BY IsLabel DEF Owes, Promise
<1>3. Wants(t, l) <=> (t.k = "cond" /\ l = t.name) \/ (t.k = "armend" /\ l = t.merge)
  BY DEF Wants
<1> QED
  BY <1>1, <1>2, <1>3

LEMMA LeadsIs ==
    ASSUME NEW g, NEW l
    PROVE  /\ l[1] = "jmpif" => Leads(g, l).o = {0}
           /\ l[1] = "jmpwhile" => Leads(g, l).o = {1}
           /\ l[1] \in {"matcharm", "bindval"} => Leads(g, l).o = g[l[2]].o
           /\ l[1] \in {"mergeif", "uncondwhile", "matchmerge"} => Leads(g, l).o = Outcomes
           /\ Leads(g, l).h = g[l[2]].h
  BY DEF Leads, Point

\* An instruction that is reached with h slots pushed, and pushes none.
LEMMA ThroughBy ==
    ASSUME NEW g, NEW x, NEW A \in SUBSET Outcomes, NEW B \in SUBSET Outcomes, NEW h \in Nat
    PROVE  /\ x.op \in {"cmp", "val"} /\ x.slots \subseteq B => Through(g, x, Point(A, h), Point(B, h))
           /\ x.op = "in" /\ A \subseteq x.slots /\ A \subseteq B
              => Through(g, x, Point(A, h), Point(B, h))
           /\ x.op = "test" /\ A \subseteq B => Through(g, x, Point(A, h), Point(B, h))
           /\ /\ x.op = "je" /\ Leads(g, x.lbl).h <= h
              /\ A \cap {x.val} \subseteq Leads(g, x.lbl).o /\ A \ {x.val} \subseteq B
              => Through(g, x, Point(A, h), Point(B, h))
           /\ /\ x.op = "jne" /\ Leads(g, x.lbl).h <= h
              /\ A \ {x.val} \subseteq Leads(g, x.lbl).o /\ A \cap {x.val} \subseteq B
              => Through(g, x, Point(A, h), Point(B, h))
<1>1. Point(A, h).o = A /\ Point(A, h).h = h /\ Point(B, h).o = B /\ Point(B, h).h = h /\ h <= h
  BY AtIs
<1>2. x.op \notin {"label"} => \A l : x # Label(l)
  BY IsOther
<1>3. ASSUME x.op \in {"cmp", "val"}, x.slots \subseteq B
      PROVE  Through(g, x, Point(A, h), Point(B, h))
  BY <1>1, <1>2, <1>3 DEF Through
<1>4. ASSUME x.op = "in", A \subseteq x.slots, A \subseteq B
      PROVE  Through(g, x, Point(A, h), Point(B, h))
  BY <1>1, <1>2, <1>4 DEF Through
<1>5. ASSUME x.op = "test", A \subseteq B
      PROVE  Through(g, x, Point(A, h), Point(B, h))
  BY <1>1, <1>2, <1>5 DEF Through
<1>6. ASSUME x.op = "je", Leads(g, x.lbl).h <= h, A \cap {x.val} \subseteq Leads(g, x.lbl).o,
             A \ {x.val} \subseteq B
      PROVE  Through(g, x, Point(A, h), Point(B, h))
  BY <1>1, <1>2, <1>6 DEF Through
<1>7. ASSUME x.op = "jne", Leads(g, x.lbl).h <= h, A \ {x.val} \subseteq Leads(g, x.lbl).o,
             A \cap {x.val} \subseteq B
      PROVE  Through(g, x, Point(A, h), Point(B, h))
  BY <1>1, <1>2, <1>7 DEF Through
<1> QED
  BY <1>3, <1>4, <1>5, <1>6, <1>7

LEMMA ThroughLabel ==
    ASSUME NEW g, NEW n, NEW A \in Points, NEW B \in Points, Under(Leads(g, n), A), Under(A, B)
    PROVE  Through(g, Label(n), A, B)
<1> DEFINE x == Label(n)
<1>1. x.op = "label" /\ \A l : x = Label(l) <=> n = l
  BY SameLabel DEF Label, I
<1> HIDE DEF x
<1>2. \A l : x = Label(l) => Under(Leads(g, l), A)
  BY <1>1
<1>3. Through(g, x, A, B)
  BY <1>1, <1>2 DEF Through, Under
<1> QED
  BY <1>3 DEF x

\* After a jump nothing is known.
LEMMA ThroughJmp ==
    ASSUME NEW g, NEW x, x.op = "jmp", NEW A \in Points, NEW B \in Points,
           Under(A, Leads(g, x.lbl))
    PROVE  Through(g, x, A, B)
<1>1. \A l : x # Label(l)
  BY IsOther
<1> QED
  BY <1>1 DEF Through, Under

LEMMA ThroughPush ==
    ASSUME NEW g, NEW x, x.op = "push", NEW A \in Points, NEW B \in Points,
           A.o \subseteq B.o, B.h <= A.h + 1
    PROVE  Through(g, x, A, B)
<1>1. \A l : x # Label(l)
  BY IsOther
<1> QED
  BY <1>1 DEF Through

\* A call finds the slots of the scope.
LEMMA ThroughCall ==
    ASSUME NEW g, NEW x, x.op = "call", NEW c \in Nat, x.slots \subseteq 1..c,
           NEW A \in Points, A.h = Height(x.slots)
    PROVE  Through(g, x, A, A)
<1> DEFINE S == x.slots
           n == Height(S)
<1>0. S \subseteq 1..c
  OBVIOUS
<1> HIDE DEF S
<1>1. n \in Nat /\ n + 1 \notin S
  BY <1>0, HeightIs
<1>2. ASSUME NEW v \in S, 1..v \subseteq S PROVE v <= n
  <2>1. v \in Nat /\ 1 <= v
    BY <1>0
  <2> HIDE DEF n
  <2>2. CASE v <= n
    BY <2>2
  <2>3. CASE ~ (v <= n)
    <3>1. n + 1 \in 1..v
      BY <1>1, <2>1, <2>3
    <3> QED
      BY <1>1, <1>2, <3>1
  <2> QED
    BY <2>2, <2>3
<1>3. A.h <= A.h /\ \A l : x # Label(l)
  BY PointIs, IsOther
<1>4. A.h = n
  BY DEF S
<1> HIDE DEF n
<1>5. \A v \in x.slots : 1..v \subseteq x.slots => v <= A.h
  BY <1>2, <1>4 DEF S
<1> QED
  BY <1>3, <1>5 DEF Through

Unit(x) == IF x.op \in {"in", "val"} THEN 0 ELSE 1

LEMMA CodeMore ==
    ASSUME NEW s, IsSeq(s), NEW x, NEW u, OneMore(u, s, x)
    PROVE  /\ IsSeq(u) /\ Size(s) \in Nat /\ Size(u) = Size(s) + Unit(x)
           /\ \A l : /\ Labels(u, l) = Labels(s, l) + Is(x, l)
                     /\ Labels(s, l) \in Nat
                     /\ Jumps(u, l) <=> Jumps(s, l) \/ Goes(x, l)
<1>1. u = Append(s, x)
  BY DEF OneMore
<1>2. Size(s) \in Nat /\ Size(u) = Size(s) + Unit(x)
  BY <1>1, SizeAppend DEF Unit
<1>3. IsSeq(u) /\ \A l : /\ Labels(u, l) = Labels(s, l) + Is(x, l)
                         /\ Labels(s, l) \in Nat
                         /\ Jumps(u, l) <=> Jumps(s, l) \/ Goes(x, l)
  BY <1>1, CodeAppend, LabelsNat
<1> QED
  BY <1>2, <1>3

LEMMA FlowMore ==
    ASSUME NEW g, NEW s, NEW x, NEW u, OneMore(u, s, x),
           NEW X \in Points, NEW Y \in Points, NEW Z \in Points,
           Flow(g, s, X, Y), Through(g, x, Y, Z)
    PROVE  Flow(g, u, X, Z)
<1>1. Under(Y, Y) /\ Under(Z, Z)
  BY PointIs
<1>2. u = Append(s, x)
  BY DEF OneMore
<1> QED
  BY <1>1, <1>2, FlowAppend

LEMMA NamesShort ==
    ASSUME NEW g, NEW a, NEW b, NEW c
    PROVE  /\ NamesRight(g, << >>)
           /\ NameRight(g, a) => NamesRight(g, <<a>>)
           /\ NameRight(g, a) /\ NameRight(g, b) => NamesRight(g, <<a, b>>)
           /\ NameRight(g, a) /\ NameRight(g, b) /\ NameRight(g, c) => NamesRight(g, <<a, b, c>>)
<1>1. Len(<<a>>) = 1 /\ Len(<<a, b>>) = 2 /\ Len(<<a, b, c>>) = 3
  BY Tuples
<1>2. Len(<< >>) = 0
  BY EmptySeq
<1>3. NamesRight(g, << >>)
  BY <1>2 DEF NamesRight
<1>4. NameRight(g, a) => NamesRight(g, <<a>>)
  BY <1>1 DEF NamesRight
<1>5. ASSUME NameRight(g, a), NameRight(g, b) PROVE NamesRight(g, <<a, b>>)
  <2>1. ASSUME NEW i \in 1..2 PROVE NameRight(g, <<a, b>>[i])
    <3>1. i = 1 \/ i = 2
      OBVIOUS
    <3> QED
      BY <1>5, <3>1
  <2> QED
    BY <1>1, <2>1 DEF NamesRight
<1>6. ASSUME NameRight(g, a), NameRight(g, b), NameRight(g, c)
      PROVE  NamesRight(g, <<a, b, c>>)
  <2>1. ASSUME NEW i \in 1..3 PROVE NameRight(g, <<a, b, c>>[i])
    <3>1. i = 1 \/ i = 2 \/ i = 3
      OBVIOUS
    <3> QED
      BY <1>6, <3>1
  <2> QED
    BY <1>1, <2>1 DEF NamesRight
<1> QED
  BY <1>3, <1>4, <1>5, <1>6

LEMMA AllInShort ==
    ASSUME NEW a, NEW b, NEW c, NEW s
    PROVE  /\ AllIn(<< >>, s)
           /\ (a.k # "block" => a.scope = s) => AllIn(<<a>>, s)
           /\ (a.k # "block" => a.scope = s) /\ (b.k # "block" => b.scope = s) =>
                AllIn(<<a, b>>, s)
           /\ /\ a.k # "block" => a.scope = s
              /\ b.k # "block" => b.scope = s
              /\ c.k # "block" => c.scope = s
              => AllIn(<<a, b, c>>, s)
<1>1. Len(<<a>>) = 1 /\ Len(<<a, b>>) = 2 /\ Len(<<a, b, c>>) = 3
  BY Tuples
<1>2. Len(<< >>) = 0
  BY EmptySeq
<1>3. AllIn(<< >>, s)
  BY <1>2 DEF AllIn
<1>4. (a.k # "block" => a.scope = s) => AllIn(<<a>>, s)
  BY <1>1 DEF AllIn
<1>5. ASSUME a.k # "block" => a.scope = s, b.k # "block" => b.scope = s
      PROVE  AllIn(<<a, b>>, s)
  <2>1. ASSUME NEW i \in 1..2 PROVE <<a, b>>[i].k # "block" => <<a, b>>[i].scope = s
    <3>1. i = 1 \/ i = 2
      OBVIOUS
    <3> QED
      BY <1>5, <3>1
  <2> QED
    BY <1>1, <2>1 DEF AllIn
<1>6. ASSUME a.k # "block" => a.scope = s, b.k # "block" => b.scope = s,
             c.k # "block" => c.scope = s
      PROVE  AllIn(<<a, b, c>>, s)
  <2>1. ASSUME NEW i \in 1..3 PROVE <<a, b, c>>[i].k # "block" => <<a, b, c>>[i].scope = s
    <3>1. i = 1 \/ i = 2 \/ i = 3
      OBVIOUS
    <3> QED
      BY <1>6, <3>1
  <2> QED
    BY <1>1, <2>1 DEF AllIn
<1> QED
  BY <1>3, <1>4, <1>5, <1>6

-----------------------------------------------------------------------------
(* Jumps: every step keeps the invariant *)

\* What is known before any step.
LEMMA HeadFacts ==
    ASSUME BranchInv, JumpInv, stage = "gen"
    PROVE  /\ IsSeq(asm_buf) /\ IsSeq(walk) /\ walk # << >> /\ flag = NoVal
           /\ Nest(walk, scope) /\ \A l : Placed(l)
           /\ current_stack \in Nat /\ scope \subseteq 1..current_stack
           /\ Height(scope) \in Nat /\ Start \in Points /\ Now \in Points
           /\ \A A \in SUBSET Outcomes : Point(A, Height(scope)) \in Points
           /\ Now = Point(Outcomes, Height(scope)) /\ Now.o = Outcomes /\ Now.h = Height(scope)
<1>1. /\ IsSeq(asm_buf) /\ IsSeq(walk) /\ walk # << >> /\ Height(scope) \in Nat
      /\ current_stack \in Nat /\ scope \subseteq 1..current_stack
  BY GenFacts
<1>2. flag = NoVal /\ Nest(walk, scope) /\ \A l : Placed(l)
  BY DEF JumpInv
<1>3. \A A \in SUBSET Outcomes : Point(A, Height(scope)) \in Points
  BY <1>1, AtIs
<1>4. Start \in Points
  <2>1. 0 \in Nat /\ Outcomes \in SUBSET Outcomes
    OBVIOUS
  <2> QED
    BY <2>1, AtIs DEF Start
<1> QED
  BY <1>1, <1>2, <1>3, <1>4, AtIs DEF Now

\* A function is called outside a match.
LEMMA CallOutside ==
    ASSUME BranchInv, BranchInv', JumpInv, StmtCall, ~ InMatch
    PROVE  JumpInv'
<1> DEFINE x == CallWith(scope)
           t == walk[1]
           c == <<t>>
           e == Append(asm_buf, x)
           N == {}
<1>1. stage = "gen" /\ t.k = "block"
  BY DEF StmtCall, StartStmt, AtTask
<1>2. /\ asm_buf' = e /\ walk' = c \o Tail(walk) /\ scope' = scope
      /\ streams' = streams /\ stage' = stage /\ flag' = flag
  BY DEF StmtCall, Emit, machine
<1>3. x.op = "call" /\ x.slots = scope
  BY DEF CallWith, I
<1>4. /\ IsSeq(asm_buf) /\ Start \in Points /\ Now \in Points /\ Now.h = Height(scope)
      /\ current_stack \in Nat /\ scope \subseteq 1..current_stack
  BY <1>1, HeadFacts
<1>5. OneMore(e, asm_buf, x)
  BY DEF OneMore
<1>6. IsSeq(c) /\ AllIn(c, scope)
  BY <1>1, Tuples, AllInShort
<1>7. \A l : Owed(c, l) = 0 /\ ~ Wanted(c, l) /\ Owes(t, l) = 0
  <2>1. \A l : Owed(c, l) = Owes(t, l) /\ (Wanted(c, l) <=> Wants(t, l))
    BY OwedOne, Zenon
  <2>2. \A l : Owes(t, l) = 0 /\ ~ Wants(t, l)
    BY <1>1, NoOwes
  <2> HIDE DEF c
  <2> QED
    BY <2>1, <2>2
<1>8. \A g : NameRight(g, t) => NamesRight(g, c)
  BY NamesShort
<1> HIDE DEF x, c, e
<1>9. ASSUME NEW g, Remembers(g) PROVE NamesRight(g, c) /\ Flow(g, e, Start, Now)
  <2>1. NameRight(g, t) /\ Flow(g, asm_buf, Start, Now)
    BY <1>1, <1>9, OutsideFacts
  <2>2. Through(g, x, Now, Now)
    BY <1>3, <1>4, ThroughCall
  <2> QED
    BY <1>4, <1>5, <1>8, <2>1, <2>2, FlowMore
<1>10. \A l : Is(x, l) = 0 /\ ~ Goes(x, l) /\ Ind(l, N) = 0
  BY <1>3, IsOther, NoJump DEF Ind
<1>11. /\ IsSeq(e) /\ Size(asm_buf) \in Nat /\ Size(e) = Size(asm_buf) + Unit(x)
       /\ \A l : /\ Labels(e, l) = Labels(asm_buf, l) + Is(x, l)
                 /\ Labels(asm_buf, l) \in Nat
                 /\ Jumps(e, l) <=> Jumps(asm_buf, l) \/ Goes(x, l)
  BY <1>4, <1>5, CodeMore
<1>12. Size(asm_buf) <= Size(e)
  BY <1>11 DEF Unit
<1>13. /\ \A l : Labels(e, l) + Owed(c, l) = Labels(asm_buf, l) + Owes(t, l) + Ind(l, N)
       /\ \A l : Jumps(e, l) \/ Wanted(c, l) => Jumps(asm_buf, l) \/ Wants(t, l) \/ l \in N
       /\ \A l \in N : l[2] \in Nat /\ Size(asm_buf) <= l[2] /\ l[2] < Size(e)
  BY <1>7, <1>10, <1>11
<1> HIDE DEF N
<1> QED
  BY <1>1, <1>2, <1>6, <1>9, <1>11, <1>12, <1>13, OutsideJumps

LEMMA IfJumps ==
    ASSUME BranchInv, BranchInv', JumpInv, NestInArms = FALSE, NEW else, StmtIf(else)
    PROVE  JumpInv'
<1> DEFINE t == walk[1]
           x == Compare({0, 1})
           s1 == Append(asm_buf, x)
           name == Name("jmpif", s1)
           y == JmpNe(name, 1)
           in == In({1})
           s2 == Append(s1, y)
           e == Append(s2, in)
           r == Inner
           u == [k |-> "then", name |-> name, else |-> else, scope |-> scope]
           c == <<r, u, t>>
           h == Height(scope)
           P(o) == Point(o, h)
<1>1. AtTask("block") /\ (t.arm => NestInArms)
  BY DEF StmtIf, StartNested, StartStmt
<1>2. /\ asm_buf' = s1 \o <<y, in>> /\ walk' = c \o Tail(walk) /\ scope' = scope
      /\ streams' = streams /\ stage' = stage /\ flag' = flag
  BY DEF StmtIf, Emit, machine
<1>3. ~ InMatch /\ stage = "gen" /\ t.k = "block"
  BY <1>1, BlockFacts
<1>4. /\ IsSeq(asm_buf) /\ h \in Nat /\ Start \in Points /\ Now = P(Outcomes)
      /\ \A A \in SUBSET Outcomes : P(A) \in Points
  BY <1>3, HeadFacts
<1>5. OneMore(s1, asm_buf, x) /\ OneMore(s2, s1, y) /\ OneMore(e, s2, in)
  BY DEF OneMore
<1>6. asm_buf' = e
  BY <1>2, <1>4, SeqAppend, AppendJoin
<1>7. r.k = "block" /\ u.k = "then" /\ u.name = name /\ u.scope = scope
  BY DEF Inner, Block
<1>8. name[1] = "jmpif" /\ name[2] = Size(s1)
  BY DEF Name
<1>9. /\ x.op = "cmp" /\ x.slots = {0, 1}
      /\ y.op = "jne" /\ y.lbl = name /\ y.val = 1
      /\ in.op = "in" /\ in.slots = {1}
  BY DEF Compare, JmpNe, In, I
<1> HIDE DEF x, y, in, name, r, u, s1, s2, e, h
<1>10. /\ IsSeq(c) /\ AllIn(c, scope)
       /\ \A l : Owed(c, l) = Ind(l, {name}) /\ ~ Wanted(c, l) /\ Owes(t, l) = 0
  <2>1. IsSeq(c) /\ AllIn(c, scope)
    BY <1>3, <1>7, Tuples, AllInShort
  <2>3. \A l : /\ Owes(r, l) = 0 /\ Owes(u, l) = Ind(l, {name}) /\ Owes(t, l) = 0
               /\ ~ Wants(r, l) /\ ~ Wants(u, l) /\ ~ Wants(t, l)
               /\ 0 + Ind(l, {name}) + 0 = Ind(l, {name})
    BY <1>3, <1>7, NoOwes DEF Ind
  <2>4. \A l : /\ Owed(c, l) = Owes(r, l) + Owes(u, l) + Owes(t, l)
               /\ Wanted(c, l) => Wants(r, l) \/ Wants(u, l) \/ Wants(t, l)
    BY OwedThree, Zenon
  <2> HIDE DEF c
  <2> QED
    BY <2>1, <2>3, <2>4
<1>11. \A g : NameRight(g, r) /\ NameRight(g, u) /\ NameRight(g, t) => NamesRight(g, c)
  BY NamesShort
<1> HIDE DEF c
<1>12. \A l : /\ Is(x, l) = 0 /\ Is(y, l) = 0 /\ Is(in, l) = 0
              /\ ~ Goes(x, l) /\ (Goes(y, l) => l = name) /\ ~ Goes(in, l)
  BY <1>9, IsOther, NoJump, OnlyJump
<1>13. /\ IsSeq(s1) /\ Size(asm_buf) \in Nat /\ Size(s1) = Size(asm_buf) + 1
       /\ \A l : /\ Labels(s1, l) = Labels(asm_buf, l) + Is(x, l)
                 /\ Labels(asm_buf, l) \in Nat
                 /\ Jumps(s1, l) <=> Jumps(asm_buf, l) \/ Goes(x, l)
  BY <1>4, <1>5, <1>9, CodeMore DEF Unit
<1>14. /\ IsSeq(s2) /\ Size(s2) = Size(s1) + 1
       /\ \A l : /\ Labels(s2, l) = Labels(s1, l) + Is(y, l)
                 /\ Jumps(s2, l) <=> Jumps(s1, l) \/ Goes(y, l)
  BY <1>5, <1>9, <1>13, CodeMore DEF Unit
<1>15. /\ IsSeq(e) /\ Size(e) = Size(s2) + 0
       /\ \A l : /\ Labels(e, l) = Labels(s2, l) + Is(in, l)
                 /\ Jumps(e, l) <=> Jumps(s2, l) \/ Goes(in, l)
  BY <1>5, <1>9, <1>14, CodeMore DEF Unit
<1>16. \A l : Labels(e, l) + Owed(c, l) = Labels(asm_buf, l) + Owes(t, l) + Ind(l, {name})
  BY <1>10, <1>12, <1>13, <1>14, <1>15 DEF Ind
<1>17. \A l : Jumps(e, l) \/ Wanted(c, l) =>
                    Jumps(asm_buf, l) \/ Wants(t, l) \/ l \in {name}
  BY <1>10, <1>12, <1>13, <1>14, <1>15
<1>18. /\ \A l \in {name} : l[2] \in Nat /\ Size(asm_buf) <= l[2] /\ l[2] < Size(e)
       /\ Size(asm_buf) <= Size(e)
  BY <1>8, <1>13, <1>14, <1>15
<1>19. ASSUME NEW g, Remembers(g) PROVE NamesRight(g, c) /\ Flow(g, e, Start, Now)
  <2>1. /\ NameRight(g, t) /\ Flow(g, asm_buf, Start, Now)
        /\ \A m \in Nat : Size(asm_buf) <= m => g[m].h = Height(scope)
    BY <1>3, <1>19, OutsideFacts
  <2>2. name[2] \in Nat /\ g[name[2]].h = Height(scope)
    BY <1>8, <1>13, <2>1
  <2>3. NameRight(g, r) /\ NameRight(g, u)
    BY <1>7, <1>8, <2>2 DEF NameRight, Knows
  <2>4. Leads(g, name).o = {0} /\ Leads(g, name).h = h
    BY <1>8, <2>2, LeadsIs DEF h
  <2>5. /\ Outcomes \in SUBSET Outcomes /\ {0, 1} \in SUBSET Outcomes /\ {1} \in SUBSET Outcomes
        /\ {0, 1} \ {1} \subseteq {0} /\ h <= h
    BY <1>4 DEF Outcomes
  <2>6. Through(g, x, P(Outcomes), P({0, 1}))
    BY <1>4, <1>9, <2>5, ThroughBy
  <2>7. Through(g, y, P({0, 1}), P({1}))
    BY <1>4, <1>9, <2>4, <2>5, ThroughBy
  <2>8. Through(g, in, P({1}), P(Outcomes))
    BY <1>4, <1>9, <2>5, ThroughBy
  <2>9. P(Outcomes) \in Points /\ P({0, 1}) \in Points /\ P({1}) \in Points
    BY <1>4, <2>5
  <2>10. Flow(g, s1, Start, P({0, 1}))
    BY <1>4, <1>5, <2>1, <2>6, <2>9, FlowMore
  <2>11. Flow(g, s2, Start, P({1}))
    BY <1>4, <1>5, <2>7, <2>9, <2>10, FlowMore
  <2>12. Flow(g, e, Start, Now)
    BY <1>4, <1>5, <2>8, <2>9, <2>11, FlowMore
  <2> QED
    BY <1>11, <2>1, <2>3, <2>12
<1> QED
  BY <1>2, <1>3, <1>6, <1>10, <1>15, <1>16, <1>17, <1>18, <1>19, OutsideJumps

LEMMA LabelAt ==
    ASSUME NEW g, NEW n, NEW A \in SUBSET Outcomes, NEW B \in SUBSET Outcomes, NEW h \in Nat,
           Leads(g, n).o \subseteq A, Leads(g, n).h = h, A \subseteq B
    PROVE  Through(g, Label(n), Point(A, h), Point(B, h))
<1>1. /\ Point(A, h) \in Points /\ Point(B, h) \in Points
      /\ Point(A, h).o = A /\ Point(A, h).h = h /\ Point(B, h).o = B /\ Point(B, h).h = h
  BY AtIs
<1>2. h <= h
  OBVIOUS
<1>3. Under(Leads(g, n), Point(A, h)) /\ Under(Point(A, h), Point(B, h))
  BY <1>1, <1>2 DEF Under
<1> QED
  BY <1>1, <1>3, ThroughLabel

LEMMA JmpAt ==
    ASSUME NEW g, NEW x, x.op = "jmp", NEW A \in SUBSET Outcomes, NEW B \in SUBSET Outcomes,
           NEW h \in Nat, A \subseteq Leads(g, x.lbl).o, Leads(g, x.lbl).h = h
    PROVE  Through(g, x, Point(A, h), Point(B, h))
<1>1. /\ Point(A, h) \in Points /\ Point(B, h) \in Points
      /\ Point(A, h).o = A /\ Point(A, h).h = h
  BY AtIs
<1>2. h <= h
  OBVIOUS
<1>3. Under(Point(A, h), Leads(g, x.lbl))
  BY <1>1, <1>2 DEF Under
<1> QED
  BY <1>1, <1>3, ThroughJmp

\* The first task joins paths: its names are jumped to in the scope there is.
LEMMA JointNames ==
    ASSUME BranchInv, stage = "gen", walk[1].k \in Joint, NEW g, Remembers(g)
    PROVE  /\ Flow(g, asm_buf, Start, Now)
           /\ walk[1].k = "then" => /\ Leads(g, walk[1].name).o = {0}
                                    /\ Leads(g, walk[1].name).h = Height(scope)
           /\ walk[1].k = "merge" => /\ Leads(g, walk[1].name).o = Outcomes
                                     /\ Leads(g, walk[1].name).h = Height(scope)
           /\ walk[1].k = "cond" => /\ Leads(g, walk[1].name).o = {1}
                                    /\ Leads(g, walk[1].name).h = Height(scope)
                                    /\ Leads(g, walk[1].uncond).o = Outcomes
                                    /\ Leads(g, walk[1].uncond).h = Height(scope)
           /\ \A m \in Nat : Size(asm_buf) <= m => g[m].h = Height(scope)
<1>1. ~ InMatch /\ scope = walk[1].scope
  BY JointFacts
<1>2. /\ NameRight(g, walk[1]) /\ Flow(g, asm_buf, Start, Now)
      /\ \A m \in Nat : Size(asm_buf) <= m => g[m].h = Height(scope)
  BY <1>1, OutsideFacts
<1>3. ASSUME walk[1].k = "then"
      PROVE  Leads(g, walk[1].name).o = {0} /\ Leads(g, walk[1].name).h = Height(scope)
  BY <1>1, <1>2, <1>3, LeadsIs DEF NameRight, Knows
<1>4. ASSUME walk[1].k = "merge"
      PROVE  Leads(g, walk[1].name).o = Outcomes /\ Leads(g, walk[1].name).h = Height(scope)
  BY <1>1, <1>2, <1>4, LeadsIs DEF NameRight, Knows
<1>5. ASSUME walk[1].k = "cond"
      PROVE  /\ Leads(g, walk[1].name).o = {1} /\ Leads(g, walk[1].name).h = Height(scope)
             /\ Leads(g, walk[1].uncond).o = Outcomes
             /\ Leads(g, walk[1].uncond).h = Height(scope)
  BY <1>1, <1>2, <1>5, LeadsIs DEF NameRight, Knows
<1> QED
  BY <1>2, <1>3, <1>4, <1>5

LEMMA MergeJumps ==
    ASSUME BranchInv, BranchInv', JumpInv, Merge
    PROVE  JumpInv'
<1> DEFINE t == walk[1]
           x == Label(t.name)
           e == Append(asm_buf, x)
           c == << >>
           N == {}
           h == Height(scope)
<1>1. stage = "gen" /\ t.k = "merge" /\ t.k \in Joint
  BY DEF Merge, AtTask, Joint
<1>2. /\ asm_buf' = e /\ walk' = c \o Tail(walk) /\ scope' = scope
      /\ streams' = streams /\ stage' = stage /\ flag' = flag
  BY DEF Merge, Emit, machine
<1>3. ~ InMatch
  BY <1>1, JointFacts
<1>4. /\ IsSeq(asm_buf) /\ h \in Nat /\ Start \in Points /\ Now \in Points
      /\ Now = Point(Outcomes, h)
  BY <1>1, HeadFacts
<1>5. OneMore(e, asm_buf, x)
  BY DEF OneMore
<1>6. x.op = "label" /\ x.lbl = t.name
  BY DEF Label, I
<1>7. /\ IsSeq(c) /\ (\A g : NamesRight(g, c)) /\ AllIn(c, scope)
      /\ \A l : Owed(c, l) = 0 /\ ~ Wanted(c, l)
  BY EmptySeq, NamesShort, AllInShort, OwedNone DEF IsSeq
<1>8. \A l : Is(x, l) = Owes(t, l) /\ ~ Goes(x, l) /\ Owes(t, l) \in Nat
  BY <1>1, IsLabel, NoOwes DEF Ind
<1>9. \A l : Ind(l, N) = 0 /\ l \notin N
  BY DEF Ind
<1> HIDE DEF e, c, N, h
<1>10. ASSUME NEW g, Remembers(g) PROVE NamesRight(g, c) /\ Flow(g, e, Start, Now)
  <2>1. /\ Flow(g, asm_buf, Start, Now)
        /\ Leads(g, t.name).o = Outcomes /\ Leads(g, t.name).h = h
    BY <1>1, <1>10, JointNames DEF h
  <2>2. Outcomes \in SUBSET Outcomes
    OBVIOUS
  <2>3. Through(g, x, Now, Now)
    BY <1>4, <2>1, <2>2, LabelAt
  <2> HIDE DEF x
  <2> QED
    BY <1>4, <1>5, <1>7, <2>1, <2>3, FlowMore
<1> HIDE DEF x
<1>11. /\ IsSeq(e) /\ Size(asm_buf) \in Nat /\ Size(e) = Size(asm_buf) + 1
       /\ \A l : /\ Labels(e, l) = Labels(asm_buf, l) + Is(x, l)
                 /\ Labels(asm_buf, l) \in Nat
                 /\ Jumps(e, l) <=> Jumps(asm_buf, l) \/ Goes(x, l)
  BY <1>4, <1>5, <1>6, CodeMore DEF Unit
<1>12. \A l : Labels(e, l) + Owed(c, l) = Labels(asm_buf, l) + Owes(t, l) + Ind(l, N)
  BY <1>7, <1>8, <1>9, <1>11
<1>13. \A l : Jumps(e, l) \/ Wanted(c, l) => Jumps(asm_buf, l) \/ Wants(t, l) \/ l \in N
  BY <1>7, <1>8, <1>11
<1>14. /\ \A l \in N : l[2] \in Nat /\ Size(asm_buf) <= l[2] /\ l[2] < Size(e)
       /\ Size(asm_buf) <= Size(e)
  BY <1>9, <1>11
<1> QED
  BY <1>1, <1>2, <1>3, <1>7, <1>10, <1>11, <1>12, <1>13, <1>14, OutsideJumps

LEMMA WhileJumps ==
    ASSUME BranchInv, BranchInv', JumpInv, NestInArms = FALSE, StmtWhile
    PROVE  JumpInv'
<1> DEFINE t == walk[1]
           uncond == Name("uncondwhile", asm_buf)
           x == Jmp(uncond)
           s1 == Append(asm_buf, x)
           name == Name("jmpwhile", s1)
           y == Label(name)
           in == In({1})
           s2 == Append(s1, y)
           e == Append(s2, in)
           r == Inner
           u == [k |-> "cond", name |-> name, uncond |-> uncond, scope |-> scope]
           c == <<r, u, t>>
           N == {uncond, name}
           h == Height(scope)
           P(o) == Point(o, h)
<1>1. AtTask("block") /\ (t.arm => NestInArms)
  BY DEF StmtWhile, StartNested, StartStmt
<1>2. /\ asm_buf' = s1 \o <<y, in>> /\ walk' = c \o Tail(walk) /\ scope' = scope
      /\ streams' = streams /\ stage' = stage /\ flag' = flag
  BY DEF StmtWhile, Emit, machine
<1>3. ~ InMatch /\ stage = "gen" /\ t.k = "block"
  BY <1>1, BlockFacts
<1>4. /\ IsSeq(asm_buf) /\ h \in Nat /\ Start \in Points /\ Now = P(Outcomes)
      /\ \A A \in SUBSET Outcomes : P(A) \in Points
  BY <1>3, HeadFacts
<1>5. OneMore(s1, asm_buf, x) /\ OneMore(s2, s1, y) /\ OneMore(e, s2, in)
  BY DEF OneMore
<1>6. asm_buf' = e
  BY <1>2, <1>4, SeqAppend, AppendJoin
<1>7. r.k = "block" /\ u.k = "cond" /\ u.name = name /\ u.uncond = uncond /\ u.scope = scope
  BY DEF Inner, Block
<1>8. /\ name[1] = "jmpwhile" /\ name[2] = Size(s1)
      /\ uncond[1] = "uncondwhile" /\ uncond[2] = Size(asm_buf)
  BY DEF Name
<1>9. /\ x.op = "jmp" /\ x.lbl = uncond
      /\ y = Label(name) /\ y.op = "label" /\ y.lbl = name
      /\ in.op = "in" /\ in.slots = {1}
  BY DEF Jmp, Label, In, I
<1>10. \A l : Is(y, l) = Ind(l, {name}) /\ ~ Goes(y, l)
  BY IsLabel
<1>11. \A l : l \in N <=> l = uncond \/ l = name
  OBVIOUS
<1> HIDE DEF x, y, in, name, uncond, r, u, s1, s2, e, N, h
<1>12. \A l : /\ Is(x, l) = 0 /\ Is(in, l) = 0
              /\ (Goes(x, l) => l = uncond) /\ ~ Goes(in, l)
  BY <1>9, IsOther, NoJump, OnlyJump
<1>13. /\ IsSeq(s1) /\ Size(asm_buf) \in Nat /\ Size(s1) = Size(asm_buf) + 1
       /\ \A l : /\ Labels(s1, l) = Labels(asm_buf, l) + Is(x, l)
                 /\ Labels(asm_buf, l) \in Nat
                 /\ Jumps(s1, l) <=> Jumps(asm_buf, l) \/ Goes(x, l)
  BY <1>4, <1>5, <1>9, CodeMore DEF Unit
<1>14. \A l : /\ Ind(l, N) = Ind(l, {uncond}) + Ind(l, {name})
              /\ Ind(l, {uncond}) \in Nat /\ Ind(l, {name}) \in Nat
  <2>1. uncond # name
    BY <1>8
  <2> QED
    BY <1>11, <2>1 DEF Ind
<1>15. /\ IsSeq(c) /\ AllIn(c, scope)
       /\ \A l : /\ Owed(c, l) = Ind(l, {uncond}) /\ (Wanted(c, l) => l = name)
                 /\ Owes(t, l) = 0
  <2>1. IsSeq(c) /\ AllIn(c, scope)
    BY <1>3, <1>7, Tuples, AllInShort
  <2>3. \A l : /\ Owes(r, l) = 0 /\ Owes(u, l) = Ind(l, {uncond}) /\ Owes(t, l) = 0
               /\ ~ Wants(r, l) /\ (Wants(u, l) => l = name) /\ ~ Wants(t, l)
               /\ 0 + Ind(l, {uncond}) + 0 = Ind(l, {uncond})
    BY <1>3, <1>7, NoOwes DEF Ind
  <2>4. \A l : /\ Owed(c, l) = Owes(r, l) + Owes(u, l) + Owes(t, l)
               /\ Wanted(c, l) => Wants(r, l) \/ Wants(u, l) \/ Wants(t, l)
    BY OwedThree, Zenon
  <2> HIDE DEF c
  <2> QED
    BY <2>1, <2>3, <2>4
<1>16. \A g : NameRight(g, r) /\ NameRight(g, u) /\ NameRight(g, t) => NamesRight(g, c)
  BY NamesShort
<1> HIDE DEF c
<1>17. /\ IsSeq(s2) /\ Size(s2) = Size(s1) + 1
       /\ \A l : /\ Labels(s2, l) = Labels(s1, l) + Is(y, l)
                 /\ Jumps(s2, l) <=> Jumps(s1, l) \/ Goes(y, l)
  BY <1>5, <1>9, <1>13, CodeMore DEF Unit
<1>18. /\ IsSeq(e) /\ Size(e) = Size(s2) + 0
       /\ \A l : /\ Labels(e, l) = Labels(s2, l) + Is(in, l)
                 /\ Jumps(e, l) <=> Jumps(s2, l) \/ Goes(in, l)
  BY <1>5, <1>9, <1>17, CodeMore DEF Unit
<1>19. ASSUME NEW l
       PROVE  Labels(e, l) + Owed(c, l) = Labels(asm_buf, l) + Owes(t, l) + Ind(l, N)
  <2> DEFINE a == Labels(asm_buf, l)
             b == Labels(e, l)
             i == Ind(l, {uncond})
             j == Ind(l, {name})
  <2>1. a \in Nat /\ i \in Nat /\ j \in Nat
    BY <1>13, <1>14
  <2>2. Labels(s1, l) = a + Is(x, l) /\ Is(x, l) = 0
    BY <1>12, <1>13
  <2>3. Labels(s2, l) = Labels(s1, l) + Is(y, l) /\ Is(y, l) = j
    BY <1>10, <1>17
  <2>4. b = Labels(s2, l) + Is(in, l) /\ Is(in, l) = 0
    BY <1>12, <1>18
  <2>5. b = a + 0 + j + 0
    BY <2>2, <2>3, <2>4, Zenon
  <2>6. Owed(c, l) = i /\ Owes(t, l) = 0 /\ Ind(l, N) = i + j
    BY <1>14, <1>15
  <2> HIDE DEF a, b, i, j
  <2>7. b + i = a + 0 + (i + j)
    BY <2>1, <2>5
  <2> QED
    BY <2>6, <2>7 DEF a, b
<1>20. \A l : Jumps(e, l) \/ Wanted(c, l) => Jumps(asm_buf, l) \/ Wants(t, l) \/ l \in N
  BY <1>10, <1>11, <1>12, <1>13, <1>15, <1>17, <1>18
<1>21. /\ \A l \in N : l[2] \in Nat /\ Size(asm_buf) <= l[2] /\ l[2] < Size(e)
       /\ Size(asm_buf) <= Size(e)
  BY <1>8, <1>11, <1>13, <1>17, <1>18
<1>22. ASSUME NEW g, Remembers(g) PROVE NamesRight(g, c) /\ Flow(g, e, Start, Now)
  <2>1. /\ NameRight(g, t) /\ Flow(g, asm_buf, Start, Now)
        /\ \A m \in Nat : Size(asm_buf) <= m => g[m].h = Height(scope)
    BY <1>3, <1>22, OutsideFacts
  <2>2. /\ name[2] \in Nat /\ g[name[2]].h = Height(scope)
        /\ uncond[2] \in Nat /\ g[uncond[2]].h = Height(scope)
    BY <1>8, <1>13, <2>1
  <2>3. NameRight(g, r) /\ NameRight(g, u)
    BY <1>7, <1>8, <2>2 DEF NameRight, Knows
  <2>4. /\ Leads(g, name).o = {1} /\ Leads(g, name).h = h
        /\ Leads(g, uncond).o = Outcomes /\ Leads(g, uncond).h = h
    BY <1>8, <2>2, LeadsIs DEF h
  <2>5. Outcomes \in SUBSET Outcomes /\ {1} \in SUBSET Outcomes
    BY DEF Outcomes
  <2>6. Through(g, x, P(Outcomes), P({1}))
    BY <1>4, <1>9, <2>4, <2>5, JmpAt
  <2>7. Through(g, y, P({1}), P({1}))
    BY <1>4, <1>9, <2>4, <2>5, LabelAt
  <2>8. Through(g, in, P({1}), P(Outcomes))
    BY <1>4, <1>9, <2>5, ThroughBy
  <2>9. P(Outcomes) \in Points /\ P({1}) \in Points
    BY <1>4, <2>5
  <2>10. Flow(g, s1, Start, P({1}))
    BY <1>4, <1>5, <2>1, <2>6, <2>9, FlowMore
  <2>11. Flow(g, s2, Start, P({1}))
    BY <1>4, <1>5, <2>7, <2>9, <2>10, FlowMore
  <2>12. Flow(g, e, Start, Now)
    BY <1>4, <1>5, <2>8, <2>9, <2>11, FlowMore
  <2> QED
    BY <1>16, <2>1, <2>3, <2>12
<1> QED
  BY <1>2, <1>3, <1>6, <1>15, <1>18, <1>19, <1>20, <1>21, <1>22, OutsideJumps

LEMMA WhileEndJumps ==
    ASSUME BranchInv, BranchInv', JumpInv, WhileEnd
    PROVE  JumpInv'
<1> DEFINE t == walk[1]
           x == Label(t.uncond)
           s1 == Append(asm_buf, x)
           y == Compare({0, 1})
           z == JmpEq(t.name, 1)
           in == In({0})
           s2 == Append(s1, y)
           s3 == Append(s2, z)
           e == Append(s3, in)
           v == Val({1})
           w == Jmp(t.name)
           s4 == Append(s1, v)
           f == Append(s4, w)
           c == << >>
           N == {}
           h == Height(scope)
           P(o) == Point(o, h)
<1>1. stage = "gen" /\ t.k = "cond" /\ t.k \in Joint
  BY DEF WhileEnd, AtTask, Joint
<1>2. /\ asm_buf' = s1 \o <<y, z, in>> \/ asm_buf' = s1 \o <<v, w>>
      /\ walk' = c \o Tail(walk) /\ scope' = scope
      /\ streams' = streams /\ stage' = stage /\ flag' = flag
  BY DEF WhileEnd, Emit, machine
<1>3. ~ InMatch
  BY <1>1, JointFacts
<1>4. /\ IsSeq(asm_buf) /\ h \in Nat /\ Start \in Points /\ Now = P(Outcomes)
      /\ \A A \in SUBSET Outcomes : P(A) \in Points
  BY <1>1, HeadFacts
<1>5. /\ OneMore(s1, asm_buf, x) /\ OneMore(s2, s1, y) /\ OneMore(s3, s2, z)
      /\ OneMore(e, s3, in) /\ OneMore(s4, s1, v) /\ OneMore(f, s4, w)
  BY DEF OneMore
<1>6. asm_buf' = e \/ asm_buf' = f
  BY <1>2, <1>4, SeqAppend, AppendJoin
<1>7. /\ IsSeq(c) /\ (\A g : NamesRight(g, c)) /\ AllIn(c, scope)
      /\ \A l : Owed(c, l) = 0 /\ ~ Wanted(c, l)
  BY EmptySeq, NamesShort, AllInShort, OwedNone DEF IsSeq
<1>8. \A l : /\ Is(x, l) = Owes(t, l) /\ ~ Goes(x, l) /\ Owes(t, l) \in Nat
             /\ (l = t.name => Wants(t, l))
  BY <1>1, IsLabel, NoOwes DEF Ind
<1>9. \A l : Ind(l, N) = 0 /\ l \notin N
  BY DEF Ind
<1>10. /\ x = Label(t.uncond) /\ x.op = "label" /\ x.lbl = t.uncond
       /\ y.op = "cmp" /\ y.slots = {0, 1} /\ v.op = "val" /\ v.slots = {1}
       /\ z.op = "je" /\ z.lbl = t.name /\ z.val = 1
       /\ in.op = "in" /\ in.slots = {0}
       /\ w.op = "jmp" /\ w.lbl = t.name
  BY DEF Label, Compare, Val, JmpEq, In, Jmp, I
<1> HIDE DEF x, y, z, in, v, w, s1, s2, s3, s4, e, f, c, N, h
<1>11. \A l : /\ Is(y, l) = 0 /\ Is(z, l) = 0 /\ Is(in, l) = 0 /\ Is(v, l) = 0 /\ Is(w, l) = 0
              /\ ~ Goes(y, l) /\ ~ Goes(in, l) /\ ~ Goes(v, l)
              /\ (Goes(z, l) => l = t.name) /\ (Goes(w, l) => l = t.name)
  BY <1>10, IsOther, NoJump, OnlyJump
<1>12. ASSUME NEW g, Remembers(g)
       PROVE  Flow(g, e, Start, Now) /\ Flow(g, f, Start, Now)
  <2>1. /\ Flow(g, asm_buf, Start, Now)
        /\ Leads(g, t.name).o = {1} /\ Leads(g, t.name).h = h
        /\ Leads(g, t.uncond).o = Outcomes /\ Leads(g, t.uncond).h = h
    BY <1>1, <1>12, JointNames DEF h
  <2>2. /\ Outcomes \in SUBSET Outcomes /\ {0, 1} \in SUBSET Outcomes
        /\ {0} \in SUBSET Outcomes /\ {1} \in SUBSET Outcomes
        /\ {0, 1} \cap {1} \subseteq {1} /\ {0, 1} \ {1} \subseteq {0} /\ h <= h
    BY <1>4 DEF Outcomes
  <2>3. /\ P(Outcomes) \in Points /\ P({0, 1}) \in Points
        /\ P({0}) \in Points /\ P({1}) \in Points
    BY <1>4, <2>2
  <2>4. Through(g, x, P(Outcomes), P(Outcomes))
    BY <1>4, <1>10, <2>1, <2>2, LabelAt
  <2>5. Through(g, y, P(Outcomes), P({0, 1}))
    BY <1>4, <1>10, <2>2, ThroughBy
  <2>6. Through(g, z, P({0, 1}), P({0}))
    BY <1>4, <1>10, <2>1, <2>2, ThroughBy
  <2>7. Through(g, in, P({0}), P(Outcomes))
    BY <1>4, <1>10, <2>2, ThroughBy
  <2>8. Through(g, v, P(Outcomes), P({1}))
    BY <1>4, <1>10, <2>2, ThroughBy
  <2>9. Through(g, w, P({1}), P(Outcomes))
    BY <1>4, <1>10, <2>1, <2>2, JmpAt
  <2>10. Flow(g, s1, Start, P(Outcomes))
    BY <1>4, <1>5, <2>1, <2>3, <2>4, FlowMore
  <2>11. Flow(g, s2, Start, P({0, 1}))
    BY <1>4, <1>5, <2>3, <2>5, <2>10, FlowMore
  <2>12. Flow(g, s3, Start, P({0}))
    BY <1>4, <1>5, <2>3, <2>6, <2>11, FlowMore
  <2>13. Flow(g, e, Start, P(Outcomes))
    BY <1>4, <1>5, <2>3, <2>7, <2>12, FlowMore
  <2>14. Flow(g, s4, Start, P({1}))
    BY <1>4, <1>5, <2>3, <2>8, <2>10, FlowMore
  <2>15. Flow(g, f, Start, P(Outcomes))
    BY <1>4, <1>5, <2>3, <2>9, <2>14, FlowMore
  <2> QED
    BY <1>4, <2>13, <2>15
<1>13. /\ IsSeq(s1) /\ Size(asm_buf) \in Nat /\ Size(s1) = Size(asm_buf) + 1
       /\ \A l : /\ Labels(s1, l) = Labels(asm_buf, l) + Is(x, l)
                 /\ Labels(asm_buf, l) \in Nat
                 /\ Jumps(s1, l) <=> Jumps(asm_buf, l) \/ Goes(x, l)
  BY <1>4, <1>5, <1>10, CodeMore DEF Unit
<1>14. ASSUME NEW u, IsSeq(u), NEW n \in Nat, Size(u) = Size(s1) + n, asm_buf' = u,
              \A l : Labels(u, l) = Labels(s1, l) + 0 + 0,
              \A l : Jumps(u, l) => Jumps(s1, l) \/ l = t.name,
              \A g : Remembers(g) => Flow(g, u, Start, Now)
       PROVE  JumpInv'
  <2>1. ASSUME NEW l PROVE Labels(u, l) + Owed(c, l) = Labels(asm_buf, l) + Owes(t, l) + Ind(l, N)
    <3> DEFINE a == Labels(asm_buf, l)
               b == Labels(u, l)
               o == Owes(t, l)
    <3>1. a \in Nat /\ o \in Nat
      BY <1>8, <1>13
    <3>2. Labels(s1, l) = a + o
      BY <1>8, <1>13, Zenon
    <3>3. b = a + o + 0 + 0
      BY <1>14, <3>2, Zenon
    <3>4. Owed(c, l) = 0 /\ Ind(l, N) = 0
      BY <1>7, <1>9
    <3> HIDE DEF a, b, o
    <3>5. b + 0 = a + o + 0
      BY <3>1, <3>3
    <3> QED
      BY <3>4, <3>5 DEF a, b, o
  <2>2. \A l : Jumps(u, l) \/ Wanted(c, l) => Jumps(asm_buf, l) \/ Wants(t, l) \/ l \in N
    BY <1>7, <1>8, <1>13, <1>14
  <2>3. /\ \A l \in N : l[2] \in Nat /\ Size(asm_buf) <= l[2] /\ l[2] < Size(u)
        /\ Size(asm_buf) <= Size(u)
    BY <1>9, <1>13, <1>14
  <2> QED
    BY <1>1, <1>2, <1>3, <1>7, <1>14, <2>1, <2>2, <2>3, OutsideJumps
<1>15. CASE asm_buf' = e
  <2>1. /\ IsSeq(s2) /\ Size(s2) = Size(s1) + 1
        /\ \A l : /\ Labels(s2, l) = Labels(s1, l) + Is(y, l)
                  /\ Labels(s1, l) \in Nat
                  /\ Jumps(s2, l) <=> Jumps(s1, l) \/ Goes(y, l)
    BY <1>5, <1>10, <1>13, CodeMore DEF Unit
  <2>2. /\ IsSeq(s3) /\ Size(s3) = Size(s2) + 1
        /\ \A l : /\ Labels(s3, l) = Labels(s2, l) + Is(z, l)
                  /\ Jumps(s3, l) <=> Jumps(s2, l) \/ Goes(z, l)
    BY <1>5, <1>10, <2>1, CodeMore DEF Unit
  <2>3. /\ IsSeq(e) /\ Size(e) = Size(s3) + 0
        /\ \A l : /\ Labels(e, l) = Labels(s3, l) + Is(in, l)
                  /\ Jumps(e, l) <=> Jumps(s3, l) \/ Goes(in, l)
    BY <1>5, <1>10, <2>2, CodeMore DEF Unit
  <2>4. ASSUME NEW l PROVE Labels(e, l) = Labels(s1, l) + 0 + 0
    <3> DEFINE a == Labels(s1, l)
               b == Labels(e, l)
    <3>1. a \in Nat
      BY <2>1
    <3>2. b = a + 0 + 0 + 0
      BY <1>11, <2>1, <2>2, <2>3, Zenon
    <3> HIDE DEF a, b
    <3>3. b = a + 0 + 0
      BY <3>1, <3>2
    <3> QED
      BY <3>3 DEF a, b
  <2>5. \A l : Jumps(e, l) => Jumps(s1, l) \/ l = t.name
    BY <1>11, <2>1, <2>2, <2>3
  <2>6. Size(e) = Size(s1) + 2 /\ 2 \in Nat
    BY <1>13, <2>1, <2>2, <2>3
  <2> QED
    BY <1>12, <1>14, <1>15, <2>3, <2>4, <2>5, <2>6
<1>16. CASE asm_buf' = f
  <2>1. /\ IsSeq(s4) /\ Size(s4) = Size(s1) + 0
        /\ \A l : /\ Labels(s4, l) = Labels(s1, l) + Is(v, l)
                  /\ Jumps(s4, l) <=> Jumps(s1, l) \/ Goes(v, l)
    BY <1>5, <1>10, <1>13, CodeMore DEF Unit
  <2>2. /\ IsSeq(f) /\ Size(f) = Size(s4) + 1
        /\ \A l : /\ Labels(f, l) = Labels(s4, l) + Is(w, l)
                  /\ Jumps(f, l) <=> Jumps(s4, l) \/ Goes(w, l)
    BY <1>5, <1>10, <2>1, CodeMore DEF Unit
  <2>3. \A l : Labels(f, l) = Labels(s1, l) + 0 + 0
    BY <1>11, <2>1, <2>2, Zenon
  <2>4. \A l : Jumps(f, l) => Jumps(s1, l) \/ l = t.name
    BY <1>11, <2>1, <2>2
  <2>5. Size(f) = Size(s1) + 1 /\ 1 \in Nat
    BY <1>13, <2>1, <2>2
  <2> QED
    BY <1>12, <1>14, <1>16, <2>2, <2>3, <2>4, <2>5
<1> QED
  BY <1>6, <1>15, <1>16

LEMMA ThenJumps ==
    ASSUME BranchInv, BranchInv', JumpInv, Then
    PROVE  JumpInv'
<1> DEFINE t == walk[1]
           merge == Name("mergeif", asm_buf)
           x == Jmp(merge)
           y == Label(t.name)
           in == In({0})
           s1 == Append(asm_buf, x)
           s2 == Append(s1, y)
           s3 == Append(s2, in)
           b == asm_buf \o <<x, y, in>>
           w == Label(merge)
           e == Append(s3, w)
           r == Block(walk[2].depth + 1, FALSE)
           u == [k |-> "merge", name |-> merge, scope |-> scope]
           c == <<r, u>>
           none == << >>
           N == {merge}
           h == Height(scope)
           P(o) == Point(o, h)
<1>1. stage = "gen" /\ t.k = "then" /\ t.k \in Joint
  BY DEF Then, AtTask, Joint
<1>2. /\ IF t.else THEN asm_buf' = b /\ walk' = c \o Tail(walk)
         ELSE asm_buf' = Append(b, w) /\ walk' = none \o Tail(walk)
      /\ scope' = scope /\ streams' = streams /\ stage' = stage /\ flag' = flag
  BY DEF Then, Emit, machine
<1>3. ~ InMatch
  BY <1>1, JointFacts
<1>4. /\ IsSeq(asm_buf) /\ h \in Nat /\ Start \in Points /\ Now = P(Outcomes)
      /\ \A A \in SUBSET Outcomes : P(A) \in Points
  BY <1>1, HeadFacts
<1>5. OneMore(s1, asm_buf, x) /\ OneMore(s2, s1, y) /\ OneMore(s3, s2, in) /\ OneMore(e, s3, w)
  BY DEF OneMore
<1>6. b = s3
  BY <1>4, AppendJoin
<1>7. r.k = "block" /\ u.k = "merge" /\ u.name = merge /\ u.scope = scope
  BY DEF Block
<1>8. merge[1] = "mergeif" /\ merge[2] = Size(asm_buf)
  BY DEF Name
<1>9. /\ x.op = "jmp" /\ x.lbl = merge
      /\ y = Label(t.name) /\ y.op = "label" /\ y.lbl = t.name
      /\ in.op = "in" /\ in.slots = {0}
      /\ w = Label(merge) /\ w.op = "label" /\ w.lbl = merge
  BY DEF Jmp, Label, In, I
<1>10. \A l : /\ Is(y, l) = Owes(t, l) /\ ~ Goes(y, l) /\ Owes(t, l) \in Nat
              /\ Is(w, l) = Ind(l, N) /\ ~ Goes(w, l) /\ Ind(l, N) \in Nat
  BY <1>1, IsLabel, NoOwes DEF Ind
<1>11. \A l : l \in N <=> l = merge
  OBVIOUS
<1>12. /\ IsSeq(none) /\ (\A g : NamesRight(g, none)) /\ AllIn(none, scope)
       /\ \A l : Owed(none, l) = 0 /\ ~ Wanted(none, l)
  BY EmptySeq, NamesShort, AllInShort, OwedNone DEF IsSeq
<1>13. \A l : Owes(r, l) = 0 /\ Owes(u, l) = Ind(l, N) /\ ~ Wants(r, l) /\ ~ Wants(u, l)
  BY <1>7, NoOwes
<1>14. asm_buf' = IF t.else THEN s3 ELSE e
  BY <1>2, <1>6
<1> HIDE DEF x, y, in, w, merge, r, u, s1, s2, s3, b, e, none, N, h
<1>15. /\ IsSeq(c) /\ AllIn(c, scope)
       /\ \A l : Owed(c, l) = 0 + Ind(l, N) /\ ~ Wanted(c, l)
  <2>1. IsSeq(c) /\ AllIn(c, scope)
    BY <1>7, Tuples, AllInShort
  <2>3. \A l : /\ Owed(c, l) = Owes(r, l) + Owes(u, l)
               /\ Wanted(c, l) => Wants(r, l) \/ Wants(u, l)
    BY OwedTwo, Zenon
  <2> HIDE DEF c
  <2> QED
    BY <1>13, <2>1, <2>3
<1>16. \A g : NameRight(g, r) /\ NameRight(g, u) => NamesRight(g, c)
  BY NamesShort
<1> HIDE DEF c
<1>17. \A l : /\ Is(x, l) = 0 /\ Is(in, l) = 0
              /\ (Goes(x, l) => l = merge) /\ ~ Goes(in, l)
  BY <1>9, IsOther, NoJump, OnlyJump
<1>18. /\ IsSeq(s1) /\ Size(asm_buf) \in Nat /\ Size(s1) = Size(asm_buf) + 1
       /\ \A l : /\ Labels(s1, l) = Labels(asm_buf, l) + Is(x, l)
                 /\ Labels(asm_buf, l) \in Nat
                 /\ Jumps(s1, l) <=> Jumps(asm_buf, l) \/ Goes(x, l)
  BY <1>4, <1>5, <1>9, CodeMore DEF Unit
<1>19. /\ IsSeq(s2) /\ Size(s2) = Size(s1) + 1
       /\ \A l : /\ Labels(s2, l) = Labels(s1, l) + Is(y, l)
                 /\ Jumps(s2, l) <=> Jumps(s1, l) \/ Goes(y, l)
  BY <1>5, <1>9, <1>18, CodeMore DEF Unit
<1>20. /\ IsSeq(s3) /\ Size(s3) = Size(s2) + 0
       /\ \A l : /\ Labels(s3, l) = Labels(s2, l) + Is(in, l)
                 /\ Jumps(s3, l) <=> Jumps(s2, l) \/ Goes(in, l)
  BY <1>5, <1>9, <1>19, CodeMore DEF Unit
<1>21. /\ IsSeq(e) /\ Size(e) = Size(s3) + 1
       /\ \A l : /\ Labels(e, l) = Labels(s3, l) + Is(w, l)
                 /\ Jumps(e, l) <=> Jumps(s3, l) \/ Goes(w, l)
  BY <1>5, <1>9, <1>20, CodeMore DEF Unit
<1>22. ASSUME NEW g, Remembers(g)
       PROVE  /\ Flow(g, s3, Start, Now) /\ Flow(g, e, Start, Now) /\ NamesRight(g, c)
  <2>1. /\ Flow(g, asm_buf, Start, Now)
        /\ Leads(g, t.name).o = {0} /\ Leads(g, t.name).h = h
        /\ \A m \in Nat : Size(asm_buf) <= m => g[m].h = Height(scope)
    BY <1>1, <1>22, JointNames DEF h
  <2>2. merge[2] \in Nat /\ g[merge[2]].h = Height(scope)
    BY <1>8, <1>18, <2>1
  <2>3. NameRight(g, r) /\ NameRight(g, u)
    BY <1>7, <1>8, <2>2 DEF NameRight, Knows
  <2>4. Leads(g, merge).o = Outcomes /\ Leads(g, merge).h = h
    BY <1>8, <2>2, LeadsIs DEF h
  <2>5. Outcomes \in SUBSET Outcomes /\ {0} \in SUBSET Outcomes
    BY DEF Outcomes
  <2>6. P(Outcomes) \in Points /\ P({0}) \in Points
    BY <1>4, <2>5
  <2>7. Through(g, x, P(Outcomes), P({0}))
    BY <1>4, <1>9, <2>4, <2>5, JmpAt
  <2>8. Through(g, y, P({0}), P({0}))
    BY <1>4, <1>9, <2>1, <2>5, LabelAt
  <2>9. Through(g, in, P({0}), P(Outcomes))
    BY <1>4, <1>9, <2>5, ThroughBy
  <2>10. Through(g, w, P(Outcomes), P(Outcomes))
    BY <1>4, <1>9, <2>4, <2>5, LabelAt
  <2>11. Flow(g, s1, Start, P({0}))
    BY <1>4, <1>5, <2>1, <2>6, <2>7, FlowMore
  <2>12. Flow(g, s2, Start, P({0}))
    BY <1>4, <1>5, <2>6, <2>8, <2>11, FlowMore
  <2>13. Flow(g, s3, Start, P(Outcomes))
    BY <1>4, <1>5, <2>6, <2>9, <2>12, FlowMore
  <2>14. Flow(g, e, Start, P(Outcomes))
    BY <1>4, <1>5, <2>6, <2>10, <2>13, FlowMore
  <2> QED
    BY <1>4, <1>16, <2>3, <2>13, <2>14
<1>23. ASSUME NEW l
       PROVE  /\ Labels(s3, l) + Owed(c, l) = Labels(asm_buf, l) + Owes(t, l) + Ind(l, N)
              /\ Labels(e, l) + Owed(none, l) = Labels(asm_buf, l) + Owes(t, l) + Ind(l, N)
  <2> DEFINE a == Labels(asm_buf, l)
             d == Labels(s3, l)
             f == Labels(e, l)
             o == Owes(t, l)
             i == Ind(l, N)
  <2>1. a \in Nat /\ o \in Nat /\ i \in Nat
    BY <1>10, <1>18
  <2>2. d = a + 0 + o + 0
    <3>1. Labels(s1, l) = a + 0
      BY <1>17, <1>18, Zenon
    <3>2. Labels(s2, l) = a + 0 + o
      BY <1>10, <1>19, <3>1, Zenon
    <3> QED
      BY <1>17, <1>20, <3>2, Zenon
  <2>3. f = d + i
    BY <1>10, <1>21, Zenon
  <2>4. Owed(c, l) = 0 + i /\ Owed(none, l) = 0
    BY <1>12, <1>15
  <2> HIDE DEF a, d, f, o, i
  <2>5. d + (0 + i) = a + o + i /\ f + 0 = a + o + i
    BY <2>1, <2>2, <2>3
  <2> QED
    BY <2>4, <2>5, Zenon DEF a, d, f, o, i
<1>24. \A l : /\ Jumps(s3, l) \/ Wanted(c, l) => Jumps(asm_buf, l) \/ Wants(t, l) \/ l \in N
              /\ Jumps(e, l) \/ Wanted(none, l) => Jumps(asm_buf, l) \/ Wants(t, l) \/ l \in N
  BY <1>10, <1>11, <1>12, <1>15, <1>17, <1>18, <1>19, <1>20, <1>21
<1>25. /\ \A l \in N : /\ l[2] \in Nat /\ Size(asm_buf) <= l[2]
                       /\ l[2] < Size(s3) /\ l[2] < Size(e)
       /\ Size(asm_buf) <= Size(s3) /\ Size(asm_buf) <= Size(e)
  BY <1>8, <1>11, <1>18, <1>19, <1>20, <1>21
<1>26. CASE t.else
  <2>1. asm_buf' = s3 /\ walk' = c \o Tail(walk)
    BY <1>2, <1>14, <1>26
  <2> QED
    BY <1>1, <1>2, <1>3, <1>15, <1>20, <1>22, <1>23, <1>24, <1>25, <2>1, OutsideJumps
<1>27. CASE ~ t.else
  <2>1. asm_buf' = e /\ walk' = none \o Tail(walk)
    BY <1>2, <1>14, <1>27
  <2> QED
    BY <1>1, <1>2, <1>3, <1>12, <1>21, <1>22, <1>23, <1>24, <1>25, <2>1, OutsideJumps
<1> QED
  BY <1>26, <1>27

-----------------------------------------------------------------------------
(* Jumps: where the scope changes *)

\* What is labelled, promised or jumped to has an old name.
LEMMA IsOld ==
    ASSUME BranchInv, stage = "gen", \A l : Placed(l), NEW l, Total(l) # 0 \/ Asked(l)
    PROVE  Old(l)
<1>1. Total(l) \in Nat
  BY TotalNat
<1>2. Placed(l)
  OBVIOUS
<1>3. Total(l) = 1
  <2>1. CASE Asked(l)
    BY <1>2, <2>1 DEF Placed
  <2>2. CASE Total(l) # 0
    BY <1>1, <1>2, <2>2 DEF Placed
  <2> QED
    BY <2>1, <2>2
<1> QED
  BY <1>2, <1>3 DEF Placed

LEMMA TaskOld ==
    ASSUME BranchInv, stage = "gen", \A l : Placed(l), NEW i \in 1..Len(walk), NEW l,
           Owes(walk[i], l) # 0 \/ Wants(walk[i], l)
    PROVE  Old(l)
<1>1. CASE Wants(walk[i], l)
  <2>1. Asked(l)
    BY <1>1 DEF Asked, Wanted
  <2> QED
    BY <2>1, IsOld
<1>2. CASE Owes(walk[i], l) # 0
  <2>1. Promise(walk[i]) = Label(l)
    BY <1>2 DEF Owes, Is
  <2>2. i \in OwedPlaces(walk, l)
    BY <2>1 DEF OwedPlaces
  <2>3. IsFiniteSet(OwedPlaces(walk, l))
    <3>1. IsSeq(walk)
      BY GenFacts
    <3>2. IsFiniteSet(1..Len(walk))
      BY <3>1, SeqFacts, FS_Interval
    <3> QED
      BY <3>2, FS_Subset DEF OwedPlaces
  <2>4. Owed(walk, l) # 0
    BY <2>2, <2>3, FS_EmptySet DEF Owed
  <2>5. Held(l) \in Nat /\ Owed(walk, l) \in Nat /\ Total(l) = Held(l) + Owed(walk, l)
    BY TotalNat DEF Total
  <2>6. Total(l) # 0
    BY <2>4, <2>5
  <2> QED
    BY <2>6, IsOld
<1> QED
  BY <1>1, <1>2

\* Names made from now on are jumped to with k slots pushed.
Renews(f, g, n, k) ==
    /\ f \in [Nat -> Points]
    /\ \A m \in Nat : m < n => f[m] = g[m]
    /\ \A m \in Nat : n <= m => f[m].h = k

LEMMA Renewed ==
    ASSUME NEW g \in [Nat -> Points], NEW n \in Nat, NEW k \in Nat
    PROVE  \E f : Renews(f, g, n, k)
<1> DEFINE f == [m \in Nat |-> IF m < n THEN g[m] ELSE Point(Outcomes, k)]
<1>1. Outcomes \in SUBSET Outcomes
  OBVIOUS
<1>2. Point(Outcomes, k) \in Points /\ Point(Outcomes, k).h = k
  BY <1>1, AtIs
<1>3. f \in [Nat -> Points]
  BY <1>2
<1>4. \A m \in Nat : n <= m => f[m].h = k
  <2>1. \A m \in Nat : n <= m => ~ (m < n)
    OBVIOUS
  <2> QED
    BY <1>2, <2>1
<1> QED
  BY <1>3, <1>4 DEF Renews

\* That changes nothing for the names there are, whatever block is walked.
LEMMA RenewNames ==
    ASSUME BranchInv, stage = "gen", \A l : Placed(l), walk[1].k # "match",
           NEW g, NamesRight(g, walk), NEW f, NEW k, Renews(f, g, Size(Main), k)
    PROVE  NamesRight(f, walk)
<1>0. ASSUME NEW l, Old(l) PROVE l[2] \in Nat /\ f[l[2]] = g[l[2]]
  BY <1>0 DEF Old, Renews
<1>1. ASSUME NEW i \in 1..Len(walk) PROVE NameRight(f, walk[i])
  <2> DEFINE t == walk[i]
  <2>1. NameRight(g, t)
    BY DEF NamesRight
  <2>2. \A l : Owes(t, l) # 0 \/ Wants(t, l) => f[l[2]] = g[l[2]]
    BY <1>0, TaskOld
  <2> HIDE DEF t
  <2>3. \A l : Ind(l, {l}) = 1
    BY DEF Ind
  <2>4. ASSUME t.k \in {"then", "merge"} PROVE f[t.name[2]] = g[t.name[2]]
    <3>1. Owes(t, t.name) = 1
      BY <2>3, <2>4, NoOwes
    <3> QED
      BY <2>2, <3>1
  <2>5. ASSUME t.k = "cond"
        PROVE  f[t.name[2]] = g[t.name[2]] /\ f[t.uncond[2]] = g[t.uncond[2]]
    <3>1. Owes(t, t.uncond) = 1 /\ Wants(t, t.name)
      BY <2>3, <2>5, NoOwes
    <3> QED
      BY <2>2, <3>1
  <2>6. ASSUME t.k \in {"match", "armend"} PROVE f[t.merge[2]] = g[t.merge[2]]
    <3>1. CASE t.k = "match"
      <4>1. Owes(t, t.merge) = 1
        BY <2>3, <3>1, NoOwes
      <4> QED
        BY <2>2, <4>1
    <3>2. CASE t.k = "armend"
      <4>1. Wants(t, t.merge)
        BY <3>2, NoOwes
      <4> QED
        BY <2>2, <4>1
    <3> QED
      BY <2>6, <3>1, <3>2
  <2>7. NameRight(f, t)
    BY <2>1, <2>4, <2>5, <2>6 DEF NameRight, Knows
  <2> QED
    BY <2>7 DEF t
<1> QED
  BY <1>1 DEF NamesRight

LEMMA RenewFlow ==
    ASSUME BranchInv, stage = "gen", \A l : Placed(l), walk[1].k # "match", ~ InMatch,
           NEW g, NEW X, NEW Y, Flow(g, asm_buf, X, Y),
           NEW f, NEW k, Renews(f, g, Size(asm_buf), k)
    PROVE  Flow(f, asm_buf, X, Y)
<1>1. Main = asm_buf /\ IsSeq(asm_buf) /\ ~ InArm
  BY GenFacts DEF InMatch
<1>2. ASSUME NEW l, Labels(asm_buf, l) # 0 \/ Jumps(asm_buf, l) PROVE Leads(f, l) = Leads(g, l)
  <2>1. Total(l) # 0 \/ Asked(l)
    <3>1. CASE Jumps(asm_buf, l)
      BY <3>1 DEF Asked
    <3>2. CASE Labels(asm_buf, l) # 0
      <4>1. Labels(asm_buf, l) \in Nat /\ Owed(walk, l) \in Nat
        BY <1>1, LabelsNat, TotalNat
      <4>2. Total(l) = Labels(asm_buf, l) + Owed(walk, l)
        BY <1>1, <4>1 DEF Total, Held
      <4> QED
        BY <3>2, <4>1, <4>2
    <3> QED
      BY <1>2, <3>1, <3>2
  <2>2. Old(l)
    BY <2>1, IsOld
  <2>3. l[2] \in Nat /\ l[2] < Size(asm_buf)
    BY <1>1, <2>2 DEF Old
  <2>4. f[l[2]] = g[l[2]]
    BY <2>3 DEF Renews
  <2> QED
    BY <2>4 DEF Leads
<1> QED
  BY <1>2, FlowFresh

LEMMA NoneJoin ==
    ASSUME NEW s, IsSeq(s) PROVE << >> \o s = s
<1>1. PICK S : s \in Seq(S)
  BY DEF IsSeq
<1> QED
  BY <1>1

\* A step that leaves or widens the scope, outside a match.
LEMMA ScopeJumps ==
    ASSUME BranchInv, BranchInv', JumpInv, stage = "gen", stage' = "gen", flag' = flag,
           streams' = streams, ~ InMatch, walk[1].k = "block",
           NEW c, IsSeq(c), walk' = c \o Tail(walk), Nest(walk, scope)', Height(scope)' \in Nat,
           \A g : NamesRight(g, c), \A l : Owed(c, l) = 0 /\ ~ Wanted(c, l),
           NEW e, IsSeq(e), asm_buf' = e,
           \A g : Flow(g, asm_buf, Start, Now) => Flow(g, e, Start, Now'),
           \A l : Labels(e, l) = Labels(asm_buf, l) /\ (Jumps(e, l) => Jumps(asm_buf, l)),
           Size(asm_buf) <= Size(e)
    PROVE  JumpInv'
<1> DEFINE N == {}
           h == Height(scope)'
<1>1. /\ IsSeq(walk) /\ walk # << >> /\ IsSeq(asm_buf) /\ Size(asm_buf) \in Nat
      /\ Main = asm_buf
  BY GenFacts, SizeIsNat DEF InMatch
<1>2. flag = NoVal /\ \A l : Placed(l)
  BY DEF JumpInv
<1>3. \A l : /\ Labels(e, l) + Owed(c, l) = Labels(asm_buf, l) + Owes(walk[1], l) + Ind(l, N)
             /\ Jumps(e, l) \/ Wanted(c, l) => Jumps(asm_buf, l) \/ Wants(walk[1], l) \/ l \in N
  <2>1. \A l : Owes(walk[1], l) = 0 /\ Ind(l, N) = 0 /\ Labels(asm_buf, l) \in Nat
    BY <1>1, NoOwes, LabelsNat DEF Ind
  <2> QED
    BY <2>1
<1> HIDE DEF h
<1>4. (\A l : Placed(l)') /\ ~ InMatch' /\ ~ InArm' /\ Main' = e /\ Size(e) \in Nat
  <2>1. \A l \in N : l[2] \in Nat /\ Size(asm_buf) <= l[2] /\ l[2] < Size(e)
    OBVIOUS
  <2> HIDE DEF N
  <2> QED
    BY <1>3, <2>1, OutsideCount
<1>5. PICK g : Remembers(g)
  BY DEF JumpInv
<1>6. g \in [Nat -> Points] /\ NamesRight(g, walk) /\ Flow(g, asm_buf, Start, Now)
  BY <1>5, OutsideFacts
<1>7. PICK f : Renews(f, g, Size(asm_buf), h)
  <2>1. h \in Nat
    BY DEF h
  <2> QED
    BY <1>1, <1>6, <2>1, Renewed
<1>8. NamesRight(f, walk) /\ Flow(f, asm_buf, Start, Now)
  BY <1>1, <1>2, <1>6, <1>7, RenewNames, RenewFlow
<1>9. NamesRight(f, walk') /\ Flow(f, e, Start, Now')
  BY <1>1, <1>8, NamesPut
<1>10. Foresees(f)'
  <2>1. ASSUME NEW m \in Nat, Size(e) <= m PROVE f[m].h = h
    <3>1. Size(asm_buf) <= m
      BY <1>1, <1>4, <2>1
    <3> QED
      BY <1>7, <3>1 DEF Renews
  <2> QED
    BY <1>4, <2>1 DEF Foresees, MainScope, h
<1>11. FlowFits(f)'
  BY <1>4, <1>9 DEF FlowFits
<1>12. f \in [Nat -> Points]
  BY <1>7 DEF Renews
<1>13. Remembers(f)'
  BY <1>9, <1>10, <1>11, <1>12 DEF Remembers
<1>14. stage' # "run" /\ flag' = NoVal
  BY <1>2
<1> QED
  BY <1>4, <1>13, <1>14 DEF JumpInv

\* What a let does to the scope.
LEMMA LetScope ==
    ASSUME BranchInv, JumpInv, StmtLet
    PROVE  /\ stage = "gen" /\ walk[1].k = "block"
           /\ asm_buf' = Append(asm_buf, PushSlot) /\ walk' = <<walk[1]>> \o Tail(walk)
           /\ streams' = streams /\ stage' = stage /\ flag' = flag
           /\ Height(scope)' \in Nat /\ Nest(walk, scope)'
           /\ Now \in Points /\ Now' \in Points /\ Start \in Points
           /\ \A g : Through(g, PushSlot, Now, Now')
<1> DEFINE t == walk[1]
           c == <<t>>
           h == Height(scope)
           k == Height(scope)'
<1>1. stage = "gen" /\ t.k = "block"
  BY DEF StmtLet, StartStmt, AtTask
<1>2. /\ asm_buf' = Append(asm_buf, PushSlot) /\ walk' = c \o Tail(walk)
      /\ current_stack' = current_stack + 1 /\ scope' = scope \cup {current_stack + 1}
      /\ streams' = streams /\ stage' = stage /\ flag' = flag
  BY DEF StmtLet, Emit, machine
<1>3. /\ IsSeq(asm_buf) /\ IsSeq(walk) /\ walk # << >> /\ Nest(walk, scope)
      /\ current_stack \in Nat /\ scope \subseteq 1..current_stack
      /\ h \in Nat /\ Start \in Points /\ Now \in Points
      /\ Now.o = Outcomes /\ Now.h = h
  BY <1>1, HeadFacts
<1>4. k \in Nat /\ k <= h + 1
  <2>1. scope' \subseteq 1..(current_stack + 1) /\ current_stack + 1 \in Nat
    BY <1>2, <1>3
  <2>2. Height(scope') \in Nat
    BY <2>1, HeightIs
  <2>3. Height(scope') <= Height(scope) + 1
    BY <1>2, <1>3, HeightLet
  <2> QED
    BY <2>2, <2>3
<1>5. Nest(walk, scope)'
  <2>1. IsSeq(c) /\ AllIn(c, scope)
    BY <1>1, Tuples, AllInShort
  <2> HIDE DEF c
  <2>2. Nest(c \o Tail(walk), scope)
    BY <1>3, <2>1, NestPut
  <2>3. scope \subseteq scope'
    BY <1>2
  <2>4. Nest(c \o Tail(walk), scope')
    BY <2>2, <2>3, NestMore
  <2> QED
    BY <1>2, <2>4
<1> HIDE DEF h, k
<1>6. Now' = Point(Outcomes, k)
  BY DEF Now, k
<1>7. Now' \in Points /\ Now'.o = Outcomes /\ Now'.h = k
  <2>1. Outcomes \in SUBSET Outcomes
    OBVIOUS
  <2> QED
    BY <1>4, <1>6, <2>1, AtIs
<1>8. PushSlot.op = "push"
  BY DEF PushSlot, I
<1>9. ASSUME NEW g PROVE Through(g, PushSlot, Now, Now')
  <2>1. Now.o \subseteq Now'.o /\ Now'.h <= Now.h + 1
    BY <1>3, <1>4, <1>7
  <2> QED
    BY <1>3, <1>7, <1>8, <2>1, ThroughPush
<1> QED
  BY <1>1, <1>2, <1>3, <1>4, <1>5, <1>7, <1>9 DEF k

LEMMA LetOutside ==
    ASSUME BranchInv, BranchInv', JumpInv, StmtLet, ~ InMatch
    PROVE  JumpInv'
<1> DEFINE t == walk[1]
           x == PushSlot
           c == <<t>>
           e == Append(asm_buf, x)
<1>1. /\ stage = "gen" /\ t.k = "block"
      /\ asm_buf' = e /\ walk' = c \o Tail(walk)
      /\ streams' = streams /\ stage' = stage /\ flag' = flag
      /\ Height(scope)' \in Nat /\ Nest(walk, scope)'
      /\ Now \in Points /\ Now' \in Points /\ Start \in Points
      /\ \A g : Through(g, x, Now, Now')
  BY LetScope
<1>2. IsSeq(asm_buf)
  BY <1>1, GenFacts
<1>3. OneMore(e, asm_buf, x)
  BY DEF OneMore
<1>4. IsSeq(c) /\ (\A g : NamesRight(g, c)) /\ \A l : Owed(c, l) = 0 /\ ~ Wanted(c, l)
  <2>1. IsSeq(c)
    BY Tuples
  <2>2. \A g : NameRight(g, t)
    BY <1>1 DEF NameRight
  <2>3. \A l : Owes(t, l) = 0 /\ ~ Wants(t, l)
    BY <1>1, NoOwes
  <2>4. \A l : Owed(c, l) = Owes(t, l) /\ (Wanted(c, l) <=> Wants(t, l))
    BY OwedOne, Zenon
  <2> HIDE DEF t
  <2>5. \A g : NamesRight(g, c)
    BY <2>2, NamesShort
  <2> HIDE DEF c
  <2> QED
    BY <2>1, <2>3, <2>4, <2>5
<1>5. x.op = "push"
  BY DEF PushSlot, I
<1> HIDE DEF x, c, e
<1>6. /\ IsSeq(e) /\ Size(asm_buf) \in Nat /\ Size(e) = Size(asm_buf) + 1
      /\ \A l : /\ Labels(e, l) = Labels(asm_buf, l) + Is(x, l)
                /\ Labels(asm_buf, l) \in Nat
                /\ Jumps(e, l) <=> Jumps(asm_buf, l) \/ Goes(x, l)
  BY <1>2, <1>3, <1>5, CodeMore DEF Unit
<1>7. \A l : Is(x, l) = 0 /\ ~ Goes(x, l)
  BY <1>5, IsOther, NoJump
<1>8. /\ \A l : Labels(e, l) = Labels(asm_buf, l) /\ (Jumps(e, l) => Jumps(asm_buf, l))
      /\ Size(asm_buf) <= Size(e)
  BY <1>6, <1>7
<1>9. \A g : Flow(g, asm_buf, Start, Now) => Flow(g, e, Start, Now')
  BY <1>1, <1>3, FlowMore
<1> HIDE DEF t
<1>10. walk[1].k = "block"
  BY <1>1 DEF t
<1> QED
  BY <1>1, <1>4, <1>6, <1>8, <1>9, <1>10, ScopeJumps

\* What the end of a block does to the scope.
LEMMA EndScope ==
    ASSUME BranchInv, JumpInv, EndBlock
    PROVE  /\ stage = "gen" /\ walk[1].k = "block" /\ Len(walk) > 1
           /\ asm_buf' = asm_buf /\ walk' = << >> \o Tail(walk)
           /\ streams' = streams /\ stage' = stage /\ flag' = flag
           /\ Height(scope)' \in Nat /\ Nest(walk, scope)'
           /\ Now \in Points /\ Now' \in Points /\ Start \in Points
           /\ Under(Now, Now')
<1>1. stage = "gen" /\ walk[1].k = "block"
  BY DEF EndBlock, AtTask
<1>2. /\ asm_buf' = asm_buf /\ walk' = << >> \o Tail(walk) /\ scope' = walk[2].scope
      /\ streams' = streams /\ stage' = stage /\ flag' = flag
  BY DEF EndBlock, Emit, machine
<1>3. Len(walk) > 1 /\ walk[2].k # "block"
  BY EndBlockStep DEF Joint
<1>4. /\ IsSeq(walk) /\ walk # << >> /\ Nest(walk, scope)
      /\ current_stack \in Nat /\ scope \subseteq 1..current_stack
      /\ Start \in Points /\ Now \in Points
      /\ Now.o = Outcomes /\ Now.h = Height(scope)
  BY <1>1, HeadFacts
<1>5. scope' \subseteq scope /\ Nest(Tail(walk), scope')
  BY <1>2, <1>3, <1>4, NestRest
<1>6. Height(scope') \in Nat /\ Height(scope') <= Height(scope)
  <2>1. scope' \subseteq 1..current_stack
    BY <1>4, <1>5
  <2> QED
    BY <1>4, <1>5, <2>1, HeightIs, HeightMore
<1>7. IsSeq(Tail(walk))
  BY <1>4, SeqRest
<1>8. walk' = Tail(walk)
  <2> DEFINE s == Tail(walk)
  <2>1. IsSeq(s) /\ walk' = << >> \o s
    BY <1>2, <1>7
  <2> HIDE DEF s
  <2>2. walk' = s
    BY <2>1, NoneJoin
  <2> QED
    BY <2>2 DEF s
<1>9. Now' = Point(Outcomes, Height(scope'))
  BY DEF Now
<1>10. Now' \in Points /\ Under(Now, Now')
  <2>1. Outcomes \in SUBSET Outcomes
    OBVIOUS
  <2>2. Now' \in Points /\ Now'.o = Outcomes /\ Now'.h = Height(scope')
    BY <1>6, <1>9, <2>1, AtIs
  <2> QED
    BY <1>4, <1>6, <2>2 DEF Under
<1> QED
  BY <1>1, <1>2, <1>3, <1>4, <1>5, <1>6, <1>8, <1>10

LEMMA EndOutside ==
    ASSUME BranchInv, BranchInv', JumpInv, EndBlock, ~ InMatch
    PROVE  JumpInv'
<1> DEFINE c == << >>
<1>1. /\ stage = "gen" /\ walk[1].k = "block"
      /\ asm_buf' = asm_buf /\ walk' = c \o Tail(walk)
      /\ streams' = streams /\ stage' = stage /\ flag' = flag
      /\ Height(scope)' \in Nat /\ Nest(walk, scope)'
      /\ Now \in Points /\ Now' \in Points /\ Start \in Points
      /\ Under(Now, Now')
  BY EndScope
<1>2. IsSeq(asm_buf) /\ Size(asm_buf) \in Nat
  BY <1>1, GenFacts, SizeIsNat
<1>3. IsSeq(c) /\ (\A g : NamesRight(g, c)) /\ \A l : Owed(c, l) = 0 /\ ~ Wanted(c, l)
  BY NoneIsSeq, NamesShort, OwedNone
<1> HIDE DEF c
<1>4. Under(Start, Start)
  BY <1>1, PointIs
<1>5. \A g : Flow(g, asm_buf, Start, Now) => Flow(g, asm_buf, Start, Now')
  BY <1>1, <1>4, FlowEnds
<1>6. Size(asm_buf) <= Size(asm_buf)
  BY <1>2
<1> QED
  BY <1>1, <1>2, <1>3, <1>5, <1>6, ScopeJumps

-----------------------------------------------------------------------------
(* Jumps: the statements of an arm *)

LEMMA ArmFacts ==
    ASSUME BranchInv, stage = "gen", InArm, NEW g, Remembers(g)
    PROVE  /\ g \in [Nat -> Points] /\ NamesRight(g, walk) /\ InMatch
           /\ OpenMatch.rest \subseteq Variants /\ PlainArms(OpenMatch.arms, OpenMatch.rest)
           /\ Flow(g, streams[1].outer, Start, Compared)
           /\ Flow(g, streams[1].arms, Between, Between)
           /\ Flow(g, asm_buf, Between, Now)
           /\ Between \in Points /\ Main = streams[1].outer
           /\ \A m \in Nat : Size(streams[1].outer) <= m => g[m].h = Height(OpenMatch.scope)
<1>1. InMatch /\ Main = streams[1].outer
  BY DEF InMatch, Main
<1>2. Height(OpenMatch.scope) \in Nat
  BY <1>1, OpenFacts
<1>3. Between \in Points
  <2>1. {} \in SUBSET Outcomes
    OBVIOUS
  <2> QED
    BY <1>2, <2>1, AtIs DEF Between
<1> QED
  BY <1>1, <1>3 DEF Remembers, Foresees, FlowFits, MainScope

\* One that emits no label and no jump.
LEMMA ArmJumps ==
    ASSUME BranchInv, BranchInv', JumpInv, stage = "gen", stage' = "gen", flag' = flag,
           streams' = streams, InArm, InArm', OpenMatch' = OpenMatch,
           walk[1].k = "block", walk'[1].k # "match",
           NEW c, IsSeq(c), walk' = c \o Tail(walk), Nest(walk, scope)',
           \A g : NamesRight(g, c), \A l : Owed(c, l) = 0 /\ ~ Wanted(c, l),
           NEW e, IsSeq(e), asm_buf' = e,
           \A g : Flow(g, asm_buf, Between, Now) => Flow(g, e, Between, Now'),
           \A l : Labels(e, l) = Labels(asm_buf, l) /\ (Jumps(e, l) => Jumps(asm_buf, l))
    PROVE  JumpInv'
<1> DEFINE N == {}
<1>1. /\ IsSeq(walk) /\ walk # << >> /\ IsSeq(asm_buf) /\ InMatch /\ InMatch'
      /\ Main' = Main
  BY GenFacts DEF InMatch, Main
<1>2. flag = NoVal /\ \A l : Placed(l)
  BY DEF JumpInv
<1>3. ASSUME NEW l PROVE Total(l)' = Total(l) + Ind(l, N)
  <2>1. Owed(walk', l) = Owed(walk, l)
    <3>1. /\ Owed(walk', l) + Owes(walk[1], l) = Owed(c, l) + Owed(walk, l)
          /\ Owed(walk', l) \in Nat /\ Owed(walk, l) \in Nat
      BY <1>1, OwedPut
    <3>2. Owes(walk[1], l) = 0 /\ Owed(c, l) = 0
      BY NoOwes
    <3> QED
      BY <3>1, <3>2
  <2>2. Held(l)' = Held(l)
    <3>1. Labels(e, l) = Labels(asm_buf, l)
      OBVIOUS
    <3> QED
      BY <1>1, <3>1, Zenon DEF Held
  <2>3. Total(l)' = Total(l) /\ Total(l) \in Nat /\ Ind(l, N) = 0
    BY <2>1, <2>2, TotalNat DEF Total, Ind
  <2> QED
    BY <2>3
<1>4. ASSUME NEW l PROVE Asked(l)' => Asked(l) \/ l \in N
  <2>1. Wanted(walk', l) => Wanted(walk, l)
    BY <1>1, OwedPut
  <2>2. Jumps(e, l) => Jumps(asm_buf, l)
    OBVIOUS
  <2> QED
    BY <1>1, <2>1, <2>2 DEF Asked
<1>5. ASSUME NEW l PROVE Old(l) => Old(l)'
  BY <1>1 DEF Old
<1>6. \A l : Placed(l)'
  <2>1. \A l \in N : ~ Old(l) /\ Old(l)'
    OBVIOUS
  <2> HIDE DEF N
  <2> QED
    BY <1>2, <1>3, <1>4, <1>5, <2>1, CountStep
<1>7. PICK g : Remembers(g)
  BY DEF JumpInv
<1>8. /\ g \in [Nat -> Points] /\ NamesRight(g, walk)
      /\ OpenMatch.rest \subseteq Variants /\ PlainArms(OpenMatch.arms, OpenMatch.rest)
      /\ Flow(g, streams[1].outer, Start, Compared)
      /\ Flow(g, streams[1].arms, Between, Between)
      /\ Flow(g, asm_buf, Between, Now)
      /\ Main = streams[1].outer
  BY <1>7, ArmFacts
<1>9. NamesRight(g, walk')
  BY <1>1, <1>8, NamesPut
<1>10. Foresees(g)'
  <2>1. Foresees(g)
    BY <1>7 DEF Remembers
  <2> QED
    BY <1>1, <2>1 DEF Foresees, MainScope
<1>11. Compared' = Compared /\ Between' = Between
  BY DEF Compared, Between
<1>12. FlowFits(g)'
  <2>1. Flow(g, e, Between, Now')
    BY <1>8
  <2>2. Main' = streams[1].outer
    BY <1>1, <1>8
  <2> QED
    BY <1>1, <1>8, <1>11, <2>1, <2>2 DEF FlowFits
<1>13. Remembers(g)'
  BY <1>8, <1>9, <1>10, <1>12 DEF Remembers
<1>14. stage' # "run" /\ flag' = NoVal
  BY <1>2
<1> QED
  BY <1>6, <1>13, <1>14 DEF JumpInv

\* Which match is open, when the block of an arm goes on or ends.
LEMMA OpenStays ==
    ASSUME BranchInv, stage = "gen", InArm, walk[1].k = "block",
           walk' = <<walk[1]>> \o Tail(walk) \/ walk' = << >> \o Tail(walk)
    PROVE  /\ OpenMatch' = OpenMatch /\ InArm'
           /\ walk'[1] = walk[1] \/ walk'[1].k = "armend"
<1>1. /\ Len(walk) > 2 /\ walk[2].k = "armend" /\ OpenMatch = walk[3]
      /\ IsSeq(walk) /\ walk # << >> /\ Len(walk) \in Nat
  BY GenFacts, OpenFacts DEF InMatch
<1>2. 2 \in 2..Len(walk) /\ 3 \in 2..Len(walk)
  BY <1>1
<1>3. CASE walk' = <<walk[1]>> \o Tail(walk)
  <2> DEFINE c == <<walk[1]>>
             w == walk'
  <2>1. IsSeq(c) /\ Len(c) = 1 /\ c[1] = walk[1] /\ w = c \o Tail(walk)
    BY <1>3, Tuples
  <2> HIDE DEF c
  <2> HIDE DEF w
  <2>2. \A i \in 2..Len(walk) : w[Len(c) + i - 1] = walk[i]
    BY <1>1, <2>1, PutPlaces
  <2>3. \A i \in 1..Len(c) : w[i] = c[i]
    <3> DEFINE r == Tail(walk)
    <3>1. IsSeq(r) /\ w = c \o r
      BY <1>1, <2>1, SeqRest
    <3> HIDE DEF r
    <3> QED
      BY <2>1, <3>1, SeqJoin
  <2>4. 1 \in 1..Len(c) /\ Len(c) + 3 - 1 = 3
    BY <2>1
  <2>5. w[1] = walk[1] /\ w[3] = walk[3]
    BY <1>2, <2>1, <2>2, <2>3, <2>4
  <2>6. walk'[1] = walk[1] /\ walk'[3] = walk[3]
    BY <2>5 DEF w
  <2> QED
    BY <1>1, <2>6 DEF OpenMatch, InArm
<1>4. CASE walk' = << >> \o Tail(walk)
  <2> DEFINE c == << >>
             w == walk'
  <2>1. IsSeq(c) /\ Len(c) = 0 /\ w = c \o Tail(walk)
    BY <1>4, NoneIsSeq
  <2> HIDE DEF c
  <2>2. \A i \in 2..Len(walk) : w[Len(c) + i - 1] = walk[i]
    BY <1>1, <2>1, PutPlaces
  <2> HIDE DEF w
  <2>3. Len(c) + 2 - 1 = 1 /\ Len(c) + 3 - 1 = 2
    BY <2>1
  <2>4. w[1] = walk[2] /\ w[2] = walk[3]
    BY <1>2, <2>2, <2>3
  <2>5. walk'[1] = walk[2] /\ walk'[2] = walk[3]
    BY <2>4 DEF w
  <2> QED
    BY <1>1, <2>5 DEF OpenMatch, InArm
<1> QED
  BY <1>3, <1>4

\* A block goes on.
LEMMA BlockStays ==
    ASSUME NEW t, t.k = "block"
    PROVE  /\ IsSeq(<<t>>) /\ (\A g : NamesRight(g, <<t>>)) /\ (\A s : AllIn(<<t>>, s))
           /\ \A l : Owed(<<t>>, l) = 0 /\ ~ Wanted(<<t>>, l)
<1>1. IsSeq(<<t>>)
  BY Tuples
<1>2. \A g : NameRight(g, t)
  BY DEF NameRight
<1>3. \A l : Owes(t, l) = 0 /\ ~ Wants(t, l)
  BY NoOwes
<1>4. \A l : Owed(<<t>>, l) = Owes(t, l) /\ (Wanted(<<t>>, l) <=> Wants(t, l))
  BY OwedOne, Zenon
<1>5. (\A g : NamesRight(g, <<t>>)) /\ (\A s : AllIn(<<t>>, s))
  BY <1>2, NamesShort, AllInShort
<1> QED
  BY <1>1, <1>3, <1>4, <1>5

LEMMA LetInArm ==
    ASSUME BranchInv, BranchInv', JumpInv, StmtLet, InArm
    PROVE  JumpInv'
<1> DEFINE t == walk[1]
           x == PushSlot
           c == <<t>>
           e == Append(asm_buf, x)
<1>1. /\ stage = "gen" /\ t.k = "block"
      /\ asm_buf' = e /\ walk' = c \o Tail(walk)
      /\ streams' = streams /\ stage' = stage /\ flag' = flag
      /\ Nest(walk, scope)' /\ Now \in Points /\ Now' \in Points
      /\ \A g : Through(g, x, Now, Now')
  BY LetScope
<1>2. IsSeq(asm_buf)
  BY <1>1, GenFacts
<1>3. OneMore(e, asm_buf, x)
  BY DEF OneMore
<1>4. IsSeq(c) /\ (\A g : NamesRight(g, c)) /\ \A l : Owed(c, l) = 0 /\ ~ Wanted(c, l)
  BY <1>1, BlockStays
<1>5. OpenMatch' = OpenMatch /\ InArm' /\ walk'[1].k # "match"
  BY <1>1, OpenStays
<1>6. x.op = "push"
  BY DEF PushSlot, I
<1> HIDE DEF x, c, e
<1>7. /\ IsSeq(e)
      /\ \A l : /\ Labels(e, l) = Labels(asm_buf, l) + Is(x, l)
                /\ Labels(asm_buf, l) \in Nat
                /\ Jumps(e, l) <=> Jumps(asm_buf, l) \/ Goes(x, l)
  BY <1>2, <1>3, CodeMore
<1>8. \A l : Is(x, l) = 0 /\ ~ Goes(x, l)
  BY <1>6, IsOther, NoJump
<1>9. \A l : Labels(e, l) = Labels(asm_buf, l) /\ (Jumps(e, l) => Jumps(asm_buf, l))
  BY <1>7, <1>8
<1>10. PICK g : Remembers(g)
  BY <1>1 DEF JumpInv
<1>11. Between \in Points
  BY <1>1, <1>10, ArmFacts
<1>12. \A f : Flow(f, asm_buf, Between, Now) => Flow(f, e, Between, Now')
  BY <1>1, <1>3, <1>11, FlowMore
<1> HIDE DEF t
<1>13. walk[1].k = "block"
  BY <1>1 DEF t
<1> QED
  BY <1>1, <1>4, <1>5, <1>7, <1>9, <1>12, <1>13, ArmJumps

LEMMA CallInArm ==
    ASSUME BranchInv, BranchInv', JumpInv, StmtCall, InArm
    PROVE  JumpInv'
<1> DEFINE t == walk[1]
           x == CallWith(scope)
           c == <<t>>
           e == Append(asm_buf, x)
<1>1. stage = "gen" /\ t.k = "block"
  BY DEF StmtCall, StartStmt, AtTask
<1>2. /\ asm_buf' = e /\ walk' = c \o Tail(walk) /\ scope' = scope
      /\ streams' = streams /\ stage' = stage /\ flag' = flag
  BY DEF StmtCall, Emit, machine
<1>3. /\ IsSeq(asm_buf) /\ IsSeq(walk) /\ walk # << >> /\ Nest(walk, scope)
      /\ Now \in Points /\ Now.h = Height(scope)
      /\ current_stack \in Nat /\ scope \subseteq 1..current_stack
  BY <1>1, HeadFacts
<1>4. OneMore(e, asm_buf, x)
  BY DEF OneMore
<1>5. /\ IsSeq(c) /\ (\A g : NamesRight(g, c)) /\ AllIn(c, scope)
      /\ \A l : Owed(c, l) = 0 /\ ~ Wanted(c, l)
  BY <1>1, BlockStays
<1>6. OpenMatch' = OpenMatch /\ InArm' /\ walk'[1].k # "match"
  BY <1>1, <1>2, OpenStays
<1>7. x.op = "call" /\ x.slots = scope
  BY DEF CallWith, I
<1> HIDE DEF x, c, e
<1>8. /\ IsSeq(e)
      /\ \A l : /\ Labels(e, l) = Labels(asm_buf, l) + Is(x, l)
                /\ Labels(asm_buf, l) \in Nat
                /\ Jumps(e, l) <=> Jumps(asm_buf, l) \/ Goes(x, l)
  BY <1>3, <1>4, CodeMore
<1>9. \A l : Is(x, l) = 0 /\ ~ Goes(x, l)
  BY <1>7, IsOther, NoJump
<1>10. \A l : Labels(e, l) = Labels(asm_buf, l) /\ (Jumps(e, l) => Jumps(asm_buf, l))
  BY <1>8, <1>9
<1>11. PICK g : Remembers(g)
  BY <1>1 DEF JumpInv
<1>12. Between \in Points
  BY <1>1, <1>11, ArmFacts
<1>13. \A f : Through(f, x, Now, Now)
  BY <1>3, <1>7, ThroughCall
<1>14. Now' = Now
  BY <1>2 DEF Now
<1>15. \A f : Flow(f, asm_buf, Between, Now) => Flow(f, e, Between, Now')
  BY <1>3, <1>4, <1>12, <1>13, <1>14, FlowMore
<1>16. Nest(walk, scope)'
  BY <1>2, <1>3, <1>5, NestPut
<1> HIDE DEF t
<1>17. walk[1].k = "block"
  BY <1>1 DEF t
<1> QED
  BY <1>1, <1>2, <1>5, <1>6, <1>8, <1>10, <1>15, <1>16, <1>17, ArmJumps

LEMMA EndInArm ==
    ASSUME BranchInv, BranchInv', JumpInv, EndBlock, InArm
    PROVE  JumpInv'
<1> DEFINE c == << >>
<1>1. /\ stage = "gen" /\ walk[1].k = "block"
      /\ asm_buf' = asm_buf /\ walk' = c \o Tail(walk)
      /\ streams' = streams /\ stage' = stage /\ flag' = flag
      /\ Nest(walk, scope)' /\ Now \in Points /\ Now' \in Points
      /\ Under(Now, Now')
  BY EndScope
<1>2. IsSeq(asm_buf)
  BY <1>1, GenFacts
<1>3. IsSeq(c) /\ (\A g : NamesRight(g, c)) /\ \A l : Owed(c, l) = 0 /\ ~ Wanted(c, l)
  BY NoneIsSeq, NamesShort, OwedNone
<1>4. OpenMatch' = OpenMatch /\ InArm' /\ walk'[1].k # "match"
  BY <1>1, OpenStays
<1> HIDE DEF c
<1>5. PICK g : Remembers(g)
  BY <1>1 DEF JumpInv
<1>6. Between \in Points
  BY <1>1, <1>5, ArmFacts
<1>7. Under(Between, Between)
  BY <1>6, PointIs
<1>8. \A f : Flow(f, asm_buf, Between, Now) => Flow(f, asm_buf, Between, Now')
  BY <1>1, <1>6, <1>7, FlowEnds
<1> QED
  BY <1>1, <1>2, <1>3, <1>4, <1>8, ArmJumps

LEMMA LetJumps ==
    ASSUME BranchInv, BranchInv', JumpInv, StmtLet
    PROVE  JumpInv'
<1>1. AtTask("block")
  BY DEF StmtLet, StartStmt
<1>2. ~ InMatch \/ InArm
  BY <1>1, BlockFacts
<1> QED
  BY <1>2, LetOutside, LetInArm

LEMMA CallJumps ==
    ASSUME BranchInv, BranchInv', JumpInv, StmtCall
    PROVE  JumpInv'
<1>1. AtTask("block")
  BY DEF StmtCall, StartStmt
<1>2. ~ InMatch \/ InArm
  BY <1>1, BlockFacts
<1> QED
  BY <1>2, CallOutside, CallInArm

LEMMA EndBlockJumps ==
    ASSUME BranchInv, BranchInv', JumpInv, EndBlock
    PROVE  JumpInv'
<1>1. AtTask("block")
  BY DEF EndBlock
<1>2. ~ InMatch \/ InArm
  BY <1>1, BlockFacts
<1> QED
  BY <1>2, EndOutside, EndInArm

-----------------------------------------------------------------------------
(* Jumps: matches *)

\* What jumps to l in the code there is.
JumpsIn(l) ==
    \/ Jumps(asm_buf, l)
    \/ InMatch /\ Jumps(streams[1].arms, l)
    \/ InArm /\ Jumps(streams[1].outer, l)

\* The counts, when the tasks c and the code there is then take the place of
\* the first task.  What is owed may be wanted.
LEMMA AnyCount ==
    ASSUME BranchInv, JumpInv, stage = "gen",
           NEW c, IsSeq(c), walk' = c \o Tail(walk), NEW N,
           \A l : Held(l)' \in Nat,
           \A l : Held(l)' + Owed(c, l) = Held(l) + Owes(walk[1], l) + Ind(l, N),
           \A l : JumpsIn(l)' \/ Wanted(c, l) =>
                    JumpsIn(l) \/ Wants(walk[1], l) \/ Owes(walk[1], l) # 0 \/ l \in N,
           \A l : Old(l) => Old(l)',
           \A l \in N : ~ Old(l) /\ Old(l)'
    PROVE  \A l : Placed(l)'
<1>1. IsSeq(walk) /\ walk # << >> /\ \A l : Placed(l)
  BY GenFacts DEF JumpInv
<1>2. ASSUME NEW l PROVE Placed(l)'
  <2>1. /\ Owed(walk', l) + Owes(walk[1], l) = Owed(c, l) + Owed(walk, l)
        /\ Owed(walk', l) \in Nat /\ Owed(walk, l) \in Nat /\ Owed(c, l) \in Nat
        /\ Owes(walk[1], l) \in Nat
        /\ Wanted(walk', l) => Wanted(c, l) \/ Wanted(walk, l)
        /\ Wants(walk[1], l) => Wanted(walk, l)
    BY <1>1, OwedPut
  <2>2. Held(l) \in Nat /\ Held(l)' \in Nat /\ Ind(l, N) \in Nat
    BY TotalNat DEF Ind
  <2>3. Held(l)' + Owed(c, l) = Held(l) + Owes(walk[1], l) + Ind(l, N)
    OBVIOUS
  <2>4. Total(l) = Held(l) + Owed(walk, l) /\ Total(l)' = Held(l)' + Owed(walk', l)
    BY DEF Total
  <2> DEFINE a == Owed(walk', l)
             b == Held(l)
             x == Owed(walk, l)
             y == Held(l)'
             z == Owed(c, l)
             o == Owes(walk[1], l)
             i == Ind(l, N)
             s == Total(l)
             u == Total(l)'
  <2>5. /\ a \in Nat /\ b \in Nat /\ x \in Nat /\ y \in Nat /\ z \in Nat /\ o \in Nat /\ i \in Nat
        /\ a + o = z + x /\ y + z = b + o + i /\ s = b + x /\ u = y + a
    BY <2>1, <2>2, <2>3, <2>4
  <2>6. u = s + i /\ s \in Nat
    <3> HIDE DEF a, b, x, y, z, o, i, s, u
    <3> QED
      BY <2>5
  <2>7. o # 0 => Old(l) /\ Total(l) # 0
    <3>1. o # 0 => x # 0
      <4>1. ASSUME o # 0 PROVE x # 0
        <5>1. Promise(walk[1]) = Label(l)
          BY <4>1 DEF Owes, Is
        <5>2. Len(walk) \in Nat \ {0}
          BY GenFacts
        <5>3. 1 \in OwedPlaces(walk, l)
          BY <5>1, <5>2 DEF OwedPlaces
        <5>4. IsFiniteSet(OwedPlaces(walk, l))
          <6>1. IsFiniteSet(1..Len(walk))
            BY <5>2, FS_Interval
          <6> QED
            BY <6>1, FS_Subset DEF OwedPlaces
        <5> QED
          BY <5>3, <5>4, FS_EmptySet DEF Owed
      <4> QED
        BY <4>1
    <3>2. o # 0 => s # 0
      <4> HIDE DEF a, b, x, y, z, o, i, s, u
      <4> QED
        BY <2>5, <3>1
    <3> QED
      BY <1>1, <3>2, IsOld
  <2> HIDE DEF a, b, x, y, z, i
  <2>8. Asked(l)' => Asked(l) \/ o # 0 \/ l \in N
    <3>1. Asked(l)' => JumpsIn(l)' \/ Wanted(walk', l)
      BY DEF Asked, JumpsIn
    <3>2. JumpsIn(l) \/ Wanted(walk, l) => Asked(l)
      BY DEF Asked, JumpsIn
    <3>3. JumpsIn(l)' \/ Wanted(c, l) => JumpsIn(l) \/ Wants(walk[1], l) \/ o # 0 \/ l \in N
      OBVIOUS
    <3> HIDE DEF o
    <3> QED
      BY <2>1, <3>1, <3>2, <3>3
  <2> HIDE DEF o
  <2>9. s <= 1 /\ (s = 1 => Old(l)) /\ (Asked(l) => s = 1)
    BY <1>1 DEF Placed
  <2>10. Old(l) => Old(l)'
    OBVIOUS
  <2>11. CASE l \in N
    <3>1. ~ Old(l) /\ Old(l)' /\ i = 1
      BY <2>11 DEF Ind, i
    <3>2. s # 1
      BY <2>9, <3>1
    <3> HIDE DEF s, u
    <3>3. u = 1
      BY <2>6, <2>9, <3>1, <3>2
    <3> QED
      BY <3>1, <3>3 DEF Placed, u
  <2>12. CASE l \notin N
    <3>1. i = 0
      BY <2>12 DEF Ind, i
    <3>2. o # 0 => s # 0
      BY <2>7 DEF o
    <3> HIDE DEF s, u
    <3>3. u = s
      BY <2>6, <3>1
    <3>4. Asked(l)' => s = 1
      BY <2>6, <2>8, <2>9, <2>12, <3>2
    <3>5. u <= 1 /\ (u = 1 => Old(l)') /\ (Asked(l)' => u = 1)
      BY <2>9, <2>10, <3>3, <3>4
    <3> QED
      BY <3>5 DEF Placed, u
  <2> QED
    BY <2>11, <2>12
<1> QED
  BY <1>2

\* Every match there is names every value, and an arm nothing else.
PlainMatches == \A m \in Matches : PlainArms(m, Variants)

LEMMA MatchJumps ==
    ASSUME BranchInv, BranchInv', JumpInv, NestInArms = FALSE, PlainMatches,
           NEW arms \in Matches, StmtMatch(arms)
    PROVE  JumpInv'
<1> DEFINE t == walk[1]
           x == Val(Variants)
           e == Append(asm_buf, x)
           merge == Name("matchmerge", asm_buf)
           u == MatchTask(arms)
           c == <<u, t>>
           r == [outer |-> << >>, arms |-> << >>]
           none == << >>
           N == {merge}
           h == Height(scope)
<1>1. AtTask("block")
  BY DEF StmtMatch, StartNested, StartStmt
<1>2. /\ asm_buf' = e /\ walk' = c \o Tail(walk) /\ scope' = scope
      /\ stage' = stage /\ flag' = flag
  BY DEF StmtMatch, Emit, machine, MatchTask
<1>3. /\ ~ InMatch /\ InMatch' /\ ~ InArm' /\ walk'[1] = u /\ streams' = <<r>>
  BY MatchStep
<1>4. stage = "gen" /\ t.k = "block" /\ ~ InArm
  BY <1>1, <1>3, BlockFacts DEF InMatch
<1>5. /\ IsSeq(asm_buf) /\ IsSeq(walk) /\ walk # << >> /\ Nest(walk, scope)
      /\ h \in Nat /\ Start \in Points /\ Now = Point(Outcomes, h) /\ Now \in Points
      /\ \A A \in SUBSET Outcomes : Point(A, h) \in Points
  BY <1>4, HeadFacts
<1>6. Main = asm_buf /\ Size(asm_buf) \in Nat
  BY <1>4, <1>5, GenFacts, SizeIsNat
<1>7. /\ u.k = "match" /\ u.merge = merge /\ u.scope = scope /\ u.rest = Variants
      /\ u.arms = arms
  BY DEF MatchTask
<1>8. merge[1] = "matchmerge" /\ merge[2] = Size(asm_buf)
  BY DEF Name
<1>9. x.op = "val" /\ x.slots = Variants
  BY DEF Val, I
<1>10. OneMore(e, asm_buf, x)
  BY DEF OneMore
<1>11. streams'[1].arms = none
  BY <1>3, Tuples
<1>12. \A l : l \in N <=> l = merge
  OBVIOUS
<1> HIDE DEF x, e, merge, u, r, N
<1>13. /\ IsSeq(e) /\ Size(e) = Size(asm_buf) + 0
       /\ \A l : /\ Labels(e, l) = Labels(asm_buf, l) + Is(x, l)
                 /\ Labels(asm_buf, l) \in Nat
                 /\ Jumps(e, l) <=> Jumps(asm_buf, l) \/ Goes(x, l)
  BY <1>5, <1>9, <1>10, CodeMore DEF Unit
<1>14. \A l : Is(x, l) = 0 /\ ~ Goes(x, l)
  BY <1>9, IsOther, NoJump
<1>15. /\ IsSeq(c) /\ AllIn(c, scope)
       /\ \A l : Owed(c, l) = Ind(l, N) /\ ~ Wanted(c, l) /\ Owes(t, l) = 0
  <2>1. IsSeq(c) /\ AllIn(c, scope)
    BY <1>4, <1>7, Tuples, AllInShort
  <2>2. \A l : /\ Owes(u, l) = Ind(l, N) /\ Owes(t, l) = 0
               /\ ~ Wants(u, l) /\ ~ Wants(t, l) /\ Ind(l, N) + 0 = Ind(l, N)
    BY <1>4, <1>7, NoOwes DEF Ind, N
  <2>3. \A l : /\ Owed(c, l) = Owes(u, l) + Owes(t, l)
               /\ Wanted(c, l) => Wants(u, l) \/ Wants(t, l)
    BY OwedTwo, Zenon
  <2> HIDE DEF c
  <2> QED
    BY <2>1, <2>2, <2>3
<1>16. \A g : NameRight(g, u) /\ NameRight(g, t) => NamesRight(g, c)
  BY NamesShort
<1> HIDE DEF c
<1>17. Main' = e
  BY <1>2, <1>3 DEF Main
<1>18. \A l : Placed(l)'
  <2>1. \A l : Labels(none, l) = 0 /\ ~ Jumps(none, l)
    BY NoCode
  <2> HIDE DEF none
  <2>2. ASSUME NEW l
        PROVE  Held(l)' \in Nat /\ Held(l)' + Owed(c, l) = Held(l) + Owes(t, l) + Ind(l, N)
    <3> DEFINE a == Labels(asm_buf, l)
               b == Labels(e, l)
               i == Ind(l, N)
               y == Held(l)'
    <3>1. a \in Nat /\ i \in Nat /\ b = a + 0
      <4>1. b = a + Is(x, l) /\ Is(x, l) = 0 /\ a \in Nat
        BY <1>13, <1>14
      <4> QED
        BY <4>1, Zenon DEF Ind
    <3>2. Held(l) = a + 0 + 0
      BY <1>3, <1>4 DEF Held
    <3>3. y = b + 0 + 0
      BY <1>2, <1>3, <1>11, <2>1 DEF Held
    <3>4. Owed(c, l) = i /\ Owes(t, l) = 0
      BY <1>15
    <3> HIDE DEF a, b, i, y
    <3>5. y \in Nat /\ y + i = (a + 0 + 0) + 0 + i
      BY <3>1, <3>3
    <3> QED
      BY <3>2, <3>4, <3>5, Zenon DEF y, i
  <2>3. ASSUME NEW l
        PROVE  JumpsIn(l)' \/ Wanted(c, l) =>
                 JumpsIn(l) \/ Wants(t, l) \/ Owes(t, l) # 0 \/ l \in N
    <3>1. JumpsIn(l)' => Jumps(e, l)
      BY <1>2, <1>3, <1>11, <2>1 DEF JumpsIn
    <3>2. Jumps(e, l) => JumpsIn(l)
      BY <1>13, <1>14 DEF JumpsIn
    <3> QED
      BY <1>15, <3>1, <3>2
  <2>4. Size(Main) = Size(asm_buf) /\ Size(Main') = Size(asm_buf)
    BY <1>6, <1>13, <1>17
  <2>5. ASSUME NEW l PROVE Old(l) => Old(l)'
    BY <1>4, <2>4 DEF Old
  <2>6. ASSUME NEW l \in N PROVE ~ Old(l) /\ Old(l)'
    <3>1. l[1] = "matchmerge" /\ l[2] = Size(asm_buf)
      BY <1>8, <1>12
    <3>2. ~ (l[2] < Size(Main)) /\ l[2] \in Nat
      BY <1>6, <2>4, <3>1
    <3>3. ~ Old(l)
      BY <1>4, <3>2 DEF Old
    <3>4. Old(l)'
      BY <1>3, <1>7, <2>4, <3>1, <3>2 DEF Old
    <3> QED
      BY <3>3, <3>4
  <2> QED
    BY <1>2, <1>4, <1>15, <2>2, <2>3, <2>5, <2>6, AnyCount
<1>19. PICK g : Remembers(g)
  BY <1>4 DEF JumpInv
<1>20. /\ g \in [Nat -> Points] /\ NamesRight(g, walk) /\ NameRight(g, t)
       /\ Flow(g, asm_buf, Start, Now)
       /\ \A m \in Nat : Size(asm_buf) <= m => g[m].h = Height(scope)
  BY <1>3, <1>4, <1>19, OutsideFacts
<1>21. NamesRight(g, walk')
  <2>1. NameRight(g, u)
    <3>1. Size(asm_buf) <= Size(asm_buf)
      BY <1>6
    <3>2. merge[2] \in Nat /\ g[merge[2]].h = Height(scope)
      BY <1>6, <1>8, <1>20, <3>1
    <3> QED
      BY <1>7, <1>8, <3>2 DEF NameRight, Knows
  <2>2. NamesRight(g, c)
    BY <1>16, <1>20, <2>1
  <2> QED
    BY <1>2, <1>5, <1>15, <1>20, <2>2, NamesPut
<1>22. OpenMatch' = u
  BY <1>3, <1>7 DEF OpenMatch
<1>23. Foresees(g)'
  <2>1. MainScope' = scope
    BY <1>3, <1>7, <1>22 DEF MainScope
  <2>2. Size(Main') = Size(asm_buf)
    BY <1>6, <1>13, <1>17
  <2> QED
    BY <1>20, <2>1, <2>2 DEF Foresees
<1>24. FlowFits(g)'
  <2>1. Compared' = Point(Variants, h) /\ Between' = Point({}, h)
    BY <1>7, <1>22 DEF Compared, Between
  <2>2. Variants \in SUBSET Outcomes /\ {} \in SUBSET Outcomes /\ Outcomes \in SUBSET Outcomes
    BY DEF Variants, Outcomes
  <2>3. Compared' \in Points /\ Between' \in Points
    BY <1>5, <2>1, <2>2
  <2>4. Through(g, x, Now, Compared')
    BY <1>5, <1>9, <2>1, <2>2, ThroughBy
  <2>5. Flow(g, e, Start, Compared')
    BY <1>5, <1>10, <1>20, <2>3, <2>4, FlowMore
  <2>6. Flow(g, none, Between', Between')
    BY <2>3, FlowNone, PointIs
  <2>7. PlainArms(arms, Variants)
    BY DEF PlainMatches
  <2>8. /\ OpenMatch'.rest = Variants /\ OpenMatch'.arms = arms
    BY <1>7, <1>22
  <2> QED
    BY <1>3, <1>11, <1>17, <2>5, <2>6, <2>7, <2>8 DEF FlowFits
<1>25. Remembers(g)'
  BY <1>20, <1>21, <1>23, <1>24 DEF Remembers
<1>26. Nest(walk, scope)'
  BY <1>2, <1>5, <1>15, NestPut
<1>27. stage' # "run" /\ flag' = NoVal
  BY <1>2, <1>4 DEF JumpInv
<1> QED
  BY <1>18, <1>25, <1>26, <1>27 DEF JumpInv

LEMMA SeqSame ==
    ASSUME NEW s, IsSeq(s), NEW t, IsSeq(t), Len(s) = Len(t), \A i \in 1..Len(s) : s[i] = t[i]
    PROVE  s = t
<1>1. PICK S, T : s \in Seq(S) /\ t \in Seq(T)
  BY DEF IsSeq
<1>2. s \in Seq(S \cup T) /\ t \in Seq(S \cup T)
  BY <1>1, SeqMonotonic
<1> QED
  BY <1>2, SeqEqual

\* What an arm that compares one value is made of.
LEMMA OneTest ==
    ASSUME NEW pats, Len(pats) = 1
    PROVE  /\ ArmTests(pats) = <<Test, JmpEq(PatName(pats, 1), pats[1].v)>>
           /\ ArmLabels(pats) = <<Label(PatName(pats, 1))>>
<1> DEFINE f == ArmTests(pats)
           y == JmpEq(PatName(pats, 1), pats[1].v)
           x == Test
           p == ArmLabels(pats)
           z == Label(PatName(pats, 1))
<1>1. f = [i \in 1..2 |-> IF i % 2 = 1 THEN x ELSE JmpEq(PatName(pats, i \div 2), pats[i \div 2].v)]
  BY DEF ArmTests
<1>2. f[1] = x /\ f[2] = y
  <2>1. 1 % 2 = 1 /\ 2 % 2 = 0 /\ 2 \div 2 = 1 /\ 1 \in 1..2 /\ 2 \in 1..2
    OBVIOUS
  <2> QED
    BY <1>1, <2>1
<1>3. f \in [1..2 -> {x, y}]
  <2>1. DOMAIN f = 1..2 /\ \A i \in 1..2 : i = 1 \/ i = 2
    BY <1>1
  <2>2. f = [i \in 1..2 |-> f[i]]
    BY <1>1
  <2> HIDE DEF f
  <2> QED
    BY <1>2, <2>1, <2>2
<1>4. p = [i \in 1..1 |-> Label(PatName(pats, i))]
  BY DEF ArmLabels
<1>5. p \in [1..1 -> {z}]
  <2>1. \A i \in 1..1 : i = 1
    OBVIOUS
  <2> QED
    BY <1>4, <2>1
<1> HIDE DEF f, x, y, p, z
<1>6. IsSeq(f) /\ Len(f) = 2
  BY <1>3, FunSeq
<1>7. IsSeq(p) /\ Len(p) = 1 /\ p[1] = z
  BY <1>5, OneSeq
<1>8. f = <<x, y>>
  <2> DEFINE t == <<x, y>>
  <2>1. IsSeq(t) /\ Len(t) = 2 /\ t[1] = x /\ t[2] = y
    BY Tuples
  <2> HIDE DEF t
  <2>2. \A i \in 1..2 : i = 1 \/ i = 2
    OBVIOUS
  <2>3. \A i \in 1..2 : f[i] = t[i]
    BY <1>2, <2>1, <2>2
  <2>4. f = t
    BY <1>6, <2>1, <2>3, SeqSame
  <2> QED
    BY <2>4 DEF t
<1>9. p = <<z>>
  <2> DEFINE t == <<z>>
  <2>1. IsSeq(t) /\ Len(t) = 1 /\ t[1] = z
    BY Tuples
  <2> HIDE DEF t
  <2>2. \A i \in 1..1 : p[i] = t[i]
    BY <1>7, <2>1
  <2>3. p = t
    BY <1>7, <2>1, <2>2, SeqSame
  <2> QED
    BY <2>3 DEF t
<1> QED
  BY <1>8, <1>9 DEF f, x, y, p, z

\* The arms behind the first, and what is left for them.
LEMMA PlainRest ==
    ASSUME NEW arms \in Seq(Seq(Patterns)), arms # << >>, NEW r, r \subseteq Variants,
           PlainArms(arms, r)
    PROVE  /\ Len(arms[1]) = 1 /\ arms[1][1].v \in Variants
           /\ TakenBy(arms[1]) = {arms[1][1].v}
           /\ PlainArms(Tail(arms), r \ {arms[1][1].v})
<1> DEFINE a == arms[1]
           b == Tail(arms)
<1>1. /\ Len(arms) \in Nat \ {0} /\ a \in Seq(Patterns)
      /\ Len(b) = Len(arms) - 1 /\ \A i \in 1..Len(arms) - 1 : b[i] = arms[i + 1]
  <2>1. IsSeq(arms)
    BY DEF IsSeq
  <2>2. Len(arms) \in Nat \ {0}
    BY <2>1, SeqRest
  <2>3. 1 \in 1..Len(arms)
    BY <2>2
  <2> QED
    BY <2>1, <2>3, SeqRest
<1>2. Len(a) = 1 /\ (\A i \in 1..Len(arms) : Len(arms[i]) = 1)
  <2>1. 1 \in 1..Len(arms)
    BY <1>1
  <2> QED
    BY <2>1 DEF PlainArms
<1>3. a[1] \in Patterns /\ a # << >>
  BY <1>1, <1>2
<1>4. a[1].v \in Variants
  BY <1>3 DEF Patterns
<1>5. TakenBy(a) = {a[1].v}
  BY <1>3 DEF TakenBy
<1> HIDE DEF b
<1>6. \A i \in 1..Len(b) : Len(b[i]) = 1
  <2>1. ASSUME NEW i \in 1..Len(b) PROVE Len(b[i]) = 1
    <3>1. i \in 1..Len(arms) - 1 /\ i + 1 \in 1..Len(arms)
      BY <1>1
    <3> QED
      BY <1>1, <1>2, <3>1
  <2> QED
    BY <2>1
<1>7. ASSUME NEW v \in r \ {a[1].v} PROVE \E i \in 1..Len(b) : b[i][1].v = v
  <2>1. PICK i \in 1..Len(arms) : arms[i][1].v = v
    BY DEF PlainArms
  <2>2. i # 1
    BY <2>1
  <2>3. i - 1 \in 1..Len(arms) - 1 /\ (i - 1) + 1 = i
    BY <1>1, <2>2
  <2>4. b[i - 1] = arms[i] /\ i - 1 \in 1..Len(b)
    BY <1>1, <2>3
  <2> QED
    BY <2>1, <2>4
<1>8. PlainArms(b, r \ {a[1].v})
  BY <1>6, <1>7 DEF PlainArms
<1> QED
  BY <1>2, <1>4, <1>5, <1>8 DEF b

\* What is remembered of one length may change, when it is part of no name of a
\* merge point: but not the number of slots.
LEMMA NamesAlike ==
    ASSUME NEW g, NEW f, \A m \in Nat : f[m].h = g[m].h, NEW w, NamesRight(g, w)
    PROVE  NamesRight(f, w)
  BY DEF NamesRight, NameRight, Knows

LEMMA ArmStartJumps ==
    ASSUME BranchInv, BranchInv', JumpInv, gen_match_arm
    PROVE  JumpInv'
<1> DEFINE t == walk[1]
           pats == t.arms[1]
           pn == PatName(pats, 1)
           v == pats[1].v
           x == Test
           y == JmpEq(pn, v)
           s1 == Append(asm_buf, x)
           o == Append(s1, y)
           z == Label(pn)
           in == In({v} \cap t.rest)
           b == <<z>>
           e == Append(b, in)
           d == streams[1].arms
           r == Block(t.depth, TRUE)
           u == ArmEndTask
           q == LaterArms
           c == <<r, u, q>>
           N == {pn}
           n == Size(asm_buf)
           h == Height(scope)
           P(a) == Point(a, h)
<1>1. stage = "gen" /\ t.k = "match" /\ t.arms # << >>
  BY DEF gen_match_arm, AtTask
<1>2. /\ BranchInv' /\ InMatch /\ ~ InArm /\ InMatch' /\ InArm'
      /\ walk'[1] = r /\ walk' = c \o Tail(walk)
      /\ streams'[1].outer = asm_buf \o ArmTests(pats)
      /\ streams'[1].arms = d
      /\ asm_buf' = Append(ArmLabels(pats), In(TakenBy(pats) \cap t.rest))
  BY ArmStartStep
<1>3. scope' = scope /\ stage' = stage /\ flag' = flag
  BY DEF gen_match_arm, machine
<1>4. OpenMatch = t /\ scope = t.scope /\ t.arms \in Seq(Seq(Patterns))
  BY <1>1, <1>2, OpenFacts, MatchFacts
<1>5. /\ IsSeq(asm_buf) /\ IsSeq(d) /\ IsSeq(walk) /\ walk # << >> /\ Nest(walk, scope)
      /\ h \in Nat /\ n \in Nat /\ Main = asm_buf
      /\ Start \in Points /\ Now = P(Outcomes)
      /\ \A a \in SUBSET Outcomes : P(a) \in Points
  BY <1>1, <1>2, HeadFacts, GenFacts, SizeIsNat
<1>6. PICK g : Remembers(g)
  BY <1>1 DEF JumpInv
<1>7. /\ g \in [Nat -> Points] /\ NamesRight(g, walk) /\ t.rest \subseteq Variants
      /\ PlainArms(t.arms, t.rest)
      /\ Flow(g, asm_buf, Start, P(t.rest)) /\ Flow(g, d, P({}), P({}))
      /\ \A m \in Nat : n <= m => g[m].h = h
  BY <1>2, <1>4, <1>5, <1>6 DEF Remembers, Foresees, MainScope, FlowFits, Compared, Between
<1>8. /\ Len(pats) = 1 /\ v \in Variants /\ TakenBy(pats) = {v}
      /\ PlainArms(Tail(t.arms), t.rest \ {v})
  BY <1>1, <1>4, <1>7, PlainRest
<1>9. streams'[1].outer = o /\ asm_buf' = e
  <2>1. ArmTests(pats) = <<x, y>> /\ ArmLabels(pats) = b
    BY <1>8, OneTest
  <2>2. asm_buf \o <<x, y>> = o
    BY <1>5, AppendJoin
  <2> QED
    BY <1>2, <1>8, <2>1, <2>2
<1>10. /\ pn[1] \in {"matcharm", "bindval"} /\ pn[2] = n
  <2>1. n + 2 * (1 - 1) = n
    BY <1>5
  <2> QED
    BY <2>1 DEF PatName
<1>11. /\ r.k = "block" /\ u.k = "armend" /\ u.merge = t.merge /\ u.scope = scope
       /\ q.k = "match" /\ q.merge = t.merge /\ q.scope = t.scope
       /\ q.arms = Tail(t.arms) /\ q.rest = t.rest \ {v}
  <2>1. r.k = "block" /\ u.k = "armend" /\ u.merge = t.merge /\ u.scope = scope
    BY DEF Block, ArmEndTask
  <2>2. DOMAIN t = {"k", "arms", "rest", "merge", "depth", "scope"}
    BY <1>1, MatchFacts DEF Task
  <2>3. /\ q.k = "match" /\ q.merge = t.merge /\ q.scope = t.scope
        /\ q.arms = Tail(t.arms) /\ q.rest = t.rest \ TakenBy(pats)
    BY <1>1, <2>2 DEF LaterArms
  <2> QED
    BY <1>8, <2>1, <2>3
<1>12. /\ x.op = "test" /\ y.op = "je" /\ y.lbl = pn /\ y.val = v
       /\ z = Label(pn) /\ z.op = "label"
       /\ in.op = "in" /\ in.slots = {v} \cap t.rest
  BY DEF Test, JmpEq, Label, In, I
<1>13. OneMore(s1, asm_buf, x) /\ OneMore(o, s1, y) /\ OneMore(e, b, in)
  BY DEF OneMore
<1>14. \A l : l \in N <=> l = pn
  OBVIOUS
<1>15. /\ IsSeq(b)
       /\ \A l : Labels(b, l) = Ind(l, N) /\ ~ Jumps(b, l)
  <2>1. IsSeq(b)
    BY Tuples
  <2>2. \A l : Is(z, l) = Ind(l, {pn}) /\ ~ Goes(z, l)
    BY IsLabel
  <2>3. \A l : Labels(b, l) = Is(z, l) /\ (Jumps(b, l) <=> Goes(z, l))
    BY CodeOne, Zenon
  <2> HIDE DEF b
  <2> QED
    BY <2>1, <2>2, <2>3
<1> HIDE DEF pn, v, x, y, s1, o, z, in, r, u, q, N, n, h, e
<1>16. \A l : /\ Is(x, l) = 0 /\ Is(y, l) = 0 /\ Is(in, l) = 0
              /\ ~ Goes(x, l) /\ (Goes(y, l) => l = pn) /\ ~ Goes(in, l)
  BY <1>12, IsOther, NoJump, OnlyJump
<1>17. /\ IsSeq(s1) /\ Size(s1) = n + 1
       /\ \A l : /\ Labels(s1, l) = Labels(asm_buf, l) + Is(x, l)
                 /\ Labels(asm_buf, l) \in Nat
                 /\ Jumps(s1, l) <=> Jumps(asm_buf, l) \/ Goes(x, l)
  BY <1>5, <1>12, <1>13, CodeMore DEF Unit, n
<1>18. /\ IsSeq(o) /\ Size(o) = Size(s1) + 1
       /\ \A l : /\ Labels(o, l) = Labels(s1, l) + Is(y, l)
                 /\ Jumps(o, l) <=> Jumps(s1, l) \/ Goes(y, l)
  BY <1>12, <1>13, <1>17, CodeMore DEF Unit
<1>19. /\ IsSeq(e)
       /\ \A l : /\ Labels(e, l) = Labels(b, l) + Is(in, l)
                 /\ Jumps(e, l) <=> Jumps(b, l) \/ Goes(in, l)
  BY <1>13, <1>15, CodeMore
<1> HIDE DEF b
<1>20. /\ IsSeq(c) /\ AllIn(c, scope)
       /\ \A l : /\ Owed(c, l) = Owes(t, l) /\ (Wanted(c, l) => Owes(t, l) # 0)
                 /\ Owes(t, l) \in Nat
  <2>1. IsSeq(c) /\ AllIn(c, scope)
    BY <1>4, <1>11, Tuples, AllInShort
  <2>2. ASSUME NEW l
        PROVE  /\ Owes(r, l) = 0 /\ Owes(u, l) = 0 /\ Owes(q, l) = Ind(l, {t.merge})
               /\ Owes(t, l) = Ind(l, {t.merge})
               /\ ~ Wants(r, l) /\ (Wants(u, l) => l = t.merge) /\ ~ Wants(q, l)
    BY <1>1, <1>11, NoOwes
  <2>3. \A l : /\ Owed(c, l) = Owes(r, l) + Owes(u, l) + Owes(q, l)
               /\ Wanted(c, l) => Wants(r, l) \/ Wants(u, l) \/ Wants(q, l)
    BY OwedThree, Zenon
  <2> HIDE DEF c
  <2>4. ASSUME NEW l
        PROVE  /\ Owed(c, l) = Owes(t, l) /\ (Wanted(c, l) => Owes(t, l) # 0)
               /\ Owes(t, l) \in Nat
    <3> DEFINE i == Ind(l, {t.merge})
    <3>1. i \in Nat /\ (l = t.merge => i # 0)
      BY DEF Ind
    <3>2. Owed(c, l) = 0 + 0 + i
      BY <2>2, <2>3, Zenon
    <3>3. Owes(t, l) = i /\ (Wanted(c, l) => l = t.merge)
      BY <2>2, <2>3
    <3> HIDE DEF i
    <3>4. 0 + 0 + i = i
      BY <3>1
    <3> QED
      BY <3>1, <3>2, <3>3, <3>4
  <2> QED
    BY <2>1, <2>4
<1>21. \A f : NameRight(f, r) /\ NameRight(f, u) /\ NameRight(f, q) => NamesRight(f, c)
  BY NamesShort
<1>22. /\ OpenMatch'.rest = t.rest \ {v} /\ OpenMatch'.scope = scope
       /\ OpenMatch'.arms = Tail(t.arms)
  <2>1. walk'[3] = q
    <3> DEFINE s == Tail(walk)
    <3>1. IsSeq(s) /\ walk' = c \o s
      BY <1>2, <1>5, SeqRest
    <3>2. Len(c) = 3 /\ c[3] = q
      BY Tuples
    <3>3. 3 \in 1..Len(c)
      BY <3>2
    <3>4. IsSeq(c)
      BY <1>20
    <3> HIDE DEF s, c
    <3>5. \A i \in 1..Len(c) : (c \o s)[i] = c[i]
      BY <3>1, <3>4, SeqJoin
    <3>6. (c \o s)[3] = c[3]
      BY <3>3, <3>5
    <3> QED
      BY <3>1, <3>2, <3>6
  <2>2. OpenMatch' = walk'[3]
    BY <1>2, <1>11 DEF OpenMatch
  <2> QED
    BY <1>4, <1>11, <2>1, <2>2
<1> HIDE DEF c
<1>23. Main' = o /\ Size(o) = n + 2 /\ Size(Main) = n
  BY <1>2, <1>5, <1>9, <1>17, <1>18 DEF Main, n
<1>24. \A l : Placed(l)'
  <2>1. ASSUME NEW l
        PROVE  Held(l)' \in Nat /\ Held(l)' + Owed(c, l) = Held(l) + Owes(t, l) + Ind(l, N)
    <3> DEFINE a == Labels(asm_buf, l)
               m == Labels(d, l)
               k == Labels(o, l)
               i == Ind(l, N)
               w == Owes(t, l)
               j == Held(l)'
    <3>1. a \in Nat /\ m \in Nat /\ i \in Nat /\ w \in Nat
      BY <1>5, <1>17, <1>20, LabelsNat DEF Ind
    <3>2. k = a + 0 + 0
      BY <1>16, <1>17, <1>18, Zenon
    <3>3. Labels(e, l) = i + 0
      BY <1>15, <1>16, <1>19, Zenon
    <3>4. Held(l) = a + m + 0
      BY <1>2 DEF Held
    <3>5. j = (i + 0) + m + k
      <4>1. j = Labels(e, l) + m + k
        BY <1>2, <1>9 DEF Held
      <4> QED
        BY <3>3, <4>1
    <3>6. Owed(c, l) = w
      BY <1>20
    <3> HIDE DEF a, m, k, i, w, j
    <3>7. j \in Nat /\ j + w = (a + m + 0) + w + i
      BY <3>1, <3>2, <3>5
    <3> QED
      BY <3>4, <3>6, <3>7, Zenon DEF w, j, i
  <2>2. ASSUME NEW l
        PROVE  JumpsIn(l)' \/ Wanted(c, l) =>
                 JumpsIn(l) \/ Wants(t, l) \/ Owes(t, l) # 0 \/ l \in N
    <3>1. JumpsIn(l)' => Jumps(e, l) \/ Jumps(d, l) \/ Jumps(o, l)
      BY <1>2, <1>9 DEF JumpsIn
    <3>2. ~ Jumps(e, l) /\ (Jumps(o, l) => Jumps(asm_buf, l) \/ l = pn)
      BY <1>15, <1>16, <1>17, <1>18, <1>19
    <3>3. Jumps(asm_buf, l) \/ Jumps(d, l) => JumpsIn(l)
      BY <1>2 DEF JumpsIn
    <3> QED
      BY <1>14, <1>20, <3>1, <3>2, <3>3
  <2>3. ASSUME NEW l PROVE Old(l) => Old(l)'
    <3>1. ASSUME Old(l) PROVE l[2] \in Nat /\ l[2] < Size(Main')
      BY <1>5, <1>23, <3>1 DEF Old
    <3> QED
      BY <3>1 DEF Old
  <2>4. ASSUME NEW l \in N PROVE ~ Old(l) /\ Old(l)'
    <3>1. l[1] # "matchmerge" /\ l[2] = n
      BY <1>10, <1>14
    <3>2. ~ (l[2] < Size(Main)) /\ l[2] \in Nat /\ l[2] < Size(Main')
      BY <1>5, <1>23, <3>1
    <3> QED
      BY <3>1, <3>2 DEF Old
  <2> QED
    BY <1>1, <1>2, <1>20, <2>1, <2>2, <2>3, <2>4, AnyCount
<1>25. PICK f \in [Nat -> Points] :
           /\ \A m \in Nat : f[m].h = g[m].h /\ (m # n => f[m] = g[m])
           /\ f[n].o = {v} \cap t.rest
  <2> DEFINE f == [m \in Nat |-> IF m = n THEN Point({v} \cap t.rest, g[n].h) ELSE g[m]]
             p == Point({v} \cap t.rest, g[n].h)
  <2>1. {v} \cap t.rest \in SUBSET Outcomes
    BY <1>7 DEF Variants, Outcomes
  <2>2. g[n].h \in Nat
    BY <1>5, <1>7 DEF Points
  <2>3. p \in Points /\ p.o = {v} \cap t.rest /\ p.h = g[n].h
    BY <2>1, <2>2, AtIs
  <2> HIDE DEF p
  <2>4. f = [m \in Nat |-> IF m = n THEN p ELSE g[m]]
    BY DEF p
  <2> HIDE DEF f
  <2>5. f \in [Nat -> Points]
    BY <1>7, <2>3, <2>4
  <2>6. /\ \A m \in Nat : f[m].h = g[m].h /\ (m # n => f[m] = g[m])
        /\ f[n].o = {v} \cap t.rest
    BY <1>5, <2>3, <2>4
  <2> QED
    BY <2>5, <2>6
<1>26. ASSUME NEW l, Old(l) PROVE Leads(f, l) = Leads(g, l)
  <2>1. l[2] \in Nat /\ (l[2] < n \/ l[1] = "matchmerge")
    BY <1>23, <1>26 DEF Old
  <2>2. CASE l[2] < n
    <3>1. f[l[2]] = g[l[2]]
      BY <1>5, <1>25, <2>1, <2>2
    <3> QED
      BY <3>1 DEF Leads
  <2>3. CASE l[1] = "matchmerge"
    <3>1. f[l[2]].h = g[l[2]].h
      BY <1>25, <2>1
    <3> QED
      BY <2>3, <3>1 DEF Leads
  <2> QED
    BY <2>1, <2>2, <2>3
<1>27. Flow(f, asm_buf, Start, P(t.rest)) /\ Flow(f, d, P({}), P({}))
  <2>1. ASSUME NEW l, Labels(asm_buf, l) # 0 \/ Jumps(asm_buf, l) \/ Labels(d, l) # 0 \/ Jumps(d, l)
        PROVE  Leads(f, l) = Leads(g, l)
    <3>1. CASE Jumps(asm_buf, l) \/ Jumps(d, l)
      <4>1. Asked(l)
        BY <1>2, <3>1 DEF Asked
      <4> QED
        BY <1>1, <1>26, <4>1, IsOld DEF JumpInv
    <3>2. CASE Labels(asm_buf, l) # 0 \/ Labels(d, l) # 0
      <4> DEFINE a == Labels(asm_buf, l)
                 m == Labels(d, l)
                 k == Owed(walk, l)
                 s == Total(l)
      <4>1. a \in Nat /\ m \in Nat /\ k \in Nat
        BY <1>1, <1>5, LabelsNat, TotalNat
      <4>2. s = (a + m + 0) + k
        BY <1>2 DEF Total, Held
      <4>3. a # 0 \/ m # 0
        BY <3>2
      <4> HIDE DEF a, m, k, s
      <4>4. s # 0
        BY <4>1, <4>2, <4>3
      <4> QED
        BY <1>1, <1>26, <4>4, IsOld DEF JumpInv, s
    <3> QED
      BY <2>1, <3>1, <3>2
  <2> QED
    BY <1>7, <2>1, FlowFresh
<1>28. Leads(f, pn).o = {v} \cap t.rest /\ Leads(f, pn).h = h
  <2>1. n <= n
    BY <1>5
  <2>2. f[n].h = h
    BY <1>5, <1>7, <1>25, <2>1
  <2> QED
    BY <1>10, <1>25, <2>2, LeadsIs
<1>29. /\ t.rest \in SUBSET Outcomes /\ t.rest \ {v} \in SUBSET Outcomes
       /\ {v} \cap t.rest \in SUBSET Outcomes /\ {} \in SUBSET Outcomes
       /\ Outcomes \in SUBSET Outcomes
  BY <1>7 DEF Variants, Outcomes
<1>30. /\ P(t.rest) \in Points /\ P(t.rest \ {v}) \in Points /\ P({v} \cap t.rest) \in Points
       /\ P({}) \in Points /\ P(Outcomes) \in Points
  BY <1>5, <1>29
<1>31. Flow(f, o, Start, P(t.rest \ {v}))
  <2>1. Through(f, x, P(t.rest), P(t.rest))
    BY <1>5, <1>12, <1>29, ThroughBy
  <2>2. Through(f, y, P(t.rest), P(t.rest \ {v}))
    <3>1. t.rest \cap {v} \subseteq {v} \cap t.rest /\ h <= h
      BY <1>5
    <3> QED
      BY <1>5, <1>12, <1>28, <1>29, <3>1, ThroughBy
  <2>3. Flow(f, s1, Start, P(t.rest))
    BY <1>5, <1>13, <1>27, <1>30, <2>1, FlowMore
  <2> QED
    BY <1>5, <1>13, <1>30, <2>2, <2>3, FlowMore
<1>32. Flow(f, e, P({}), P(Outcomes))
  <2> DEFINE A == P({v} \cap t.rest)
  <2>1. A \in Points /\ Under(A, A) /\ Under(P({}), A)
    <3>1. A \in Points /\ A.h = h /\ P({}).h = h /\ P({}).o = {} /\ h <= h
      BY <1>5, <1>30, AtIs
    <3> QED
      BY <3>1, PointIs DEF Under
  <2>2. Through(f, z, A, A)
    BY <1>5, <1>12, <1>28, <1>29, LabelAt
  <2>3. Through(f, in, A, P(Outcomes))
    BY <1>5, <1>12, <1>29, ThroughBy
  <2> HIDE DEF A
  <2>4. Flow(f, b, P({}), A)
    BY <1>30, <2>1, <2>2, FlowOne DEF b
  <2> QED
    BY <1>13, <1>30, <2>1, <2>3, <2>4, FlowMore
<1>33. NamesRight(f, walk')
  <2>1. NamesRight(f, walk)
    BY <1>7, <1>25, NamesAlike
  <2>2. NameRight(f, t)
    <3>1. 1 \in 1..Len(walk)
      <4>1. Len(walk) \in Nat \ {0}
        BY <1>1, GenFacts
      <4> QED
        BY <4>1
    <3> QED
      BY <2>1, <3>1 DEF NamesRight
  <2>3. NameRight(f, r) /\ NameRight(f, u) /\ NameRight(f, q)
    BY <1>1, <1>4, <1>11, <2>2 DEF NameRight
  <2>4. NamesRight(f, c)
    BY <1>21, <2>3
  <2> QED
    BY <1>2, <1>5, <1>20, <2>1, <2>4, NamesPut
<1>34. Foresees(f)'
  <2>1. MainScope' = scope
    BY <1>2, <1>22 DEF MainScope
  <2>2. ASSUME NEW m \in Nat, Size(o) <= m PROVE f[m].h = h
    <3>1. n <= m
      BY <1>5, <1>23, <2>2
    <3> QED
      BY <1>7, <1>25, <3>1
  <2> QED
    BY <1>23, <2>1, <2>2 DEF Foresees, h
<1>35. FlowFits(f)'
  <2>1. Compared' = P(t.rest \ {v}) /\ Between' = P({}) /\ Now' = P(Outcomes)
    BY <1>3, <1>22 DEF Compared, Between, Now, h
  <2>2. t.rest \ {v} \subseteq Variants
    BY <1>7
  <2> QED
    BY <1>2, <1>8, <1>9, <1>22, <1>23, <1>27, <1>31, <1>32, <2>1, <2>2 DEF FlowFits
<1>36. Remembers(f)'
  BY <1>25, <1>33, <1>34, <1>35 DEF Remembers
<1>37. Nest(walk, scope)'
  BY <1>2, <1>3, <1>5, <1>20, NestPut
<1>38. stage' # "run" /\ flag' = NoVal
  BY <1>1, <1>3 DEF JumpInv
<1> QED
  BY <1>24, <1>36, <1>37, <1>38 DEF JumpInv

\* At the end of an arm its code joins the others, and the outer buffer is
\* current again.
LEMMA ArmEndJumps ==
    ASSUME BranchInv, BranchInv', JumpInv, ArmEnd
    PROVE  JumpInv'
<1> DEFINE t == walk[1]
           d == streams[1].arms
           o == streams[1].outer
           j == Jmp(t.merge)
           e == Append(asm_buf, j)
           h == Height(scope)
           P(a) == Point(a, h)
<1>1. /\ stage = "gen" /\ t.k = "armend" /\ walk' = << >> \o Tail(walk)
      /\ scope' = scope /\ stage' = stage /\ flag' = flag
  BY DEF ArmEnd, AtTask, Emit, machine
<1>2. /\ InMatch /\ InArm /\ InMatch' /\ ~ InArm'
      /\ walk'[1] = walk[2] /\ walk[2].k = "match"
      /\ asm_buf' = o /\ streams'[1].arms = d \o e
  BY ArmEndStep
<1>3. /\ IsSeq(asm_buf) /\ IsSeq(d) /\ IsSeq(o) /\ IsSeq(walk) /\ walk # << >>
      /\ Nest(walk, scope) /\ h \in Nat /\ Start \in Points /\ Now \in Points /\ Now = P(Outcomes)
      /\ \A a \in SUBSET Outcomes : P(a) \in Points
  BY <1>1, <1>2, HeadFacts, GenFacts
<1>4. /\ OpenMatch = walk[2] /\ OpenMatch' = walk[2]
      /\ OpenMatch.merge = t.merge /\ OpenMatch.scope = scope
  <2>1. OpenMatch = walk[2] /\ OpenMatch.merge = t.merge /\ OpenMatch.scope = t.scope
    BY <1>1, <1>2, OpenFacts
  <2>2. scope = t.scope
    BY <1>1, MatchFacts
  <2>3. OpenMatch' = walk'[1]
    BY <1>2 DEF OpenMatch
  <2> QED
    BY <1>2, <2>1, <2>2, <2>3
<1>5. PICK g : Remembers(g)
  BY <1>1 DEF JumpInv
<1>6. /\ g \in [Nat -> Points] /\ NamesRight(g, walk)
      /\ OpenMatch.rest \subseteq Variants /\ PlainArms(OpenMatch.arms, OpenMatch.rest)
      /\ Flow(g, o, Start, Compared) /\ Flow(g, d, Between, Between)
      /\ Flow(g, asm_buf, Between, Now)
      /\ Between \in Points /\ Main = o
      /\ \A m \in Nat : Size(o) <= m => g[m].h = h
  BY <1>1, <1>2, <1>4, <1>5, ArmFacts
<1>7. Main' = o /\ Between' = Between /\ Compared' = Compared /\ Between = P({})
  BY <1>2, <1>4 DEF Main, Between, Compared
<1>8. j.op = "jmp" /\ j.lbl = t.merge /\ OneMore(e, asm_buf, j)
  BY DEF Jmp, I, OneMore
<1>9. Leads(g, t.merge).o = Outcomes /\ Leads(g, t.merge).h = h
  <2>1. 1 \in 1..Len(walk)
    <3>1. Len(walk) \in Nat \ {0}
      BY <1>1, GenFacts
    <3> QED
      BY <3>1
  <2>2. NameRight(g, t)
    BY <1>6, <2>1 DEF NamesRight
  <2>3. scope = t.scope
    BY <1>1, MatchFacts
  <2>4. t.merge[1] = "matchmerge" /\ g[t.merge[2]].h = h
    BY <1>1, <2>2, <2>3 DEF NameRight, Knows
  <2> QED
    BY <2>4, LeadsIs
<1> HIDE DEF j, e, h
<1>10. /\ IsSeq(e)
       /\ \A l : /\ Labels(e, l) = Labels(asm_buf, l) + Is(j, l) /\ Labels(asm_buf, l) \in Nat
                 /\ Jumps(e, l) <=> Jumps(asm_buf, l) \/ Goes(j, l)
  BY <1>3, <1>8, CodeMore
<1>11. \A l : Is(j, l) = 0 /\ (Goes(j, l) => l = t.merge)
  BY <1>8, IsOther, OnlyJump
<1>12. Flow(g, d \o e, Between, Between)
  <2>1. {} \in SUBSET Outcomes /\ Outcomes \in SUBSET Outcomes
    OBVIOUS
  <2>2. Through(g, j, P(Outcomes), P({}))
    BY <1>3, <1>8, <1>9, <2>1, JmpAt
  <2>3. Flow(g, e, Between, Between)
    BY <1>3, <1>6, <1>7, <1>8, <2>2, FlowMore
  <2> QED
    BY <1>6, <2>3, FlowJoin
<1>13. \A l : Placed(l)'
  <2> DEFINE c == << >>
             N == {}
  <2>1. /\ IsSeq(c) /\ \A l : Owed(c, l) = 0 /\ ~ Wanted(c, l)
        /\ \A l : Ind(l, N) = 0 /\ l \notin N
        /\ walk' = c \o Tail(walk)
    BY <1>1, NoneIsSeq, OwedNone DEF Ind
  <2> HIDE DEF c, N
  <2>2. ASSUME NEW l
        PROVE  /\ Held(l)' \in Nat
               /\ Held(l)' + Owed(c, l) = Held(l) + Owes(t, l) + Ind(l, N)
    <3> DEFINE a == Labels(asm_buf, l)
               m == Labels(d, l)
               k == Labels(o, l)
               s == Held(l)'
    <3>1. a \in Nat /\ m \in Nat /\ k \in Nat
      BY <1>3, LabelsNat
    <3>2. Labels(e, l) = a + 0
      BY <1>10, <1>11
    <3>3. Labels(d \o e, l) = m + (a + 0)
      BY <1>3, <1>10, <3>2, CodeJoin
    <3>4. s = k + (m + (a + 0)) + 0
      BY <1>2, <3>3 DEF Held
    <3>5. Held(l) = a + m + k
      BY <1>2 DEF Held
    <3>6. Owed(c, l) = 0 /\ Owes(t, l) = 0 /\ Ind(l, N) = 0
      BY <1>1, <2>1, NoOwes
    <3> HIDE DEF a, m, k, s
    <3>7. s \in Nat /\ s + 0 = (a + m + k) + 0 + 0
      BY <3>1, <3>4
    <3> QED
      BY <3>5, <3>6, <3>7, Zenon DEF s
  <2>3. ASSUME NEW l
        PROVE  JumpsIn(l)' \/ Wanted(c, l) =>
                 JumpsIn(l) \/ Wants(t, l) \/ Owes(t, l) # 0 \/ l \in N
    <3>1. ~ Wanted(c, l)
      BY <2>1
    <3>2. JumpsIn(l)' => Jumps(o, l) \/ Jumps(d \o e, l)
      BY <1>2 DEF JumpsIn
    <3>3. Jumps(d \o e, l) => Jumps(d, l) \/ Jumps(asm_buf, l) \/ l = t.merge
      BY <1>3, <1>10, <1>11, CodeJoin
    <3>4. Jumps(o, l) \/ Jumps(d, l) \/ Jumps(asm_buf, l) => JumpsIn(l)
      BY <1>2 DEF JumpsIn
    <3>5. l = t.merge => Wants(t, l)
      BY <1>1, NoOwes
    <3> QED
      BY <3>1, <3>2, <3>3, <3>4, <3>5
  <2>4. ASSUME NEW l PROVE Old(l) => Old(l)'
    <3>1. ASSUME Old(l) PROVE l[2] \in Nat /\ l[2] < Size(Main')
      BY <1>1, <1>6, <1>7, <3>1 DEF Old
    <3> QED
      BY <3>1 DEF Old
  <2> QED
    BY <1>1, <2>1, <2>2, <2>3, <2>4, AnyCount
<1>14. NamesRight(g, walk')
  BY <1>1, <1>3, <1>6, NoneIsSeq, NamesShort, NamesPut
<1>15. Foresees(g)'
  <2>1. MainScope' = scope
    BY <1>2, <1>4 DEF MainScope
  <2> QED
    BY <1>6, <1>7, <2>1 DEF Foresees, h
<1>16. FlowFits(g)'
  BY <1>2, <1>4, <1>6, <1>7, <1>12 DEF FlowFits
<1>17. Remembers(g)'
  BY <1>6, <1>14, <1>15, <1>16 DEF Remembers
<1>18. Nest(walk, scope)'
  <2>1. AllIn(<< >>, scope)
    BY AllInShort
  <2> QED
    BY <1>1, <1>3, <2>1, NoneIsSeq, NestPut
<1>19. stage' # "run" /\ flag' = NoVal
  BY <1>1 DEF JumpInv
<1> QED
  BY <1>13, <1>17, <1>18, <1>19 DEF JumpInv

\* The code of b is where that of e begins.
Begins(b, e) == Len(b) <= Len(e) /\ \A i \in 1..Len(b) : e[i] = b[i]

LEMMA SizeGrows ==
    ASSUME NEW b, IsSeq(b), NEW e, IsSeq(e), Begins(b, e)
    PROVE  Size(b) <= Size(e)
<1> DEFINE C(s) == {i \in DOMAIN s : s[i].op \notin {"in", "val"}}
<1>1. /\ DOMAIN b = 1..Len(b) /\ Len(b) \in Nat
      /\ DOMAIN e = 1..Len(e) /\ Len(e) \in Nat
  BY SeqFacts
<1>2. C(b) \in SUBSET C(e)
  BY <1>1 DEF Begins
<1>3. IsFiniteSet(C(e))
  BY SizeIsNat
<1> HIDE DEF C
<1>4. Cardinality(C(b)) <= Cardinality(C(e))
  BY <1>2, <1>3, FS_Subset
<1> QED
  BY <1>4, SizeIs DEF C

\* The arms of a match that names every value are entered for every value: what
\* follows the last test is never reached.
LEMMA MatchEndJumps ==
    ASSUME BranchInv, BranchInv', JumpInv, MatchEnd
    PROVE  JumpInv'
<1> DEFINE t == walk[1]
           d == streams[1].arms
           x == Label(t.merge)
           b == asm_buf \o d
           e == Append(b, x)
           h == Height(scope)
           P(a) == Point(a, h)
<1>1. /\ stage = "gen" /\ t.k = "match" /\ t.arms = << >> /\ walk' = << >> \o Tail(walk)
      /\ scope' = scope /\ stage' = stage /\ flag' = flag
  BY DEF MatchEnd, AtTask, Emit, machine
<1>2. /\ InMatch /\ ~ InArm /\ ~ InMatch' /\ ~ InArm'
      /\ asm_buf' = b \o <<x>>
  <2>1. /\ InMatch /\ ~ InArm /\ ~ InMatch' /\ asm_buf' = b \o <<x>>
    BY MatchEndStep
  <2>2. ~ InArm'
    BY <2>1 DEF InMatch
  <2> QED
    BY <2>1, <2>2
<1>3. /\ IsSeq(asm_buf) /\ IsSeq(d) /\ IsSeq(walk) /\ walk # << >>
      /\ Nest(walk, scope) /\ h \in Nat /\ Start \in Points /\ Now \in Points /\ Now = P(Outcomes)
      /\ \A a \in SUBSET Outcomes : P(a) \in Points
      /\ Main = asm_buf
  BY <1>1, <1>2, HeadFacts, GenFacts
<1>4. OpenMatch = t /\ scope = t.scope
  BY <1>1, <1>2, OpenFacts, MatchFacts
<1>5. PICK g : Remembers(g)
  BY <1>1 DEF JumpInv
<1>6. /\ g \in [Nat -> Points] /\ NamesRight(g, walk)
      /\ PlainArms(t.arms, t.rest)
      /\ Flow(g, asm_buf, Start, P(t.rest)) /\ Flow(g, d, P({}), P({}))
      /\ \A m \in Nat : Size(asm_buf) <= m => g[m].h = h
  BY <1>2, <1>3, <1>4, <1>5 DEF Remembers, Foresees, MainScope, FlowFits, Compared, Between
<1>7. t.rest = {}
  <2>1. Len(t.arms) = 0
    BY <1>1
  <2> QED
    BY <1>6, <2>1 DEF PlainArms
<1>8. x = Label(t.merge) /\ x.op = "label" /\ OneMore(e, b, x)
  BY DEF Label, I, OneMore
<1>9. Leads(g, t.merge).o = Outcomes /\ Leads(g, t.merge).h = h
  <2>1. 1 \in 1..Len(walk)
    <3>1. Len(walk) \in Nat \ {0}
      BY <1>1, GenFacts
    <3> QED
      BY <3>1
  <2>2. NameRight(g, t)
    BY <1>6, <2>1 DEF NamesRight
  <2>3. t.merge[1] = "matchmerge" /\ g[t.merge[2]].h = h
    BY <1>1, <1>4, <2>2 DEF NameRight, Knows
  <2> QED
    BY <2>3, LeadsIs
<1> HIDE DEF x, h
<1>10. /\ IsSeq(b) /\ Flow(g, b, Start, P({}))
       /\ \A l : /\ Labels(b, l) = Labels(asm_buf, l) + Labels(d, l)
                 /\ Jumps(b, l) <=> Jumps(asm_buf, l) \/ Jumps(d, l)
       /\ Size(asm_buf) <= Size(b)
  <2>1. P({}) \in Points
    BY <1>3
  <2>2. Flow(g, b, Start, P({}))
    BY <1>3, <1>6, <1>7, <2>1, FlowJoin
  <2>3. \A l : /\ Labels(b, l) = Labels(asm_buf, l) + Labels(d, l)
               /\ Jumps(b, l) <=> Jumps(asm_buf, l) \/ Jumps(d, l)
    BY <1>3, CodeJoin
  <2>4. /\ Len(asm_buf) \in Nat /\ Len(d) \in Nat /\ Len(b) = Len(asm_buf) + Len(d)
        /\ \A i \in 1..Len(asm_buf) : b[i] = asm_buf[i]
    BY <1>3, JoinPlaces
  <2>5. IsSeq(b)
    BY <2>2 DEF Flow
  <2> HIDE DEF b
  <2>6. Begins(asm_buf, b)
    BY <2>4 DEF Begins
  <2>7. Size(asm_buf) <= Size(b)
    BY <1>3, <2>5, <2>6, SizeGrows
  <2> QED
    BY <2>2, <2>3, <2>5, <2>7
<1>11. asm_buf' = e
  BY <1>2, <1>10, AppendJoin
<1> HIDE DEF b, e
<1>12. /\ IsSeq(e) /\ Size(b) \in Nat /\ Size(e) = Size(b) + 1
       /\ \A l : /\ Labels(e, l) = Labels(b, l) + Is(x, l)
                 /\ Jumps(e, l) <=> Jumps(b, l) \/ Goes(x, l)
  BY <1>8, <1>10, CodeMore DEF Unit
<1>13. Flow(g, e, Start, Now)
  <2> DEFINE A == P(Outcomes)
  <2>1. Outcomes \in SUBSET Outcomes /\ {} \in SUBSET Outcomes
    OBVIOUS
  <2>2. Through(g, x, A, A)
    BY <1>3, <1>8, <1>9, <2>1, LabelAt
  <2>3. A \in Points /\ P({}) \in Points /\ Under(A, A) /\ Under(P({}), A)
    <3>1. A \in Points /\ P({}) \in Points
      BY <1>3, <2>1
    <3>2. A.h = h /\ P({}).h = h /\ P({}).o = {} /\ h <= h
      BY <1>3, AtIs
    <3> QED
      BY <3>1, <3>2, PointIs DEF Under
  <2> HIDE DEF A
  <2>4. Flow(g, b, Start, A)
    BY <1>3, <1>10, <2>3, PointIs, FlowEnds
  <2>5. Flow(g, e, Start, A)
    BY <1>3, <1>8, <2>2, <2>3, <2>4, FlowMore
  <2> QED
    BY <1>3, <2>5 DEF A
<1>14. Main' = e
  BY <1>2, <1>11 DEF Main
<1>15. \A l : Is(x, l) = Owes(t, l) /\ ~ Goes(x, l) /\ Owes(t, l) \in Nat
  BY <1>1, <1>8, IsLabel, NoOwes DEF Ind
<1>16. Size(asm_buf) \in Nat /\ Size(e) \in Nat /\ Size(asm_buf) < Size(e)
  <2>1. Size(asm_buf) \in Nat
    BY <1>3, SizeIsNat
  <2> QED
    BY <1>10, <1>12, <2>1
<1>17. \A l : Placed(l)'
  <2> DEFINE c == << >>
             N == {}
  <2>1. /\ IsSeq(c) /\ \A l : Owed(c, l) = 0 /\ ~ Wanted(c, l)
        /\ \A l : Ind(l, N) = 0 /\ l \notin N
        /\ walk' = c \o Tail(walk)
    BY <1>1, NoneIsSeq, OwedNone DEF Ind
  <2> HIDE DEF c, N
  <2>2. ASSUME NEW l
        PROVE  /\ Held(l)' \in Nat
               /\ Held(l)' + Owed(c, l) = Held(l) + Owes(t, l) + Ind(l, N)
    <3> DEFINE a == Labels(asm_buf, l)
               m == Labels(d, l)
               w == Owes(t, l)
               k == Labels(e, l)
               s == Held(l)'
    <3>1. a \in Nat /\ m \in Nat /\ w \in Nat
      BY <1>3, <1>15, LabelsNat
    <3>2. k = (a + m) + w
      <4>1. k = Labels(b, l) + Is(x, l) /\ Is(x, l) = w
        BY <1>12, <1>15
      <4>2. Labels(b, l) = a + m
        BY <1>10
      <4> QED
        BY <4>1, <4>2, Zenon
    <3>3. s = k + 0 + 0
      BY <1>2, <1>11 DEF Held
    <3>4. Held(l) = a + m + 0
      BY <1>2 DEF Held
    <3>5. Owed(c, l) = 0 /\ Ind(l, N) = 0
      BY <2>1
    <3> HIDE DEF a, m, w, k, s
    <3>6. s \in Nat /\ s + 0 = (a + m + 0) + w + 0
      BY <3>1, <3>2, <3>3
    <3> QED
      BY <3>4, <3>5, <3>6, Zenon DEF s, w
  <2>3. ASSUME NEW l
        PROVE  JumpsIn(l)' \/ Wanted(c, l) =>
                 JumpsIn(l) \/ Wants(t, l) \/ Owes(t, l) # 0 \/ l \in N
    <3>1. ~ Wanted(c, l)
      BY <2>1
    <3>2. JumpsIn(l)' => Jumps(e, l)
      BY <1>2, <1>11 DEF JumpsIn
    <3>3. Jumps(e, l) => Jumps(asm_buf, l) \/ Jumps(d, l)
      BY <1>10, <1>12, <1>15
    <3>4. Jumps(asm_buf, l) \/ Jumps(d, l) => JumpsIn(l)
      BY <1>2 DEF JumpsIn
    <3> QED
      BY <3>1, <3>2, <3>3, <3>4
  <2>4. ASSUME NEW l PROVE Old(l) => Old(l)'
    <3>1. ASSUME Old(l) PROVE l[2] \in Nat /\ l[2] < Size(Main')
      <4>1. l[2] \in Nat /\ (l[2] < Size(asm_buf) \/ l[2] = Size(asm_buf))
        BY <1>3, <3>1 DEF Old
      <4> QED
        BY <1>14, <1>16, <4>1
    <3> QED
      BY <3>1 DEF Old
  <2> QED
    BY <1>1, <2>1, <2>2, <2>3, <2>4, AnyCount
<1>18. NamesRight(g, walk')
  BY <1>1, <1>3, <1>6, NoneIsSeq, NamesShort, NamesPut
<1>19. Foresees(g)'
  <2>1. MainScope' = scope
    BY <1>1, <1>2 DEF MainScope
  <2>2. ASSUME NEW m \in Nat, Size(e) <= m PROVE g[m].h = h
    <3>1. Size(asm_buf) <= m
      BY <1>16, <2>2
    <3> QED
      BY <1>6, <3>1
  <2> QED
    BY <1>14, <2>1, <2>2 DEF Foresees, h
<1>20. FlowFits(g)'
  <2>1. Now' = Now
    BY <1>1 DEF Now
  <2> QED
    BY <1>2, <1>11, <1>13, <2>1 DEF FlowFits
<1>21. Remembers(g)'
  BY <1>6, <1>18, <1>19, <1>20 DEF Remembers
<1>22. Nest(walk, scope)'
  <2>1. AllIn(<< >>, scope)
    BY AllInShort
  <2> QED
    BY <1>1, <1>3, <2>1, NoneIsSeq, NestPut
<1>23. stage' # "run" /\ flag' = NoVal
  BY <1>1 DEF JumpInv
<1> QED
  BY <1>17, <1>21, <1>22, <1>23 DEF JumpInv
-----------------------------------------------------------------------------
(* The code is run *)

\* The walk is at its end: nothing is promised any more.
LEMMA EndFuncJumps ==
    ASSUME BranchInv, BranchInv', JumpInv, EndFunc
    PROVE  JumpInv'
<1> DEFINE t == walk[1]
<1>1. /\ stage = "gen" /\ t.k = "block" /\ t.depth = 0
      /\ stage' = "run" /\ asm_buf' = asm_buf /\ pc' = pc /\ flag' = flag /\ sp' = sp
  BY DEF EndFunc, AtTask, machine
<1>2. ~ InMatch /\ ~ InArm /\ IsSeq(asm_buf) /\ pc = 1 /\ sp = 0
  BY EndFuncStep DEF InMatch
<1>3. Len(walk) = 1
  <2>1. AtTask("block")
    BY DEF EndFunc
  <2>2. Opens(t)
    BY <1>2, <2>1, BlockFacts DEF InMatch
  <2>3. Bottom(t)
    BY <1>1, <2>2 DEF Bottom
  <2>4. Len(walk) \in Nat \ {0} /\ ~ (Len(walk) > 1)
    BY <1>1, <2>3, WalkFacts
  <2>5. \A n \in Nat \ {0} : ~ (n > 1) => n = 1
    OBVIOUS
  <2> QED
    BY <2>4, <2>5, Zenon
<1>4. PICK g : Remembers(g)
  BY <1>1 DEF JumpInv
<1>5. g \in [Nat -> Points] /\ Flow(g, asm_buf, Start, Now)
  BY <1>1, <1>2, <1>4, OutsideFacts
<1>6. PICK F \in [Nat -> Points] : Passes(g, asm_buf, F) /\ Under(Start, F[1])
  BY <1>5 DEF Flow
<1>7. flag \in F[1].o /\ F[1].h <= 0
  <2>1. flag \in Outcomes
    BY <1>1 DEF JumpInv, Outcomes
  <2>2. Start.o = Outcomes /\ Start.h = 0
    BY AtIs DEF Start
  <2> QED
    BY <1>6, <2>1, <2>2 DEF Under
<1>8. ASSUME NEW l
      PROVE  /\ Labels(asm_buf, l) <= 1
             /\ Jumps(asm_buf, l) => Labels(asm_buf, l) = 1 /\ l[2] \in Nat
  <2>1. Owed(walk, l) = 0
    <3>1. \A i : i \in 1..Len(walk) <=> i = 1
      BY <1>3
    <3>2. Promise(t) # Label(l)
      <4>1. Promise(t) = Test
        BY <1>1 DEF Promise
      <4>2. Test.op = "test" /\ Label(l).op = "label"
        BY DEF Test, Label, I
      <4> QED
        BY <4>1, <4>2
    <3>3. OwedPlaces(walk, l) = {}
      BY <3>1, <3>2 DEF OwedPlaces
    <3> QED
      BY <3>3, FS_EmptySet DEF Owed
  <2>2. Labels(asm_buf, l) \in Nat
    BY <1>2, LabelsNat
  <2>3. Total(l) = Labels(asm_buf, l)
    BY <1>2, <2>1, <2>2 DEF Total, Held
  <2>4. Jumps(asm_buf, l) => Asked(l)
    BY DEF Asked
  <2>5. Placed(l) /\ (Old(l) => l[2] \in Nat)
    BY <1>1 DEF JumpInv, Old
  <2> QED
    BY <2>3, <2>4, <2>5 DEF Placed
<1>9. CodeFits'
  <2>1. pc' = 1 /\ sp' = 0 /\ flag' = flag /\ asm_buf' = asm_buf
    BY <1>1, <1>2
  <2>2. Passes(g, asm_buf', F) /\ flag' \in F[pc'].o /\ F[pc'].h <= sp'
    BY <1>6, <1>7, <2>1
  <2>3. \A l : /\ Labels(asm_buf', l) <= 1
               /\ Jumps(asm_buf', l) => Labels(asm_buf', l) = 1 /\ l[2] \in Nat
    BY <1>8, <2>1
  <2>4. IsSeq(asm_buf')
    BY <1>2, <2>1
  <2>5. \E g1 \in [Nat -> Points], F1 \in [Nat -> Points] :
           Passes(g1, asm_buf', F1) /\ flag' \in F1[pc'].o /\ F1[pc'].h <= sp'
    BY <1>5, <1>6, <2>2
  <2> QED
    BY <2>3, <2>4, <2>5 DEF CodeFits
<1> QED
  BY <1>1, <1>9 DEF JumpInv

\* A jump leads to where the point its label promises begins.
LEMMA JumpLands ==
    ASSUME NEW g \in [Nat -> Points], NEW F \in [Nat -> Points], Passes(g, asm_buf, F),
           IsSeq(asm_buf), NEW l, NEW t \in Target(l)
    PROVE  t \in 1..Len(asm_buf) /\ Under(Leads(g, l), F[t])
<1>1. t \in 1..Len(asm_buf) /\ asm_buf[t] = Label(l)
  BY SeqFacts DEF Target
<1>2. Through(g, asm_buf[t], F[t], F[t + 1])
  BY <1>1 DEF Passes
<1> QED
  BY <1>1, <1>2 DEF Through

LEMMA ExecJumps ==
    ASSUME BranchInv, BranchInv', JumpInv, Exec
    PROVE  JumpInv'
<1> DEFINE i == asm_buf[pc]
           jump == \/ i.op = "jmp"
                   \/ i.op = "je" /\ flag = i.val
                   \/ i.op = "jne" /\ flag # i.val
<1>1. /\ stage = "run" /\ stage' = stage /\ pc <= Len(asm_buf) /\ asm_buf' = asm_buf
      /\ IF jump THEN \E t \in Target(i.lbl) : pc' = t ELSE pc' = pc + 1
      /\ IF i.op \in {"cmp", "val"} THEN flag' \in i.slots ELSE flag' = flag
      /\ sp' = IF i.op = "push" THEN sp + 1 ELSE sp
  BY DEF Exec
<1>2. CodeFits
  BY <1>1 DEF JumpInv
<1>3. PICK g \in [Nat -> Points], F \in [Nat -> Points] :
        Passes(g, asm_buf, F) /\ flag \in F[pc].o /\ F[pc].h <= sp
  BY <1>2 DEF CodeFits
<1>4. /\ IsSeq(asm_buf) /\ Len(asm_buf) \in Nat
      /\ pc \in 1..Len(asm_buf) /\ sp \in Nat
  <2>1. IsSeq(asm_buf) /\ Len(asm_buf) \in Nat
    BY <1>2, SeqFacts DEF CodeFits
  <2>2. pc \in Nat \ {0} /\ sp \in Nat
    BY <1>1 DEF BranchInv
  <2> QED
    BY <1>1, <2>1, <2>2
<1>5. Through(g, i, F[pc], F[pc + 1])
  BY <1>3, <1>4 DEF Passes
<1> HIDE DEF i
<1>6. F[pc].h \in Nat /\ F[pc + 1].h \in Nat
  BY <1>3, <1>4 DEF Points
<1>7. flag' \in F[pc'].o /\ F[pc'].h <= sp'
  <2>1. CASE jump
    <3>1. PICK t \in Target(i.lbl) : pc' = t
      BY <1>1, <2>1
    <3>2. t \in 1..Len(asm_buf) /\ Under(Leads(g, i.lbl), F[t])
      BY <1>3, <1>4, <3>1, JumpLands
    <3>3. /\ Leads(g, i.lbl).o \subseteq F[t].o
          /\ F[t].h <= Leads(g, i.lbl).h
      BY <3>2 DEF Under
    <3>4. flag \in Leads(g, i.lbl).o /\ Leads(g, i.lbl).h <= F[pc].h
      BY <1>3, <1>5, <2>1 DEF Through
    <3>5. flag' = flag /\ sp' = sp
      BY <1>1, <2>1
    <3>6. F[t].h \in Nat /\ Leads(g, i.lbl).h \in Nat
      <4>1. F[t].h \in Nat
        BY <1>4, <3>2 DEF Points
      <4>2. i.lbl[2] \in Nat
        <5>1. Jumps(asm_buf, i.lbl)
          BY <1>4, <2>1 DEF Jumps, Goes, i
        <5> QED
          BY <1>2, <5>1 DEF CodeFits
      <4>3. Leads(g, i.lbl).h = g[i.lbl[2]].h
        BY LeadsIs
      <4> QED
        BY <4>1, <4>2, <4>3 DEF Points
    <3> QED
      BY <1>3, <1>4, <1>6, <3>1, <3>3, <3>4, <3>5, <3>6
  <2>2. CASE ~ jump
    <3>1. pc' = pc + 1
      BY <1>1, <2>2
    <3>2. flag' \in F[pc + 1].o
      <4>1. CASE i.op \in {"cmp", "val"}
        BY <1>1, <1>5, <4>1 DEF Through
      <4>2. CASE i.op \in {"je", "jne"}
        <5>1. flag' = flag
          BY <1>1, <4>2
        <5> QED
          BY <1>3, <1>5, <2>2, <4>2, <5>1 DEF Through
      <4>3. CASE i.op \notin {"cmp", "val", "jmp", "je", "jne"}
        <5>1. flag' = flag
          BY <1>1, <4>3
        <5> QED
          BY <1>3, <1>5, <4>3, <5>1 DEF Through
      <4> QED
        BY <2>2, <4>1, <4>2, <4>3
    <3>3. F[pc + 1].h <= sp'
      <4>1. CASE i.op = "push"
        <5>1. sp' = sp + 1 /\ F[pc + 1].h <= F[pc].h + 1
          BY <1>1, <1>5, <4>1 DEF Through
        <5> QED
          BY <1>3, <1>4, <1>6, <5>1
      <4>2. CASE i.op # "push"
        <5>1. sp' = sp /\ F[pc + 1].h <= F[pc].h
          BY <1>1, <1>5, <2>2, <4>2 DEF Through
        <5> QED
          BY <1>3, <1>4, <1>6, <5>1
      <4> QED
        BY <4>1, <4>2
    <3> QED
      BY <3>1, <3>2, <3>3
  <2> QED
    BY <2>1, <2>2
<1>8. CodeFits'
  BY <1>1, <1>2, <1>3, <1>7 DEF CodeFits
<1> QED
  BY <1>1, <1>8 DEF JumpInv

-----------------------------------------------------------------------------
(* The theorems *)

LEMMA JumpStart ==
    ASSUME BranchInit PROVE JumpInv
<1> DEFINE t == Block(0, FALSE)
           w == <<t>>
           none == << >>
           A == Point(Outcomes, 0)
           g == [m \in Nat |-> A]
<1>1. asm_buf = none /\ walk = w /\ stage = "gen" /\ flag = NoVal /\ scope = {}
  BY DEF BranchInit
<1>2. t.k = "block" /\ t.arm = FALSE
  BY DEF Block
<1>3. IsSeq(none) /\ \A l : Labels(none, l) = 0 /\ ~ Jumps(none, l)
  BY NoneIsSeq, NoCode
<1>4. A \in Points /\ A.h = 0 /\ Under(A, A)
  <2>1. Outcomes \in SUBSET Outcomes /\ 0 \in Nat
    OBVIOUS
  <2> QED
    BY <2>1, AtIs, PointIs
<1>5. A = Start
  BY DEF Start
<1> HIDE DEF t, none, A
<1>6. g \in [Nat -> Points] /\ \A m \in Nat : g[m].h = 0
  BY <1>4
<1> HIDE DEF g
<1>7. Flow(g, none, Start, A)
  BY <1>4, <1>5, FlowNone DEF none
<1>8. IsSeq(w) /\ Len(w) = 1 /\ w[1] = t
  BY Tuples
<1>9. NamesRight(g, w)
  BY <1>2, NamesShort DEF NameRight
<1>10. \A l : Owed(w, l) = Owes(t, l) /\ (Wanted(w, l) <=> Wants(t, l))
  BY OwedOne, Zenon
<1>11. \A l : Owes(t, l) = 0 /\ ~ Wants(t, l)
  BY <1>2, NoOwes
<1> HIDE DEF w
<1>12. ~ InMatch /\ ~ InArm
  BY <1>1, <1>2, <1>8 DEF InMatch, InArm, ArmBlock
<1>13. Now = A /\ MainScope = {}
  BY <1>1, <1>5, <1>12, HeightNone DEF Now, Start, MainScope
<1>14. Foresees(g)
  BY <1>6, <1>13, HeightNone DEF Foresees
<1>15. FlowFits(g)
  BY <1>1, <1>7, <1>12, <1>13 DEF FlowFits
<1>16. Remembers(g)
  BY <1>1, <1>6, <1>9, <1>14, <1>15 DEF Remembers
<1>17. ASSUME NEW l PROVE Placed(l)
  <2>1. Total(l) = 0
    BY <1>1, <1>3, <1>10, <1>11, <1>12 DEF Total, Held
  <2>2. ~ Asked(l)
    BY <1>1, <1>3, <1>10, <1>11, <1>12 DEF Asked
  <2> QED
    BY <2>1, <2>2 DEF Placed
<1>18. Nest(walk, scope)
  <2>1. \A i : i \in 1..Len(w) <=> i = 1
    BY <1>8
  <2> QED
    BY <1>1, <1>2, <1>8, <2>1 DEF Nest
<1> QED
  BY <1>1, <1>16, <1>17, <1>18 DEF JumpInv

LEMMA JumpNextStep ==
    ASSUME BranchInv, BranchInv', JumpInv, [BranchNext]_brvars,
           NestInArms = FALSE, PlainMatches
    PROVE  JumpInv'
<1>1. CASE StmtLet
  BY <1>1, LetJumps
<1>2. CASE StmtCall
  BY <1>2, CallJumps
<1>3. CASE EndBlock
  BY <1>3, EndBlockJumps
<1>4. ASSUME NEW else \in BOOLEAN, StmtIf(else) PROVE JumpInv'
  BY <1>4, IfJumps
<1>5. CASE Then
  BY <1>5, ThenJumps
<1>6. CASE Merge
  BY <1>6, MergeJumps
<1>7. CASE StmtWhile
  BY <1>7, WhileJumps
<1>8. CASE WhileEnd
  BY <1>8, WhileEndJumps
<1>9. ASSUME NEW arms \in Matches, StmtMatch(arms) PROVE JumpInv'
  BY <1>9, MatchJumps
<1>10. CASE gen_match_arm
  BY <1>10, ArmStartJumps
<1>11. CASE ArmEnd
  BY <1>11, ArmEndJumps
<1>12. CASE MatchEnd
  BY <1>12, MatchEndJumps
<1>13. CASE EndFunc
  BY <1>13, EndFuncJumps
<1>14. CASE Exec
  BY <1>14, ExecJumps
<1>15. CASE Leave
  <2>1. stage' # "gen" /\ stage' # "run"
    BY <1>15 DEF Leave
  <2> QED
    BY <2>1 DEF JumpInv
<1>16. CASE UNCHANGED brvars
  <2>1. /\ asm_buf' = asm_buf /\ streams' = streams /\ walk' = walk /\ stage' = stage
        /\ pc' = pc /\ flag' = flag /\ sp' = sp /\ scope' = scope
    BY <1>16 DEF brvars
  <2>2. /\ (InArm' <=> InArm) /\ (InMatch' <=> InMatch) /\ Main' = Main
        /\ OpenMatch' = OpenMatch /\ Now' = Now
    BY <2>1 DEF InMatch, InArm, Main, OpenMatch, Now
  <2>3. Compared' = Compared /\ Between' = Between /\ MainScope' = MainScope
    BY <2>1, <2>2 DEF Compared, Between, MainScope
  <2>4. ASSUME NEW g PROVE Remembers(g)' <=> Remembers(g)
    <3>1. FlowFits(g)' <=> FlowFits(g)
      BY <2>1, <2>2, <2>3 DEF FlowFits
    <3>2. Foresees(g)' <=> Foresees(g)
      BY <2>2, <2>3 DEF Foresees
    <3> QED
      BY <2>1, <3>1, <3>2 DEF Remembers
  <2>5. ASSUME NEW l PROVE Placed(l)' <=> Placed(l)
    <3>1. Total(l)' = Total(l)
      BY <2>1, <2>2 DEF Total, Held
    <3>2. Asked(l)' <=> Asked(l)
      BY <2>1, <2>2 DEF Asked
    <3>3. Old(l)' <=> Old(l)
      BY <2>1, <2>2 DEF Old
    <3> QED
      BY <3>1, <3>2, <3>3 DEF Placed
  <2>6. CodeFits' <=> CodeFits
    BY <2>1 DEF CodeFits
  <2> QED
    BY <2>1, <2>4, <2>5, <2>6 DEF JumpInv
<1> QED
  BY <1>1, <1>2, <1>3, <1>4, <1>5, <1>6, <1>7, <1>8, <1>9, <1>10, <1>11, <1>12,
     <1>13, <1>14, <1>15, <1>16 DEF BranchNext

\* What is known of the running code at its next instruction.
LEMMA RunFacts ==
    ASSUME BranchInv, JumpInv, stage = "run", pc <= Len(asm_buf)
    PROVE  \E g : \E A \in Points, B \in Points :
              Through(g, asm_buf[pc], A, B) /\ flag \in A.o /\ A.h <= sp
<1>1. CodeFits
  BY DEF JumpInv
<1>2. PICK g \in [Nat -> Points], F \in [Nat -> Points] :
        Passes(g, asm_buf, F) /\ flag \in F[pc].o /\ F[pc].h <= sp
  BY <1>1 DEF CodeFits
<1>3. pc \in 1..Len(asm_buf)
  <2>1. Len(asm_buf) \in Nat
    BY <1>1, SeqFacts DEF CodeFits
  <2>2. pc \in Nat \ {0}
    BY DEF BranchInv
  <2> QED
    BY <2>1, <2>2
<1>4. Through(g, asm_buf[pc], F[pc], F[pc + 1])
  BY <1>2, <1>3 DEF Passes
<1>5. F[pc] \in Points /\ F[pc + 1] \in Points
  BY <1>3
<1> QED
  BY <1>2, <1>4, <1>5

LEMMA JumpSafe ==
    ASSUME BranchInv, JumpInv PROVE JumpsRight
<1>1. ASSUME stage = "run", NEW i \in DOMAIN asm_buf, asm_buf[i].op \in {"jmp", "je", "jne"}
      PROVE  \E t \in DOMAIN asm_buf : Target(asm_buf[i].lbl) = {t}
  <2> DEFINE l == asm_buf[i].lbl
             P == LabelPlaces(asm_buf, l)
  <2>1. CodeFits
    BY <1>1 DEF JumpInv
  <2>2. IsSeq(asm_buf) /\ DOMAIN asm_buf = 1..Len(asm_buf)
    BY <2>1, SeqFacts DEF CodeFits
  <2>3. Jumps(asm_buf, l)
    BY <1>1, <2>2 DEF Jumps, Goes
  <2>4. Labels(asm_buf, l) = 1
    BY <2>1, <2>3 DEF CodeFits
  <2>5. IsFiniteSet(P) /\ Cardinality(P) = 1
    BY <2>2, <2>4, LabelsNat DEF Labels
  <2>6. Target(l) = P /\ P \in SUBSET DOMAIN asm_buf
    BY <2>2 DEF Target, LabelPlaces
  <2> HIDE DEF P, l
  <2>7. \E t : P = {t}
    BY <2>5, FS_Singleton
  <2> QED
    BY <2>6, <2>7 DEF l
<1>2. LabelsUnique
  BY <1>1 DEF LabelsUnique
<1>3. ASSUME stage = "run", pc <= Len(asm_buf), asm_buf[pc].op = "in"
      PROVE  flag \in asm_buf[pc].slots
  BY <1>3, RunFacts DEF Through
<1>4. RightBlock
  BY <1>3 DEF RightBlock
<1> QED
  BY <1>2, <1>4 DEF JumpsRight

LEMMA StackSafe ==
    ASSUME BranchInv, JumpInv PROVE VarsOnStack
<1> SUFFICES ASSUME stage = "run", pc <= Len(asm_buf), asm_buf[pc].op = "call",
                    NEW v \in asm_buf[pc].slots, 1..v \subseteq asm_buf[pc].slots
             PROVE  v <= sp
  BY DEF VarsOnStack
<1> DEFINE x == asm_buf[pc]
<1>1. PICK g : \E A \in Points, B \in Points :
              Through(g, x, A, B) /\ flag \in A.o /\ A.h <= sp
  BY RunFacts
<1>2. PICK A \in Points, B \in Points : Through(g, x, A, B) /\ A.h <= sp
  BY <1>1
<1>3. v \in Nat /\ v <= A.h
  BY <1>2 DEF Through
<1>4. A.h \in Nat /\ sp \in Nat
  BY DEF Points, BranchInv
<1> QED
  BY <1>2, <1>3, <1>4

\* Every jump of the finished code has exactly one target, and every block is
\* entered with the outcome of the comparison that leads there: for every
\* function, of any number of statements nested to any depth and whatever its
\* blocks declare, whose matches name every value in arms that compare nothing
\* but it, and whose arms hold no control flow.
THEOREM JumpsStayRight ==
    ASSUME NestInArms = FALSE, PlainMatches
    PROVE  BranchSpec => []JumpsRight
<1> DEFINE Both == BranchInv /\ JumpInv
<1>1. BranchInit => Both
  BY BranchStart, JumpStart
<1>2. Both /\ [BranchNext]_brvars => Both'
  BY BranchNextStep, JumpNextStep
<1>3. Both => JumpsRight
  BY JumpSafe
<1> QED
  BY <1>1, <1>2, <1>3, PTL DEF BranchSpec

\* Whatever path leads to a call, and whatever the blocks on it pushed, the
\* variables in scope below which there is no slot of a block that has ended are
\* above the stack pointer: for the same functions.
THEOREM VarsStayOnStack ==
    ASSUME NestInArms = FALSE, PlainMatches
    PROVE  BranchSpec => []VarsOnStack
<1> DEFINE Both == BranchInv /\ JumpInv
<1>1. BranchInit => Both
  BY BranchStart, JumpStart
<1>2. Both /\ [BranchNext]_brvars => Both'
  BY BranchNextStep, JumpNextStep
<1>3. Both => VarsOnStack
  BY StackSafe
<1> QED
  BY <1>1, <1>2, <1>3, PTL DEF BranchSpec
=============================================================================
