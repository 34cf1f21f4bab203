--------------------------- MODULE InternerProofs ---------------------------
(***************************************************************************)
(* The interner for any number of threads and any names.                   *)
(***************************************************************************)
EXTENDS Interner, SequenceTheorems, FiniteSetTheorems, TLAPS

-----------------------------------------------------------------------------
(* The inductive invariant *)

\* The next token, map.len(), is the next free place of the table.
TableInv ==
    /\ IsFiniteSet(DOMAIN map)
    /\ Cardinality(DOMAIN map) = Len(vec)

\* The current buffer is the newest one, and what lies in it lies before its
\* end.
BufferInv ==
    /\ buf.gen >= 1
    /\ \A i \in 1..Len(vec) :
         /\ vec[i].gen <= buf.gen
         /\ vec[i].gen = buf.gen => Ends(vec[i]) <= buf.len
         /\ Live(vec[i])

\* What threads hold came out of the table.
ViewInv == \A t \in Thread : \A s \in view[t] : \E i \in 1..Len(vec) : s = vec[i]

IInv ==
    /\ TypeOK
    /\ TableInv
    /\ TokensUnique
    /\ IdentsStable
    /\ BufferInv
    /\ ViewInv
    /\ SlicesDisjoint

\* The interner's own state, which all of IInv but the threads' part is about.
TableOK ==
    /\ DOMAIN map \subseteq Name
    /\ \A n \in DOMAIN map : map[n] \in Nat
    /\ vec \in Seq(Slice)
    /\ buf \in Buffer
    /\ full \subseteq 1..(buf.gen - 1)
    /\ TableInv
    /\ TokensUnique
    /\ BufferInv
    /\ SlicesDisjoint

-----------------------------------------------------------------------------
(* alloc *)

\* A name is copied behind everything in the current buffer, or into a newer
\* one after the old one has been kept; a String never has to grow in place.
LEMMA AllocFacts ==
    ASSUME TableOK, NEW name \in Name, NEW a \in alloc(name)
    PROVE  /\ a.buf \in Buffer
           /\ a.start \in Nat
           /\ a.buf.len = a.start + Length[name]
           /\ \/ /\ a.buf.gen = buf.gen /\ a.full = full
                 /\ a.start = buf.len
              \/ /\ a.buf.gen = buf.gen + 1 /\ a.full = full \cup {buf.gen}
                 /\ a.start = 0
<1> DEFINE n == Length[name]
<1>1. n \in Nat
  BY InternerAssumption
<1> HIDE DEF n
<1>2. buf \in Buffer /\ buf.gen \in Nat /\ buf.len \in Nat /\ buf.cap \in Nat
  BY DEF TableOK, Buffer
<1>3. CASE NoRoom(buf, n)
  <2>1. PICK c \in PowersOfTwo :
          /\ Larger(buf.cap, n) + 1 <= c
          /\ LET b == [gen |-> buf.gen + 1, len |-> 0, cap |-> c]
             IN  a = [buf |-> Filled(b, n), full |-> Retire(buf), start |-> StartOf(b)]
    BY <1>3 DEF alloc, IsNextPowerOfTwo, n
  <2> DEFINE b == [gen |-> buf.gen + 1, len |-> 0, cap |-> c]
  <2>2. c \in Nat /\ n <= c
    BY <1>1, <1>2, <2>1, InternerAssumption DEF Larger
  <2>3. b.len + n <= b.cap
    BY <1>1, <2>2
  <2>4. Filled(b, n) = [gen |-> buf.gen + 1, len |-> n, cap |-> c]
    BY <1>1, <2>3 DEF Filled
  <2>5. a = [buf |-> [gen |-> buf.gen + 1, len |-> n, cap |-> c],
             full |-> full \cup {buf.gen}, start |-> 0]
    BY <2>1, <2>4 DEF Retire, StartOf
  <2> QED
    BY <1>1, <1>2, <2>2, <2>5 DEF Buffer, n
<1>4. CASE ~ NoRoom(buf, n)
  <2>1. a = [buf |-> Filled(buf, n), full |-> full, start |-> buf.len]
    BY <1>4 DEF alloc, StartOf, n
  <2>2. Filled(buf, n) = [buf EXCEPT !.len = buf.len + n]
    BY <1>1, <1>2, <1>4 DEF NoRoom, Filled
  <2>3. /\ Filled(buf, n) \in Buffer
        /\ Filled(buf, n).gen = buf.gen /\ Filled(buf, n).len = buf.len + n
    BY <1>1, <1>2, <2>2 DEF Buffer
  <2> QED
    BY <1>2, <2>1, <2>3 DEF n
<1> QED
  BY <1>3, <1>4

-----------------------------------------------------------------------------
(* intern *)

\* What a call of intern gives its caller and leaves to everyone else: the
\* table only grows, and the token it returns is the place of the name.
Extends(name) ==
    /\ Len(vec) <= Len(vec')
    /\ \A i \in 1..Len(vec) : vec'[i] = vec[i]
    /\ Token(name) \in Nat
    /\ Token(name) + 1 \in 1..Len(vec')
    /\ vec'[Token(name) + 1].name = name

\* A name that is already there.
LEMMA InternKnown ==
    ASSUME TableOK, NEW name \in Name, Known(name),
           UNCHANGED <<map, vec, buf, full>>
    PROVE  TableOK' /\ Extends(name)
<1>1. TableOK'
  BY DEF TableOK, TableInv, TokensUnique, BufferInv, SlicesDisjoint, Live, Ends
<1>2. Token(name) = map[name] /\ name \in DOMAIN map
  BY DEF Token, Known
<1>3. /\ map[name] \in Nat /\ map[name] + 1 \in 1..Len(vec)
      /\ vec[map[name] + 1].name = name
      /\ Len(vec) \in Nat
  <2>1. /\ \A n \in DOMAIN map : map[n] \in Nat
        /\ \A n \in DOMAIN map : map[n] + 1 \in 1..Len(vec) /\ vec[map[n] + 1].name = n
    BY DEF TableOK, TokensUnique
  <2>2. Len(vec) \in Nat
    BY DEF TableOK
  <2> QED
    BY <1>2, <2>1, <2>2, Zenon
<1>4. Extends(name)
  BY <1>2, <1>3 DEF Extends
<1> QED
  BY <1>1, <1>4

\* A new name takes the next place.
LEMMA InternNew ==
    ASSUME TableOK, NEW name \in Name, ~ Known(name), NEW a \in alloc(name),
           map' = [n \in DOMAIN map \cup {name} |-> IF n = name THEN NewToken ELSE map[n]],
           buf' = a.buf, full' = a.full,
           vec' = Append(vec, [name |-> name, gen |-> a.buf.gen, start |-> a.start])
    PROVE  TableOK' /\ Extends(name)
<1> DEFINE s == [name |-> name, gen |-> a.buf.gen, start |-> a.start]
           k == Len(vec) + 1
<1>1. /\ a.buf \in Buffer /\ a.start \in Nat
      /\ a.buf.len = a.start + Length[name]
      /\ \/ a.buf.gen = buf.gen /\ a.full = full /\ a.start = buf.len
         \/ a.buf.gen = buf.gen + 1 /\ a.full = full \cup {buf.gen} /\ a.start = 0
  BY AllocFacts
<1>2. /\ buf \in Buffer /\ buf.gen \in Nat /\ buf.len \in Nat
      /\ a.buf.gen \in Nat /\ a.buf.len \in Nat
      /\ Length[name] \in Nat
  BY <1>1, InternerAssumption DEF TableOK, Buffer
<1>3. s \in Slice /\ s.name = name /\ s.gen = a.buf.gen /\ s.start = a.start
  BY <1>1, <1>2 DEF Slice
<1>4. /\ vec \in Seq(Slice) /\ Len(vec) \in Nat /\ vec' = Append(vec, s)
  BY DEF TableOK
<1> HIDE DEF s
<1>5. /\ vec' \in Seq(Slice) /\ Len(vec') = k /\ vec'[k] = s
      /\ \A i \in 1..Len(vec) : vec'[i] = vec[i]
  BY <1>3, <1>4
<1>6. \A i \in 1..Len(vec) : /\ vec[i] \in Slice /\ vec[i].gen \in Nat
                             /\ vec[i].start \in Nat /\ vec[i].name \in Name
                             /\ Ends(vec[i]) \in Nat
  <2> SUFFICES ASSUME NEW i \in 1..Len(vec)
               PROVE  /\ vec[i] \in Slice /\ vec[i].gen \in Nat
                      /\ vec[i].start \in Nat /\ vec[i].name \in Name
                      /\ Ends(vec[i]) \in Nat
    OBVIOUS
  <2>1. vec[i] \in Slice
    BY <1>4
  <2>2. vec[i].gen \in Nat /\ vec[i].start \in Nat /\ vec[i].name \in Name
    BY <2>1 DEF Slice
  <2> QED
    BY <2>1, <2>2, InternerAssumption DEF Ends
<1>7. NewToken = Len(vec) /\ name \notin DOMAIN map
  BY DEF NewToken, TableOK, TableInv, Known
<1>8. DOMAIN map' = DOMAIN map \cup {name}
  OBVIOUS
<1>9. /\ map'[name] = Len(vec)
      /\ \A n \in DOMAIN map : map'[n] = map[n]
  BY <1>7
<1>10. TableInv'
  <2>1. /\ IsFiniteSet(DOMAIN map \cup {name})
        /\ Cardinality(DOMAIN map \cup {name}) = Cardinality(DOMAIN map) + 1
    BY <1>7, FS_AddElement DEF TableOK, TableInv
  <2> QED
    BY <1>5, <1>8, <2>1 DEF TableOK, TableInv
<1>11. TokensUnique'
  <2>1. ASSUME NEW i \in 1..k
        PROVE  vec'[i].name \in DOMAIN map' /\ map'[vec'[i].name] = i - 1
    <3>1. CASE i = k
      BY <1>3, <1>4, <1>5, <1>8, <1>9, <3>1
    <3>2. CASE i \in 1..Len(vec)
      <4>1. vec[i].name \in DOMAIN map /\ map[vec[i].name] = i - 1
        BY <3>2 DEF TableOK, TokensUnique
      <4> QED
        BY <1>5, <1>8, <1>9, <3>2, <4>1
    <3> QED
      BY <1>4, <3>1, <3>2
  <2>2. \A n \in DOMAIN map' : map'[n] + 1 \in 1..k /\ vec'[map'[n] + 1].name = n
    BY <1>3, <1>4, <1>5, <1>8, <1>9 DEF TableOK, TokensUnique
  <2> QED
    BY <1>5, <2>1, <2>2 DEF TokensUnique
<1>12. BufferInv'
  <2>1. buf'.gen >= 1 /\ buf'.gen \in Nat
    BY <1>1, <1>2 DEF TableOK, BufferInv
  <2>2. ASSUME NEW i \in 1..Len(vec)
        PROVE  /\ vec'[i].gen <= buf'.gen
               /\ vec'[i].gen = buf'.gen => vec'[i].start + Length[vec'[i].name] <= buf'.len
               /\ vec'[i].gen \in {0, buf'.gen} \cup full'
    BY SMTT(60), <1>1, <1>2, <1>5, <1>6 DEF TableOK, BufferInv, Ends, Live
  <2>3. /\ s.gen <= buf'.gen /\ s.start + Length[s.name] <= buf'.len
        /\ s.gen \in {0, buf'.gen} \cup full'
    BY <1>1, <1>2, <1>3
  <2>4. ASSUME NEW i \in 1..k
        PROVE  /\ vec'[i].gen <= buf'.gen
               /\ vec'[i].gen = buf'.gen => vec'[i].start + Length[vec'[i].name] <= buf'.len
               /\ vec'[i].gen \in {0, buf'.gen} \cup full'
    <3>1. CASE i = k
      BY <1>5, <2>3, <3>1
    <3>2. CASE i \in 1..Len(vec)
      BY <2>2, <3>2
    <3> QED
      BY <1>4, <3>1, <3>2
  <2> QED
    BY <1>5, <2>1, <2>4 DEF BufferInv, Ends, Live
<1>13. SlicesDisjoint'
  <2>1. ASSUME NEW i \in 1..Len(vec), vec[i].gen = s.gen
        PROVE  Ends(vec[i]) <= s.start
    BY <1>1, <1>2, <1>3, <1>6, <2>1 DEF TableOK, BufferInv
  <2>2. ASSUME NEW i \in 1..k, NEW j \in 1..k,
               i # j, vec'[i].gen # 0, vec'[i].gen = vec'[j].gen
        PROVE  \/ vec'[i].start + Length[vec'[i].name] <= vec'[j].start
               \/ vec'[j].start + Length[vec'[j].name] <= vec'[i].start
    <3>1. CASE i = k
      BY <1>4, <1>5, <2>1, <2>2, <3>1 DEF Ends
    <3>2. CASE j = k
      BY <1>4, <1>5, <2>1, <2>2, <3>2 DEF Ends
    <3>3. CASE i # k /\ j # k
      <4>1. i \in 1..Len(vec) /\ j \in 1..Len(vec)
        BY <1>4, <3>3
      <4> QED
        BY <1>5, <2>2, <4>1 DEF TableOK, SlicesDisjoint, Ends
    <3> QED
      BY <3>1, <3>2, <3>3
  <2> QED
    BY <1>5, <2>2 DEF SlicesDisjoint, Ends
<1>14. full' \subseteq 1..(buf'.gen - 1)
  <2>1. full \subseteq 1..(buf.gen - 1) /\ buf.gen >= 1
    BY DEF TableOK, BufferInv
  <2>2. CASE a.buf.gen = buf.gen /\ a.full = full
    BY <2>1, <2>2
  <2>3. CASE a.buf.gen = buf.gen + 1 /\ a.full = full \cup {buf.gen}
    <3>1. full' = full \cup {buf.gen} /\ buf'.gen = buf.gen + 1
      BY <2>3
    <3>2. buf.gen \in Nat
      BY DEF TableOK, Buffer
    <3>3. ASSUME NEW g \in full'
          PROVE  g \in 1..buf.gen
      <4>1. CASE g = buf.gen
        BY <2>1, <3>2, <4>1
      <4>2. CASE g \in 1..(buf.gen - 1)
        BY <3>2, <4>2
      <4> QED
        BY <2>1, <3>1, <4>1, <4>2
    <3>4. (buf.gen + 1) - 1 = buf.gen
      BY <3>2
    <3> QED
      BY <3>1, <3>3, <3>4
  <2> QED
    BY <1>1, <2>2, <2>3
<1>15. DOMAIN map' \subseteq Name /\ \A n \in DOMAIN map' : map'[n] \in Nat
  BY <1>4, <1>8, <1>9 DEF TableOK
<1>16. TableOK'
  BY <1>1, <1>5, <1>10, <1>11, <1>12, <1>13, <1>14, <1>15 DEF TableOK
<1>17. Extends(name)
  BY <1>3, <1>4, <1>5, <1>7 DEF Extends, Token
<1> QED
  BY <1>16, <1>17

\* A call of intern, for a known or a new name, keeps the tables consistent.
LEMMA InternStep ==
    ASSUME TableOK, NEW name \in Name, intern(name)
    PROVE  TableOK' /\ Extends(name)
BY InternKnown, InternNew DEF intern

\* A thread that interns and keeps the Ident.
LEMMA HoldStep ==
    ASSUME IInv, NEW t \in Thread, NEW name \in Name,
           intern(name), Hold(t, name), UNCHANGED view
    PROVE  IInv'
<1>1. TableOK
  BY DEF IInv, TypeOK, TableOK
<1>2. TableOK' /\ Extends(name)
  BY <1>1, InternStep
<1>3. Len(vec) \in Nat /\ Len(vec') \in Nat
  BY <1>1, <1>2 DEF TableOK
<1> DEFINE i0 == [tkn |-> Token(name), name |-> name]
<1>4. i0 \in Ident /\ i0.tkn = Token(name) /\ i0.name = name
  BY <1>2 DEF Extends, Ident
<1>5. idents' = [idents EXCEPT ![t] = @ \cup {i0}]
  BY DEF Hold
<1> HIDE DEF i0
<1>6. idents' \in [Thread -> SUBSET Ident]
  BY <1>4, <1>5 DEF IInv, TypeOK
<1>7. IdentsStable'
  <2>1. ASSUME NEW u \in Thread, NEW i \in idents'[u]
        PROVE  i.tkn + 1 \in 1..Len(vec') /\ vec'[i.tkn + 1].name = i.name
    <3>1. i = i0 \/ i \in idents[u]
      BY <1>5 DEF IInv, TypeOK
    <3>2. CASE i = i0
      BY <1>2, <1>4, <3>2 DEF Extends
    <3>3. CASE i \in idents[u]
      <4>1. i.tkn + 1 \in 1..Len(vec) /\ vec[i.tkn + 1].name = i.name
        BY <3>3 DEF IInv, IdentsStable, lookup_str
      <4> QED
        BY <1>2, <1>3, <4>1 DEF Extends
    <3> QED
      BY <3>1, <3>2, <3>3
  <2> QED
    BY <2>1 DEF IdentsStable, lookup_str
<1>8. ViewInv'
  <2>1. ASSUME NEW u \in Thread, NEW s \in view[u]
        PROVE  \E i \in 1..Len(vec') : s = vec'[i]
    <3>1. PICK i \in 1..Len(vec) : s = vec[i]
      BY <2>1 DEF IInv, ViewInv
    <3> QED
      BY <1>2, <1>3, <3>1 DEF Extends
  <2> QED
    BY <2>1 DEF ViewInv
<1>9. TypeOK'
  BY <1>2, <1>6 DEF TableOK, TypeOK, IInv
<1> QED
  BY <1>2, <1>7, <1>8, <1>9 DEF IInv, TableOK

-----------------------------------------------------------------------------
(* The theorems *)

\* The pre-loaded keywords fill the table, each with its place for token.
LEMMA InitInv ==
    ASSUME Init
    PROVE  IInv
<1> DEFINE n == Len(Keywords)
           K == {Keywords[i] : i \in 1..n}
           place(x) == CHOOSE i \in 1..n : Keywords[i] = x
<1>1. n \in Nat /\ Keywords \in [1..n -> Name] /\ K \subseteq Name
  BY InternerAssumption
<1>2. /\ map = [x \in K |-> place(x) - 1]
      /\ vec = [i \in 1..n |-> [name |-> Keywords[i], gen |-> 0, start |-> 0]]
      /\ buf = [gen |-> 1, len |-> 0, cap |-> n \div 2]
      /\ full = {}
      /\ idents = [t \in Thread |-> {}] /\ view = [t \in Thread |-> {}]
  BY DEF Init, pre_load
<1>3. \A x \in K : place(x) \in 1..n /\ Keywords[place(x)] = x
  OBVIOUS
<1>4. \A i \in 1..n : place(Keywords[i]) = i
  BY <1>3, InternerAssumption
<1> HIDE DEF place
<1>5. vec \in Seq(Slice) /\ Len(vec) = n
  <2>1. \A i \in 1..n : [name |-> Keywords[i], gen |-> 0, start |-> 0] \in Slice
    BY <1>1 DEF Slice
  <2>2. vec \in [1..n -> Slice]
    BY <1>2, <2>1
  <2> HIDE DEF n
  <2> QED
    BY <1>1, <2>2, SeqDef
<1>6. \A i \in 1..n : vec[i].name = Keywords[i] /\ vec[i].gen = 0
  BY <1>2
<1>7. TableInv
  <2>1. Keywords \in Surjection(1..n, K) /\ Keywords \in Injection(1..n, K)
    BY <1>1, InternerAssumption DEF Surjection, Injection, IsInjective
  <2>2. IsFiniteSet(1..n) /\ Cardinality(1..n) = n
    <3>1. n \in Nat
      BY <1>1
    <3> HIDE DEF n
    <3>2. 1 \in Int /\ n \in Int
      BY <3>1
    <3>3. /\ IsFiniteSet(1..n)
          /\ Cardinality(1..n) = IF 1 > n THEN 0 ELSE n - 1 + 1
      BY <3>2, FS_Interval
    <3> QED
      BY <3>1, <3>3
  <2>3. DOMAIN map = K
    BY <1>2
  <2> HIDE DEF K, n
  <2> QED
    BY <1>5, <2>1, <2>2, <2>3, FS_Surjection DEF TableInv
<1>8. DOMAIN map = K /\ \A x \in K : map[x] = place(x) - 1
  BY <1>2
<1>9. TokensUnique
  <2>1. ASSUME NEW i \in 1..Len(vec)
        PROVE  vec[i].name \in DOMAIN map /\ map[vec[i].name] = i - 1
    BY <1>4, <1>5, <1>6, <1>8
  <2>2. ASSUME NEW x \in DOMAIN map
        PROVE  map[x] + 1 \in 1..Len(vec) /\ vec[map[x] + 1].name = x
    BY <1>3, <1>5, <1>6, <1>8
  <2> QED
    BY <2>1, <2>2 DEF TokensUnique
<1>10. buf \in Buffer /\ buf.gen = 1
  <2>1. n \div 2 \in Nat
    BY <1>1
  <2> HIDE DEF n
  <2> QED
    BY <1>2, <2>1 DEF Buffer
<1>11. TypeOK
  <2>1. \A x \in DOMAIN map : map[x] \in Nat
    BY <1>3, <1>8
  <2> QED
    BY <1>1, <1>2, <1>5, <1>8, <1>10, <2>1 DEF TypeOK
<1>12. BufferInv /\ SlicesDisjoint
  BY <1>5, <1>6, <1>10 DEF BufferInv, SlicesDisjoint, Live
<1>13. IdentsStable /\ ViewInv
  BY <1>2 DEF IdentsStable, ViewInv
<1> QED
  BY <1>7, <1>9, <1>11, <1>12, <1>13 DEF IInv

\* Every operation of every thread preserves the inductive invariant.
LEMMA NextInv ==
    ASSUME IInv, [Next]_vars
    PROVE  IInv'
<1>1. ASSUME NEW t \in Thread, NEW n \in Name, new(t, n)
      PROVE  IInv'
  BY <1>1, HoldStep DEF new
<1>2. ASSUME NEW t \in Thread, NEW i \in idents[t], NEW s \in Suffix, push_str(t, i, s)
      PROVE  IInv'
  BY <1>2, HoldStep DEF push_str
<1>3. ASSUME UNCHANGED <<map, vec, buf, full, idents>>,
             view' \in [Thread -> SUBSET Slice], ViewInv'
      PROVE  IInv'
  BY <1>3 DEF IInv, TypeOK, TableInv, TokensUnique, IdentsStable, lookup_str,
              BufferInv, Live, Ends, SlicesDisjoint
<1>4. ASSUME NEW t \in Thread, NEW i \in idents[t], name_of(t, i)
      PROVE  IInv'
  <2>1. i.tkn + 1 \in 1..Len(vec) /\ lookup_str(i.tkn) = vec[i.tkn + 1]
    BY DEF IInv, IdentsStable, lookup_str
  <2>2. vec[i.tkn + 1] \in Slice
    BY <2>1 DEF IInv, TypeOK
  <2>3. view' \in [Thread -> SUBSET Slice]
    BY <1>4, <2>1, <2>2 DEF name_of, IInv, TypeOK
  <2>4. ViewInv'
    BY <1>4, <2>1 DEF name_of, IInv, TypeOK, ViewInv
  <2> QED
    BY <1>3, <1>4, <2>3, <2>4 DEF name_of
<1>5. ASSUME NEW t \in Thread, forget(t)
      PROVE  IInv'
  <2>1. view' \in [Thread -> SUBSET Slice] /\ ViewInv'
    BY <1>5 DEF forget, IInv, TypeOK, ViewInv
  <2> QED
    BY <1>3, <1>5, <2>1 DEF forget
<1>6. CASE UNCHANGED vars
  <2>1. view' \in [Thread -> SUBSET Slice] /\ ViewInv'
    BY <1>6 DEF vars, IInv, TypeOK, ViewInv
  <2> QED
    BY <1>3, <1>6, <2>1 DEF vars
<1> QED
  BY <1>1, <1>2, <1>4, <1>5, <1>6 DEF Next

\* The inductive invariant holds in every reachable state.
THEOREM Invariance == Spec => []IInv
<1>1. Init => IInv
  BY InitInv
<1>2. IInv /\ [Next]_vars => IInv'
  BY NextInv
<1> QED
  BY <1>1, <1>2, PTL DEF Spec

\* Equal Idents are equal texts, for every number of threads interning.
THEOREM TokensStayUnique == Spec => []TokensUnique
<1>1. IInv => TokensUnique
  BY DEF IInv
<1> QED
  BY <1>1, Invariance, PTL

\* An Ident reads back as the text it was made from, for ever.
THEOREM IdentsStayStable == Spec => []IdentsStable
<1>1. IInv => IdentsStable
  BY DEF IInv
<1> QED
  BY <1>1, Invariance, PTL

\* The `&'static str`s of alloc are what they claim to be: the buffer of a slice
\* is never freed or moved, inside the table or in the hands of a thread.
THEOREM SlicesStayLive == Spec => []SlicesLive
<1>1. IInv => SlicesLive
  BY DEF IInv, BufferInv, ViewInv, SlicesLive
<1> QED
  BY <1>1, Invariance, PTL

\* Interning never overwrites the text of another name.
THEOREM SlicesStayDisjoint == Spec => []SlicesDisjoint
<1>1. IInv => SlicesDisjoint
  BY DEF IInv
<1> QED
  BY <1>1, Invariance, PTL

=============================================================================
