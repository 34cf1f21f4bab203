----------------------------- MODULE LexerProofs -----------------------------
(***************************************************************************)
(* Proofs about Lexer, for every text and every list of lexemes: a literal *)
(* ends where its quotes, escapes and hashes say, and every step of the    *)
(* lexer moves on in the text.                                             *)
(***************************************************************************)
EXTENDS Lexer, SequenceTheorems, WellFoundedInduction, TLAPS

-----------------------------------------------------------------------------
(* The inductive invariant *)

IsSeq(s) == \E S : s \in Seq(S)

Strings == {"Str", "ByteStr"}
Chars == {"Char", "Byte"}
RawStrings == {"RawStr", "RawByteStr"}

\* Where the body of the literal begins whose kind is k and which starts at s.
Body(k, s) == s + (IF k \in {"Byte", "ByteStr", "RawStr"} THEN 2
                   ELSE IF k = "RawByteStr" THEN 3 ELSE 1)

\* A token ends its literal as LiteralsEnd says.
TokenEnds(s, t) ==
  /\ t.kind.kind \in Strings => StringEnds(s, t)
  /\ t.kind.kind \in Chars => CharEnds(s, t)
  /\ t.kind.kind \in RawStrings => RawStringEnds(s, t)

\* The place of token i among the others.
Begin(ts, i) == IF i = 1 THEN 0 ELSE ts[i - 1].start + ts[i - 1].len

TokenOK(s, ts, i) ==
  /\ ts[i].start = Begin(ts, i)
  /\ ts[i].start \in Nat /\ ts[i].len \in Nat
  /\ ts[i].start + ts[i].len <= Len(s)
  /\ ts[i].len > 0 \/ ts[i].kind.kind = "Eof"
  /\ TokenEnds(s, ts[i])

TokensInv ==
  /\ IsSeq(tokens)
  /\ \A i \in 1 .. Len(tokens) : TokenOK(input, tokens, i)
  /\ start = Begin(tokens, Len(tokens) + 1)

CursorInv ==
  /\ start \in Nat /\ cur \in Nat
  /\ start <= cur /\ cur <= Len(input)
  /\ pc \in {"token", "block", "single", "double", "raw_start", "raw", "parse", "done"}
  /\ pc = "token" => start = cur
  /\ pc \in {"block", "single", "double", "raw_start", "raw"} => start < cur
  /\ pc \in {"parse", "done"} => start = Len(input) /\ Len(tokens) > 0
  /\ parsed \in {"not yet", "no items", "item or error"}

\* What double_quoted_string has seen of its string.
DoubleInv ==
  LET o == Body(reg.kind, start) IN
  pc = "double" =>
    /\ reg.kind \in Strings
    /\ o <= cur
    /\ \A k \in o + 1 .. cur : input[k] = Quote => Escaped(input, o, k)
    /\ cur < Len(input) /\ Escaped(input, o, cur + 1) => input[cur + 1] \notin {"\\", Quote}

\* The literal can still be one symbol as long as nothing was looked at.
SingleInv ==
  LET o == Body(reg.kind, start) IN
  pc = "single" =>
    /\ reg \in [kind : Chars, fresh : BOOLEAN]
    /\ o <= cur
    /\ IF reg.fresh THEN cur = o ELSE ~OneSymbolAt(input, o)
    /\ \A k \in o + 1 .. cur : ~Escaped(input, o, k) => input[k] /= "'" /\ ~StopAt(input, k)
    /\ cur < Len(input) => ~Escaped(input, o, cur + 1)

\* The quote at k is the first that is followed by n hashes or more.
FirstQuote(s, o, k, n) ==
  /\ k > o /\ k <= Len(s) /\ s[k] = Quote /\ HashesAfter(s, k) >= n
  /\ \A l \in o + 1 .. k - 1 : s[l] = Quote => HashesAfter(s, l) < n

RawRegInv ==
  pc \in {"raw_start", "raw"} =>
    /\ reg.kind \in RawStrings
    /\ reg.n \in Nat
    /\ reg.prefix = Body(reg.kind, 0) - 1
    /\ reg.from = start + reg.prefix
    /\ pc = "raw_start" =>
         cur = reg.from + reg.n /\ reg.max_hashes = 0 /\ reg.offset = -1

\* raw_string_unvalidated knows the longest run of hashes behind a quote it
\* has passed, and where the first such quote is.
RawInv ==
  LET o == Body(reg.kind, start) + reg.n IN
  pc = "raw" =>
    /\ o <= cur
    /\ reg.max_hashes \in Nat
    /\ \A k \in o + 1 .. cur : input[k] = Quote =>
         HashesAfter(input, k) < reg.n /\ HashesAfter(input, k) <= reg.max_hashes
    /\ IF reg.max_hashes = 0 THEN reg.offset = -1
       ELSE \E k \in o + 1 .. cur : /\ FirstQuote(input, o, k, reg.max_hashes)
                                    /\ HashesAfter(input, k) = reg.max_hashes
                                    /\ reg.offset = k - start

LInv ==
  /\ input \in Seq(Alphabet)
  /\ CursorInv
  /\ TokensInv
  /\ DoubleInv
  /\ SingleInv
  /\ RawRegInv
  /\ RawInv

-----------------------------------------------------------------------------
(* Numbers and sequences *)

\* A set of numbers has its least element.
LEMMA LeastNumber ==
  ASSUME NEW S, S \subseteq Nat, S /= {}
  PROVE  Min(S) \in S /\ \A y \in S : Min(S) <= y
<1> DEFINE R == OpToRel(<, Nat)
<1>1. IsWellFoundedOn(R, Nat)
  BY NatLessThanWellFounded
<1>2. \A x, y \in Nat : x < y => <<x, y>> \in R
  BY DEF OpToRel
<1> HIDE DEF R
<1>3. PICK x \in S : \A y \in S : ~ (<<y, x>> \in R)
  BY <1>1, WFMin
<1>4. ASSUME NEW y \in S PROVE x <= y
  <2>1. x \in Nat /\ y \in Nat /\ ~ (y < x)
    BY Zenon, <1>2, <1>3
  <2> QED
    BY <2>1
<1>5. \E m \in S : \A y \in S : m <= y
  BY <1>4
<1> QED
  BY <1>5 DEF Min

\* What is least, or greatest, is Min, or Max.
LEMMA MinIs ==
  ASSUME NEW S, S \subseteq Int, NEW m \in S, \A y \in S : m <= y
  PROVE  Min(S) = m
<1>1. Min(S) \in S /\ \A y \in S : Min(S) <= y
  BY DEF Min
<1> DEFINE n == Min(S)
<1> HIDE DEF n
<1>2. n \in Int /\ m \in Int /\ n <= m /\ m <= n
  BY <1>1 DEF n
<1> QED
  BY <1>2 DEF n

LEMMA MaxIs ==
  ASSUME NEW S, S \subseteq Int, NEW m \in S, \A y \in S : y <= m
  PROVE  Max(S) = m
<1>1. Max(S) \in S /\ \A y \in S : Max(S) >= y
  <2>1. \E x \in S : \A y \in S : x >= y
    BY SMT
  <2> QED
    BY <2>1, Zenon DEF Max
<1> DEFINE n == Max(S)
<1> HIDE DEF n
<1>2. n \in Int /\ m \in Int /\ n <= m /\ m <= n
  BY <1>1 DEF n
<1> QED
  BY <1>2 DEF n

LEMMA SeqFacts ==
  ASSUME NEW s, IsSeq(s)
  PROVE  Len(s) \in Nat /\ DOMAIN s = 1 .. Len(s)
<1>1. PICK S : s \in Seq(S)
  BY DEF IsSeq
<1> QED
  BY <1>1

LEMMA SeqAppend ==
  ASSUME NEW s, IsSeq(s), NEW x
  PROVE  /\ IsSeq(Append(s, x)) /\ Len(Append(s, x)) = Len(s) + 1
         /\ \A i \in 1 .. Len(s) : Append(s, x)[i] = s[i]
         /\ Append(s, x)[Len(s) + 1] = x
<1>1. PICK S : s \in Seq(S)
  BY DEF IsSeq
<1>2. s \in Seq(S \cup {x}) /\ x \in S \cup {x}
  BY <1>1, SeqMonotonic
<1>3. /\ Append(s, x) \in Seq(S \cup {x}) /\ Len(Append(s, x)) = Len(s) + 1
      /\ \A i \in 1 .. Len(s) : Append(s, x)[i] = s[i]
      /\ Append(s, x)[Len(s) + 1] = x
  BY <1>2
<1> QED
  BY <1>3 DEF IsSeq

\* FlattenSeq is what its recursion says: it joins one sequence after the
\* other.  Joined(s, f) holds of the only f there is.
Joined(s, f) ==
  f = [i \in 1 .. Len(s) |-> IF i = 1 THEN s[i] ELSE f[i - 1] \o s[i]]

LEMMA JoinedExists ==
  ASSUME NEW s, IsSeq(s)
  PROVE  \E f : Joined(s, f)
<1> DEFINE Upto(n, f) == f = [i \in 1 .. n |-> IF i = 1 THEN s[i] ELSE f[i - 1] \o s[i]]
           Bad == {n \in Nat : \A f : ~ Upto(n, f)}
<1>1. Len(s) \in Nat
  BY SeqFacts
<1>2. SUFFICES Bad = {}
  <2>1. Len(s) \notin Bad
    BY <1>2
  <2>2. \E f : Upto(Len(s), f)
    BY <2>1, <1>1
  <2> QED
    BY <2>2 DEF Joined
<1>3. SUFFICES ASSUME Bad /= {} PROVE FALSE
  OBVIOUS
<1> DEFINE n == Min(Bad)
<1>4. n \in Bad /\ \A y \in Bad : n <= y
  <2> HIDE DEF Bad
  <2>1. Bad \subseteq Nat
    BY DEF Bad
  <2> QED
    BY <2>1, <1>3, LeastNumber
<1> HIDE DEF n
<1>5. CASE n = 0
  <2> DEFINE g == [i \in 1 .. 0 |-> s[i]]
  <2>1. Upto(0, g)
    OBVIOUS
  <2> QED
    BY <2>1, <1>4, <1>5
<1>6. CASE n /= 0
  <2>1. n \in Nat /\ n - 1 \in Nat /\ n - 1 < n
    BY <1>4, <1>6
  <2>2. PICK f : Upto(n - 1, f)
    <3>1. n - 1 \notin Bad
      <4> HIDE DEF Bad
      <4> QED
        BY <2>1, <1>4
    <3>2. \E f : Upto(n - 1, f)
      <4> HIDE DEF Upto
      <4> QED
        BY <3>1, <2>1
    <3> QED
      BY <3>2
  <2> DEFINE g == [i \in 1 .. n |-> IF i = 1 THEN s[1]
                                   ELSE IF i = n THEN f[n - 1] \o s[n] ELSE f[i]]
  <2>3. \A i \in 1 .. n - 1 : g[i] = f[i]
    BY <2>1, <2>2
  <2>4. ASSUME NEW i \in 1 .. n PROVE g[i] = IF i = 1 THEN s[i] ELSE g[i - 1] \o s[i]
    <3>1. CASE i = 1
      BY <3>1
    <3>2. CASE i /= 1 /\ i = n
      <4>1. g[n] = f[n - 1] \o s[n] /\ g[n - 1] = f[n - 1]
        <5>1. n \in 1 .. n /\ n /= 1 /\ n - 1 \in 1 .. n - 1
          BY <3>2, <2>1
        <5>2. g[n - 1] = f[n - 1]
          BY <5>1, <2>3, Zenon
        <5>3. g[n] = f[n - 1] \o s[n]
          BY <5>1
        <5> QED
          BY <5>2, <5>3
      <4> QED
        BY <4>1, <3>2
    <3>3. CASE i /= 1 /\ i /= n
      <4>1. i \in 1 .. n - 1 /\ i - 1 \in 1 .. n - 1
        BY <3>3, <2>1
      <4>2. f[i] = f[i - 1] \o s[i]
        BY <4>1, <3>3, <2>2
      <4> QED
        BY <4>1, <4>2, <3>3, <2>3
    <3> QED
      BY <3>1, <3>2, <3>3
  <2>5. g = [i \in 1 .. n |-> IF i = 1 THEN s[i] ELSE g[i - 1] \o s[i]]
    <3> DEFINE h == [i \in 1 .. n |-> IF i = 1 THEN s[i] ELSE g[i - 1] \o s[i]]
    <3>1. DOMAIN g = 1 .. n /\ DOMAIN h = 1 .. n /\ \A i \in 1 .. n : g[i] = h[i]
      <4> HIDE DEF g
      <4>1. DOMAIN g = 1 .. n
        BY DEF g
      <4> QED
        BY <2>4, <4>1
    <3> QED
      <4>1. g = [i \in 1 .. n |-> g[i]] /\ h = [i \in 1 .. n |-> h[i]]
        OBVIOUS
      <4> HIDE DEF g, h
      <4>2. g = h
        BY <4>1, <3>1
      <4> QED
        BY <4>2 DEF h
  <2> HIDE DEF g
  <2>6. Upto(n, g)
    BY <2>5
  <2> QED
    BY <2>6, <1>4
<1> QED
  BY <1>5, <1>6

\* What the sequences joined so far have, the next step keeps.
LEMMA FlattenSteps ==
  ASSUME NEW s, IsSeq(s), Len(s) /= 0
  PROVE  \E f : /\ FlattenSeq(s) = f[Len(s)]
                /\ f[1] = s[1]
                /\ \A i \in 2 .. Len(s) : f[i] = f[i - 1] \o s[i]
<1> DEFINE f == CHOOSE f : Joined(s, f)
<1>1. Joined(s, f)
  BY JoinedExists
<1>2. FlattenSeq(s) = f[Len(s)]
  BY DEF FlattenSeq, Joined
<1>3. Len(s) \in Nat
  BY SeqFacts
<1> HIDE DEF f
<1>4. \A i \in 1 .. Len(s) : f[i] = IF i = 1 THEN s[i] ELSE f[i - 1] \o s[i]
  BY <1>1 DEF Joined
<1>5. 1 \in 1 .. Len(s) /\ \A i \in 2 .. Len(s) : i \in 1 .. Len(s) /\ i /= 1
  BY <1>3
<1>6. f[1] = s[1] /\ \A i \in 2 .. Len(s) : f[i] = f[i - 1] \o s[i]
  BY <1>4, <1>5
<1> QED
  BY <1>2, <1>6

\* Sequences of elements of S, joined, are one.
LEMMA FlattenType ==
  ASSUME NEW s, IsSeq(s), NEW S, \A i \in 1 .. Len(s) : s[i] \in Seq(S)
  PROVE  FlattenSeq(s) \in Seq(S)
<1>1. Len(s) \in Nat
  BY SeqFacts
<1>2. CASE Len(s) = 0
  <2>1. FlattenSeq(s) = s
    BY <1>2 DEF FlattenSeq
  <2>2. s = <<>>
    BY <1>2 DEF IsSeq
  <2> QED
    BY <2>1, <2>2
<1>3. CASE Len(s) /= 0
  <2>1. PICK f : /\ FlattenSeq(s) = f[Len(s)]
                 /\ f[1] = s[1]
                 /\ \A i \in 2 .. Len(s) : f[i] = f[i - 1] \o s[i]
    BY <1>3, FlattenSteps
  <2> DEFINE Bad == {i \in 1 .. Len(s) : f[i] \notin Seq(S)}
  <2>2. ASSUME Bad /= {} PROVE FALSE
    <3>1. Min(Bad) \in Bad /\ \A y \in Bad : Min(Bad) <= y
      <4>1. Bad \subseteq Nat
        BY <1>1
      <4> HIDE DEF Bad
      <4> QED
        BY <4>1, <2>2, LeastNumber
    <3> DEFINE i == Min(Bad)
    <3> HIDE DEF i
    <3>2. i \in 1 .. Len(s) /\ f[i] \notin Seq(S)
      BY <3>1 DEF i
    <3>3. i /= 1
      BY <3>2, <2>1, <1>1, <1>3
    <3>4. i \in 2 .. Len(s) /\ i - 1 \in 1 .. Len(s) /\ i - 1 < i
      BY <3>2, <3>3, <1>1
    <3>5. i - 1 \notin Bad
      BY <3>1, <3>4 DEF i
    <3>6. f[i - 1] \in Seq(S) /\ s[i] \in Seq(S)
      BY <3>5, <3>4, <3>2
    <3>7. f[i] = f[i - 1] \o s[i]
      BY <3>4, <2>1
    <3> QED
      BY <3>2, <3>6, <3>7
  <2>3. Len(s) \in 1 .. Len(s)
    BY <1>1, <1>3
  <2> QED
    BY <2>1, <2>2, <2>3
<1> QED
  BY <1>2, <1>3

-----------------------------------------------------------------------------
(* The Cursor *)

Text == input \in Seq(Alphabet)

LEMMA CursorFacts ==
  ASSUME Text
  PROVE  /\ Len(input) \in Nat
         /\ \A i \in Nat : i < Len(input) =>
              /\ first(i) = input[i + 1] /\ ~is_eof(i)
              /\ bump(i) = i + 1
         /\ \A i \in Nat : i + 1 < Len(input) => second(i) = input[i + 2]
         /\ \A i \in Nat : i + 1 >= Len(input) => second(i) = EOF_CHAR
         /\ is_eof(Len(input)) /\ first(Len(input)) = EOF_CHAR
         /\ bump(Len(input)) = Len(input)
<1>1. Len(input) \in Nat
  BY DEF Text
<1> QED
  BY <1>1 DEF first, second, nth_char, is_eof, bump

\* eat_while stops at the first character that is not of the class.
LEMMA EatWhile ==
  ASSUME Text, NEW S, NEW i \in 0 .. Len(input)
  PROVE  /\ eat_while(i, S) \in i .. Len(input)
         /\ \A j \in i + 1 .. eat_while(i, S) : input[j] \in S
         /\ eat_while(i, S) < Len(input) => input[eat_while(i, S) + 1] \notin S
<1> DEFINE E == {j \in i .. Len(input) : first(j) \notin S \/ is_eof(j)}
           e == Min(E)
<1>1. Len(input) \in Nat /\ is_eof(Len(input))
  BY CursorFacts
<1>2. E \subseteq Nat /\ Len(input) \in E
  BY <1>1
<1>3. e \in E /\ \A y \in E : e <= y
  <2> HIDE DEF E
  <2> QED
    BY <1>2, LeastNumber
<1>4. eat_while(i, S) = e
  BY DEF eat_while
<1>5. e \in i .. Len(input) /\ (first(e) \notin S \/ is_eof(e))
  BY <1>3
<1>6. ASSUME NEW j \in i + 1 .. e PROVE input[j] \in S
  <2> HIDE DEF e
  <2>1. j - 1 \in i .. Len(input) /\ j - 1 < e /\ j - 1 \in Nat /\ j - 1 < Len(input) /\ j - 1 + 1 = j
    BY <1>1, <1>5
  <2>2. j - 1 \notin E
    <3> HIDE DEF E
    <3>1. ASSUME j - 1 \in E PROVE FALSE
      <4>1. e <= j - 1
        BY <3>1, <1>3 DEF e
      <4> QED
        BY <4>1, <2>1, <1>5
    <3> QED
      BY <3>1
  <2>3. first(j - 1) \in S
    BY <2>1, <2>2
  <2> QED
    BY <2>1, <2>3, CursorFacts
<1>7. ASSUME e < Len(input) PROVE input[e + 1] \notin S
  <2>1. e \in Nat
    BY <1>5, <1>1
  <2>2. first(e) = input[e + 1] /\ ~is_eof(e)
    BY <1>7, <2>1, CursorFacts
  <2> QED
    BY <2>2, <1>5
<1> QED
  BY <1>4, <1>5, <1>6, <1>7

\* The functions built from it stay between where they start and the end.
LEMMA EatInText ==
  ASSUME Text, NEW i \in 0 .. Len(input)
  PROVE  /\ eat_decimal_digits(i) \in i .. Len(input)
         /\ eat_hexadecimal_digits(i) \in i .. Len(input)
         /\ eat_float_exponent(i) \in i .. Len(input)
         /\ eat_literal_suffix(i) \in i .. Len(input)
<1>1. Len(input) \in Nat
  BY CursorFacts
<1>2. \A j \in 0 .. Len(input) : eat_decimal_digits(j) \in j .. Len(input)
  BY EatWhile DEF eat_decimal_digits
<1>3. eat_hexadecimal_digits(i) \in i .. Len(input)
  BY EatWhile DEF eat_hexadecimal_digits
<1>4. i < Len(input) \/ first(i) = EOF_CHAR
  BY <1>1, CursorFacts
<1>5. eat_float_exponent(i) \in i .. Len(input)
  <2>1. CASE first(i) \in {"-", "+"}
    <3>1. i + 1 \in 0 .. Len(input)
      BY <2>1, <1>4, <1>1 DEF EOF_CHAR, NUL
    <3>2. eat_decimal_digits(i + 1) \in i + 1 .. Len(input)
      BY <3>1, <1>2
    <3> QED
      BY <3>2, <2>1, <1>1 DEF eat_float_exponent
  <2>2. CASE first(i) \notin {"-", "+"}
    BY <2>2, <1>2 DEF eat_float_exponent
  <2> QED
    BY <2>1, <2>2
<1>6. eat_literal_suffix(i) \in i .. Len(input)
  <2>1. CASE first(i) \in is_id_start
    <3>1. i + 1 \in 0 .. Len(input)
      <4>1. EOF_CHAR \notin is_id_start
        BY DEF EOF_CHAR, NUL, is_id_start
      <4>2. i < Len(input)
        BY <4>1, <2>1, <1>4
      <4> QED
        BY <4>2, <1>1
    <3>2. eat_while(i + 1, is_id_continue) \in i + 1 .. Len(input)
      BY <3>1, EatWhile
    <3> QED
      BY <3>2, <2>1, <1>1 DEF eat_literal_suffix
  <2>2. CASE first(i) \notin is_id_start
    BY <2>2, <1>1 DEF eat_literal_suffix
  <2> QED
    BY <2>1, <2>2
<1> QED
  BY <1>2, <1>3, <1>5, <1>6

-----------------------------------------------------------------------------
(* Escapes and hashes *)

\* A character is escaped when the one before it is a backslash that is not
\* escaped itself.
LEMMA EscapedStep ==
  ASSUME NEW s, NEW o \in Nat, NEW k \in Nat, k > o
  PROVE  Escaped(s, o, k + 1) <=> s[k] = "\\" /\ ~Escaped(s, o, k)
<1> DEFINE Run(l) == {n \in 1 .. l - o - 1 : \A j \in l - n .. l - 1 : s[j] = "\\"}
<1>1. \A l : Escaped(s, o, l) <=> Run(l) /= {} /\ Max(Run(l)) % 2 = 1
  BY DEF Escaped
<1>2. ASSUME s[k] /= "\\" PROVE Run(k + 1) = {}
  <2>1. ASSUME NEW n \in Run(k + 1) PROVE FALSE
    <3>1. n \in 1 .. k - o /\ k \in k + 1 - n .. k
      OBVIOUS
    <3> QED
      BY <3>1, <1>2
  <2> QED
    BY <2>1
<1>3. ASSUME s[k] = "\\", Run(k) = {} PROVE Max(Run(k + 1)) = 1 /\ Run(k + 1) /= {}
  <2>1. 1 \in Run(k + 1)
    BY <1>3
  <2>2. ASSUME NEW n \in Run(k + 1) PROVE n <= 1
    <3>1. CASE n > 1
      <4>1. n - 1 \in 1 .. k - o - 1
        BY <3>1
      <4>2. \A j \in k - (n - 1) .. k - 1 : j \in (k + 1) - n .. (k + 1) - 1
        BY <4>1
      <4>3. \A j \in k - (n - 1) .. k - 1 : s[j] = "\\"
        BY <4>2, <2>2
      <4>4. n - 1 \in Run(k)
        BY <4>1, <4>3
      <4> QED
        BY <4>4, <1>3
    <3> QED
      BY <3>1
  <2>3. Run(k + 1) \subseteq Int
    OBVIOUS
  <2> HIDE DEF Run
  <2> QED
    BY <2>1, <2>2, <2>3, MaxIs
<1>4. ASSUME s[k] = "\\", Run(k) /= {}
      PROVE  /\ Run(k + 1) /= {} /\ Max(Run(k)) \in Nat
             /\ Max(Run(k + 1)) = Max(Run(k)) + 1
  <2> DEFINE m == Max(Run(k))
  <2>1. m \in Run(k) /\ \A n \in Run(k) : n <= m
    <3> DEFINE G == {k - n : n \in Run(k)}
    <3>1. G \subseteq Nat /\ G /= {}
      BY <1>4
    <3>2. Min(G) \in G /\ \A y \in G : Min(G) <= y
      <4> HIDE DEF G
      <4> QED
        BY <3>1, LeastNumber
    <3> HIDE DEF Run
    <3>3. PICK n \in Run(k) : Min(G) = k - n
      BY <3>2
    <3>4. Run(k) \subseteq Int
      BY DEF Run
    <3>5. \A y \in Run(k) : y <= n
      <4>1. ASSUME NEW y \in Run(k) PROVE y <= n
        <5>1. k - y \in G
          OBVIOUS
        <5>2. k - n <= k - y
          BY <5>1, <3>2, <3>3
        <5> QED
          BY <5>2, <3>4
      <4> QED
        BY <4>1
    <3>6. m = n
      BY <3>4, <3>5, MaxIs
    <3> QED
      BY <3>5, <3>6
  <2> HIDE DEF m
  <2>2. m \in 1 .. k - o - 1 /\ \A j \in k - m .. k - 1 : s[j] = "\\"
    BY <2>1
  <2>3. m + 1 \in Run(k + 1)
    <3>1. m + 1 \in 1 .. k - o
      BY <2>2
    <3>2. ASSUME NEW j \in (k + 1) - (m + 1) .. k PROVE s[j] = "\\"
      BY <2>2, <1>4
    <3> QED
      BY <3>1, <3>2
  <2>4. ASSUME NEW n \in Run(k + 1) PROVE n <= m + 1
    <3>1. CASE n > 1
      <4>1. n - 1 \in 1 .. k - o - 1
        BY <3>1
      <4>2. \A j \in k - (n - 1) .. k - 1 : j \in (k + 1) - n .. (k + 1) - 1
        BY <4>1
      <4>3. \A j \in k - (n - 1) .. k - 1 : s[j] = "\\"
        BY <4>2, <2>4
      <4>4. n - 1 \in Run(k)
        BY <4>1, <4>3
      <4>5. n - 1 <= m /\ n \in Int
        BY <4>4, <2>1
      <4> QED
        BY <4>5, <2>2
    <3>2. CASE ~ (n > 1)
      BY <3>2, <2>2
    <3> QED
      BY <3>1, <3>2
  <2>5. Run(k + 1) \subseteq Int
    OBVIOUS
  <2> HIDE DEF Run
  <2>6. Max(Run(k + 1)) = m + 1
    BY <2>3, <2>4, <2>5, MaxIs
  <2> QED
    BY <2>2, <2>3, <2>6 DEF m
<1> HIDE DEF Run
<1>5. CASE s[k] /= "\\"
  BY <1>1, <1>2, <1>5
<1>6. CASE s[k] = "\\" /\ Run(k) = {}
  <2>1. Max(Run(k + 1)) % 2 = 1 /\ Run(k + 1) /= {}
    BY <1>3, <1>6
  <2> QED
    BY <1>1, <1>6, <2>1
<1>7. CASE s[k] = "\\" /\ Run(k) /= {}
  <2> DEFINE m == Max(Run(k))
  <2>1. m \in Nat /\ Max(Run(k + 1)) = m + 1 /\ Run(k + 1) /= {}
    BY <1>4, <1>7
  <2>2. (m + 1) % 2 = 1 <=> ~ (m % 2 = 1)
    <3> HIDE DEF m
    <3> QED
      BY <2>1
  <2> QED
    BY <1>1, <1>7, <2>1, <2>2
<1> QED
  BY <1>5, <1>6, <1>7

\* The first character of the body is not.
LEMMA EscapedFirst ==
  ASSUME NEW s, NEW o \in Nat
  PROVE  ~Escaped(s, o, o + 1)
<1>1. {n \in 1 .. (o + 1) - o - 1 : \A j \in (o + 1) - n .. (o + 1) - 1 : s[j] = "\\"} = {}
  OBVIOUS
<1> QED
  BY <1>1 DEF Escaped

\* HashesAfter counts as eat_while does.
LEMMA Hashes ==
  ASSUME Text, NEW k \in 1 .. Len(input)
  PROVE  /\ HashesAfter(input, k) \in 0 .. Len(input) - k
         /\ eat_while(k, {"#"}) = k + HashesAfter(input, k)
         /\ \A j \in k + 1 .. k + HashesAfter(input, k) : input[j] = "#"
<1> DEFINE e == eat_while(k, {"#"})
           H == {n \in 0 .. Len(input) - k : \A j \in k + 1 .. k + n : input[j] = "#"}
<1>1. Len(input) \in Nat
  BY CursorFacts
<1>2. /\ e \in k .. Len(input)
      /\ \A j \in k + 1 .. e : input[j] = "#"
      /\ e < Len(input) => input[e + 1] /= "#"
  BY EatWhile
<1> HIDE DEF e
<1>3. e - k \in H
  BY <1>1, <1>2
<1>4. ASSUME NEW n \in H PROVE n <= e - k
  <2>1. CASE n > e - k
    <3>1. e < Len(input) /\ e + 1 \in k + 1 .. k + n
      BY <1>1, <1>2, <2>1
    <3>2. input[e + 1] = "#"
      BY <3>1
    <3> QED
      BY <3>1, <3>2, <1>2
  <2> QED
    BY <2>1, <1>2
<1>5. H \subseteq Int
  BY <1>1
<1>6. HashesAfter(input, k) = Max(H)
  BY DEF HashesAfter
<1> HIDE DEF H
<1>7. HashesAfter(input, k) = e - k
  BY <1>3, <1>4, <1>5, <1>6, MaxIs
<1> QED
  BY <1>1, <1>2, <1>7 DEF e

-----------------------------------------------------------------------------
(* The steps of advance_token *)

LEMMA Bounds ==
  ASSUME LInv
  PROVE  /\ Text /\ Len(input) \in Nat
         /\ start \in Nat /\ cur \in Nat /\ start <= cur /\ cur <= Len(input)
         /\ pc = "token" => start = cur
         /\ pc \in {"block", "single", "double", "raw_start", "raw"} => start < cur
<1>1. Text
  BY DEF LInv, Text
<1> QED
  BY <1>1, CursorFacts DEF LInv, CursorInv

Loops == {"block", "single", "double", "raw_start", "raw"}

\* A step of advance_token takes at least a character, and so does a round of
\* a loop that is not its last.
Forward ==
  /\ input' = input /\ pc' \in Loops \cup {"token"}
  /\ cur < cur' \/ (cur = cur' /\ pc \in Loops /\ pc' = "token")

\* A token that ends its literal may be added to the others.
LEMMA EmitKeeps ==
  ASSUME LInv, NEW kind, NEW suffix_start \in Nat, NEW end \in start + 1 .. Len(input),
         pc = "token" \/ (pc \in Loops /\ cur <= end),
         TokenEnds(input, [kind |-> kind, suffix_start |-> suffix_start - start,
                           len |-> end - start, start |-> start]),
         Emit(kind, suffix_start, end)
  PROVE  LInv' /\ Forward
<1> DEFINE t == [kind |-> kind, suffix_start |-> suffix_start - start,
                 len |-> end - start, start |-> start]
           ts == Append(tokens, t)
<1>1. /\ tokens' = ts /\ start' = end /\ cur' = end /\ pc' = "token"
      /\ input' = input /\ parsed' = parsed
  BY DEF Emit, text
<1>2. Len(input) \in Nat /\ start \in Nat /\ end \in Nat /\ start < end /\ end <= Len(input)
  BY Bounds
<1>3. /\ IsSeq(tokens) /\ Len(tokens) \in Nat
      /\ \A i \in 1 .. Len(tokens) : TokenOK(input, tokens, i)
      /\ start = Begin(tokens, Len(tokens) + 1)
  BY SeqFacts DEF LInv, TokensInv
<1>4. t.start = start /\ t.len = end - start
  OBVIOUS
<1>5. TokenEnds(input, t)
  OBVIOUS
<1> HIDE DEF t
<1>6. /\ IsSeq(ts) /\ Len(ts) = Len(tokens) + 1
      /\ \A i \in 1 .. Len(tokens) : ts[i] = tokens[i]
      /\ ts[Len(tokens) + 1] = t
  BY <1>3, SeqAppend
<1> HIDE DEF ts
<1>7. \A i \in 1 .. Len(tokens) + 1 : Begin(ts, i) = Begin(tokens, i)
  BY <1>3, <1>6 DEF Begin
<1>8. Begin(ts, Len(ts) + 1) = end
  BY <1>2, <1>3, <1>4, <1>6 DEF Begin
<1>9. \A i \in 1 .. Len(ts) : TokenOK(input, ts, i)
  <2>1. ASSUME NEW i \in 1 .. Len(tokens) PROVE TokenOK(input, ts, i)
    BY <1>3, <1>6, <1>7 DEF TokenOK
  <2>2. TokenOK(input, ts, Len(tokens) + 1)
    <3>1. Begin(ts, Len(tokens) + 1) = start
      BY <1>3, <1>7
    <3> QED
      BY <3>1, <1>2, <1>4, <1>5, <1>6 DEF TokenOK
  <2>3. \A i \in 1 .. Len(ts) : i \in 1 .. Len(tokens) \/ i = Len(tokens) + 1
    BY <1>3, <1>6
  <2> QED
    BY <2>1, <2>2, <2>3
<1>10. TokensInv'
  BY <1>1, <1>6, <1>8, <1>9 DEF TokensInv
<1>11. CursorInv'
  <2>1. parsed \in {"not yet", "no items", "item or error"}
    BY DEF LInv, CursorInv
  <2>2. start' \in Nat /\ cur' \in Nat /\ start' <= cur' /\ cur' <= Len(input')
    BY <1>1, <1>2
  <2>3. pc' = "token" /\ start' = cur' /\ parsed' = parsed
    BY <1>1
  <2> QED
    BY <2>1, <2>2, <2>3 DEF CursorInv
<1>12. DoubleInv' /\ SingleInv' /\ RawRegInv' /\ RawInv'
  BY <1>1 DEF DoubleInv, SingleInv, RawRegInv, RawInv
<1>13. Forward
  <2>1. pc = "token" => start = cur
    BY Bounds
  <2>2. cur \in Nat
    BY Bounds
  <2>3. cur < end \/ (cur = end /\ pc \in Loops)
    BY <1>2, <2>1, <2>2
  <2> QED
    BY <1>1, <2>3, Zenon DEF Forward
<1>14. LInv'
  BY <1>1, <1>10, <1>11, <1>12 DEF LInv
<1> QED
  BY <1>13, <1>14

Literals == Strings \cup Chars \cup RawStrings

LEMMA EmitPlainKeeps ==
  ASSUME LInv, NEW kind, kind.kind \notin Literals,
         NEW end \in start + 1 .. Len(input), EmitPlain(kind, end),
         pc = "token" \/ (pc \in Loops /\ cur <= end)
  PROVE  LInv' /\ Forward
<1>1. end \in Nat
  BY Bounds
<1>2. TokenEnds(input, [kind |-> kind, suffix_start |-> end - start,
                        len |-> end - start, start |-> start])
  BY DEF TokenEnds, Literals
<1> QED
  BY <1>1, <1>2, EmitKeeps DEF EmitPlain

LEMMA EmitLiteralKeeps ==
  ASSUME LInv, NEW kind, NEW complete \in BOOLEAN, NEW i \in start + 1 .. Len(input),
         pc = "token" \/ (pc \in Loops /\ cur <= i),
         \A n : TokenEnds(input, [kind |-> kind, suffix_start |-> i - start,
                                  len |-> n, start |-> start]),
         EmitLiteral(kind, complete, i)
  PROVE  LInv' /\ Forward
<1>1. i \in 0 .. Len(input) /\ i \in Nat /\ start \in Nat /\ Len(input) \in Nat /\ Text
  BY Bounds
<1>2. eat_literal_suffix(i) \in i .. Len(input)
  BY <1>1, EatInText
<1> DEFINE end == IF complete THEN eat_literal_suffix(i) ELSE i
<1>3. end \in start + 1 .. Len(input)
  BY <1>1, <1>2
<1>4. Emit(kind, i, end)
  BY DEF EmitLiteral
<1>5. pc = "token" \/ (pc \in Loops /\ cur <= end)
  <2>1. i <= end /\ end \in Nat /\ cur \in Nat
    BY <1>1, <1>2, Bounds
  <2> HIDE DEF end
  <2> QED
    BY <1>1, <2>1
<1> HIDE DEF end
<1> QED
  BY <1>1, <1>3, <1>4, <1>5, EmitKeeps

LEMMA Here ==
  ASSUME LInv, NEW c, At(c)
  PROVE  /\ pc = "token" /\ start = cur /\ cur < Len(input)
         /\ first(cur) = c /\ input[cur + 1] = c
<1>1. pc = "token" /\ cur /= Len(input) /\ first(cur) = c
  BY DEF At, is_eof
<1> QED
  BY <1>1, Bounds, CursorFacts

LEMMA HereAny ==
  ASSUME LInv, NEW S, AtAny(S)
  PROVE  pc = "token" /\ start = cur /\ cur < Len(input) /\ first(cur) \in S
<1>1. pc = "token" /\ cur /= Len(input) /\ first(cur) \in S
  BY DEF AtAny, is_eof
<1> QED
  BY <1>1, Bounds

LEMMA Next1 ==
  ASSUME LInv, second(cur) /= EOF_CHAR
  PROVE  cur + 1 < Len(input) /\ second(cur) = input[cur + 2]
  BY Bounds, CursorFacts

LEMMA PlainTokens ==
  ASSUME LInv,
         line_comment \/ Slash \/ whitespace \/ RawIdent \/ ident \/ OneSymbolToken \/ UnknownToken
  PROVE  LInv' /\ Forward
<1>0. /\ Text /\ Len(input) \in Nat /\ start \in Nat /\ cur \in Nat
      /\ \A k : Plain(k).kind = k
      /\ pc = "token"
  <2>1. pc = "token"
    BY Zenon DEF line_comment, Slash, whitespace, RawIdent, ident, OneSymbolToken, UnknownToken,
                 At, AtAny
  <2> QED
    BY <2>1, Bounds DEF Plain
<1>1. CASE line_comment
  <2>1. start = cur /\ cur + 2 \in 0 .. Len(input)
    BY <1>0, <1>1, Here, Next1 DEF line_comment, EOF_CHAR, NUL
  <2>2. eat_while(cur + 2, Alphabet \ {Newline}) \in start + 1 .. Len(input)
    BY <1>0, <2>1, EatWhile
  <2>3. Comment("LineComment", LineDoc(cur + 2), TRUE).kind \notin Literals
    BY DEF Comment, Literals, Strings, Chars, RawStrings
  <2> QED
    BY <1>0, <2>2, <2>3, <1>1, EmitPlainKeeps DEF line_comment
<1>2. CASE Slash
  <2>1. cur + 1 \in start + 1 .. Len(input)
    BY <1>0, <1>2, Here DEF Slash
  <2>2. Plain("Slash").kind \notin Literals
    BY DEF Plain, Literals, Strings, Chars, RawStrings
  <2> QED
    BY <1>0, <2>1, <2>2, <1>2, EmitPlainKeeps DEF Slash
<1>3. CASE whitespace
  <2>1. start = cur /\ cur + 1 \in 0 .. Len(input)
    BY <1>0, <1>3, HereAny DEF whitespace
  <2>2. eat_while(cur + 1, is_whitespace) \in start + 1 .. Len(input)
    BY <1>0, <2>1, EatWhile
  <2>3. Plain("Whitespace").kind \notin Literals
    BY DEF Plain, Literals, Strings, Chars, RawStrings
  <2> QED
    BY <1>0, <2>2, <2>3, <1>3, EmitPlainKeeps DEF whitespace
<1>4. CASE RawIdent
  <2>1. cur + 1 \in start + 1 .. Len(input)
    BY <1>0, <1>4, Here DEF RawIdent
  <2>2. Plain("Unknown").kind \notin Literals
    BY DEF Plain, Literals, Strings, Chars, RawStrings
  <2> QED
    BY <1>0, <2>1, <2>2, <1>4, EmitPlainKeeps DEF RawIdent
<1>5. CASE ident
  <2>0. AtAny(is_id_start)
    BY <1>5 DEF ident
  <2>1. start = cur /\ cur + 1 \in 0 .. Len(input)
    BY <1>0, <2>0, HereAny
  <2>2. eat_while(cur + 1, is_id_continue) \in start + 1 .. Len(input)
    BY <1>0, <2>1, EatWhile
  <2>3. Plain("Ident").kind \notin Literals
    BY DEF Plain, Literals, Strings, Chars, RawStrings
  <2> QED
    BY <1>0, <2>2, <2>3, <1>5, EmitPlainKeeps DEF ident
<1>6. CASE OneSymbolToken
  <2>1. PICK c \in DOMAIN OneSymbol : At(c) /\ EmitPlain(Plain(OneSymbol[c]), cur + 1)
    BY <1>6 DEF OneSymbolToken
  <2>2. cur + 1 \in start + 1 .. Len(input)
    BY <1>0, <2>1, Here
  <2>3. OneSymbol[c] \notin Literals
    BY DEF OneSymbol, Literals, Strings, Chars, RawStrings
  <2>4. Plain(OneSymbol[c]).kind \notin Literals
    BY <2>3, <1>0
  <2> QED
    BY <1>0, <2>1, <2>2, <2>4, EmitPlainKeeps
<1>7. CASE UnknownToken
  <2>1. cur + 1 \in start + 1 .. Len(input)
    BY <1>0, <1>7, HereAny DEF UnknownToken
  <2>2. Plain("Unknown").kind \notin Literals
    BY DEF Plain, Literals, Strings, Chars, RawStrings
  <2> QED
    BY <1>0, <2>1, <2>2, <1>7, EmitPlainKeeps DEF UnknownToken
<1> QED
  BY <1>1, <1>2, <1>3, <1>4, <1>5, <1>6, <1>7

LEMMA PrefixInText ==
  ASSUME Text, NEW i \in 0 .. Len(input)
  PROVE  Prefix(i).end \in i .. Len(input)
<1>1. Len(input) \in Nat /\ (first(i) /= EOF_CHAR => i < Len(input))
  BY CursorFacts
<1>2. eat_decimal_digits(i) \in i .. Len(input)
  BY EatInText
<1>3. ASSUME first(i) \in {"b", "o", "x"}
      PROVE  /\ eat_decimal_digits(i + 1) \in i .. Len(input)
             /\ eat_hexadecimal_digits(i + 1) \in i .. Len(input)
  <2>0. EOF_CHAR \notin {"b", "o", "x"}
    BY DEF EOF_CHAR, NUL
  <2>1. i < Len(input)
    BY <1>1, <1>3, <2>0
  <2>2. i + 1 \in 0 .. Len(input)
    BY <1>1, <2>1
  <2>3. /\ eat_decimal_digits(i + 1) \in i + 1 .. Len(input)
        /\ eat_hexadecimal_digits(i + 1) \in i + 1 .. Len(input)
    BY <2>2, EatInText
  <2> QED
    BY <1>1, <2>3
<1>4. \/ Prefix(i).end = eat_decimal_digits(i)
      \/ Prefix(i).end = eat_decimal_digits(i + 1) /\ first(i) \in {"b", "o", "x"}
      \/ Prefix(i).end = eat_hexadecimal_digits(i + 1) /\ first(i) \in {"b", "o", "x"}
      \/ Prefix(i).end = i
  BY DEF Prefix
<1> QED
  BY <1>1, <1>2, <1>3, <1>4

LEMMA FractionInText ==
  ASSUME Text, NEW i \in 0 .. Len(input)
  PROVE  Fraction(i).end \in i .. Len(input)
<1> DEFINE j == eat_decimal_digits(i)
<1>1. Len(input) \in Nat /\ j \in i .. Len(input)
  BY CursorFacts, EatInText
<1>2. first(j) = "e" => j < Len(input)
  BY <1>1, CursorFacts DEF EOF_CHAR, NUL
<1>3. first(j) = "e" => eat_float_exponent(j + 1) \in i .. Len(input)
  <2> HIDE DEF j
  <2>1. SUFFICES ASSUME first(j) = "e" PROVE eat_float_exponent(j + 1) \in i .. Len(input)
    OBVIOUS
  <2>2. j + 1 \in 0 .. Len(input)
    BY <1>1, <1>2, <2>1
  <2>3. eat_float_exponent(j + 1) \in j + 1 .. Len(input)
    BY <2>2, EatInText
  <2> QED
    BY <2>3, <1>1
<1> QED
  BY <1>1, <1>3 DEF Fraction

LEMMA NumberKeeps ==
  ASSUME LInv, number
  PROVE  LInv' /\ Forward
<1> DEFINE p == Prefix(cur + 1)
           i == p.end
           f == Fraction(i + 1)
           e == eat_float_exponent(i + 1)
<1>1. /\ Text /\ Len(input) \in Nat /\ start \in Nat /\ start = cur
      /\ cur + 1 \in 0 .. Len(input) /\ pc = "token"
  BY Bounds, HereAny DEF number
<1>2. i \in start + 1 .. Len(input) /\ i \in 0 .. Len(input) /\ i \in Nat
  BY <1>1, PrefixInText
<1>3. DotOfFraction(i) => f.end \in start + 1 .. Len(input)
  <2> HIDE DEF i
  <2>1. SUFFICES ASSUME DotOfFraction(i) PROVE f.end \in start + 1 .. Len(input)
    OBVIOUS
  <2>2. i + 1 \in 0 .. Len(input)
    BY <1>1, <1>2, <2>1, CursorFacts DEF DotOfFraction, EOF_CHAR, NUL
  <2>3. f.end \in i + 1 .. Len(input)
    BY <1>1, <2>2, FractionInText
  <2> QED
    BY <1>1, <1>2, <2>3
<1>4. first(i) = "e" => e \in start + 1 .. Len(input)
  <2> HIDE DEF i
  <2>1. SUFFICES ASSUME first(i) = "e" PROVE e \in start + 1 .. Len(input)
    OBVIOUS
  <2>2. i + 1 \in 0 .. Len(input)
    BY <1>1, <1>2, <2>1, CursorFacts DEF EOF_CHAR, NUL
  <2>3. e \in i + 1 .. Len(input)
    BY <1>1, <2>2, EatInText
  <2> QED
    BY <1>1, <1>2, <2>3
<1>5. ASSUME NEW k \in {"Int", "Float"}, NEW base, NEW empty,
             NEW end \in start + 1 .. Len(input),
             EmitLiteral(Number(k, base, empty), TRUE, end)
      PROVE  LInv' /\ Forward
  <2>1. \A n : TokenEnds(input, [kind |-> Number(k, base, empty), suffix_start |-> end - start,
                                 len |-> n, start |-> start])
    BY DEF Number, TokenEnds, Strings, Chars, RawStrings
  <2> QED
    BY <1>1, <1>5, <2>1, EmitLiteralKeeps
<1>6. \/ \E k \in {"Int", "Float"} : \E base, empty :
           EmitLiteral(Number(k, base, empty), TRUE, i)
      \/ DotOfFraction(i) /\ \E base, empty : EmitLiteral(Number("Float", base, empty), TRUE, f.end)
      \/ first(i) = "e" /\ \E base, empty : EmitLiteral(Number("Float", base, empty), TRUE, e)
  <2> HIDE DEF i, f, e, p
  <2>1. \/ EmitLiteral(Number("Int", p.base, TRUE), TRUE, i)
        \/ EmitLiteral(Number("Int", "Decimal", FALSE), TRUE, i)
        \/ DotOfFraction(i) /\ EmitLiteral(Number("Float", p.base, f.empty), TRUE, f.end)
        \/ first(i) = "e" /\ EmitLiteral(Number("Float", p.base, ~has_any(i + 1, e, digit)), TRUE, e)
        \/ EmitLiteral(Number("Int", p.base, FALSE), TRUE, i)
    BY Zenon DEF number, i, f, e, p
  <2> QED
    BY <2>1
<1> HIDE DEF i, f, e, p
<1> QED
  BY <1>2, <1>3, <1>4, <1>5, <1>6


-----------------------------------------------------------------------------
(* The functions with a loop *)

\* A step into one of them, or round it, takes at least a character.
LEMMA EnterKeeps ==
  ASSUME LInv, NEW f \in Loops, NEW locals, NEW i \in start + 1 .. Len(input),
         Enter(f, locals, i), pc = "token" \/ cur < i
  PROVE  /\ pc' = f /\ reg' = locals /\ cur' = i /\ input' = input /\ start' = start
         /\ (DoubleInv /\ SingleInv /\ RawRegInv /\ RawInv)' => LInv' /\ Forward
         /\ f /= "double" => DoubleInv'
         /\ f /= "single" => SingleInv'
         /\ f \notin {"raw_start", "raw"} => RawRegInv'
         /\ f /= "raw" => RawInv'
<1>1. /\ pc' = f /\ reg' = locals /\ cur' = i /\ input' = input /\ start' = start
      /\ tokens' = tokens /\ parsed' = parsed
  BY DEF Enter, text
<1>2. Len(input) \in Nat /\ start \in Nat /\ i \in Nat /\ start < i /\ i <= Len(input)
  BY Bounds
<1>3. CursorInv'
  <2>1. parsed \in {"not yet", "no items", "item or error"}
    BY DEF LInv, CursorInv
  <2>2. /\ start' \in Nat /\ cur' \in Nat /\ start' < cur' /\ start' <= cur'
        /\ cur' <= Len(input') /\ pc' \in Loops
    BY <1>1, <1>2
  <2>3. pc' \in {"token", "block", "single", "double", "raw_start", "raw", "parse", "done"}
    BY <2>2 DEF Loops
  <2>4. pc' /= "token" /\ pc' \notin {"parse", "done"}
    BY <2>2 DEF Loops
  <2> QED
    <3>1. parsed' \in {"not yet", "no items", "item or error"}
      BY <1>1, <2>1
    <3>2. pc' = "token" => start' = cur'
      BY <2>4
    <3>3. pc' \in {"parse", "done"} => start' = Len(input') /\ Len(tokens') > 0
      BY <2>4
    <3> QED
      BY <2>2, <2>3, <3>1, <3>2, <3>3, Zenon DEF CursorInv
<1>4. TokensInv'
  BY <1>1 DEF LInv, TokensInv
<1>5. (DoubleInv /\ SingleInv /\ RawRegInv /\ RawInv)' => LInv'
  BY <1>1, <1>3, <1>4 DEF LInv
<1>6. Forward
  <2>1. pc = "token" => start = cur
    BY Bounds
  <2>2. cur < i
    BY <1>2, <2>1
  <2> QED
    BY <1>1, <2>2, Zenon DEF Forward
<1> QED
  BY <1>1, <1>5, <1>6 DEF DoubleInv, SingleInv, RawRegInv, RawInv

LEMMA CommentKeeps ==
  ASSUME LInv, block_comment \/ BlockRound \/ BlockEof
  PROVE  LInv' /\ Forward
<1>1. /\ Text /\ Len(input) \in Nat /\ start \in Nat /\ cur \in Nat
      /\ start <= cur /\ cur <= Len(input) /\ "block" \in Loops
      /\ pc = "block" => start < cur
  BY Bounds DEF Loops
<1>2. ASSUME NEW locals, NEW i \in cur + 1 .. Len(input), Enter("block", locals, i)
      PROVE  LInv' /\ Forward
  <2>1. i \in start + 1 .. Len(input) /\ cur < i
    BY <1>1
  <2> QED
    BY <1>1, <1>2, <2>1, EnterKeeps
<1>3. ASSUME pc = "block", NEW doc, NEW term, NEW end \in cur .. Len(input),
             EmitPlain(Comment("BlockComment", doc, term), end)
      PROVE  LInv' /\ Forward
  <2>1. Comment("BlockComment", doc, term).kind \notin Literals
    BY DEF Comment, Literals, Strings, Chars, RawStrings
  <2>2. end \in start + 1 .. Len(input) /\ cur <= end
    BY <1>1, <1>3
  <2> QED
    BY <1>1, <1>3, <2>1, <2>2, EmitPlainKeeps
<1>4. CASE block_comment
  <2>1. cur + 2 \in cur + 1 .. Len(input)
    BY <1>1, <1>4, Here, Next1 DEF block_comment, EOF_CHAR, NUL
  <2> QED
    BY <1>2, <1>4, <2>1 DEF block_comment
<1>5. CASE BlockRound
  <2>1. pc = "block" /\ cur < Len(input)
    BY <1>1, <1>5 DEF BlockRound, is_eof
  <2>2. cur + 1 \in cur + 1 .. Len(input)
    BY <1>1, <2>1
  <2>3. first(cur + 1) /= EOF_CHAR =>
          cur + 2 \in cur + 1 .. Len(input) /\ cur + 2 \in cur .. Len(input)
    BY <1>1, <2>1, CursorFacts
  <2>4. "*" /= EOF_CHAR /\ "/" /= EOF_CHAR
    BY DEF EOF_CHAR, NUL
  <2>5. cur + 1 + 1 = cur + 2
    BY <1>1
  <2>6. \/ first(cur + 1) = "*" /\ Enter(pc, [reg EXCEPT !.depth = @ + 1], cur + 2)
        \/ first(cur + 1) = "/" /\ EmitPlain(Comment("BlockComment", reg.doc, TRUE), cur + 2)
        \/ first(cur + 1) = "/" /\ Enter(pc, [reg EXCEPT !.depth = @ - 1], cur + 2)
        \/ Enter(pc, reg, cur + 1)
    BY <1>5, <2>5, Zenon DEF BlockRound, Round
  <2> QED
    BY <1>2, <1>3, <2>1, <2>2, <2>3, <2>4, <2>6
<1>6. CASE BlockEof
  <2>1. pc = "block" /\ cur \in cur .. Len(input)
    BY <1>1, <1>6 DEF BlockEof
  <2> QED
    BY <1>3, <1>6, <2>1 DEF BlockEof
<1> QED
  BY <1>4, <1>5, <1>6

-----------------------------------------------------------------------------
(* double_quoted_string *)

LEMMA EscapesHere ==
  ASSUME cur \in Nat, NEW o \in Nat, o <= cur
  PROVE  /\ ~Escaped(input, o, o + 1)
         /\ Escaped(input, o, cur + 2) <=> input[cur + 1] = "\\" /\ ~Escaped(input, o, cur + 1)
         /\ Escaped(input, o, cur + 3) <=> input[cur + 2] = "\\" /\ ~Escaped(input, o, cur + 2)
<1>1. ASSUME NEW k \in Nat, k > o
      PROVE  Escaped(input, o, k + 1) <=> input[k] = "\\" /\ ~Escaped(input, o, k)
  BY <1>1, EscapedStep, Zenon
<1>2. cur + 1 \in Nat /\ cur + 1 > o /\ cur + 2 \in Nat /\ cur + 2 > o
      /\ cur + 1 + 1 = cur + 2 /\ cur + 2 + 1 = cur + 3
  OBVIOUS
<1>3. Escaped(input, o, cur + 1 + 1) <=> input[cur + 1] = "\\" /\ ~Escaped(input, o, cur + 1)
  BY <1>1, <1>2, Zenon
<1>4. Escaped(input, o, cur + 2 + 1) <=> input[cur + 2] = "\\" /\ ~Escaped(input, o, cur + 2)
  BY <1>1, <1>2, Zenon
<1>5. ~Escaped(input, o, o + 1)
  BY EscapedFirst, Zenon
<1> QED
  BY <1>2, <1>3, <1>4, <1>5, Zenon

\* The token of a quoted literal.
QuotedToken(term, i, n) ==
  [kind |-> Quoted(reg.kind, term), suffix_start |-> i - start, len |-> n, start |-> start]

LEMMA QuotedFields ==
  ASSUME NEW term, NEW i \in Nat, NEW n, start \in Nat
  PROVE  LET t == QuotedToken(term, i, n) IN
         /\ t.kind.kind = reg.kind /\ t.kind.terminated = term
         /\ BodyEnd(t) = i
         /\ Opening(t) = start + (IF reg.kind \in {"Byte", "ByteStr"} THEN 2 ELSE 1)
  BY DEF QuotedToken, Quoted, BodyEnd, Opening

LEMMA QuoteIsNoOther ==
  Quote /= EOF_CHAR /\ Quote /= "\\" /\ Quote /= "#"
  BY Zenon DEF Quote, EOF_CHAR, NUL

LEMMA EnterDouble ==
  ASSUME LInv, StrLiteral \/ ByteStrLiteral
  PROVE  LInv' /\ Forward
<1>1. /\ Text /\ Len(input) \in Nat /\ start \in Nat /\ "double" \in Loops
      /\ pc = "token"
  BY Bounds DEF Loops, StrLiteral, ByteStrLiteral, At
<1>2. \E k \in Strings : LET o == Body(k, start) IN
        o \in start + 1 .. Len(input) /\ Enter("double", [kind |-> k], o)
  <2>1. CASE StrLiteral
    <3>1. start = cur /\ start < Len(input) /\ Enter("double", [kind |-> "Str"], start + 1)
      BY <2>1, Here DEF StrLiteral
    <3> QED
      BY <1>1, <3>1 DEF Strings, Body
  <2>2. CASE ByteStrLiteral
    <3>1. start = cur /\ second(cur) /= EOF_CHAR /\ Enter("double", [kind |-> "ByteStr"], start + 2)
      BY <2>2, Here, QuoteIsNoOther DEF ByteStrLiteral
    <3>2. start + 1 < Len(input)
      BY <3>1, Next1
    <3> QED
      BY <1>1, <3>1, <3>2 DEF Strings, Body
  <2> QED
    BY <2>1, <2>2
<1>3. PICK k \in Strings : LET o == Body(k, start) IN
        o \in start + 1 .. Len(input) /\ Enter("double", [kind |-> k], o)
  BY <1>2
<1> DEFINE o == Body(k, start)
<1>4. /\ pc' = "double" /\ reg' = [kind |-> k] /\ cur' = o /\ input' = input /\ start' = start
      /\ (DoubleInv /\ SingleInv /\ RawRegInv /\ RawInv)' => LInv' /\ Forward
      /\ SingleInv' /\ RawRegInv' /\ RawInv'
  BY <1>1, <1>3, EnterKeeps
<1>5. o \in Nat /\ Body(reg'.kind, start') = o /\ reg'.kind = k
  BY <1>1, <1>3, <1>4
<1> HIDE DEF o
<1>6. ~Escaped(input, o, o + 1)
  BY <1>5, EscapedFirst, Zenon
<1>7. DoubleInv'
  BY <1>3, <1>4, <1>5, <1>6 DEF DoubleInv
<1> QED
  BY <1>4, <1>7

LEMMA DoubleKeeps ==
  ASSUME LInv, double_quoted_string
  PROVE  LInv' /\ Forward
<1> DEFINE o == Body(reg.kind, start)
           c == first(cur)
           escape == c = "\\" /\ second(cur) \in {"\\", Quote}
<1>1. /\ Text /\ Len(input) \in Nat /\ start \in Nat /\ cur \in Nat
      /\ pc = "double" /\ start < cur /\ cur <= Len(input) /\ "double" \in Loops
  BY Bounds DEF double_quoted_string, Loops
<1>2. /\ reg.kind \in Strings
      /\ o <= cur
      /\ \A k \in o + 1 .. cur : input[k] = Quote => Escaped(input, o, k)
      /\ cur < Len(input) /\ Escaped(input, o, cur + 1) => input[cur + 1] \notin {"\\", Quote}
  BY <1>1 DEF LInv, DoubleInv
<1>3. o \in Nat /\ o = start + (IF reg.kind \in {"Byte", "ByteStr"} THEN 2 ELSE 1)
  BY <1>1, <1>2 DEF Body, Strings
<1> HIDE DEF o
<1>4. /\ cur < Len(input) => c = input[cur + 1]
      /\ cur + 1 < Len(input) => second(cur) = input[cur + 2]
      /\ cur + 1 >= Len(input) => second(cur) = EOF_CHAR
      /\ is_eof(cur) <=> cur = Len(input)
      /\ c /= EOF_CHAR => cur < Len(input)
  BY <1>1, CursorFacts DEF is_eof
<1> HIDE DEF c
<1>5. Quote /= EOF_CHAR /\ "\\" /= EOF_CHAR
  BY QuoteIsNoOther DEF EOF_CHAR, NUL
<1>6. ASSUME NEW term \in BOOLEAN, NEW i \in cur .. Len(input),
             IF term THEN QuotesAfter(input, o, Quote) /= {} /\ i = Min(QuotesAfter(input, o, Quote))
             ELSE QuotesAfter(input, o, Quote) = {} /\ i = Len(input),
             EmitLiteral(Quoted(reg.kind, term), term, i)
      PROVE  LInv' /\ Forward
  <2>1. ASSUME NEW n PROVE TokenEnds(input, QuotedToken(term, i, n))
    <3> DEFINE t == QuotedToken(term, i, n)
    <3>1. t.kind.kind = reg.kind /\ t.kind.terminated = term /\ BodyEnd(t) = i /\ Opening(t) = o
      <4>1. i \in Nat
        BY <1>1
      <4> QED
        BY <1>1, <1>3, <4>1, QuotedFields
    <3> HIDE DEF t
    <3>2. StringEnds(input, t)
      BY <1>6, <3>1 DEF StringEnds
    <3>3. t.kind.kind \notin Chars /\ t.kind.kind \notin RawStrings
      BY <3>1, <1>2 DEF Strings, Chars, RawStrings
    <3>4. TokenEnds(input, t)
      BY <3>2, <3>3 DEF TokenEnds
    <3> QED
      BY <3>4 DEF t
  <2>2. i \in start + 1 .. Len(input) /\ cur <= i
    BY <1>1
  <2> QED
    BY <1>1, <1>6, <2>1, <2>2, EmitLiteralKeeps DEF QuotedToken
<1>7. ASSUME NEW i \in cur + 1 .. Len(input), Enter("double", reg, i),
             \A k \in cur + 1 .. i : input[k] = Quote => Escaped(input, o, k),
             i < Len(input) /\ Escaped(input, o, i + 1) => input[i + 1] \notin {"\\", Quote}
      PROVE  LInv' /\ Forward
  <2>1. i \in start + 1 .. Len(input) /\ i \in Nat /\ cur < i
    BY <1>1
  <2>2. /\ pc' = "double" /\ reg' = reg /\ cur' = i /\ input' = input /\ start' = start
        /\ (DoubleInv /\ SingleInv /\ RawRegInv /\ RawInv)' => LInv' /\ Forward
        /\ SingleInv' /\ RawRegInv' /\ RawInv'
    BY <1>1, <1>7, <2>1, EnterKeeps
  <2>3. Body(reg'.kind, start') = o
    BY <2>2 DEF o
  <2>4. o <= i /\ \A k \in o + 1 .. i : input[k] = Quote => Escaped(input, o, k)
    BY <1>1, <1>2, <1>3, <1>7
  <2>5. DoubleInv'
    BY <1>2, <1>7, <2>2, <2>3, <2>4 DEF DoubleInv
  <2> QED
    BY <2>2, <2>5
<1>8. \/ cur = Len(input) /\ EmitLiteral(Quoted(reg.kind, FALSE), FALSE, cur)
      \/ c = Quote /\ EmitLiteral(Quoted(reg.kind, TRUE), TRUE, cur + 1)
      \/ escape /\ Enter("double", reg, cur + 2)
      \/ cur < Len(input) /\ c /= Quote /\ ~escape /\ Enter("double", reg, cur + 1)
  <2> HIDE DEF escape
  <2>1. \/ is_eof(cur) /\ EmitLiteral(Quoted(reg.kind, FALSE), FALSE, cur)
        \/ c = Quote /\ EmitLiteral(Quoted(reg.kind, TRUE), TRUE, cur + 1)
        \/ escape /\ Enter("double", reg, cur + 2)
        \/ ~is_eof(cur) /\ c /= Quote /\ ~escape /\ Enter("double", reg, cur + 1)
    BY <1>1, Zenon DEF double_quoted_string, Round, escape, c
  <2>2. (is_eof(cur) => cur = Len(input)) /\ (~is_eof(cur) => cur < Len(input))
    BY <1>1, <1>4
  <2> QED
    BY <2>1, <2>2, Zenon
<1>14. /\ Escaped(input, o, cur + 2) <=> input[cur + 1] = "\\" /\ ~Escaped(input, o, cur + 1)
       /\ Escaped(input, o, cur + 3) <=> input[cur + 2] = "\\" /\ ~Escaped(input, o, cur + 2)
  BY <1>1, <1>2, <1>3, EscapesHere
<1>9. \A k \in QuotesAfter(input, o, Quote) : k \in Int /\ k > cur
  BY <1>1, <1>2, <1>3 DEF QuotesAfter
<1>10. CASE cur = Len(input) /\ EmitLiteral(Quoted(reg.kind, FALSE), FALSE, cur)
  <2>1. QuotesAfter(input, o, Quote) = {}
    BY <1>9, <1>10, <1>1 DEF QuotesAfter
  <2>2. cur \in cur .. Len(input)
    BY <1>1
  <2> QED
    BY <1>6, <1>10, <2>1, <2>2
<1>11. CASE c = Quote /\ EmitLiteral(Quoted(reg.kind, TRUE), TRUE, cur + 1)
  <2>1. cur < Len(input) /\ cur + 1 \in cur .. Len(input)
    BY <1>1, <1>4, <1>5, <1>11
  <2>2. input[cur + 1] = Quote /\ ~Escaped(input, o, cur + 1)
    BY <1>2, <1>4, <1>11, <2>1
  <2>3. cur + 1 \in QuotesAfter(input, o, Quote)
    BY <1>1, <1>2, <1>3, <2>1, <2>2 DEF QuotesAfter
  <2>4. Min(QuotesAfter(input, o, Quote)) = cur + 1
    <3>1. QuotesAfter(input, o, Quote) \subseteq Int /\ \A k \in QuotesAfter(input, o, Quote) : cur + 1 <= k
      BY <1>1, <1>9
    <3> QED
      BY <2>3, <3>1, MinIs
  <2> QED
    BY <1>6, <1>11, <2>1, <2>3, <2>4
<1>12. CASE escape /\ Enter("double", reg, cur + 2)
  <2>1. cur + 1 < Len(input) /\ input[cur + 1] = "\\"
    BY <1>1, <1>4, <1>5, <1>12
  <2>2. ~Escaped(input, o, cur + 1)
    BY <1>1, <1>2, <2>1
  <2>3. Escaped(input, o, cur + 2) /\ ~Escaped(input, o, cur + 3)
    BY <1>14, <2>1, <2>2, Zenon
  <2>4. cur + 2 + 1 = cur + 3 /\ cur + 2 \in cur + 1 .. Len(input)
        /\ \A k \in cur + 1 .. cur + 2 : k = cur + 1 \/ k = cur + 2
    BY <1>1, <2>1
  <2>5. ~Escaped(input, o, cur + 2 + 1)
    BY <2>3, <2>4, Zenon
  <2>6. \A k \in cur + 1 .. cur + 2 : input[k] = Quote => Escaped(input, o, k)
    <3>1. input[cur + 1] /= Quote
      BY QuoteIsNoOther, <2>1
    <3> QED
      BY <2>3, <2>4, <3>1, Zenon
  <2> QED
    BY <1>7, <1>12, <2>4, <2>5, <2>6, Zenon
<1>13. CASE cur < Len(input) /\ c /= Quote /\ ~escape /\ Enter("double", reg, cur + 1)
  <2>1. cur + 1 \in cur + 1 .. Len(input) /\ input[cur + 1] = c
        /\ \A k \in cur + 1 .. cur + 1 : k = cur + 1
    BY <1>1, <1>4, <1>13
  <2>2. cur + 1 + 1 = cur + 2
    BY <1>1
  <2>3. Escaped(input, o, cur + 2) => c = "\\"
    BY <1>14, <2>1, Zenon
  <2>4. cur + 1 < Len(input) /\ Escaped(input, o, cur + 2) => input[cur + 2] \notin {"\\", Quote}
    BY <1>4, <1>13, <2>3
  <2> QED
    BY <1>7, <1>13, <2>1, <2>2, <2>4
<1> QED
  BY <1>8, <1>10, <1>11, <1>12, <1>13

-----------------------------------------------------------------------------
(* single_quoted_string *)

LEMMA EnterSingle ==
  ASSUME LInv, char_literal \/ ByteChar
  PROVE  LInv' /\ Forward
<1>1. /\ Text /\ Len(input) \in Nat /\ start \in Nat /\ "single" \in Loops
      /\ pc = "token"
  BY Bounds DEF Loops, char_literal, ByteChar, At
<1>2. \E k \in Chars : LET o == Body(k, start) IN
        o \in start + 1 .. Len(input) /\ Enter("single", [kind |-> k, fresh |-> TRUE], o)
  <2>1. CASE char_literal
    <3>1. start = cur /\ start < Len(input)
          /\ Enter("single", [kind |-> "Char", fresh |-> TRUE], start + 1)
      BY <2>1, Here DEF char_literal
    <3> QED
      BY <1>1, <3>1 DEF Chars, Body
  <2>2. CASE ByteChar
    <3>1. start = cur /\ second(cur) /= EOF_CHAR
          /\ Enter("single", [kind |-> "Byte", fresh |-> TRUE], start + 2)
      BY <2>2, Here DEF ByteChar, EOF_CHAR, NUL
    <3>2. start + 1 < Len(input)
      BY <3>1, Next1
    <3> QED
      BY <1>1, <3>1, <3>2 DEF Chars, Body
  <2> QED
    BY <2>1, <2>2
<1>3. PICK k \in Chars : LET o == Body(k, start) IN
        o \in start + 1 .. Len(input) /\ Enter("single", [kind |-> k, fresh |-> TRUE], o)
  BY <1>2
<1> DEFINE o == Body(k, start)
<1>4. /\ pc' = "single" /\ reg' = [kind |-> k, fresh |-> TRUE]
      /\ cur' = o /\ input' = input /\ start' = start
      /\ (DoubleInv /\ SingleInv /\ RawRegInv /\ RawInv)' => LInv' /\ Forward
      /\ DoubleInv' /\ RawRegInv' /\ RawInv'
  BY <1>1, <1>3, EnterKeeps
<1>5. /\ o \in Nat /\ Body(reg'.kind, start') = o
      /\ reg' \in [kind : Chars, fresh : BOOLEAN] /\ reg'.fresh
  BY <1>1, <1>3, <1>4
<1> HIDE DEF o
<1>6. ~Escaped(input, o, o + 1)
  BY <1>5, EscapedFirst, Zenon
<1>7. \A j \in o + 1 .. o : FALSE
  BY <1>5
<1>8. SingleInv'
  BY <1>3, <1>4, <1>5, <1>6, <1>7 DEF SingleInv
<1> QED
  BY <1>4, <1>8

\* What is least of the numbers above a bound is above it.
LEMMA MinAbove ==
  ASSUME NEW S, S \subseteq Nat, S /= {}, NEW b \in Int, \A y \in S : y > b
  PROVE  Min(S) > b
  BY LeastNumber

LEMMA SingleKeeps ==
  ASSUME LInv, single_quoted_string
  PROVE  LInv' /\ Forward
<1> DEFINE o == Body(reg.kind, start)
           c == first(cur)
           n == second(cur)
           ends == QuotesAfter(input, o, "'")
           stops == {k \in o + 1 .. Len(input) : ~Escaped(input, o, k) /\ StopAt(input, k)}
           stop == Min(stops \cup {Len(input) + 1})
<1>1. /\ Text /\ Len(input) \in Nat /\ start \in Nat /\ cur \in Nat
      /\ pc = "single" /\ start < cur /\ cur <= Len(input) /\ "single" \in Loops
  BY Bounds DEF single_quoted_string, Loops
<1>2. /\ reg \in [kind : Chars, fresh : BOOLEAN]
      /\ o <= cur
      /\ reg.fresh => cur = o
      /\ ~reg.fresh => ~OneSymbolAt(input, o)
      /\ \A k \in o + 1 .. cur : ~Escaped(input, o, k) => input[k] /= "'" /\ ~StopAt(input, k)
      /\ cur < Len(input) => ~Escaped(input, o, cur + 1)
  BY <1>1 DEF LInv, SingleInv
<1>3. o \in Nat /\ o = start + (IF reg.kind \in {"Byte", "ByteStr"} THEN 2 ELSE 1)
      /\ reg.kind \in Chars
  BY <1>1, <1>2 DEF Body, Chars
<1> HIDE DEF o
<1>4. /\ cur < Len(input) => c = input[cur + 1]
      /\ cur + 1 < Len(input) => n = input[cur + 2]
      /\ cur + 1 >= Len(input) => n = EOF_CHAR
      /\ is_eof(cur) <=> cur = Len(input)
      /\ cur = Len(input) => c = EOF_CHAR
      /\ cur + 1 = Len(input) => bump(cur + 1) = cur + 1
      /\ cur + 1 < Len(input) => bump(cur + 1) = cur + 2
  BY <1>1, CursorFacts DEF is_eof
<1>5. EOF_CHAR \notin {"'", "/", "\\", Newline}
  BY DEF EOF_CHAR, NUL, Newline
<1> HIDE DEF c, n
<1>6. /\ stops \subseteq Nat /\ stops \cup {Len(input) + 1} \subseteq Nat
      /\ ends \subseteq Nat
      /\ \A k \in ends : k > cur /\ k <= Len(input) /\ input[k] = "'"
      /\ \A k \in stops : k > cur /\ k <= Len(input) /\ StopAt(input, k)
  BY <1>1, <1>2, <1>3 DEF QuotesAfter
<1>7. ASSUME NEW term \in BOOLEAN, NEW i \in cur .. Len(input),
             IF OneSymbolAt(input, o) THEN term /\ i = o + 2
             ELSE IF term THEN ends /= {} /\ i = Min(ends) /\ i < stop
             ELSE i = stop - 1 /\ \A k \in ends : k > stop,
             EmitLiteral(Quoted(reg.kind, term), term, i)
      PROVE  LInv' /\ Forward
  <2> HIDE DEF ends
  <2>1. ASSUME NEW m PROVE TokenEnds(input, QuotedToken(term, i, m))
    <3> DEFINE t == QuotedToken(term, i, m)
    <3>1. t.kind.kind = reg.kind /\ t.kind.terminated = term /\ BodyEnd(t) = i /\ Opening(t) = o
      <4>1. i \in Nat
        BY <1>1
      <4> QED
        BY <1>1, <1>3, <4>1, QuotedFields
    <3> HIDE DEF t
    <3>2. CharEnds(input, t)
      <4> HIDE DEF stop
      <4>1. CharEnds(input, t) <=>
              IF OneSymbolAt(input, o) THEN t.kind.terminated /\ BodyEnd(t) = o + 2
              ELSE IF t.kind.terminated
              THEN ends /= {} /\ BodyEnd(t) = Min(ends) /\ Min(ends) < stop
              ELSE BodyEnd(t) = stop - 1 /\ \A k \in ends : k > stop
        BY <3>1, Zenon DEF CharEnds, ends, stop
      <4> QED
        BY <1>7, <3>1, <4>1
    <3>3. t.kind.kind \notin Strings /\ t.kind.kind \notin RawStrings
      BY <3>1, <1>3 DEF Strings, Chars, RawStrings
    <3>4. TokenEnds(input, t)
      BY <3>2, <3>3 DEF TokenEnds
    <3> QED
      BY <3>4 DEF t
  <2>2. i \in start + 1 .. Len(input) /\ cur <= i
    BY <1>1
  <2> QED
    BY <1>1, <1>7, <2>1, <2>2, EmitLiteralKeeps DEF QuotedToken
<1> DEFINE reg2 == [reg EXCEPT !.fresh = FALSE]
<1>8. ASSUME NEW i \in cur + 1 .. Len(input), Enter("single", reg2, i),
             ~OneSymbolAt(input, o),
             \A k \in cur + 1 .. i : ~Escaped(input, o, k) => input[k] /= "'" /\ ~StopAt(input, k),
             i < Len(input) => ~Escaped(input, o, i + 1)
      PROVE  LInv' /\ Forward
  <2>1. i \in start + 1 .. Len(input) /\ i \in Nat /\ cur < i
    BY <1>1
  <2>2. /\ pc' = "single" /\ reg' = reg2 /\ cur' = i /\ input' = input /\ start' = start
        /\ (DoubleInv /\ SingleInv /\ RawRegInv /\ RawInv)' => LInv' /\ Forward
        /\ DoubleInv' /\ RawRegInv' /\ RawInv'
    BY <1>1, <1>8, <2>1, EnterKeeps
  <2>3. reg' \in [kind : Chars, fresh : BOOLEAN] /\ ~reg'.fresh /\ reg'.kind = reg.kind
    BY <1>2, <2>2
  <2>4. Body(reg'.kind, start') = o
    BY <2>2, <2>3 DEF o
  <2>5. o <= i /\ \A k \in o + 1 .. i : ~Escaped(input, o, k) => input[k] /= "'" /\ ~StopAt(input, k)
    BY <1>1, <1>2, <1>3, <1>8
  <2>6. SingleInv'
    BY <1>8, <2>2, <2>3, <2>4, <2>5 DEF SingleInv
  <2> QED
    BY <2>2, <2>6
<1>9. \/ reg.fresh /\ n = "'" /\ c /= "\\" /\ EmitLiteral(Quoted(reg.kind, TRUE), TRUE, cur + 2)
      \/ /\ ~(reg.fresh /\ n = "'" /\ c /= "\\")
         /\ \/ c = "'" /\ EmitLiteral(Quoted(reg.kind, TRUE), TRUE, cur + 1)
            \/ /\ c = "/" \/ (c = Newline /\ n /= "'") \/ cur = Len(input)
               /\ EmitLiteral(Quoted(reg.kind, FALSE), FALSE, cur)
            \/ c = "\\" /\ Enter("single", reg2, bump(cur + 1))
            \/ /\ c \notin {"'", "/", "\\"} /\ ~(c = Newline /\ n /= "'")
               /\ cur < Len(input)
               /\ Enter("single", reg2, cur + 1)
  <2> HIDE DEF reg2
  <2>1. \/ reg.fresh /\ n = "'" /\ c /= "\\" /\ EmitLiteral(Quoted(reg.kind, TRUE), TRUE, cur + 2)
        \/ /\ ~(reg.fresh /\ n = "'" /\ c /= "\\")
           /\ \/ c = "'" /\ EmitLiteral(Quoted(reg.kind, TRUE), TRUE, cur + 1)
              \/ /\ c = "/" \/ (c = Newline /\ n /= "'") \/ is_eof(cur)
                 /\ EmitLiteral(Quoted(reg.kind, FALSE), FALSE, cur)
              \/ c = "\\" /\ Enter("single", reg2, bump(cur + 1))
              \/ /\ c \notin {"'", "/", "\\"} /\ ~(c = Newline /\ n /= "'")
                 /\ ~is_eof(cur)
                 /\ Enter("single", reg2, cur + 1)
    BY <1>1, Zenon DEF single_quoted_string, Round, c, n, reg2
  <2>2. (is_eof(cur) => cur = Len(input)) /\ (~is_eof(cur) => cur < Len(input))
    BY <1>1, <1>4
  <2> QED
    BY <2>1, <2>2, Zenon
<1>10. CASE reg.fresh /\ n = "'" /\ c /= "\\" /\ EmitLiteral(Quoted(reg.kind, TRUE), TRUE, cur + 2)
  <2>1. cur + 1 < Len(input) /\ cur = o
    BY <1>1, <1>2, <1>4, <1>5, <1>10
  <2>2. OneSymbolAt(input, o) /\ cur + 2 = o + 2 /\ cur + 2 \in cur .. Len(input)
    BY <1>1, <1>3, <1>4, <1>10, <2>1 DEF OneSymbolAt
  <2> QED
    BY <1>7, <1>10, <2>2
<1>11. SUFFICES ASSUME ~(reg.fresh /\ n = "'" /\ c /= "\\")
                PROVE  LInv' /\ Forward
  BY <1>9, <1>10, Zenon
<1>12. ~OneSymbolAt(input, o)
  <2>1. ASSUME reg.fresh, OneSymbolAt(input, o) PROVE FALSE
    <3>1. cur = o /\ cur + 2 <= Len(input) /\ input[cur + 2] = "'" /\ input[cur + 1] /= "\\"
      BY <1>2, <2>1 DEF OneSymbolAt
    <3>2. n = "'" /\ c /= "\\"
      BY <1>1, <1>4, <3>1
    <3> QED
      BY <1>11, <2>1, <3>2
  <2> QED
    BY <1>2, <2>1
<1>13. \A k \in stops : k /= cur + 1 \/ c = "/" \/ (c = Newline /\ n /= "'")
  <2>1. ASSUME cur + 1 \in stops PROVE c = "/" \/ (c = Newline /\ n /= "'")
    <3>1. StopAt(input, cur + 1) /\ cur < Len(input) /\ cur + 1 + 1 = cur + 2
      BY <1>1, <1>6, <2>1
    <3>2. c = "/" \/ (c = Newline /\ (cur + 1 = Len(input) \/ input[cur + 2] /= "'"))
      BY <1>4, <3>1 DEF StopAt
    <3>3. cur + 1 = Len(input) => n /= "'"
      BY <1>1, <1>4, <1>5
    <3>4. cur + 1 /= Len(input) => n = input[cur + 2]
      BY <1>1, <1>4, <3>1
    <3> QED
      BY <3>2, <3>3, <3>4
  <2> QED
    BY <2>1
<1>14. CASE c = "'" /\ EmitLiteral(Quoted(reg.kind, TRUE), TRUE, cur + 1)
  <2>1. cur < Len(input) /\ cur + 1 \in cur .. Len(input) /\ input[cur + 1] = "'"
    BY <1>1, <1>4, <1>5, <1>14
  <2>2. cur + 1 \in ends
    BY <1>1, <1>2, <1>3, <2>1 DEF QuotesAfter
  <2>3. Min(ends) = cur + 1
    <3>1. ends \subseteq Int /\ \A k \in ends : cur + 1 <= k
      BY <1>1, <1>6
    <3> HIDE DEF ends
    <3> QED
      BY <2>2, <3>1, MinIs
  <2>4. stop > cur + 1
    <3>1. "'" /= "/" /\ "'" /= Newline
      BY DEF Newline
    <3>2. ASSUME NEW k \in stops \cup {Len(input) + 1} PROVE k > cur + 1
      <4>1. CASE k \in stops
        <5>1. k /= cur + 1
          BY <1>13, <1>14, <3>1, <4>1, Zenon
        <5>2. k > cur /\ k \in Nat
          BY <1>6, <4>1
        <5> QED
          BY <1>1, <5>1, <5>2
      <4>2. CASE k = Len(input) + 1
        BY <1>1, <2>1, <4>2
      <4> QED
        BY <4>1, <4>2
    <3> DEFINE S == stops \cup {Len(input) + 1}
    <3>3. S \subseteq Nat /\ S /= {} /\ cur + 1 \in Int /\ \A k \in S : k > cur + 1
      BY <1>1, <1>6, <3>2
    <3> HIDE DEF S
    <3>4. Min(S) > cur + 1
      BY <3>3, MinAbove
    <3> QED
      BY <3>4 DEF S
  <2> HIDE DEF ends, stop
  <2> QED
    BY <1>1, <1>7, <1>12, <1>14, <2>1, <2>2, <2>3, <2>4
<1>15. CASE /\ c = "/" \/ (c = Newline /\ n /= "'") \/ cur = Len(input)
            /\ EmitLiteral(Quoted(reg.kind, FALSE), FALSE, cur)
  <2>1. stop = cur + 1
    <3>1. cur + 1 \in stops \cup {Len(input) + 1}
      <4>1. CASE cur < Len(input)
        <5>1. c = "/" \/ (c = Newline /\ n /= "'")
          BY <1>1, <1>15, <4>1
        <5>2. StopAt(input, cur + 1)
          <6>1. cur + 1 /= Len(input) => cur + 1 < Len(input) /\ input[cur + 1 + 1] = input[cur + 2]
            BY <1>1, <4>1
          <6> QED
            BY <1>4, <4>1, <5>1, <6>1 DEF StopAt
        <5>3. cur + 1 \in o + 1 .. Len(input) /\ ~Escaped(input, o, cur + 1)
          BY <1>1, <1>2, <1>3, <4>1
        <5> QED
          BY <5>2, <5>3
      <4>2. CASE cur = Len(input)
        BY <4>2
      <4> QED
        BY <1>1, <4>1, <4>2
    <3>2. \A k \in stops \cup {Len(input) + 1} : cur + 1 <= k
      BY <1>1, <1>6
    <3> DEFINE S == stops \cup {Len(input) + 1}
    <3>3. S \subseteq Int /\ cur + 1 \in S /\ \A k \in S : cur + 1 <= k
      BY <1>6, <3>1, <3>2
    <3> HIDE DEF S
    <3>4. Min(S) = cur + 1
      BY <3>3, MinIs
    <3> QED
      BY <3>4 DEF S
  <2>2. \A k \in ends : k > cur + 1
    <3>1. ASSUME NEW k \in ends PROVE k /= cur + 1
      <4>1. ASSUME k = cur + 1 PROVE FALSE
        <5>1. input[cur + 1] = "'" /\ cur < Len(input)
          BY <1>1, <1>6, <4>1
        <5>2. c = "'" /\ cur /= Len(input)
          BY <1>1, <1>4, <5>1
        <5>3. "'" /= "/" /\ "'" /= Newline
          BY DEF Newline
        <5> QED
          BY <1>15, <5>2, <5>3, Zenon
      <4> QED
        BY <4>1
    <3>2. \A k \in ends : k > cur /\ k \in Nat
      BY <1>6
    <3> HIDE DEF ends
    <3> QED
      BY <1>1, <3>1, <3>2
  <2>3. cur \in cur .. Len(input)
    BY <1>1
  <2> HIDE DEF ends, stop
  <2>4. cur = stop - 1 /\ \A k \in ends : k > stop
    BY <1>1, <2>1, <2>2
  <2> QED
    BY <1>7, <1>12, <1>15, <2>3, <2>4, Zenon
<1>16. /\ Escaped(input, o, cur + 2) <=> input[cur + 1] = "\\" /\ ~Escaped(input, o, cur + 1)
       /\ Escaped(input, o, cur + 3) <=> input[cur + 2] = "\\" /\ ~Escaped(input, o, cur + 2)
  BY <1>1, <1>2, <1>3, EscapesHere
<1> HIDE DEF ends, stops, stop, reg2
<1>17. CASE c = "\\" /\ Enter("single", reg2, bump(cur + 1))
  <2>1. cur < Len(input) /\ input[cur + 1] = "\\" /\ ~Escaped(input, o, cur + 1)
    BY <1>1, <1>2, <1>4, <1>5, <1>17
  <2>2. input[cur + 1] /= "'" /\ ~StopAt(input, cur + 1)
    BY <2>1 DEF StopAt, Newline
  <2>3. CASE cur + 1 = Len(input)
    <3>1. bump(cur + 1) = cur + 1 /\ cur + 1 \in cur + 1 .. Len(input)
          /\ ~(cur + 1 < Len(input)) /\ \A k \in cur + 1 .. cur + 1 : k = cur + 1
      BY <1>1, <1>4, <2>1, <2>3
    <3>2. Enter("single", reg2, cur + 1)
      BY <1>17, <3>1
    <3>3. \A k \in cur + 1 .. cur + 1 : ~Escaped(input, o, k) => input[k] /= "'" /\ ~StopAt(input, k)
      BY <2>2, <3>1, Zenon
    <3> QED
      BY <1>8, <1>12, <3>1, <3>2, <3>3, Zenon
  <2>4. CASE cur + 1 < Len(input)
    <3>1. bump(cur + 1) = cur + 2 /\ cur + 2 \in cur + 1 .. Len(input) /\ cur + 2 + 1 = cur + 3
          /\ \A k \in cur + 1 .. cur + 2 : k = cur + 1 \/ k = cur + 2
      BY <1>1, <1>4, <2>1, <2>4
    <3>2. Enter("single", reg2, cur + 2)
      BY <1>17, <3>1
    <3>3. Escaped(input, o, cur + 2) /\ ~Escaped(input, o, cur + 2 + 1)
      BY <1>16, <2>1, <3>1, Zenon
    <3>4. \A k \in cur + 1 .. cur + 2 : ~Escaped(input, o, k) => input[k] /= "'" /\ ~StopAt(input, k)
      BY <2>2, <3>1, <3>3, Zenon
    <3> QED
      BY <1>8, <1>12, <3>1, <3>2, <3>3, <3>4, Zenon
  <2> QED
    BY <1>1, <2>1, <2>3, <2>4
<1>18. CASE /\ c \notin {"'", "/", "\\"} /\ ~(c = Newline /\ n /= "'")
            /\ cur < Len(input)
            /\ Enter("single", reg2, cur + 1)
  <2>1. cur + 1 \in cur + 1 .. Len(input) /\ input[cur + 1] = c /\ cur + 1 + 1 = cur + 2
        /\ \A k \in cur + 1 .. cur + 1 : k = cur + 1
    BY <1>1, <1>4, <1>18
  <2>2. ~Escaped(input, o, cur + 1 + 1)
    BY <1>16, <1>18, <2>1
  <2>3. ~StopAt(input, cur + 1)
    <3>1. (cur + 1 = Len(input) \/ input[cur + 2] /= "'") => n /= "'"
      BY <1>1, <1>4, <1>5, <1>18
    <3> QED
      BY <1>18, <2>1, <3>1 DEF StopAt
  <2>4. \A k \in cur + 1 .. cur + 1 : ~Escaped(input, o, k) => input[k] /= "'" /\ ~StopAt(input, k)
    BY <1>18, <2>1, <2>3
  <2> QED
    BY <1>8, <1>12, <1>18, <2>1, <2>2, <2>4, Zenon
<1> QED
  BY <1>9, <1>11, <1>14, <1>15, <1>17, <1>18, Zenon

-----------------------------------------------------------------------------
(* Raw strings *)

\* RawStringEnds of a raw string in hand that ends with err at i.
RawEnds(err, i) ==
  LET o == Body(reg.kind, start) + reg.n
      found == Max({0} \cup {HashesAfter(input, k) : k \in Closing(input, o, 0)})
  IN IF err = NoErr
     THEN Closing(input, o, reg.n) /= {} /\ i = Min(Closing(input, o, reg.n)) + reg.n
     ELSE IF err[1] = "NoTerminator"
     THEN /\ Closing(input, o, reg.n) = {} /\ i = Len(input)
          /\ err[3] = found
          /\ err[4] = IF found = 0 THEN -1 ELSE Min(Closing(input, o, found)) - start
     ELSE reg.n = 0 \/ o > Len(input) \/ input[o] /= Quote

LEMMA EmitRawKeeps ==
  ASSUME LInv, pc \in {"raw_start", "raw"}, NEW err, NEW i \in cur .. Len(input),
         RawEnds(err, i), EmitRaw(err, i)
  PROVE  LInv' /\ Forward
<1> DEFINE many == reg.n > MaxHashes
           n == IF many THEN 0 ELSE reg.n
           err2 == IF many THEN <<"TooManyDelimiters", reg.n>> ELSE err
           complete == ~many /\ err = NoErr
<1>1. /\ reg.kind \in RawStrings /\ reg.n \in Nat /\ start \in Nat /\ i \in Nat
      /\ i \in start + 1 .. Len(input) /\ cur <= i /\ pc \in Loops
  BY Bounds DEF LInv, RawRegInv, Loops
<1>2. ASSUME NEW m
      PROVE  TokenEnds(input, [kind |-> RawString(reg.kind, n, err2), suffix_start |-> i - start,
                               len |-> m, start |-> start])
  <2> DEFINE t == [kind |-> RawString(reg.kind, n, err2), suffix_start |-> i - start,
                   len |-> m, start |-> start]
  <2> HIDE DEF n, err2
  <2>1. /\ t.kind.kind = reg.kind /\ t.kind.n_hashes = n /\ t.kind.err = err2
        /\ t.start = start /\ BodyEnd(t) = i
    BY <1>1 DEF RawString, BodyEnd
  <2>2. RawOpening(t, reg.n) = Body(reg.kind, start) + reg.n
    BY <1>1, <2>1 DEF RawOpening, Body, RawStrings
  <2> HIDE DEF t
  <2>3. RawStringEnds(input, t)
    <3>1. CASE many
      <4>1. n = 0 /\ err2 = <<"TooManyDelimiters", reg.n>>
        BY <3>1 DEF n, err2
      <4>2. t.kind.err /= NoErr /\ t.kind.err[1] /= "NoTerminator"
        BY <2>1, <4>1 DEF NoErr
      <4> QED
        BY <2>1, <4>1, <4>2 DEF RawStringEnds
    <3>2. CASE ~many
      <4>1. t.kind.n_hashes = reg.n /\ t.kind.err = err
        BY <2>1, <3>2 DEF n, err2
      <4> QED
        BY <2>1, <2>2, <4>1, Zenon DEF RawStringEnds, RawEnds
    <3> QED
      BY <3>1, <3>2
  <2>4. t.kind.kind \notin Strings /\ t.kind.kind \notin Chars
    BY <1>1, <2>1 DEF Strings, Chars, RawStrings
  <2>5. TokenEnds(input, t)
    BY <2>3, <2>4 DEF TokenEnds
  <2> QED
    BY <2>5 DEF t
<1>3. EmitLiteral(RawString(reg.kind, n, err2), complete, i) /\ complete \in BOOLEAN
  BY DEF EmitRaw
<1> HIDE DEF n, err2, complete
<1> QED
  BY <1>1, <1>2, <1>3, EmitLiteralKeeps

LEMMA EnterRawKeeps ==
  ASSUME LInv, RawStr \/ RawByteStr
  PROVE  LInv' /\ Forward
<1>1. /\ Text /\ Len(input) \in Nat /\ start \in Nat /\ "raw_start" \in Loops
      /\ pc = "token"
  BY Bounds DEF Loops, RawStr, RawByteStr, StartsRaw, At
<1>2. \E k \in RawStrings : LET i == start + Body(k, 0) - 1 IN
        i \in start + 1 .. Len(input) /\ start = cur /\ EnterRaw(k, i)
  <2>1. CASE RawStr
    <3>1. start = cur /\ start < Len(input) /\ EnterRaw("RawStr", start + 1)
      BY <2>1, Here DEF RawStr, StartsRaw
    <3>2. start + Body("RawStr", 0) - 1 = start + 1
      BY <1>1 DEF Body
    <3> QED
      BY <1>1, <3>1, <3>2 DEF RawStrings
  <2>2. CASE RawByteStr
    <3>1. start = cur /\ second(cur) /= EOF_CHAR /\ EnterRaw("RawByteStr", start + 2)
      BY <2>2, Here DEF RawByteStr, EOF_CHAR, NUL
    <3>2. start + 1 < Len(input)
      BY <3>1, Next1
    <3>3. start + Body("RawByteStr", 0) - 1 = start + 2
      BY <1>1 DEF Body
    <3> QED
      BY <1>1, <3>1, <3>2, <3>3 DEF RawStrings
  <2> QED
    BY <2>1, <2>2
<1>3. PICK k \in RawStrings : LET i == start + Body(k, 0) - 1 IN
        i \in start + 1 .. Len(input) /\ start = cur /\ EnterRaw(k, i)
  BY <1>2
<1> DEFINE i == start + Body(k, 0) - 1
           j == eat_while(i, {"#"})
           locals == [kind |-> k, n |-> j - i, from |-> i, prefix |-> i - start,
                      max_hashes |-> 0, offset |-> -1]
<1>4. i \in start + 1 .. Len(input) /\ Enter("raw_start", locals, j)
  BY <1>3 DEF EnterRaw
<1>5. Body(k, 0) \in Nat /\ i \in Nat /\ i - start = Body(k, 0) - 1
  BY <1>1, <1>4 DEF Body
<1>6. j \in i .. Len(input) /\ i \in 0 .. Len(input)
  <2>1. i \in 0 .. Len(input)
    BY <1>1, <1>4
  <2> HIDE DEF i
  <2> QED
    BY <1>1, <2>1, EatWhile
<1> HIDE DEF locals, j, i
<1>7. j \in start + 1 .. Len(input) /\ j - i \in Nat /\ i + (j - i) = j
  BY <1>1, <1>4, <1>5, <1>6
<1>8. /\ locals.kind = k /\ locals.n = j - i /\ locals.from = i
      /\ locals.prefix = Body(k, 0) - 1 /\ locals.max_hashes = 0 /\ locals.offset = -1
  BY <1>5 DEF locals
<1>9. /\ pc' = "raw_start" /\ reg' = locals /\ cur' = j /\ input' = input /\ start' = start
      /\ (DoubleInv /\ SingleInv /\ RawRegInv /\ RawInv)' => LInv' /\ Forward
      /\ DoubleInv' /\ SingleInv' /\ RawInv'
  BY <1>1, <1>4, <1>7, EnterKeeps
<1>10. locals.from = start + locals.prefix /\ j = locals.from + locals.n
  BY <1>1, <1>5, <1>7, <1>8
<1>11. RawRegInv'
  BY <1>7, <1>8, <1>9, <1>10 DEF RawRegInv
<1> QED
  BY <1>9, <1>11

LEMMA RawStartKeeps ==
  ASSUME LInv, RawStart
  PROVE  LInv' /\ Forward
<1> DEFINE o == Body(reg.kind, start) + reg.n
<1>1. /\ Text /\ Len(input) \in Nat /\ start \in Nat /\ cur \in Nat
      /\ pc = "raw_start" /\ start < cur /\ cur <= Len(input) /\ "raw" \in Loops
  BY Bounds DEF RawStart, Loops
<1>2. /\ reg.kind \in RawStrings /\ reg.n \in Nat
      /\ reg.prefix = Body(reg.kind, 0) - 1 /\ reg.from = start + reg.prefix
      /\ cur = reg.from + reg.n /\ reg.max_hashes = 0 /\ reg.offset = -1
  BY <1>1 DEF LInv, RawRegInv
<1>3. o = cur + 1 /\ o \in Nat
  BY <1>1, <1>2 DEF Body, RawStrings
<1> HIDE DEF o
<1>4. /\ cur < Len(input) => first(cur) = input[cur + 1] /\ bump(cur) = cur + 1
      /\ cur = Len(input) => first(cur) = EOF_CHAR /\ bump(cur) = cur
  BY <1>1, CursorFacts
<1>5. CASE first(cur) = Quote
  <2>1. Enter("raw", reg, cur + 1)
    BY <1>5 DEF RawStart
  <2>2. cur < Len(input) /\ cur + 1 \in start + 1 .. Len(input) /\ cur < cur + 1
    BY <1>1, <1>4, <1>5, QuoteIsNoOther
  <2>3. /\ pc' = "raw" /\ reg' = reg /\ cur' = cur + 1 /\ input' = input /\ start' = start
        /\ (DoubleInv /\ SingleInv /\ RawRegInv /\ RawInv)' => LInv' /\ Forward
        /\ DoubleInv' /\ SingleInv'
    BY <1>1, <2>1, <2>2, EnterKeeps
  <2>4. RawRegInv'
    BY <1>2, <2>3 DEF RawRegInv
  <2>5. Body(reg'.kind, start') + reg'.n = o /\ cur' = o
    BY <1>3, <2>3 DEF o
  <2>6. RawInv'
    <3>1. \A k \in o + 1 .. o : FALSE
      BY <1>3
    <3>2. o <= o /\ 0 \in Nat
      BY <1>3
    <3> QED
      BY <1>2, <2>3, <2>5, <3>1, <3>2 DEF RawInv
  <2> QED
    BY <2>3, <2>4, <2>6
<1>6. CASE first(cur) /= Quote
  <2> DEFINE err == <<"InvalidStarter", first(cur)>>
  <2>1. EmitRaw(err, bump(cur))
    BY <1>6 DEF RawStart
  <2>2. err /= NoErr /\ err[1] /= "NoTerminator"
    BY DEF NoErr
  <2> HIDE DEF err
  <2>3. bump(cur) \in cur .. Len(input)
    BY <1>1, <1>4
  <2>4. o > Len(input) \/ input[o] /= Quote
    BY <1>1, <1>3, <1>4, <1>6
  <2>5. RawEnds(err, bump(cur))
    BY <2>2, <2>4, Zenon DEF RawEnds, o
  <2> QED
    BY <1>1, <2>1, <2>3, <2>5, EmitRawKeeps
<1> QED
  BY <1>5, <1>6

LEMMA RawKeeps ==
  ASSUME LInv, raw_string_unvalidated
  PROVE  LInv' /\ Forward
<1> DEFINE o == Body(reg.kind, start) + reg.n
           i == eat_while(cur, Alphabet \ {Quote})
           h == HashesAfter(input, i + 1)
           hashes == Min({reg.n, eat_while(i + 1, {"#"}) - (i + 1)})
           j == i + 1 + hashes
           err == NoTerminator(reg.n, reg.max_hashes, reg.offset)
           reg2 == IF hashes > reg.max_hashes
                   THEN [reg EXCEPT !.offset = j - reg.from - hashes + reg.prefix,
                                    !.max_hashes = hashes]
                   ELSE reg
<1>1. /\ Text /\ Len(input) \in Nat /\ start \in Nat /\ cur \in Nat
      /\ pc = "raw" /\ start < cur /\ cur <= Len(input) /\ "raw" \in Loops
  BY Bounds DEF raw_string_unvalidated, Loops
<1>2. /\ reg.kind \in RawStrings /\ reg.n \in Nat
      /\ reg.prefix = Body(reg.kind, 0) - 1 /\ reg.from = start + reg.prefix
  BY <1>1 DEF LInv, RawRegInv
<1>3. /\ o <= cur
      /\ reg.max_hashes \in Nat
      /\ \A k \in o + 1 .. cur : input[k] = Quote =>
           HashesAfter(input, k) < reg.n /\ HashesAfter(input, k) <= reg.max_hashes
      /\ IF reg.max_hashes = 0 THEN reg.offset = -1
         ELSE \E k \in o + 1 .. cur : /\ FirstQuote(input, o, k, reg.max_hashes)
                                      /\ HashesAfter(input, k) = reg.max_hashes
                                      /\ reg.offset = k - start
  BY <1>1 DEF LInv, RawInv
<1>4. o \in Nat /\ reg.prefix \in Nat
  BY <1>1, <1>2 DEF Body, RawStrings
<1>5. /\ i \in cur .. Len(input)
      /\ \A k \in cur + 1 .. i : input[k] \in Alphabet \ {Quote}
      /\ i < Len(input) => input[i + 1] \notin Alphabet \ {Quote}
  <2>1. cur \in 0 .. Len(input)
    BY <1>1
  <2> QED
    BY <1>1, <2>1, EatWhile
<1>6. \A k \in cur + 1 .. i : input[k] /= Quote
  BY <1>5
<1> HIDE DEF o, i
<1>7. i < Len(input) =>
        /\ input[i + 1] = Quote /\ h \in Nat /\ i + 1 + h <= Len(input)
        /\ hashes = IF h < reg.n THEN h ELSE reg.n
        /\ \A k \in i + 2 .. i + 1 + h : input[k] = "#"
  <2>1. SUFFICES ASSUME i < Len(input)
                 PROVE  /\ input[i + 1] = Quote /\ h \in Nat /\ i + 1 + h <= Len(input)
                        /\ hashes = IF h < reg.n THEN h ELSE reg.n
                        /\ \A k \in i + 2 .. i + 1 + h : input[k] = "#"
    BY Zenon
  <2>2. i + 1 \in 1 .. Len(input) /\ i + 1 \in Int /\ i + 1 + 1 = i + 2
    BY <1>1, <1>5, <2>1
  <2>3. input[i + 1] \in Alphabet
    BY <2>2 DEF LInv
  <2>4. /\ h \in 0 .. Len(input) - (i + 1)
        /\ eat_while(i + 1, {"#"}) = i + 1 + h
        /\ \A k \in i + 1 + 1 .. i + 1 + h : input[k] = "#"
    BY <1>1, <2>2, Hashes
  <2> HIDE DEF h
  <2>5. hashes = Min({reg.n, h}) /\ h \in Nat /\ i + 1 + h <= Len(input)
    <3>1. h \in Nat /\ i + 1 + h <= Len(input) /\ i + 1 + h - (i + 1) = h
      BY <1>1, <2>2, <2>4
    <3> DEFINE e == eat_while(i + 1, {"#"})
    <3>2. e = i + 1 + h
      BY <2>4
    <3> HIDE DEF e
    <3>3. e - (i + 1) = h
      BY <2>2, <3>1, <3>2
    <3>4. eat_while(i + 1, {"#"}) - (i + 1) = h
      BY <3>3 DEF e
    <3> QED
      BY <3>1, <3>4, Zenon
  <2>6. Min({reg.n, h}) = IF h < reg.n THEN h ELSE reg.n
    <3> DEFINE S == {reg.n, h}
               m == IF h < reg.n THEN h ELSE reg.n
    <3>1. S \subseteq Int /\ m \in S /\ \A y \in S : m <= y
      BY <1>2, <2>5
    <3> HIDE DEF S, m
    <3>2. Min(S) = m
      BY <3>1, MinIs
    <3> QED
      BY <3>2 DEF S, m
  <2> HIDE DEF hashes
  <2> QED
    BY <1>5, <2>1, <2>2, <2>3, <2>4, <2>5, <2>6
<1> HIDE DEF h, hashes
<1>8. \/ i = Len(input) /\ EmitRaw(err, i)
      \/ i < Len(input) /\ hashes = reg.n /\ EmitRaw(NoErr, j)
      \/ i < Len(input) /\ hashes < reg.n /\ Enter("raw", reg2, j)
  <2> HIDE DEF err, j, reg2
  <2>1. \/ is_eof(i) /\ EmitRaw(err, i)
        \/ ~is_eof(i) /\ hashes = reg.n /\ EmitRaw(NoErr, j)
        \/ ~is_eof(i) /\ hashes < reg.n /\ Enter("raw", reg2, j)
    BY <1>1, Zenon DEF raw_string_unvalidated, Round, err, j, reg2, hashes, i
  <2>2. (is_eof(i) => i = Len(input)) /\ (~is_eof(i) => i < Len(input))
    BY <1>1, <1>5 DEF is_eof
  <2> QED
    BY <2>1, <2>2, Zenon
<1>9. ASSUME NEW n, NEW k \in Closing(input, o, n)
      PROVE  /\ k \in o + 1 .. Len(input) /\ input[k] = Quote /\ HashesAfter(input, k) \in Nat
             /\ HashesAfter(input, k) >= n
             /\ k > i \/ (k <= cur /\ k \in o + 1 .. cur)
             /\ k > i => i < Len(input) /\ k >= i + 1
  <2>1. k \in o + 1 .. Len(input) /\ input[k] = Quote /\ HashesAfter(input, k) >= n
    BY DEF Closing
  <2>2. k \in 1 .. Len(input)
    BY <1>1, <1>4, <2>1
  <2>3. HashesAfter(input, k) \in Nat
    BY <1>1, <2>2, Hashes
  <2>4. ~(k \in cur + 1 .. i)
    BY <1>6, <2>1
  <2> QED
    BY <1>1, <1>3, <1>4, <1>5, <2>1, <2>2, <2>3, <2>4
<1>10. CASE i = Len(input) /\ EmitRaw(err, i)
  <2>1. Closing(input, o, reg.n) = {}
    <3>1. ASSUME NEW k \in Closing(input, o, reg.n) PROVE FALSE
      <4>1. k \in o + 1 .. cur /\ input[k] = Quote /\ HashesAfter(input, k) \in Nat
            /\ HashesAfter(input, k) >= reg.n
        BY <1>1, <1>9, <1>10
      <4>2. HashesAfter(input, k) < reg.n
        BY <1>3, <4>1, Zenon
      <4> QED
        BY <1>2, <4>1, <4>2
    <3> QED
      BY <3>1
  <2> DEFINE F == {0} \cup {HashesAfter(input, k) : k \in Closing(input, o, 0)}
  <2>2. ASSUME NEW x \in F PROVE x \in Nat /\ x <= reg.max_hashes
    <3>1. CASE x = 0
      BY <1>3, <3>1
    <3>2. CASE x /= 0
      <4>1. PICK k \in Closing(input, o, 0) : x = HashesAfter(input, k)
        BY <3>2
      <4>2. k \in o + 1 .. cur /\ input[k] = Quote /\ HashesAfter(input, k) \in Nat
        BY <1>1, <1>9, <1>10
      <4>3. HashesAfter(input, k) <= reg.max_hashes
        BY <1>3, <4>2, Zenon
      <4> QED
        BY <4>1, <4>2, <4>3
    <3> QED
      BY <3>1, <3>2
  <2>3. CASE reg.max_hashes = 0
    <3>1. Max(F) = 0
      <4>0. 0 \in F
        OBVIOUS
      <4> HIDE DEF F
      <4>1. F \subseteq Int /\ \A y \in F : y <= 0
        BY <2>2, <2>3
      <4> QED
        BY <4>0, <4>1, MaxIs
    <3>2. err /= NoErr /\ err[1] = "NoTerminator" /\ err[3] = 0 /\ err[4] = -1
      BY <1>3, <2>3 DEF NoTerminator, NoErr
    <3> HIDE DEF F, err
    <3>3. RawEnds(err, i)
      BY <1>10, <2>1, <3>1, <3>2, Zenon DEF RawEnds, o, F
    <3>4. i \in cur .. Len(input)
      BY <1>1, <1>10
    <3> QED
      BY <1>1, <1>10, <3>3, <3>4, EmitRawKeeps
  <2>4. CASE reg.max_hashes /= 0
    <3>1. PICK k \in o + 1 .. cur : /\ FirstQuote(input, o, k, reg.max_hashes)
                                    /\ HashesAfter(input, k) = reg.max_hashes
                                    /\ reg.offset = k - start
      BY <1>3, <2>4
    <3>2. k \in o + 1 .. Len(input) /\ input[k] = Quote
          /\ \A l \in o + 1 .. k - 1 : input[l] = Quote => HashesAfter(input, l) < reg.max_hashes
      BY <1>1, <3>1 DEF FirstQuote
    <3>3. k \in Closing(input, o, 0) /\ k \in Closing(input, o, reg.max_hashes)
      BY <1>3, <3>1, <3>2 DEF Closing
    <3>4. Max(F) = reg.max_hashes
      <4>0. reg.max_hashes \in F
        BY <3>1, <3>3
      <4> HIDE DEF F
      <4>1. F \subseteq Int /\ \A y \in F : y <= reg.max_hashes
        BY <2>2
      <4> QED
        BY <4>0, <4>1, MaxIs
    <3>5. Min(Closing(input, o, reg.max_hashes)) = k
      <4>1. ASSUME NEW l \in Closing(input, o, reg.max_hashes) PROVE l \in Int /\ k <= l
        <5>1. l \in o + 1 .. Len(input) /\ input[l] = Quote /\ HashesAfter(input, l) \in Nat
              /\ HashesAfter(input, l) >= reg.max_hashes
          BY <1>9
        <5>2. ~ (HashesAfter(input, l) < reg.max_hashes)
          BY <1>3, <5>1
        <5>3. ~ (l \in o + 1 .. k - 1)
          BY <3>2, <5>1, <5>2, Zenon
        <5> QED
          BY <1>1, <1>4, <3>2, <5>1, <5>3
      <4>2. Closing(input, o, reg.max_hashes) \subseteq Int
        BY <4>1
      <4> QED
        BY <3>3, <4>1, <4>2, MinIs
    <3>6. /\ err /= NoErr /\ err[1] = "NoTerminator" /\ err[3] = reg.max_hashes
          /\ err[4] = k - start
      BY <3>1 DEF NoTerminator, NoErr
    <3> HIDE DEF F, err
    <3>7. RawEnds(err, i)
      BY <1>10, <2>1, <2>4, <3>4, <3>5, <3>6, Zenon DEF RawEnds, o, F
    <3>8. i \in cur .. Len(input)
      BY <1>1, <1>10
    <3> QED
      BY <1>1, <1>10, <3>7, <3>8, EmitRawKeeps
  <2> QED
    BY <2>3, <2>4
<1>11. CASE i < Len(input) /\ hashes = reg.n /\ EmitRaw(NoErr, j)
  <2>1. /\ input[i + 1] = Quote /\ h \in Nat /\ i + 1 + h <= Len(input) /\ h >= reg.n
        /\ j = i + 1 + reg.n /\ i + 1 \in o + 1 .. Len(input)
    BY <1>1, <1>2, <1>3, <1>4, <1>5, <1>7, <1>11
  <2>2. i + 1 \in Closing(input, o, reg.n)
    BY <2>1 DEF Closing, h
  <2>3. Min(Closing(input, o, reg.n)) = i + 1
    <3>1. ASSUME NEW l \in Closing(input, o, reg.n) PROVE l \in Int /\ i + 1 <= l
      <4>1. /\ l \in o + 1 .. Len(input) /\ input[l] = Quote /\ HashesAfter(input, l) \in Nat
            /\ HashesAfter(input, l) >= reg.n /\ (l > i \/ l \in o + 1 .. cur)
        BY <1>9
      <4>2. ~ (HashesAfter(input, l) < reg.n)
        BY <1>2, <4>1
      <4>3. ~ (l \in o + 1 .. cur)
        BY <1>3, <4>1, <4>2, Zenon
      <4> QED
        BY <1>1, <1>4, <1>5, <4>1, <4>3
    <3>2. Closing(input, o, reg.n) \subseteq Int
      BY <3>1
    <3> QED
      BY <2>2, <3>1, <3>2, MinIs
  <2>4. RawEnds(NoErr, j)
    BY <2>1, <2>2, <2>3 DEF RawEnds, o
  <2>5. j \in cur .. Len(input)
    BY <1>1, <1>2, <1>5, <2>1
  <2> QED
    BY <1>1, <1>11, <2>4, <2>5, EmitRawKeeps
<1>12. CASE i < Len(input) /\ hashes < reg.n /\ Enter("raw", reg2, j)
  <2>1. /\ input[i + 1] = Quote /\ h \in Nat /\ i + 1 + h <= Len(input) /\ h < reg.n
        /\ hashes = h /\ j = i + 1 + h
        /\ \A k \in i + 2 .. i + 1 + h : input[k] = "#"
    BY <1>2, <1>7, <1>12
  <2>2. j \in start + 1 .. Len(input) /\ o <= j /\ j \in Nat /\ cur < j /\ i + 1 \in o + 1 .. j
    BY <1>1, <1>3, <1>4, <1>5, <2>1
  <2>3. /\ reg2.kind = reg.kind /\ reg2.n = reg.n /\ reg2.prefix = reg.prefix
        /\ reg2.from = reg.from
        /\ reg2.max_hashes = (IF h > reg.max_hashes THEN h ELSE reg.max_hashes)
        /\ reg2.offset = (IF h > reg.max_hashes THEN i + 1 - start ELSE reg.offset)
    <3>1. j - reg.from - hashes + reg.prefix = i + 1 - start
      BY <1>1, <1>2, <1>4, <1>5, <2>1
    <3> HIDE DEF j
    <3>2. SUFFICES ASSUME hashes > reg.max_hashes
                   PROVE  /\ reg2.kind = reg.kind /\ reg2.n = reg.n
                          /\ reg2.prefix = reg.prefix /\ reg2.from = reg.from
                          /\ reg2.max_hashes = h /\ reg2.offset = i + 1 - start
      BY <2>1
    <3> QED
      BY <2>1, <3>1, <3>2
  <2> HIDE DEF reg2, j
  <2>4. /\ pc' = "raw" /\ reg' = reg2 /\ cur' = j /\ input' = input /\ start' = start
        /\ (DoubleInv /\ SingleInv /\ RawRegInv /\ RawInv)' => LInv' /\ Forward
        /\ DoubleInv' /\ SingleInv'
    BY <1>1, <1>12, <2>2, EnterKeeps
  <2>5. RawRegInv'
    BY <1>2, <2>3, <2>4 DEF RawRegInv
  <2> DEFINE m == reg2.max_hashes
  <2>6. m \in Nat /\ m >= reg.max_hashes /\ m >= h
    BY <1>3, <2>1, <2>3
  <2>7. ASSUME NEW k \in o + 1 .. j, input[k] = Quote
        PROVE  HashesAfter(input, k) < reg.n /\ HashesAfter(input, k) <= m
    <3>1. CASE k \in o + 1 .. cur
      <4>1. HashesAfter(input, k) < reg.n /\ HashesAfter(input, k) <= reg.max_hashes
        BY <1>3, <2>7, <3>1, Zenon
      <4>2. HashesAfter(input, k) \in Nat
        <5>1. k \in 1 .. Len(input)
          BY <1>1, <1>4, <3>1
        <5> QED
          BY <1>1, <5>1, Hashes
      <4> HIDE DEF m
      <4> QED
        BY <1>3, <2>6, <4>1, <4>2
    <3>2. CASE k = i + 1
      BY <2>1, <2>6, <3>2 DEF h
    <3>3. CASE k \in cur + 1 .. i
      BY <1>6, <2>7, <3>3
    <3>4. CASE k \in i + 2 .. i + 1 + h
      BY <2>1, <2>7, <3>4, QuoteIsNoOther
    <3> QED
      BY <1>1, <1>4, <1>5, <2>1, <3>1, <3>2, <3>3, <3>4
  <2>8. IF m = 0 THEN reg2.offset = -1
        ELSE \E k \in o + 1 .. j : /\ FirstQuote(input, o, k, m)
                                   /\ HashesAfter(input, k) = m
                                   /\ reg2.offset = k - start
    <3>1. CASE h > reg.max_hashes
      <4>1. m = h /\ m /= 0 /\ reg2.offset = i + 1 - start
        BY <1>3, <2>1, <2>3, <3>1
      <4> DEFINE q == i + 1
      <4>2. ASSUME NEW l \in o + 1 .. q - 1, input[l] = Quote
            PROVE  HashesAfter(input, l) < h
        <5>1. l \in o + 1 .. cur
          BY <1>1, <1>4, <1>5, <1>6, <4>2
        <5>2. HashesAfter(input, l) <= reg.max_hashes
          BY <1>3, <4>2, <5>1, Zenon
        <5>3. HashesAfter(input, l) \in Nat
          <6>1. l \in 1 .. Len(input)
            BY <1>1, <1>4, <5>1
          <6> QED
            BY <1>1, <6>1, Hashes
        <5> QED
          BY <1>3, <2>1, <3>1, <5>2, <5>3
      <4>3. /\ q > o /\ q <= Len(input) /\ input[q] = Quote
            /\ HashesAfter(input, q) = h /\ h >= h
            /\ q \in o + 1 .. j /\ reg2.offset = q - start
        BY <1>1, <1>3, <1>4, <1>5, <1>12, <2>1, <2>2, <4>1 DEF h
      <4>4. \A l \in o + 1 .. q - 1 : input[l] = Quote => HashesAfter(input, l) < h
        BY <4>2, Zenon
      <4> HIDE DEF q, m
      <4>5. FirstQuote(input, o, q, h)
        BY <4>3, <4>4, Zenon DEF FirstQuote
      <4> QED
        BY <4>1, <4>3, <4>5, Zenon
    <3>2. CASE ~(h > reg.max_hashes)
      <4>1. m = reg.max_hashes /\ reg2.offset = reg.offset
        BY <2>3, <3>2
      <4>2. \A k \in o + 1 .. cur : k \in o + 1 .. j
        BY <1>1, <1>4, <2>2
      <4> HIDE DEF m
      <4> QED
        BY <1>3, <4>1, <4>2, Zenon
    <3> QED
      BY <3>1, <3>2
  <2>9. Body(reg'.kind, start') + reg'.n = o /\ reg'.max_hashes = m /\ reg'.offset = reg2.offset
    BY <2>3, <2>4 DEF o
  <2> HIDE DEF m
  <2>10. \A k \in o + 1 .. j : input[k] = Quote =>
           HashesAfter(input, k) < reg'.n /\ HashesAfter(input, k) <= m
    BY <2>3, <2>4, <2>7
  <2>11. RawInv'
    BY <2>2, <2>4, <2>6, <2>8, <2>9, <2>10, Zenon DEF RawInv
  <2> QED
    BY <2>4, <2>5, <2>11
<1> QED
  BY <1>8, <1>10, <1>11, <1>12, Zenon

-----------------------------------------------------------------------------
(* The end of the text *)

LEMMA TokenizeKeeps ==
  ASSUME LInv, tokenize
  PROVE  LInv'
<1> DEFINE t == [kind |-> Plain("Eof"), suffix_start |-> 0, len |-> 0, start |-> start]
           ts == Append(tokens, t)
<1>1. /\ pc = "token" /\ cur = Len(input) /\ tokens' = ts /\ pc' = "parse"
      /\ input' = input /\ start' = start /\ cur' = cur /\ parsed' = parsed
  BY DEF tokenize, is_eof, text
<1>2. Len(input) \in Nat /\ start \in Nat /\ start = cur
  BY <1>1, Bounds
<1>3. /\ IsSeq(tokens) /\ Len(tokens) \in Nat
      /\ \A i \in 1 .. Len(tokens) : TokenOK(input, tokens, i)
      /\ start = Begin(tokens, Len(tokens) + 1)
  BY SeqFacts DEF LInv, TokensInv
<1>4. t.start = start /\ t.len = 0 /\ t.kind.kind = "Eof"
  BY DEF Plain
<1>5. TokenEnds(input, t)
  BY <1>4 DEF TokenEnds, Strings, Chars, RawStrings
<1> HIDE DEF t
<1>6. /\ IsSeq(ts) /\ Len(ts) = Len(tokens) + 1
      /\ \A i \in 1 .. Len(tokens) : ts[i] = tokens[i]
      /\ ts[Len(tokens) + 1] = t
  BY <1>3, SeqAppend
<1> HIDE DEF ts
<1>7. \A i \in 1 .. Len(tokens) + 1 : Begin(ts, i) = Begin(tokens, i)
  BY <1>3, <1>6 DEF Begin
<1>8. Begin(ts, Len(ts) + 1) = start
  BY <1>2, <1>3, <1>4, <1>6 DEF Begin
<1>9. \A i \in 1 .. Len(ts) : TokenOK(input, ts, i)
  <2>1. ASSUME NEW i \in 1 .. Len(tokens) PROVE TokenOK(input, ts, i)
    BY <1>3, <1>6, <1>7 DEF TokenOK
  <2>2. TokenOK(input, ts, Len(tokens) + 1)
    <3>1. Begin(ts, Len(tokens) + 1) = start
      BY <1>3, <1>7
    <3> QED
      BY <3>1, <1>1, <1>2, <1>4, <1>5, <1>6 DEF TokenOK
  <2>3. \A i \in 1 .. Len(ts) : i \in 1 .. Len(tokens) \/ i = Len(tokens) + 1
    BY <1>3, <1>6
  <2> QED
    BY <2>1, <2>2, <2>3
<1>10. TokensInv'
  BY <1>1, <1>6, <1>8, <1>9 DEF TokensInv
<1>11. CursorInv'
  <2>1. parsed \in {"not yet", "no items", "item or error"}
    BY DEF LInv, CursorInv
  <2>2. Len(ts) > 0
    BY <1>3, <1>6
  <2> QED
    <3>1. /\ start' \in Nat /\ cur' \in Nat /\ start' <= cur' /\ cur' <= Len(input')
          /\ start' = Len(input') /\ Len(tokens') > 0 /\ parsed' = parsed
      BY <1>1, <1>2, <2>2
    <3>2. /\ pc' \in {"token", "block", "single", "double", "raw_start", "raw", "parse", "done"}
          /\ pc' /= "token" /\ pc' \notin {"block", "single", "double", "raw_start", "raw"}
      BY <1>1
    <3> QED
      BY <2>1, <3>1, <3>2, Zenon DEF CursorInv
<1>12. DoubleInv' /\ SingleInv' /\ RawRegInv' /\ RawInv'
  BY <1>1 DEF DoubleInv, SingleInv, RawRegInv, RawInv
<1> QED
  BY <1>1, <1>10, <1>11, <1>12 DEF LInv

LEMMA ParseKeeps ==
  ASSUME LInv, parse
  PROVE  LInv'
<1>1. /\ pc = "parse" /\ pc' = "done"
      /\ input' = input /\ start' = start /\ cur' = cur /\ tokens' = tokens
      /\ parsed' \in {"no items", "item or error"}
  BY DEF parse, text
<1>2. CursorInv'
  BY <1>1 DEF LInv, CursorInv
<1>3. TokensInv'
  BY <1>1 DEF LInv, TokensInv
<1>4. DoubleInv' /\ SingleInv' /\ RawRegInv' /\ RawInv'
  BY <1>1 DEF DoubleInv, SingleInv, RawRegInv, RawInv
<1> QED
  BY <1>1, <1>2, <1>3, <1>4 DEF LInv

-----------------------------------------------------------------------------
(* The invariant *)

LEMMA InitHolds ==
  Init => LInv
<1> SUFFICES ASSUME Init PROVE LInv
  OBVIOUS
<1>1. /\ start = 0 /\ cur = 0 /\ pc = "token" /\ tokens = <<>> /\ parsed = "not yet"
  BY DEF Init
<1>2. input \in Seq(Alphabet)
  <2>1. CASE \E a \in Alphabets : \E n \in 0 .. a.len : input \in [1 .. n -> a.chars]
    <3>1. PICK a \in Alphabets : \E n \in 0 .. a.len : input \in [1 .. n -> a.chars]
      BY <2>1
    <3>2. PICK n \in 0 .. a.len : input \in [1 .. n -> a.chars]
      BY <3>1
    <3>3. a.chars \subseteq Alphabet /\ n \in Nat
      BY <3>2, LexerAssumption
    <3> QED
      BY <3>2, <3>3
  <2>2. CASE \E n \in 1 .. MaxLexemes :
               /\ written \in {w \in [1 .. n -> Lexemes] : Apart(w)}
               /\ input = FlattenSeq([i \in 1 .. n |-> written[i].text])
    <3>1. PICK n \in 1 .. MaxLexemes :
            /\ written \in [1 .. n -> Lexemes]
            /\ input = FlattenSeq([i \in 1 .. n |-> written[i].text])
      BY <2>2
    <3> DEFINE s == [i \in 1 .. n |-> written[i].text]
    <3>2. n \in Nat /\ \A i \in 1 .. n : s[i] \in Seq(Alphabet)
      BY <3>1, LexerAssumption
    <3>3. s \in Seq(Seq(Alphabet)) /\ Len(s) = n
      BY <3>2
    <3>4. IsSeq(s) /\ \A i \in 1 .. Len(s) : s[i] \in Seq(Alphabet)
      BY <3>2, <3>3 DEF IsSeq
    <3> HIDE DEF s
    <3>5. FlattenSeq(s) \in Seq(Alphabet)
      BY <3>4, FlattenType
    <3> QED
      BY <3>1, <3>5 DEF s
  <2> QED
    BY <2>1, <2>2 DEF Init
<1>3. CursorInv
  <2>1. start \in Nat /\ cur \in Nat /\ start <= cur /\ cur <= Len(input) /\ start = cur
    <3>1. Len(input) \in Nat
      BY <1>2
    <3>2. start = 0 /\ cur = 0
      BY <1>1, Zenon
    <3> QED
      BY <3>1, <3>2
  <2>2. /\ pc \in {"token", "block", "single", "double", "raw_start", "raw", "parse", "done"}
        /\ pc \notin {"block", "single", "double", "raw_start", "raw"}
        /\ pc \notin {"parse", "done"}
    BY <1>1
  <2>3. parsed \in {"not yet", "no items", "item or error"}
    BY <1>1
  <2> QED
    BY <2>1, <2>2, <2>3, Zenon DEF CursorInv
<1>4. TokensInv
  <2>1. tokens \in Seq(Nat) /\ Len(tokens) = 0
    <3>1. <<>> \in Seq(Nat) /\ Len(<<>>) = 0
      OBVIOUS
    <3> QED
      BY <1>1, <3>1, Zenon
  <2>2. IsSeq(tokens)
    BY <2>1 DEF IsSeq
  <2>3. Begin(tokens, 0 + 1) = 0
    BY DEF Begin
  <2> QED
    <3>1. \A i \in 1 .. Len(tokens) : FALSE
      BY <2>1
    <3>2. Len(tokens) + 1 = 0 + 1
      BY <2>1
    <3> QED
      BY <1>1, <2>2, <2>3, <3>1, <3>2, Zenon DEF TokensInv
<1> QED
  BY <1>1, <1>2, <1>3, <1>4 DEF LInv, DoubleInv, SingleInv, RawRegInv, RawInv

\* Every step but the last two.
Lexing ==
  \/ advance_token \/ BlockRound \/ BlockEof \/ single_quoted_string
  \/ double_quoted_string \/ RawStart \/ raw_string_unvalidated

LEMMA LexingKeeps ==
  ASSUME LInv, Lexing
  PROVE  LInv' /\ Forward
<1>1. CASE advance_token
  <2>1. CASE line_comment \/ Slash \/ whitespace \/ RawIdent \/ ident \/ OneSymbolToken
             \/ UnknownToken
    BY <2>1, PlainTokens
  <2>2. CASE block_comment
    BY <2>2, CommentKeeps
  <2>3. CASE RawStr \/ RawByteStr
    BY <2>3, EnterRawKeeps
  <2>4. CASE char_literal \/ ByteChar
    BY <2>4, EnterSingle
  <2>5. CASE StrLiteral \/ ByteStrLiteral
    BY <2>5, EnterDouble
  <2>6. CASE number
    BY <2>6, NumberKeeps
  <2> QED
    BY <1>1, <2>1, <2>2, <2>3, <2>4, <2>5, <2>6, Zenon DEF advance_token
<1>2. CASE BlockRound \/ BlockEof
  BY <1>2, CommentKeeps
<1>3. CASE single_quoted_string
  BY <1>3, SingleKeeps
<1>4. CASE double_quoted_string
  BY <1>4, DoubleKeeps
<1>5. CASE RawStart
  BY <1>5, RawStartKeeps
<1>6. CASE raw_string_unvalidated
  BY <1>6, RawKeeps
<1> QED
  BY <1>1, <1>2, <1>3, <1>4, <1>5, <1>6, Zenon DEF Lexing

LEMMA StepKeeps ==
  LInv /\ [Next]_vars => LInv'
<1> SUFFICES ASSUME LInv, [Next]_vars PROVE LInv'
  OBVIOUS
<1>1. CASE Lexing
  BY <1>1, LexingKeeps
<1>2. CASE tokenize
  BY <1>2, TokenizeKeeps
<1>3. CASE parse
  BY <1>3, ParseKeeps
<1>4. CASE UNCHANGED vars
  BY <1>4 DEF vars, LInv, CursorInv, TokensInv, DoubleInv, SingleInv, RawRegInv, RawInv
<1> QED
  BY <1>1, <1>2, <1>3, <1>4, Zenon DEF Next, Lexing

\* The invariant holds of every text the lexer is given.
THEOREM LexerInvariant == Spec => []LInv
<1>1. Init => LInv
  BY InitHolds
<1>2. LInv /\ [Next]_vars => LInv'
  BY StepKeeps
<1> QED
  BY <1>1, <1>2, PTL DEF Spec

-----------------------------------------------------------------------------
(* What follows from it *)

\* Positions stay in the text and only the Eof token is empty.
\* (Cursor and tokenize)
THEOREM LexerTypes == Spec => []TypeOK
<1>1. LInv => TypeOK
  <2> SUFFICES ASSUME LInv PROVE TypeOK
    OBVIOUS
  <2>1. IsSeq(tokens) /\ \A i \in 1 .. Len(tokens) : TokenOK(input, tokens, i)
    BY DEF LInv, TokensInv
  <2>2. \A i \in DOMAIN tokens : tokens[i].len > 0 \/ tokens[i].kind.kind = "Eof"
    BY <2>1, SeqFacts DEF TokenOK
  <2>3. CursorInv
    BY DEF LInv
  <2>4. start \in 0 .. Len(input) /\ cur \in start .. Len(input)
    BY Bounds
  <2> QED
    BY <2>2, <2>3, <2>4, Zenon DEF CursorInv, TypeOK
<1> QED
  BY <1>1, LexerInvariant, PTL

\* Whatever the text: a quoted literal ends at the first quote that no
\* backslash escapes, a raw string at the first quote with as many hashes as
\* it was opened with, and the error of one that has none tells the truth.
\* (double_quoted_string, single_quoted_string, raw_string_unvalidated)
THEOREM LiteralsStayRight == Spec => []LiteralsEnd
<1>1. LInv => LiteralsEnd
  <2> SUFFICES ASSUME LInv PROVE LiteralsEnd
    OBVIOUS
  <2>1. \A i \in DOMAIN tokens : TokenEnds(input, tokens[i])
    <3>1. IsSeq(tokens) /\ \A i \in 1 .. Len(tokens) : TokenOK(input, tokens, i)
      BY DEF LInv, TokensInv
    <3> QED
      BY <3>1, SeqFacts DEF TokenOK
  <2>2. ASSUME NEW S, NEW t \in OfKind(S)
        PROVE  TokenEnds(input, t) /\ t.kind.kind \in S
    BY <2>1 DEF OfKind
  <2> QED
    BY <2>2 DEF LiteralsEnd, TokenEnds, Strings, Chars, RawStrings
<1> QED
  BY <1>1, LexerInvariant, PTL

\* No text holds the lexer up: every step brings it nearer to its end.
\* (Cursor::bump, advance_token and everything under it)
THEOREM LexerAdvances == Spec => EveryStepAdvances
<1>1. LInv /\ [Next]_vars => [0 <= Remaining' /\ Remaining' < Remaining]_vars
  <2> SUFFICES ASSUME LInv, Next, ~ UNCHANGED vars
               PROVE  0 <= Remaining' /\ Remaining' < Remaining
    OBVIOUS
  <2>1. LInv'
    BY StepKeeps
  <2>2. Len(input) \in Nat /\ cur \in Nat /\ cur <= Len(input)
    BY Bounds
  <2>3. Text' /\ cur' \in Nat /\ cur' <= Len(input')
    BY <2>1 DEF LInv, CursorInv, Text
  <2>4. CASE Lexing
    <3>1. Forward
      BY <2>4, LexingKeeps
    <3>2. /\ input' = input /\ pc' \notin {"parse", "done"}
          /\ cur < cur' \/ (cur = cur' /\ pc \notin {"token", "parse", "done"} /\ pc' = "token")
      BY <3>1 DEF Forward, Loops
    <3>3. pc \notin {"parse", "done"}
      BY <2>4 DEF Lexing, advance_token, line_comment, block_comment, Slash, whitespace, RawIdent,
        RawStr, StartsRaw, ByteChar, ByteStrLiteral, RawByteStr, ident, number, OneSymbolToken,
        char_literal, StrLiteral, UnknownToken, At, AtAny, BlockRound, BlockEof,
        single_quoted_string, double_quoted_string, RawStart, raw_string_unvalidated
    <3> QED
      BY <2>2, <2>3, <3>2, <3>3 DEF Remaining
  <2>5. CASE tokenize
    BY <2>2, <2>5 DEF tokenize, text, Remaining
  <2>6. CASE parse
    <3>1. pc = "parse" /\ pc' = "done" /\ input' = input /\ cur' = cur
      BY <2>6 DEF parse, text
    <3> QED
      BY <2>2, <3>1 DEF Remaining
  <2> QED
    BY <2>4, <2>5, <2>6, Zenon DEF Next, Lexing
<1> QED
  BY <1>1, LexerInvariant, PTL DEF Spec, EveryStepAdvances

=============================================================================
