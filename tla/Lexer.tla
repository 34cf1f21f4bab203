-------------------------------- MODULE Lexer --------------------------------
(***************************************************************************)
(* The lexer of enumc (src/ast/lex.rs) and the top of the parser that      *)
(* receives its tokens (AstBuilder::new and the loop of AstBuilder::parse, *)
(* src/ast/parse.rs).                                                      *)
(*                                                                         *)
(* The text is a sequence of characters, a character a one-letter string   *)
(* of the alphabet below; NUL stands for the character '\0', which is also *)
(* what Cursor::first answers at the end of the text (EOF_CHAR).  A        *)
(* position is the number of characters consumed.  advance_token is one    *)
(* action per kind of token; the functions with a loop that looks at more  *)
(* than a class of characters (block comments, quoted and raw strings) go  *)
(* round it one step at a time, the eat_ functions are operators.          *)
(***************************************************************************)
EXTENDS Integers, Sequences, FiniteSetsExt, SequencesExt

CONSTANTS
  Alphabets,    \* [chars, len]: arbitrary texts of up to len characters
  Lexemes,      \* [text, toks, joins]: what may be written, the tokens it is
                \* and the characters that would continue it
  MaxLexemes,   \* the longest list of them
  MaxHashes     \* u16::MAX, the number of # a raw string may open with

VARIABLES
  input,    \* the text
  written,  \* the lexemes it was put together from, <<>> for an arbitrary one
  start,    \* where the current token starts: `input = &input[token.len..]'
  cur,      \* the position of the Cursor
  pc,       \* the function the lexer is in
  reg,      \* its local variables
  tokens,   \* what tokenize has produced
  parsed    \* what AstBuilder::parse has come to

vars == <<input, written, start, cur, pc, reg, tokens, parsed>>
text == <<input, written>>

NUL == "NUL"
EOF_CHAR == NUL
Newline == "NL"
Quote == "\""

\* Some characters of each class; those of a class are treated alike.
is_whitespace == {" ", Newline}
is_id_start == {"a", "b", "e", "o", "r", "x", "_"}
digit == {"0", "1"}
is_id_continue == is_id_start \cup digit
hexadecimal == digit \cup {"a", "b", "e"}
OneSymbol == [c \in {";", ".", "#", "!", "+", "-", "*", "["} |->
  CASE c = ";" -> "Semi"  [] c = "." -> "Dot"   [] c = "#" -> "Pound"
    [] c = "!" -> "Bang"  [] c = "+" -> "Plus"  [] c = "-" -> "Minus"
    [] c = "*" -> "Star"  [] c = "[" -> "OpenBracket"]

\* Every character of the model.
Alphabet == is_whitespace \cup is_id_continue \cup DOMAIN OneSymbol
              \cup {"/", Quote, "'", "\\", NUL}

ASSUME LexerAssumption ==
  /\ \A a \in Alphabets : a.chars \subseteq Alphabet /\ a.len \in Nat
  /\ \A l \in Lexemes : l.text \in Seq(Alphabet)
  /\ MaxLexemes \in Nat /\ MaxHashes \in Nat

-----------------------------------------------------------------------------
(* The Cursor *)

is_eof(i) == i = Len(input)
nth_char(i, n) == IF i + n < Len(input) THEN input[i + n + 1] ELSE EOF_CHAR
first(i) == nth_char(i, 0)
second(i) == nth_char(i, 1)

bump(i) == IF is_eof(i) THEN i ELSE i + 1

\* The position after the characters of S that follow i.
eat_while(i, S) ==
  Min({j \in i .. Len(input) : first(j) \notin S \/ is_eof(j)})

has_any(i, j, S) == \E k \in i + 1 .. j : input[k] \in S

eat_decimal_digits(i) == eat_while(i, digit \cup {"_"})
eat_hexadecimal_digits(i) == eat_while(i, hexadecimal \cup {"_"})
eat_float_exponent(i) ==
  eat_decimal_digits(IF first(i) \in {"-", "+"} THEN i + 1 ELSE i)
eat_literal_suffix(i) ==
  IF first(i) \in is_id_start THEN eat_while(i + 1, is_id_continue) ELSE i

-----------------------------------------------------------------------------
(* Tokens.  A literal remembers where its suffix starts. *)

Plain(k) == [kind |-> k]
Comment(k, doc, term) == [kind |-> k, doc_style |-> doc, terminated |-> term]
Number(k, base, empty) == [kind |-> k, base |-> base, empty |-> empty]
Quoted(k, term) == [kind |-> k, terminated |-> term]
RawString(k, n, err) == [kind |-> k, n_hashes |-> n, err |-> err]

NoErr == <<"none">>
NoTerminator(expected, found, offset) == <<"NoTerminator", expected, found, offset>>

Done == pc = "done"

\* advance_token returns: the token is as long as what was consumed.
Emit(kind, suffix_start, end) ==
  /\ tokens' = Append(tokens, [kind |-> kind, suffix_start |-> suffix_start - start,
                               len |-> end - start, start |-> start])
  /\ start' = end
  /\ cur' = end
  /\ pc' = "token"
  /\ reg' = <<>>
  /\ UNCHANGED <<text, parsed>>

EmitPlain(kind, end) == Emit(kind, end, end)

\* A literal whose body ends at i; only a complete one may have a suffix.
EmitLiteral(kind, complete, i) ==
  Emit(kind, i, IF complete THEN eat_literal_suffix(i) ELSE i)

\* Enter one of the functions with a loop, at position i.
Enter(f, locals, i) ==
  /\ pc' = f
  /\ reg' = locals
  /\ cur' = i
  /\ UNCHANGED <<text, start, tokens, parsed>>

\* Another round of it.
Round(locals, i) == Enter(pc, locals, i)

-----------------------------------------------------------------------------
(* advance_token: `bump' has taken the first character c; i is the position *)
(* after it.                                                                *)

At(c) == pc = "token" /\ ~is_eof(cur) /\ first(cur) = c
AtAny(S) == pc = "token" /\ ~is_eof(cur) /\ first(cur) \in S

LineDoc(i) ==
  CASE first(i) = "!" -> "Inner"
    [] first(i) = "/" /\ second(i) /= "/" -> "Outer"
    [] OTHER -> "None"

BlockDoc(i) ==
  CASE first(i) = "!" -> "Inner"
    [] first(i) = "*" /\ second(i) \notin {"*", "/"} -> "Outer"
    [] OTHER -> "None"

line_comment ==
  /\ At("/") /\ second(cur) = "/"
  /\ EmitPlain(Comment("LineComment", LineDoc(cur + 2), TRUE),
               eat_while(cur + 2, Alphabet \ {Newline}))

Slash ==
  /\ At("/") /\ second(cur) \notin {"/", "*"}
  /\ EmitPlain(Plain("Slash"), cur + 1)

whitespace ==
  /\ AtAny(is_whitespace)
  /\ EmitPlain(Plain("Whitespace"), eat_while(cur + 1, is_whitespace))

\* `r#ident' is not a raw identifier any more: the r alone is Unknown.
RawIdent ==
  /\ At("r") /\ second(cur) = "#" /\ nth_char(cur, 2) \in is_id_start
  /\ EmitPlain(Plain("Unknown"), cur + 1)

\* What follows an r or a b decides whether it starts a literal.
StartsRaw == At("r") /\ \/ second(cur) = "#" /\ nth_char(cur, 2) \notin is_id_start
                        \/ second(cur) = Quote
StartsByte ==
  At("b") /\ \/ second(cur) \in {"'", Quote}
             \/ second(cur) = "r" /\ nth_char(cur, 2) \in {Quote, "#"}

ident ==
  /\ AtAny(is_id_start)
  /\ ~(At("r") /\ second(cur) \in {"#", Quote})
  /\ ~StartsByte
  /\ EmitPlain(Plain("Ident"), eat_while(cur + 1, is_id_continue))

OneSymbolToken ==
  \E c \in DOMAIN OneSymbol : At(c) /\ EmitPlain(Plain(OneSymbol[c]), cur + 1)

UnknownToken ==
  AtAny({NUL, "\\"}) /\ EmitPlain(Plain("Unknown"), cur + 1)

-----------------------------------------------------------------------------
(* Numbers *)

\* The end of the integer part, for a number whose first digit ends at i.
Prefix(i) ==
  LET decimal(j, zero) == [base |-> "Decimal", end |-> j, has |-> TRUE, zero |-> zero]
      based(base, j, S) == [base |-> base, end |-> j, has |-> has_any(i + 1, j, S), zero |-> FALSE]
  IN IF ~At("0") \/ first(i) \in digit \cup {"_", ".", "e"}
     THEN decimal(eat_decimal_digits(i), FALSE)
     ELSE IF first(i) \in {"b", "o"}
     THEN based(IF first(i) = "b" THEN "Binary" ELSE "Octal", eat_decimal_digits(i + 1), digit)
     ELSE IF first(i) = "x"
     THEN based("Hexadecimal", eat_hexadecimal_digits(i + 1), hexadecimal)
     ELSE decimal(i, TRUE)

\* The position after a fraction whose dot ends at i, and whether its
\* exponent has no digits.
Fraction(i) ==
  LET j == eat_decimal_digits(i)
      k == eat_float_exponent(j + 1) IN
  IF first(i) \notin digit THEN [end |-> i, empty |-> FALSE]
  ELSE IF first(j) = "e" THEN [end |-> k, empty |-> ~has_any(j + 1, k, digit)]
  ELSE [end |-> j, empty |-> FALSE]

\* `0..2' and `12.foo()' keep the dot out of the number.
DotOfFraction(i) == first(i) = "." /\ second(i) /= "." /\ second(i) \notin is_id_start

number ==
  /\ AtAny(digit)
  /\ LET p == Prefix(cur + 1)
         i == p.end
         f == Fraction(i + 1)
         e == eat_float_exponent(i + 1)
     IN \/ ~p.has /\ EmitLiteral(Number("Int", p.base, TRUE), TRUE, i)
        \/ p.zero /\ EmitLiteral(Number("Int", "Decimal", FALSE), TRUE, i)
        \/ /\ p.has /\ ~p.zero
           /\ \/ /\ DotOfFraction(i)
                 /\ EmitLiteral(Number("Float", p.base, f.empty), TRUE, f.end)
              \/ /\ first(i) = "e"
                 /\ EmitLiteral(Number("Float", p.base, ~has_any(i + 1, e, digit)), TRUE, e)
              \/ /\ ~DotOfFraction(i) /\ first(i) /= "e"
                 /\ EmitLiteral(Number("Int", p.base, FALSE), TRUE, i)

-----------------------------------------------------------------------------
(* Block comments *)

block_comment ==
  /\ At("/") /\ second(cur) = "*"
  /\ Enter("block", [doc |-> BlockDoc(cur + 2), depth |-> 1], cur + 2)

\* A comment inside a comment ends the outer one.
Mut_BlockRound ==
  /\ pc = "block" /\ ~is_eof(cur)
  /\ IF first(cur) = "*" /\ second(cur) = "/"
     THEN EmitPlain(Comment("BlockComment", reg.doc, TRUE), cur + 2)
     ELSE Round(reg, cur + 1)

BlockRound ==
  /\ pc = "block" /\ ~is_eof(cur)
  /\ LET c == first(cur)
         i == cur + 1
     IN \/ /\ c = "/" /\ first(i) = "*"
           /\ Round([reg EXCEPT !.depth = @ + 1], i + 1)
        \/ /\ c = "*" /\ first(i) = "/"
           /\ IF reg.depth = 1
              THEN EmitPlain(Comment("BlockComment", reg.doc, TRUE), i + 1)
              ELSE Round([reg EXCEPT !.depth = @ - 1], i + 1)
        \/ /\ ~(c = "/" /\ first(i) = "*") /\ ~(c = "*" /\ first(i) = "/")
           /\ Round(reg, i)

BlockEof ==
  /\ pc = "block" /\ is_eof(cur)
  /\ EmitPlain(Comment("BlockComment", reg.doc, FALSE), cur)

-----------------------------------------------------------------------------
(* Quoted literals *)

char_literal == At("'") /\ Enter("single", [kind |-> "Char", fresh |-> TRUE], cur + 1)
ByteChar ==
  At("b") /\ second(cur) = "'" /\ Enter("single", [kind |-> "Byte", fresh |-> TRUE], cur + 2)

\* The end of the text is not looked for at all.
Mut_SingleNoEof ==
  /\ pc = "single"
  /\ LET c == first(cur)
         closed(i) == EmitLiteral(Quoted(reg.kind, TRUE), TRUE, i)
         broken == EmitLiteral(Quoted(reg.kind, FALSE), FALSE, cur)
         skip(i) == Round([reg EXCEPT !.fresh = FALSE], i)
     IN IF reg.fresh /\ second(cur) = "'" /\ c /= "\\"
        THEN closed(cur + 2)
        ELSE CASE c = "'" -> closed(cur + 1)
               [] c = "/" \/ (c = Newline /\ second(cur) /= "'") -> broken
               [] c = "\\" -> skip(bump(bump(cur)))
               [] OTHER -> skip(bump(cur))

single_quoted_string ==
  /\ pc = "single"
  /\ LET c == first(cur)
         closed(i) == EmitLiteral(Quoted(reg.kind, TRUE), TRUE, i)
         broken == EmitLiteral(Quoted(reg.kind, FALSE), FALSE, cur)
         skip(i) == Round([reg EXCEPT !.fresh = FALSE], i)
     IN IF reg.fresh /\ second(cur) = "'" /\ c /= "\\"
        THEN closed(cur + 2)
        ELSE \/ c = "'" /\ closed(cur + 1)
             \/ c = "/" /\ broken
             \/ c = Newline /\ second(cur) /= "'" /\ broken
             \/ c = EOF_CHAR /\ is_eof(cur) /\ broken
             \/ c = "\\" /\ skip(bump(cur + 1))
             \/ /\ c \notin {"'", "/", "\\"}
                /\ ~(c = Newline /\ second(cur) /= "'")
                /\ ~is_eof(cur)
                /\ skip(cur + 1)

StrLiteral == At(Quote) /\ Enter("double", [kind |-> "Str"], cur + 1)
ByteStrLiteral ==
  At("b") /\ second(cur) = Quote /\ Enter("double", [kind |-> "ByteStr"], cur + 2)

double_quoted_string ==
  /\ pc = "double"
  /\ LET c == first(cur)
         escape == c = "\\" /\ second(cur) \in {"\\", Quote}
     IN \/ /\ is_eof(cur)
           /\ EmitLiteral(Quoted(reg.kind, FALSE), FALSE, cur)
        \/ /\ c = Quote
           /\ EmitLiteral(Quoted(reg.kind, TRUE), TRUE, cur + 1)
        \/ /\ escape
           /\ Round(reg, cur + 2)
        \/ /\ ~is_eof(cur) /\ c /= Quote /\ ~escape
           /\ Round(reg, cur + 1)

-----------------------------------------------------------------------------
(* Raw strings *)

\* raw_double_quoted_string: more hashes than fit in a u16 are an error, and
\* the token says it had none.
EmitRaw(err, i) ==
  LET many == reg.n > MaxHashes IN
  EmitLiteral(RawString(reg.kind, IF many THEN 0 ELSE reg.n,
                        IF many THEN <<"TooManyDelimiters", reg.n>> ELSE err),
              ~many /\ err = NoErr, i)

\* Count the opening hashes and check that the string is started; i is the
\* position after the r.
EnterRaw(kind, i) ==
  LET j == eat_while(i, {"#"}) IN
  Enter("raw_start", [kind |-> kind, n |-> j - i, from |-> i, prefix |-> i - start,
                      max_hashes |-> 0, offset |-> -1], j)

RawStr == StartsRaw /\ EnterRaw("RawStr", cur + 1)
RawByteStr ==
  /\ At("b") /\ second(cur) = "r" /\ nth_char(cur, 2) \in {Quote, "#"}
  /\ EnterRaw("RawByteStr", cur + 2)

RawStart ==
  /\ pc = "raw_start"
  /\ \/ /\ first(cur) = Quote
        /\ Enter("raw", reg, cur + 1)
     \/ /\ first(cur) /= Quote
        /\ EmitRaw(<<"InvalidStarter", first(cur)>>, bump(cur))

\* The hint is moved to the last quote with as many hashes, not the first.
Mut_raw_string_unvalidated ==
  /\ pc = "raw"
  /\ LET i == eat_while(cur, Alphabet \ {Quote})
         hashes == Min({reg.n, eat_while(i + 1, {"#"}) - (i + 1)})
         j == i + 1 + hashes
     IN CASE is_eof(i) -> EmitRaw(NoTerminator(reg.n, reg.max_hashes, reg.offset), i)
          [] ~is_eof(i) /\ hashes = reg.n -> EmitRaw(NoErr, j)
          [] OTHER -> Round(IF hashes >= reg.max_hashes
                            THEN [reg EXCEPT !.offset = j - reg.from - hashes + reg.prefix,
                                             !.max_hashes = hashes]
                            ELSE reg, j)

raw_string_unvalidated ==
  /\ pc = "raw"
  /\ LET i == eat_while(cur, Alphabet \ {Quote})
         hashes == Min({reg.n, eat_while(i + 1, {"#"}) - (i + 1)})
         j == i + 1 + hashes
     IN \/ /\ is_eof(i)
           /\ EmitRaw(NoTerminator(reg.n, reg.max_hashes, reg.offset), i)
        \/ /\ ~is_eof(i) /\ hashes = reg.n
           /\ EmitRaw(NoErr, j)
        \/ /\ ~is_eof(i) /\ hashes < reg.n
           /\ Round(IF hashes > reg.max_hashes
                    THEN [reg EXCEPT !.offset = j - reg.from - hashes + reg.prefix,
                                     !.max_hashes = hashes]
                    ELSE reg, j)

-----------------------------------------------------------------------------
(* tokenize and the parser above it *)

\* The text is used up: AstBuilder::new appends the Eof token, with no length.
tokenize ==
  /\ pc = "token" /\ is_eof(cur)
  /\ tokens' = Append(tokens, [kind |-> Plain("Eof"), suffix_start |-> 0,
                               len |-> 0, start |-> start])
  /\ pc' = "parse"
  /\ UNCHANGED <<text, start, cur, reg, parsed>>

Blank == {"LineComment", "BlockComment", "Whitespace"}

\* The loop of AstBuilder::parse, up to the first token it does not ignore;
\* Parser.tla has what follows.
parse ==
  /\ pc = "parse"
  /\ LET i == Min({k \in DOMAIN tokens : tokens[k].kind.kind \notin Blank}) IN
     parsed' = IF tokens[i].kind.kind = "Eof" THEN "no items" ELSE "item or error"
  /\ pc' = "done"
  /\ UNCHANGED <<text, start, cur, reg, tokens>>

advance_token ==
  \/ line_comment \/ block_comment \/ Slash
  \/ whitespace
  \/ RawIdent \/ RawStr
  \/ ByteChar \/ ByteStrLiteral \/ RawByteStr
  \/ ident
  \/ number
  \/ OneSymbolToken
  \/ char_literal
  \/ StrLiteral
  \/ UnknownToken

Next ==
  \/ advance_token
  \/ BlockRound \/ BlockEof
  \/ single_quoted_string
  \/ double_quoted_string
  \/ RawStart \/ raw_string_unvalidated
  \/ tokenize
  \/ parse
  \/ Done /\ UNCHANGED vars

\* No lexeme is continued by the one after it.
Apart(w) ==
  \A i \in 1 .. Len(w) - 1 : Head(w[i + 1].text) \notin w[i].joins

Init ==
  /\ \/ /\ \E a \in Alphabets : \E n \in 0 .. a.len : input \in [1 .. n -> a.chars]
        /\ written = <<>>
     \/ \E n \in 1 .. MaxLexemes :
          /\ written \in {w \in [1 .. n -> Lexemes] : Apart(w)}
          /\ input = FlattenSeq([i \in 1 .. n |-> written[i].text])
  /\ start = 0
  /\ cur = 0
  /\ pc = "token"
  /\ reg = <<>>
  /\ tokens = <<>>
  /\ parsed = "not yet"

\* tokenize runs to its end before the parser starts.
Spec == Init /\ [][Next]_vars

-----------------------------------------------------------------------------
(* Properties *)

TypeOK ==
  /\ start \in 0 .. Len(input)
  /\ cur \in start .. Len(input)
  /\ pc \in {"token", "block", "single", "double", "raw_start", "raw", "parse", "done"}
  /\ parsed \in {"not yet", "no items", "item or error"}
  /\ \A i \in DOMAIN tokens : tokens[i].len > 0 \/ tokens[i].kind.kind = "Eof"

Kinds(w) == FlattenSeq([i \in DOMAIN w |-> w[i].toks]) \o <<Plain("Eof")>>

\* A text put together from lexemes none of which continues the one before is
\* split into exactly these again: comments nest and end at their own `*/', a
\* dot after a number belongs to it only in a fraction, and what follows r, b
\* and ' decides between literal and name.
\* (advance_token and everything under it)
LexesAsWritten ==
  Done /\ written /= <<>> =>
    [i \in DOMAIN tokens |-> tokens[i].kind] = Kinds(written)

\* The character at k of the text s is escaped when an odd number of
\* backslashes leads up to it; o is the position of the opening quote.
Escaped(s, o, k) ==
  LET run == {n \in 1 .. k - o - 1 : \A j \in k - n .. k - 1 : s[j] = "\\"}
  IN run /= {} /\ Max(run) % 2 = 1

Opening(t) == t.start + (IF t.kind.kind \in {"Byte", "ByteStr"} THEN 2 ELSE 1)
BodyEnd(t) == t.start + t.suffix_start
OfKind(S) == {tokens[i] : i \in {j \in DOMAIN tokens : tokens[j].kind.kind \in S}}
QuotesAfter(s, o, q) == {k \in o + 1 .. Len(s) : s[k] = q /\ ~Escaped(s, o, k)}

\* A string ends at the first quote after its opening one that no backslash
\* escapes, and a string that is not terminated has no such quote in the rest
\* of the text, all of which it takes. (double_quoted_string)
StringEnds(s, t) ==
  LET ends == QuotesAfter(s, Opening(t), Quote) IN
  IF t.kind.terminated THEN ends /= {} /\ BodyEnd(t) = Min(ends)
  ELSE ends = {} /\ BodyEnd(t) = Len(s)

\* A literal of one symbol, and where a longer one has to stop: at a comment
\* or at the end of the line.
OneSymbolAt(s, o) == o + 2 <= Len(s) /\ s[o + 2] = "'" /\ s[o + 1] /= "\\"
StopAt(s, k) ==
  \/ s[k] = "/"
  \/ s[k] = Newline /\ (k = Len(s) \/ s[k + 1] /= "'")

\* A character literal of one symbol may be a quote itself; any other ends at
\* the first quote that is not escaped, without a comment or a line break
\* before it.  One that is not terminated stops right before these or at the
\* end of the text, and a NUL in the text is not its end.
\* (single_quoted_string)
CharEnds(s, t) ==
  LET o == Opening(t)
      ends == QuotesAfter(s, o, "'")
      stops == {k \in o + 1 .. Len(s) : ~Escaped(s, o, k) /\ StopAt(s, k)}
      stop == Min(stops \cup {Len(s) + 1})
  IN IF OneSymbolAt(s, o) THEN t.kind.terminated /\ BodyEnd(t) = o + 2
     ELSE IF t.kind.terminated
     THEN ends /= {} /\ BodyEnd(t) = Min(ends) /\ Min(ends) < stop
     ELSE BodyEnd(t) = stop - 1 /\ \A k \in ends : k > stop

\* The quotes after position o with exactly, or at least, n hashes behind them.
HashesAfter(s, k) == Max({n \in 0 .. Len(s) - k : \A j \in k + 1 .. k + n : s[j] = "#"})
Closing(s, o, n) == {k \in o + 1 .. Len(s) : s[k] = Quote /\ HashesAfter(s, k) >= n}

\* The opening quote of a raw string with n hashes.
RawOpening(t, n) == t.start + n + (IF t.kind.kind = "RawStr" THEN 2 ELSE 3)

\* A raw string ends at the first quote with as many hashes as it was opened
\* with, and leaves further hashes to the next token.  When there is none the
\* error tells the longest run that follows a quote, and its offset, counted
\* from the start of the token, is that of the first such quote.
\* (raw_string_unvalidated)
RawStringEnds(s, t) ==
  LET n == t.kind.n_hashes
      o == RawOpening(t, n)
      found == Max({0} \cup {HashesAfter(s, k) : k \in Closing(s, o, 0)})
  IN IF t.kind.err = NoErr
     THEN Closing(s, o, n) /= {} /\ BodyEnd(t) = Min(Closing(s, o, n)) + n
     ELSE IF t.kind.err[1] = "NoTerminator"
     THEN /\ Closing(s, o, n) = {} /\ BodyEnd(t) = Len(s)
          /\ t.kind.err[3] = found
          /\ t.kind.err[4] = IF found = 0 THEN -1 ELSE Min(Closing(s, o, found)) - t.start
     ELSE n = 0 \/ o > Len(s) \/ s[o] /= Quote

\* Every literal, quoted or raw, ends where the three statements above say.
LiteralsEnd ==
  /\ \A t \in OfKind({"Str", "ByteStr"}) : StringEnds(input, t)
  /\ \A t \in OfKind({"Char", "Byte"}) : CharEnds(input, t)
  /\ \A t \in OfKind({"RawStr", "RawByteStr"}) : RawStringEnds(input, t)

\* What is still to be done, twice the characters that are left and a little
\* more for the function the lexer is in.
Remaining ==
  2 * (Len(input) - cur) +
    (IF pc = "done" THEN 0 ELSE IF pc = "parse" THEN 1 ELSE IF pc = "token" THEN 2 ELSE 3)

\* No step leaves the lexer where it was: advance_token and each round of its
\* loops consume a character or leave the loop, at a NUL in the text and at its
\* end too, where first answers the same.  So a text of n characters takes at
\* most 2 * n + 2 steps. (Cursor::bump, advance_token and everything under it)
EveryStepAdvances == [][0 <= Remaining' /\ Remaining' < Remaining]_vars

\* "the sequence like `/* /* */` will not be considered terminated and will
\* result in a parsing error" (src/ast/lex.rs:36).
OpenCommentIsError ==
  parsed = "no items" =>
    \A t \in OfKind({"BlockComment"}) : t.kind.terminated
=============================================================================
