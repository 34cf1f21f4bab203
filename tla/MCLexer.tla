------------------------------- MODULE MCLexer -------------------------------
(* Lexemes to put texts together from: the examples of the comments of      *)
(* src/ast/lex.rs and the cases next to them.                               *)
EXTENDS Lexer

Lexeme(t, toks, joins) == [text |-> t, toks |-> toks, joins |-> joins]
One(t, kind, joins) == Lexeme(t, <<kind>>, joins)

NL == Newline
Q == Quote
B == "\\"
H == "#"

Names ==
  { One(<<"a">>, Plain("Ident"), is_id_continue),
    One(<<"r">>, Plain("Ident"), is_id_continue \cup {H, Q}),
    One(<<"b", "r">>, Plain("Ident"), is_id_continue \cup {H, Q}),
    One(<<"b">>, Plain("Ident"), is_id_continue \cup {"'", Q}),
    Lexeme(<<"r", H, "a">>, <<Plain("Unknown"), Plain("Pound"), Plain("Ident")>>, is_id_continue) }

Numbers ==
  { One(<<"1">>, Number("Int", "Decimal", FALSE), is_id_continue),
    One(<<"0">>, Number("Int", "Decimal", FALSE), is_id_continue),
    One(<<"0", "1", "_", "a">>, Number("Int", "Decimal", FALSE), is_id_continue),
    One(<<"0", "x", "1", "a">>, Number("Int", "Hexadecimal", FALSE), is_id_continue),
    One(<<"0", "x">>, Number("Int", "Hexadecimal", TRUE), is_id_continue),
    One(<<"0", "b", "1">>, Number("Int", "Binary", FALSE), is_id_continue),
    One(<<"0", "b", "1", ".", "1">>, Number("Float", "Binary", FALSE), is_id_continue),
    One(<<"0", "o", "_">>, Number("Int", "Octal", TRUE), is_id_continue),
    One(<<"1", ".", "0", "e", "-", "1">>, Number("Float", "Decimal", FALSE), is_id_continue),
    One(<<"1", ".">>, Number("Float", "Decimal", FALSE), is_id_continue \cup {"."}),
    One(<<"0", "e">>, Number("Float", "Decimal", TRUE), is_id_continue \cup {"+", "-"}) }

Quotes ==
  { One(<<Q, "a", Q>>, Quoted("Str", TRUE), is_id_start),
    One(<<Q, B, Q, Q>>, Quoted("Str", TRUE), is_id_start),
    One(<<Q, B, B, Q, "a">>, Quoted("Str", TRUE), is_id_continue),
    One(<<"b", Q, "'", Q>>, Quoted("ByteStr", TRUE), is_id_start),
    One(<<"'", "a", "'">>, Quoted("Char", TRUE), is_id_start),
    One(<<"'", "'", "'">>, Quoted("Char", TRUE), is_id_start),
    One(<<"'", B, "'", "'">>, Quoted("Char", TRUE), is_id_start),
    One(<<"'", "/", "'">>, Quoted("Char", TRUE), is_id_start),
    One(<<"b", "'", B, B, "'">>, Quoted("Byte", TRUE), is_id_start),
    One(<<"'", "a">>, Quoted("Char", FALSE), Alphabet \ {"/"}),
    One(<<Q, "a">>, Quoted("Str", FALSE), Alphabet),
    One(<<"r", Q, B, Q>>, RawString("RawStr", 0, NoErr), is_id_start),
    One(<<"r", H, Q, Q, Q, H>>, RawString("RawStr", 1, NoErr), is_id_start),
    One(<<"b", "r", H, H, Q, Q, H, Q, H, H>>, RawString("RawByteStr", 2, NoErr), is_id_start),
    One(<<"r", H, H, Q, "a", Q, H>>,
        RawString("RawStr", 2, NoTerminator(2, 1, 6)), Alphabet),
    One(<<"r", H, ".">>, RawString("RawStr", 1, <<"InvalidStarter", ".">>), {}) }

Comments ==
  { One(<<"/", "*", "*", "/">>, Comment("BlockComment", "None", TRUE), {}),
    One(<<"/", "*", "*", " ", "*", "/">>, Comment("BlockComment", "Outer", TRUE), {}),
    One(<<"/", "*", "!", "/", "*", "/", "*", "/">>, Comment("BlockComment", "Inner", FALSE), Alphabet),
    One(<<"/", "*", "/", "*", "*", "/", Q, "*", "/">>, Comment("BlockComment", "None", TRUE), {}),
    One(<<"/", "*", "a", "/", "*", "/", "*", "*", "/", "*", "/", "/", "*", "*", "/", "*", "/">>,
        Comment("BlockComment", "None", TRUE), {}),
    One(<<"/", "/", "a", Q>>, Comment("LineComment", "None", TRUE), Alphabet \ {NL}),
    One(<<"/", "/", "/">>, Comment("LineComment", "Outer", TRUE), Alphabet \ {NL}),
    One(<<"/", "/", "/", "/">>, Comment("LineComment", "None", TRUE), Alphabet \ {NL}),
    One(<<"/", "/", "!">>, Comment("LineComment", "Inner", TRUE), Alphabet \ {NL}) }

Signs ==
  { One(<<" ", NL>>, Plain("Whitespace"), is_whitespace),
    One(<<NL>>, Plain("Whitespace"), is_whitespace),
    One(<<"/">>, Plain("Slash"), {"/", "*"}),
    One(<<"*">>, Plain("Star"), {}),
    One(<<H>>, Plain("Pound"), {}),
    One(<<NUL>>, Plain("Unknown"), {}),
    Lexeme(<<".", ".">>, <<Plain("Dot"), Plain("Dot")>>, {}),
    Lexeme(<<".", "a">>, <<Plain("Dot"), Plain("Ident")>>, is_id_continue) }

MCLexemes == Names \cup Numbers \cup Quotes \cup Comments \cup Signs

\* texts of quotes and escapes, and of raw strings
MCAlphabets == {[chars |-> {Q, B, "'", "/", NL, NUL, "b"}, len |-> 5],
                [chars |-> {"r", "b", H, Q}, len |-> 7]}

\* Comments without an end: OpenCommentIsError fails.
CommentAlphabet == {[chars |-> {"/", "*", "a"}, len |-> 6]}
==============================================================================
