------------------------------ MODULE MCParser ------------------------------
(***************************************************************************)
(* Texts of the language of readme.md, compiler.md and the parser's tests, *)
(* each written together with the tree it stands for.                      *)
(***************************************************************************)
EXTENDS Parser

S(t, o) == [t |-> t, o |-> o]

\* The texts made of one text of each set in turn
Cat(A, B) == {S(a.t \o b.t, a.o \o b.o) : a \in A, b \in B}
Cats(sets) == FoldLeft(Cat, {S(<<>>, <<>>)}, sets)

T(t) == {S(t, <<>>)}
N(n) == {S(<<>>, <<n>>)}

\* A comment in every gap
Commented(s) ==
    S(FlattenSeq([i \in 1..Len(s.t) |-> IF s.t[i] = " " THEN <<" ", "//", " ">> ELSE <<s.t[i]>>]), s.o)

-----------------------------------------------------------------------------

IntTy == S(<<"int">>, <<"NamedTy">>)

Tys ==
    {IntTy,
     S(<<"T">>, <<"PathTy">>),
     S(<<"a", ":", ":", "T">>, <<"PathTy">>),
     S(<<"*", "int">>, <<"NamedTy", "PtrTy">>),
     S(<<"[", "1", ";", " ", "int", "]">>, <<"NamedTy", "ArrayTy">>),
     S(<<"T", "<", "int", ",", " ", "T", ">">>, <<"NamedTy", "PathTy", "PathTy">>),
     S(<<"fn", "(", "int", ",", " ", "T", ")", ":", " ", "int">>, <<"NamedTy", "PathTy", "NamedTy", "FnTy">>)}

X == S(<<"x">>, <<"Name">>)
One == S(<<"1">>, <<"Value">>)

\* What may stand left of an assignment
Places ==
    {X,
     S(<<"x", ".", "y">>, <<"Name", "Name", "FieldAccess">>),
     S(<<"x", "[", "1", "]">>, <<"Value", "Arg", "Array">>),
     S(<<"x", "[", "1", "]", "[", "y", "]">>, <<"Value", "Arg", "Name", "Arg", "Array">>),
     S(<<"*", "*", "x">>, <<"Name", "Deref">>)}

Calls ==
    {S(<<"f", "(", ")">>, <<"Call">>),
     S(<<"f", "(", "x", ",", " ", "1", ")">>, <<"Name", "Arg", "Value", "Arg", "Call">>),
     S(<<"a", ":", ":", "f", ":", ":", "<", "int", ">", "(", "f", "(", "1", ")", ")">>,
       <<"NamedTy", "Arg", "Value", "Arg", "Call", "Arg", "Call">>)}

StructInit ==
    Cats(<<T(<<"T", " ", "{", " ", "x", ":", " ">>), {X, One}, N("Init"), T(<<",", " ", "y", ":", " ", "1">>),
           N("Value"), N("Init"), T(<<" ", "}">>), N("StructInit")>>)

Values ==
    {S(<<"-", "1">>, <<"Value">>), S(<<"'c'">>, <<"Value">>), S(<<"str">>, <<"Value">>),
     S(<<"true">>, <<"Value">>),
     S(<<"[", "1", ";", " ", "1", "]">>, <<"ArrayInit">>),
     S(<<"[", "x", ",", " ", "1", "]">>, <<"Name", "Arg", "Value", "Arg", "ArrayInit">>),
     S(<<"<", "<", "int", ">", ":", ":", "f", ">", "(", "x", ",", " ", "1", ")">>,
       <<"NamedTy", "Arg", "Name", "Arg", "Value", "Arg", "TraitMeth">>),
     S(<<"@", "size_of", "<", "int", ">">>, <<"NamedTy", "SizeOf">>),
     S(<<"@", "bottom">>, <<"Bottom">>),
     S(<<"!", "x">>, <<"Name", "Not">>),
     S(<<"&", "x">>, <<"Name", "AddrOf">>),
     S(<<"~", "1", " ", "+", " ", "x">>, <<"Value", "Op", "Name", "OnesComp">>)}

Binary ==
    Cats(<<{X, One, S(<<"(", "x", ")">>, <<"Name", "Parens">>)}, T(<<" ">>),
           {S(<<"+">>, <<"Op">>), S(<<"<">>, <<"Op">>), S(<<"=", "=">>, <<"Op">>), S(<<"!", "=">>, <<"Op">>),
            S(<<"&", "&">>, <<"Op">>), S(<<">", ">">>, <<"Op">>)},
           T(<<" ">>), {X, S(<<"f", "(", "x", ")">>, <<"Name", "Arg", "Call">>)}>>)

Exprs == Places \cup Calls \cup Values \cup Binary

-----------------------------------------------------------------------------

Line(sets) == Cats(<<T(<<" ">>)>> \o sets \o <<T(<<";", " ">>)>>)

Braces(stmts) == Cats(<<T(<<"{">>), N("Open"), stmts, T(<<"}">>), N("Block")>>)

Simple(exprs) ==
    UNION {
      Line(<<T(<<"let", " ", "x", " ", "=", " ">>), N("Name"), exprs, N("Let")>>),
      Line(<<T(<<"return", " ">>), exprs, N("Ret")>>)}

Short ==
    UNION {
      Line(<<T(<<"let", " ", "x", ":", " ">>), N("Name"), Tys, T(<<" ", "=", " ">>), {One}, N("Let")>>),
      Line(<<Places, T(<<" ", "=", " ">>), {One}, N("Assign")>>),
      Line(<<{X}, T(<<" ">>), {S(<<o, "=">>, <<>>) : o \in AssignOps}, T(<<" ">>), {One}, N("AssignOp")>>),
      Line(<<Calls, N("CallStmt")>>),
      Line(<<T(<<"let", " ", "x", " ", "=", " ", "a", ":", ":", "T">>), N("Name"), N("EnumInit"), N("Let")>>),
      {S(<<" ", "return", ";", " ">>, <<"Exit">>), S(<<" ", "exit", ";", " ">>, <<"Exit">>),
       S(<<" ", "@", "bottom", ";", " ">>, <<"Bottom", "Builtin">>),
       S(<<" ", "asm", " ", "{", " ", "f", " ", "1", ",", " ", "%", "rax", ";", " ", "f", ";", " ", "f", " ", "(", "x", ")",
           ";", " ", "}", " ">>, <<"InlineAsm">>)}}

\* The first statement of a block, or of an arm, and the one behind it
Next2 == {S(<<" ", "f", "(", "x", ")", ";", " ">>, <<"Name", "Arg", "Call", "CallStmt">>)}

Cond == S(<<"(", "x", " ", "<", " ", "y", ")">>, <<"Name", "Op", "Name", "Parens">>)

Pattern ==
    {S(<<"x">>, <<"Wild">>), S(<<"-", "1">>, <<"ValuePat">>), S(<<"a", ":", ":", "T">>, <<"EnumPat">>),
     S(<<"a", ":", ":", "T", "(", "x", ",", " ", "1", ")">>, <<"Wild", "ValuePat", "EnumPat">>),
     S(<<"[", "x", ",", " ", "1", "]">>, <<"Wild", "ValuePat", "ArrayPat">>)}

Arm(pats, stmts) == Cats(<<pats, T(<<" ", "-", ">", " ">>), Braces(stmts), T(<<",">>), N("Arm")>>)

Compound(pats, stmts, others) ==
    UNION {
      Cats(<<T(<<" ", "if", " ">>), {Cond}, T(<<" ">>), Braces(stmts), N("If")>>),
      Cats(<<T(<<" ", "if", " ">>), {Cond}, T(<<" ">>), Braces(stmts), T(<<" ", "else", " ">>), Braces(others), N("Else"), N("If")>>),
      Cats(<<T(<<" ", "while", " ">>), {Cond}, T(<<" ">>), Braces(stmts), N("While")>>),
      Cats(<<T(<<" ">>), Braces(stmts), N("BlockStmt")>>),
      Cats(<<T(<<" ", "match", " ", "x", " ", "{", " ">>), {S(<<>>, <<"Name">>)}, Arm(pats, stmts), T(<<" ">>), Arm({S(<<"x">>, <<"Wild">>)}, others),
             T(<<" ", "}">>), N("Match")>>)}

Func(stmts) == Cats(<<T(<<"fn", " ", "f", "(", ")", " ">>), Braces(stmts), N("Fn"), T(<<" ", "EOF">>)>>)

Wild == {S(<<"x">>, <<"Wild">>)}

Inner == Compound(Wild, Next2, Next2)

Bodies ==
    UNION {Simple(Exprs \cup StructInit), Short, Compound(Pattern, Next2, Next2),
           Compound(Wild, Inner \cup Cat(Inner, Next2), Inner),
           Compound(Wild, Short, Next2)}

-----------------------------------------------------------------------------

Generics == {S(<<>>, <<>>), S(<<"<", "T", ">">>, <<"Generic">>), S(<<"<", "T", ":", " ", "a", ",", " ", "x", ">">>, <<"Generic", "Generic">>)}

Params(tys) ==
    {S(<<"(", ")">>, <<>>)} \cup
    Cats(<<T(<<"(", "x", ":", " ">>), tys, N("Param"), {S(<<>>, <<>>), S(<<",">>, <<>>), S(<<",", " ", "y", ":", " ", "int">>, <<"NamedTy", "Param">>)},
           T(<<")">>)>>)

Header(tys) == Cats(<<Params(tys), {S(<<>>, <<>>), S(<<":", " ", "int">>, <<"NamedTy">>)}>>)

Body == S(<<" ", "{", " ", "f", "(", "x", ")", ";", " ", "}">>, <<"Open", "Name", "Arg", "Call", "CallStmt", "Block">>)

Declared ==
    UNION {
      Cats(<<T(<<"const", " ", "x", ":", " ">>), Tys, T(<<" ", "=", " ">>), {One}, T(<<";">>), N("Const")>>),
      Cats(<<T(<<"const", " ", "mut", " ", "x", ":", " ">>), {IntTy}, T(<<" ", "=", " ">>), {One}, T(<<";">>), N("Const")>>),
      Cats(<<T(<<"fn", " ", "f">>), Generics, Header(Tys), {Body}, N("Fn")>>),
      Cats(<<T(<<"linked", " ", "fn", " ", "f">>), Generics, Header({IntTy}), {S(<<";">>, <<>>), Body}, N("Linked")>>),
      Cats(<<T(<<"impl", " ", "a", "<", "int", ">", " ", "{", " ", "fn", " ", "f">>), N("NamedTy"), Header({IntTy}), {Body}, N("Fn"),
             T(<<" ", "}">>), N("Impl")>>),
      Cats(<<T(<<"struct", " ", "T">>), Generics, T(<<" ", "{", " ", "x", ":", " ">>), Tys, N("Field"),
             {S(<<>>, <<>>), S(<<",">>, <<>>), S(<<",", " ", "y", ":", " ", "int">>, <<"NamedTy", "Field">>)}, T(<<" ", "}">>), N("Struct")>>),
      Cats(<<T(<<"enum", " ", "T">>), Generics, T(<<" ", "{", " ", "x">>), N("Variant"), T(<<",", " ", "y", "(">>), Tys,
             {S(<<>>, <<>>), S(<<",", " ", "int">>, <<"NamedTy">>)}, T(<<")">>), N("Variant"), {S(<<>>, <<>>), S(<<",">>, <<>>)}, T(<<" ", "}">>),
             N("Enum")>>),
      {S(<<"import", " ", ":", ":", "a", ":", ":", "x", ";">>, <<"Import">>),
       S(<<"#", "[", "x", "]">>, <<>>)}}

Second == {S(<<" ", "const", " ", "y", ":", " ", "int", " ", "=", " ", "1", ";", " ", "EOF">>, <<"NamedTy", "Value", "Const">>)}

Programs == Func(Bodies) \cup Cat(Declared, Second)

MCPrograms == Programs \cup {Commented(s) : s \in Programs}

-----------------------------------------------------------------------------
(* Any text: up to n of some tokens behind a start *)

Strings(A, n) == UNION {[1..k -> A] : k \in 0..n}
Texts(start, A, n) == {S(start \o t \o <<"EOF">>, AnyTree) : t \in Strings(A, n)}

InFn == <<"fn", "x", "(", ")", "{">>

AnyTexts ==
    UNION {
      Texts(<<>>, {"fn", "x", "{", "}", ";", "#", "[", "]", "let", "?", "trait", "impl"}, 3),
      Texts(InFn, {"x", "1", "-", "=", "<", "{", "}", "(", ")", "[", "]", ";", ":", "match"}, 3),
      Texts(InFn, {"x", "!", "//", ".", "@", "asm", "true", "*", "if", "exit"}, 3),
      Texts(InFn \o <<"match", "x", "{">>, {"x", "1", "-", "{", "(", "[", ",", ":", "match"}, 3),
      Texts(InFn \o <<"asm", "{">>, {"x", "%", "rax", ",", ";", "1", "-", "("}, 3),
      Texts(<<"const", "x", ":">>, {"int", "T", "fn", "*", "[", "]", "(", ")", "<", ",", "1", "if"}, 2),
      Texts(<<"const", "x", ":", "int", "=">>, {"x", "1", "'cc'", "huge", "b'c'", "-", "!", "<", "[", "]", "@", "size_of", ",", "let", "+"}, 2),
      Texts(<<"const", "x", ":", "int", "=", "@", "size_of">>, {"<", ">", "int", ",", ":"}, 4),
      Texts(<<"const", "x", ":", "int", "=", "x", "+">>, {";", "x"}, 2),
      Texts(<<"trait", "a", "{", "fn", "f", "(", ")">>, {";", "{", "}"}, 3),
      Texts(<<"const", "x", ":", "int", "=", "[", "1", ";">>, {"1", "-", "1.5", "]", "str", "huge", "true"}, 2)}

MCInputs == MCPrograms \cup AnyTexts

-----------------------------------------------------------------------------
(* Texts that are not parsed as they are written: ParsesAsWritten fails; the *)
(* last but one violates NeverUnreachable, the last AttributesIgnored.       *)

\* The match of readme.md: two arms whose blocks hold nothing but blanks
EmptyArm(pat) == Cats(<<{pat}, T(<<" ", "-", ">", " ", "{", " ", "}", ",", " ">>), N("Open"), N("Exit"), N("Block"), N("Arm")>>)

EmptyArms ==
    Func(Cats(<<T(<<" ", "match", " ", "x", " ", "{", " ">>), N("Name"),
                EmptyArm(S(<<"a", ":", ":", "T", "(", "x", ")">>, <<"Wild", "EnumPat">>)),
                EmptyArm(S(<<"a", ":", ":", "T">>, <<"EnumPat">>)), T(<<"}">>), N("Match")>>))

MCEmptyArms == {Commented(s) : s \in EmptyArms}

\* A blank behind a type of a variant
MCVariantBlank ==
    {S(<<"enum", " ", "T", " ", "{", " ", "x", "(", "int", " ", ",", " ", "int", ")", " ", "}", "EOF">>,
       <<"NamedTy", "NamedTy", "Variant", "Enum">>)}

\* A struct value in an arm
MCStructInArm == Func(Compound(Wild, Line(<<T(<<"let", " ", "x", " ", "=", " ">>), N("Name"), StructInit, N("Let")>>), Next2))

\* `<<int>::f>(x);` as a statement
MCTraitStmt ==
    Func({S(<<" ", "<", "<", "int", ">", ":", ":", "f", ">", "(", "x", ")", ";", " ">>,
            <<"NamedTy", "Arg", "Name", "Arg", "TraitMeth", "CallStmt">>)})

\* `trait a<T> { fn f(x: T): T; }`
MCTraitFn ==
    {S(<<"trait", " ", "a", "<", "T", ">", " ", "{", " ", "fn", " ", "f", "(", "x", ":", " ", "T", ")", ":", " ", "T", ";", " ", "}", "EOF">>,
       <<"Generic", "PathTy", "Param", "PathTy", "NoBody", "Trait">>)}

\* `f(f()) + 1`
MCNoArgs ==
    Func(Simple({S(<<"f", "(", "f", "(", ")", ")", " ", "+", " ", "1">>, <<"Call", "Arg", "Call", "Op", "Value">>)}))

\* `x[x[1]][1]`
MCNestedIndex ==
    Func(Simple({S(<<"x", "[", "x", "[", "1", "]", "]", "[", "1", "]">>,
                   <<"Value", "Arg", "Array", "Arg", "Value", "Arg", "Array">>)}))

\* Two `;` behind a constant
MCTwoSemis == {S(<<"const", " ", "x", ":", " ", "int", " ", "=", " ", "1", ";", ";", " ", "EOF">>, <<"NamedTy", "Value", "Const">>)}

\* `#` before a constant
MCHash == {S(<<"#", " ">> \o s.t, s.o) : s \in Second}
=============================================================================
