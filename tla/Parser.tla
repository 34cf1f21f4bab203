------------------------------- MODULE Parser -------------------------------
(***************************************************************************)
(* The recursive descent parser of ast/parse.rs: declarations, statements, *)
(* patterns, types, paths and the operands of expressions.                 *)
(*                                                                         *)
(* The Rust call stack is the sequence `work` of what is still to be done, *)
(* the next thing first: a token stands for eat_if, "ws" for               *)
(* eat_whitespace, a node of the syntax tree for building that node, and   *)
(* the name of a method for the call of it.  An action named like a method *)
(* replaces the call by what the method does next, after its tests of the  *)
(* current token.  `toks` is curr followed by tokens.                      *)
(*                                                                         *)
(* The text of a token matters only where the code compares it; the tree   *)
(* is the sequence of its nodes, children first.  Which operands a binary  *)
(* operator gets is the subject of ExprParser: here an expression is the   *)
(* sequence of its operands and operators.                                 *)
(***************************************************************************)
EXTENDS Naturals, Sequences, FiniteSets, SequencesExt

CONSTANT Inputs   \* texts to parse: the tokens, and the tree they are written for

AnyTree == <<"any">>    \* in the place of the tree: the text is any text

Blank == {" ", "//"}                    \* whitespace, and a comment
Literal == {"1", "huge", "1.5", "'c'", "'cc'", "str", "b'c'"}
Punct == {"(", ")", "{", "}", "[", "]", "<", ">", ",", ";", ":", ".", "@",
          "#", "?", "=", "!", "+", "-", "*", "/", "%", "&", "|", "^", "~"}
Decls == {"const", "fn", "linked", "impl", "struct", "enum", "trait", "import"}
Keywords == Decls \cup
    {"let", "if", "else", "while", "return", "match", "asm", "exit", "mut",
     "true", "false", "bottom", "size_of", "for", "_"}
Names == {"x", "y", "f", "T", "a", "int"}
Registers == {"rax", "xmm0"}

Token == Blank \cup Literal \cup Punct \cup Keywords \cup Names \cup Registers \cup {"EOF"}

\* Nodes that make_lh_expr, and make_pat, can return
LhExpr == {"Name", "Call", "Deref", "Array", "FieldAccess", "StructInit", "EnumInit"}
Operand == LhExpr \cup {"Value", "Not", "OnesComp", "AddrOf", "Parens", "ArrayInit",
                        "TraitMeth", "Bottom", "SizeOf", "Op"}
Pats == {"Wild", "EnumPat", "ArrayPat", "ValuePat", "Arm"}
Types == {"NamedTy", "PathTy", "PtrTy", "ArrayTy", "FnTy"}
Stmts == {"Let", "If", "Else", "While", "Ret", "Exit", "Match", "InlineAsm", "Builtin",
          "CallStmt", "Assign", "AssignOp", "BlockStmt", "Open", "Block"}
Items == {"Const", "Fn", "Linked", "Impl", "Struct", "Enum", "Trait", "Import",
          "Default", "NoBody", "Variant", "Field", "Param", "Generic", "Init", "Arg"}
Node == Operand \cup Pats \cup Types \cup Stmts \cup Items

ASSUME InputsAssumption ==
    \A in \in Inputs : in.t \in Seq(Token) /\ in.t # <<>> /\ Last(in.t) = "EOF" /\ in.o \in Seq(Node) \cup {AnyTree}

VARIABLES
    toks,      \* curr, then tokens
    work,      \* the call stack: what is to be done, next first
    segs,      \* path.segs.len() of the last make_path
    inMatch,   \* in_match_stmt
    out,       \* the nodes built
    status,    \* "run", or how the parse ended
    input      \* the text, and the tree it is written for

vars == <<toks, work, segs, inMatch, out, status, input>>

Curr == IF toks = <<>> THEN "EOF" ELSE Head(toks)

\* `peek`: the token behind curr
Peek == IF Len(toks) > 1 THEN toks[2] ELSE "?"

IsIdent(t) == t \in Keywords \cup Names \cup Registers

\* `TokenMatch == TokenKind`, which ignores the text of names and literals
Matches(k, t) ==
    \/ k = t
    \/ k = "Ident" /\ IsIdent(t)
    \/ k = "Literal" /\ t \in Literal

\* zip stops at the end of the tokens
Zips(ks, ts) ==
    \A i \in 1..Min({Len(ks), Len(ts)}) : Matches(ks[i], ts[i])

cmp_seq(ks) == Zips(ks, toks)

cmp_seq_ignore_ws(ks) ==
    LET rest == SelectSeq(Tail(toks), LAMBDA t : t \notin Blank)
    IN  IF Curr \in Blank
        THEN Zips(ks, rest)
        ELSE Matches(Head(ks), Curr) /\ Zips(Tail(ks), rest)

\* The tokens left by eat_seq and eat_seq_ignore_ws, which stop at the first
\* mismatch and do not give back what they ate.
eat_seq(ts, k1, k2) ==
    IF Head(ts) # k1 THEN ts
    ELSE IF Head(Tail(ts)) # k2 THEN Tail(ts) ELSE Tail(Tail(ts))

SkipOne(ts) == IF Head(ts) \in Blank THEN Tail(ts) ELSE ts

eat_seq_ignore_ws(ts, k1, k2) ==
    LET r == SkipOne(ts)
        q == SkipOne(Tail(r))
    IN  IF Head(r) # k1 THEN r
        ELSE IF Head(q) # k2 THEN q ELSE Tail(q)

\* What eat_seq_ignore_ws returns
ate_seq_ignore_ws(ts, k1, k2) ==
    LET r == SkipOne(ts) IN Head(r) = k1 /\ Head(SkipOne(Tail(r))) = k2

-----------------------------------------------------------------------------
(* The machine *)

\* The next thing to do
Called == IF work = <<>> THEN "nothing" ELSE Head(work)

Top(p) == Called = p

\* p goes on with body, having left the tokens ts.  eat_tkn panics when it
\* removes a token from the empty list.
Eating(p, ts, body) ==
    /\ Top(p)
    /\ toks' = ts
    /\ work' = IF ts = <<>> THEN <<>> ELSE body \o Tail(work)
    /\ status' = IF ts = <<>> THEN "past the end" ELSE status
    /\ UNCHANGED <<segs, inMatch, out, input>>

Do(p, body) == Eating(p, toks, body)

\* `return Err`: `?` takes it through all callers; a panic ends the thread
Ends(p, how) ==
    /\ Top(p)
    /\ status' = how
    /\ work' = <<>>
    /\ UNCHANGED <<toks, segs, inMatch, out, input>>

Err(p) == Ends(p, "error")
Todo(p) == Ends(p, "todo")                  \* todo!, or a panic! on purpose
Unreachable(p) == Ends(p, "unreachable")

Matched == Punct \cup Keywords \cup {"Ident", "Literal"}

eat_if ==
    \E k \in {Called} \cap Matched :
        Eating(k, IF Matches(k, Curr) THEN Tail(toks) ELSE toks, <<>>)

eat_whitespace ==
    LET n == SelectInSeq(toks, LAMBDA t : t \notin Blank)
    IN  Eating("ws", SubSeq(toks, n, Len(toks)), <<>>)

\* Build a node of the tree
build ==
    \E n \in {Called} \cap Node :
        /\ Top(n)
        /\ out' = Append(out, n)
        /\ work' = Tail(work)
        /\ UNCHANGED <<toks, segs, inMatch, status, input>>

\* One turn of `loop { if stop { break } elem; if eat(",") { ws } else { break } } end`;
\* `stops` is what is done in place of the element when the list stops.
CommaList(p, more, stop, stops, elem, end) ==
    \/ Curr = stop /\ Do(p, stops)
    \/ Curr # stop /\ Do(p, elem \o <<more>>)
    \/ Curr = "," /\ Do(more, <<",", "ws", p>>)
    \/ Curr # "," /\ Do(more, end)

-----------------------------------------------------------------------------
(* Names, paths, types and literals *)

\* Takes the text of any token; only an identifier is eaten
make_ident == Do("make_ident", <<"Ident", "ws">>)

Colons == <<":", ":">>

make_path ==
    /\ Top("make_path")
    /\ segs' = 0
    /\ work' = <<"make_seg">> \o Tail(work)
    /\ UNCHANGED <<toks, inMatch, out, status, input>>

JustTypeArgs == cmp_seq_ignore_ws(Colons \o <<"<">>)

\* One turn of the loop: the colons, then a segment
make_seg ==
    \/ Top("make_seg") /\ JustTypeArgs /\ Do("make_seg", <<"ws">>)
    \/ /\ Top("make_seg") /\ ~JustTypeArgs
       /\ Eating("make_seg",
                 IF \/ cmp_seq_ignore_ws(<<"Ident">> \o Colons \o <<"<">>)
                    \/ cmp_seq_ignore_ws(<<"Ident", ":", "Ident">>)
                 THEN toks ELSE eat_seq(toks, ":", ":"),
                 <<"seg", "make_ident", "more_segs">>)

\* retain() drops the names without a character
seg ==
    /\ Top("seg")
    /\ segs' = IF Curr \in Blank \cup {"EOF"} THEN segs ELSE segs + 1
    /\ work' = Tail(work)
    /\ UNCHANGED <<toks, inMatch, out, status, input>>

MoreSegs == cmp_seq(Colons) \/ cmp_seq(<<"Ident">>)

more_segs ==
    \/ MoreSegs /\ Do("more_segs", <<"ws", "make_seg">>)
    \/ ~MoreSegs /\ Do("more_segs", <<"ws">>)

BuiltinTy == {"int"}     \* void, bool, char, int, float, cstr

make_ty ==
    \/ Curr = "fn" /\ Do("make_ty", <<"fn", "(", "ws", "fn_params", "ret", "FnTy">>)
    \/ Curr \in Keywords \ {"fn"} /\ Err("make_ty")
    \/ Curr \in BuiltinTy /\ Do("make_ty", <<"Ident", "NamedTy">>)
    \/ Curr \in (Names \cup Registers) \ BuiltinTy /\ Do("make_ty", <<"make_path", "ty_args", "Ident", "PathTy">>)
    \/ Curr = "[" /\ Do("make_ty", <<"[", "ws", "make_array_type">>)
    \/ Curr = "*" /\ Do("make_ty", <<"*", "make_ty", "PtrTy">>)
    \/ ~IsIdent(Curr) /\ Curr \notin {"[", "*"} /\ Todo("make_ty")

ty_args ==
    \/ Curr = "<" /\ Do("ty_args", <<"types<">>)
    \/ Curr # "<" /\ Do("ty_args", <<>>)

\* The parameters of `fn(type, ...)`
fn_params == CommaList("fn_params", "more_fn_params", ")", <<")">>, <<"make_ty", "ws">>, <<")">>)

\* `: type`, or void
ret ==
    \/ Curr = ":" /\ Do("ret", <<":", "ws", "make_ty">>)
    \/ Curr # ":" /\ Do("ret", <<"ws">>)

make_array_type ==
    \/ Curr = "1" /\ Do("make_array_type", <<"Literal", "ws", ";", "ws", "make_ty", "ArrayTy", "]">>)
    \/ Curr # "1" /\ Err("make_array_type")

make_types(p, each, more, open, close) ==
    \/ Curr = open /\ Do(p, <<open, "ws", each>>)
    \/ Curr # open /\ Do(p, <<>>)
    \/ CommaList(each, more, close, <<close, close, "ws">>, <<"make_ty">>, <<close, "ws">>)

make_type_args ==
    \/ Eating("make_type_args", eat_seq_ignore_ws(toks, ":", ":"), <<"type_args">>)
    \/ Curr = "<" /\ Do("type_args", <<"<", "ws", "each_type_arg">>)
    \/ Curr # "<" /\ Do("type_args", <<>>)
    \/ Do("each_type_arg", <<"make_ty", "Arg", "ws", "more_type_args">>)
    \/ Curr = "," /\ Do("more_type_args", <<",", "ws", "each_type_arg">>)
    \/ Curr # "," /\ Do("more_type_args", <<">">>)

make_generics ==
    \/ Curr = "<" /\ Do("make_generics", <<"<", "each_generic">>)
    \/ Curr # "<" /\ Do("make_generics", <<"ws">>)
    \/ Do("each_generic", <<"make_ident", "bound", "Generic", "ws", "more_generics">>)
    \/ Curr = "," /\ Do("more_generics", <<",", "ws", "each_generic">>)
    \/ Curr # "," /\ Do("more_generics", <<">", "ws">>)

bound ==
    \/ Curr = ":" /\ Do("bound", <<":", "ws", "make_path">>)
    \/ Curr # ":" /\ Do("bound", <<>>)

\* A number may follow a minus; the other literals may not.  "huge" is an
\* integer that isize cannot hold, "'cc'" a char of several characters.
make_literal ==
    \/ Curr = "-" /\ Do("make_literal", <<"-", "number">>)
    \/ Curr # "-" /\ Do("make_literal", <<"literal">>)
    \/ /\ Curr \in {"true", "false"} \cup Literal
       /\ \/ Curr \in {"true", "false", "1", "1.5"} /\ Eating("number", Tail(toks), <<>>)
          \/ Curr = "huge" /\ Err("number")
          \/ Curr \in {"'c'", "'cc'", "str", "b'c'"} /\ Todo("number")
          \/ Curr \in {"true", "false", "1", "1.5", "'c'", "str"} /\ Eating("literal", Tail(toks), <<>>)
          \/ Curr \in {"huge", "'cc'"} /\ Err("literal")
          \/ Curr = "b'c'" /\ Todo("literal")
    \/ Curr \in Keywords \ {"true", "false"} /\ \E p \in {"number", "literal"} : Todo(p)
    \/ Curr \notin Literal \cup Keywords /\ \E p \in {"number", "literal"} : Err(p)

-----------------------------------------------------------------------------
(* Declarations *)

KeywordOf == [d \in Decls |->
    CASE d = "const" -> "parse_const" [] d = "fn" -> "parse_fn"
      [] d = "linked" -> "parse_linked_fn" [] d = "impl" -> "parse_impl"
      [] d = "struct" -> "parse_struct" [] d = "enum" -> "parse_enum"
      [] d = "trait" -> "parse_trait" [] d = "import" -> "parse_import"]

parse ==
    \/ Curr = "EOF" /\ Ends("parse", "ok")
    \/ Curr \in Blank /\ Do("parse", <<"ws", "parse">>)
    \/ Curr \in Decls /\ Do("parse", <<KeywordOf[Curr], "ws", "parse">>)
    \/ Curr \in Keywords \ Decls /\ Unreachable("parse")
    \/ Curr \in (Names \cup Registers) /\ Err("parse")
    \/ Curr = "#" /\ Do("parse", <<"eat_attr", "parse">>)
    \/ Curr = "}" /\ Do("parse", <<"}", "ws", "parse">>)
    \/ Curr = "?" /\ Err("parse")
    \/ Curr \in (Punct \cup Literal) \ {"#", "}", "?"} /\ Unreachable("parse")

\* eat_until looks for the `]` without a look at the end of the tokens
eat_attr ==
    LET n == SelectInSeq(toks, LAMBDA t : t = "]")
    IN  \/ Peek = "[" /\ Eating("eat_attr", IF n = 0 THEN <<>> ELSE SubSeq(toks, n + 1, Len(toks)), <<>>)
        \/ Peek # "[" /\ Do("eat_attr", <<>>)

parse_const ==
    Do("parse_const", <<"const", "ws", "mut", "ws", "make_ident", "ws", ":", "ws", "make_ty",
                        "ws", "=", "ws", "make_expr", "ws", ";", "Const">>)

Signature == <<"(", "ws", "opt_params", ")", "ws", "ret", "ws">>

opt_params ==
    \/ Curr = ")" /\ Do("opt_params", <<")">>)
    \/ Curr # ")" /\ Do("opt_params", <<"make_params">>)

parse_fn ==
    Do("parse_fn", <<"fn", "ws", "make_ident", "make_generics">> \o Signature \o <<"make_block", "Fn">>)

parse_linked_fn ==
    \/ Do("parse_linked_fn", <<"linked", "ws", "fn", "ws", "make_ident", "make_generics">>
                             \o Signature \o <<"linked_body", "Linked">>)
    \/ Curr = ";" /\ Do("linked_body", <<";">>)
    \/ Curr # ";" /\ Do("linked_body", <<"make_block">>)

parse_impl ==
    Do("parse_impl", <<"impl", "ws", "make_path", "types<", "{", "ws", "parse_fn", "}", "Impl">>)

parse_struct ==
    Do("parse_struct", <<"struct", "ws", "make_ident", "make_generics", "{", "ws", "make_fields", "}", "Struct">>)

parse_enum ==
    Do("parse_enum", <<"enum", "ws", "make_ident", "make_generics", "{", "ws", "make_variants", "}", "Enum">>)

parse_trait ==
    Do("parse_trait", <<"trait", "ws", "make_path", "make_generics", "{", "ws", "make_trait_fn", "}", "Trait">>)

parse_import == Do("parse_import", <<"import", "ws", "make_path", ";", "Import">>)

make_trait_fn ==
    \/ Do("make_trait_fn", <<"fn", "ws", "make_ident">> \o Signature \o <<"default">>)
    \/ Curr = ";" /\ Do("default", <<";", "make_block", "Default">>)
    \/ Curr # ";" /\ Do("default", <<"NoBody">>)

make_variants ==
    CommaList("make_variants", "more_variants", "}", <<"ws">>,
              <<"make_ident", "types(", "Variant", "ws">>, <<"ws">>)

make_fields ==
    CommaList("make_fields", "more_fields", "}", <<"ws">>,
              <<"make_ident", ":", "ws", "make_ty", "Field", "ws">>, <<"ws">>)

make_params ==
    CommaList("make_params", "more_params", ")", <<")", "ws">>,
              <<"make_ident", ":", "ws", "make_ty", "Param", "ws">>, <<"ws">>)

-----------------------------------------------------------------------------
(* Expressions *)

\* The rest of a literal array: `[lit; count]`
RepeatInit == <<"[", "ws", "make_literal", "ws", ";", "ws", "count", "ws", "]", "ArrayInit">>

\* The first token is decided on behind the blanks: make_expr is "ws", "expr"
Expr == <<"ws", "expr">>

OperandStart == Literal \cup Names \cup Registers \cup {"*", "-", "&", "!", "~", "("}

make_expr ==
    \/ Do("make_expr", Expr)
    \/ Curr = "[" /\ cmp_seq_ignore_ws(<<"[", "Literal", ";">>) /\ Do("expr", RepeatInit)
    \/ Curr = "[" /\ ~cmp_seq_ignore_ws(<<"[", "Literal", ";">>) /\ Do("expr", <<"[", "ws", "make_expr_list", "ArrayInit">>)
    \/ Curr = "<" /\ Do("expr", <<"<", "make_type_args", "make_path", "ws", ">", "(", "ws", "make_arg_list",
                                  "ws", ")", "TraitMeth">>)
    \/ Curr = "@" /\ Do("expr", <<"@", "builtin">>)
    \/ Curr \in {"true", "false"} /\ Do("expr", <<"make_literal", "Value">>)
    \/ Curr \in Keywords \ {"true", "false"} /\ Err("expr")
    \/ Curr \in OperandStart /\ Do("expr", <<"advance_to_op">>)
    \/ ~IsIdent(Curr) /\ Curr \notin OperandStart \cup {"[", "<", "@"} /\ Todo("expr")

\* `int as usize` of a negative count, and the items are collected
IsInt == Curr = "1" \/ (Curr = "-" /\ Peek = "1")

array_count ==
    \/ IsInt /\ Curr # "-" /\ Do("count", <<"make_literal">>)
    \/ IsInt /\ Curr = "-" /\ Ends("count", "overflow")
    \/ ~IsInt /\ Do("count", <<"make_literal", "fail">>)
    \/ Err("fail")

\* Called for `[` and `]` only, with the `[` and the blanks behind it eaten
make_expr_list ==
    CommaList("make_expr_list", "more_exprs", "]", <<"]", "]", "ws">>, <<"make_expr", "Arg">>, <<"]", "ws">>)

make_arg_list ==
    CommaList("make_arg_list", "more_args", ")", <<")">>, <<"make_expr", "Arg", "ws">>, <<>>)

\* The caller has seen the `{`
make_field_list ==
    \/ Do("make_field_list", <<"{", "ws", "each_init">>)
    \/ CommaList("each_init", "more_inits", "}", <<"}", "}", "ws">>,
                 <<"make_ident", "ws", ":", "ws", "make_expr", "Init">>, <<"}", "ws">>)

\* `@bottom` and `@size_of<type>`, as an expression or as a statement
builtin ==
    \/ Curr = "bottom" /\ Do("builtin", <<"Ident", "Bottom">>)
    \/ Curr = "size_of" /\ Do("builtin", <<"Ident", "size_of_arg">>)
    \/ Curr \notin {"bottom", "size_of"} /\ Err("builtin")
    \/ Eating("size_of_arg", eat_seq_ignore_ws(toks, ":", ":"), <<"one_type">>)
    \/ Curr = "<" /\ Do("one_type", <<"<", "ws", "make_ty", "ws", "only_type">>)
    \/ Curr # "<" /\ Err("one_type")
    \/ Curr = "," /\ Do("only_type", <<"more_type_args", "fail">>)
    \/ Curr # "," /\ Do("only_type", <<">", "SizeOf">>)

\* An operand, and the operator behind it
advance_to_op ==
    \/ IsIdent(Curr) /\ Do("advance_to_op", <<"make_lh_expr", "ws", "make_op">>)
    \/ Curr \in Literal \cup {"-"} /\ Do("advance_to_op", <<"make_literal", "Value", "ws", "make_op">>)
    \/ Curr = "!" /\ Do("advance_to_op", <<"!", "make_expr", "Not", "ws", "make_op">>)
    \/ Curr = "~" /\ Do("advance_to_op", <<"~", "make_expr", "OnesComp", "ws", "make_op">>)
    \/ Curr = "*" /\ Do("advance_to_op", <<"stars", "make_lh_expr", "Deref", "ws", "make_op">>)
    \/ Curr = "&" /\ Do("advance_to_op", <<"&", "make_expr", "AddrOf", "ws", "make_op">>)
    \/ Curr = "(" /\ Do("advance_to_op", <<"(", "make_expr", "Parens", "ws", ")", "ws", "make_op">>)
    \/ ~IsIdent(Curr) /\ Curr \notin OperandStart /\ Err("advance_to_op")

count_eaten_seq ==
    LET n == SelectInSeq(toks, LAMBDA t : t # "*")
    IN  Eating("stars", SubSeq(toks, n, Len(toks)), <<>>)

\* With an operator the loop of make_expr goes on, unless a `;` follows
OpFound == <<"Op", "ws", "next_operand">>

make_op ==
    \/ Curr \in {"+", "-", "*", "/", "%", "^"} /\ Do("make_op", <<Curr>> \o OpFound)
    \/ Curr \in {"&", "|"} /\ Do("make_op", <<Curr, Curr>> \o OpFound)
    \/ Curr = "=" /\ Peek = "=" /\ Do("make_op", <<"=", "=">> \o OpFound)
    \/ Curr = "=" /\ Peek # "=" /\ Do("make_op", <<"=", "ws">>)
    \/ Curr = "!" /\ Peek = "=" /\ Do("make_op", <<"!", "=">> \o OpFound)
    \/ Curr = "!" /\ Peek # "=" /\ Unreachable("make_op")
    \/ /\ Curr \in {"<", ">"}
       /\ \/ Peek \in {Curr, "="} /\ Do("make_op", <<Curr, Peek>> \o OpFound)
          \/ (IsIdent(Peek) \/ Peek \in Literal \cup {" "}) /\ Do("make_op", <<Curr>> \o OpFound)
          \/ Peek \in (Punct \ {Curr, "="}) \cup {"//", "EOF"} /\ Todo("make_op")
    \/ Curr \in {")", "]", "}", "{", ",", ";"} /\ Do("make_op", <<"ws">>)
    \/ (IsIdent(Curr) \/ Curr \in Literal \cup {":", ".", "@", "#", "?", "~", "(", "[", "EOF"}) /\ Todo("make_op")
    \/ Curr # ";" /\ Do("next_operand", <<"ws", "advance_to_op">>)
    \/ Curr = ";" /\ Do("next_operand", <<>>)

\* A name, field, element, call, or the value of a struct or an enum
make_lh_expr ==
    \/ Curr = "*" /\ Do("make_lh_expr", <<"stars", "pointee", "Deref">>)
    \/ IsIdent(Curr) /\ Do("pointee", <<"make_lh_expr">>)
    \/ ~IsIdent(Curr) /\ Todo("pointee")
    \/ ~IsIdent(Curr) /\ Curr # "*" /\ Err("make_lh_expr")
    \/ /\ IsIdent(Curr)
       /\ \/ Peek = "." /\ Do("make_lh_expr", <<"make_ident", "Name", ".", "make_lh_expr", "FieldAccess">>)
          \/ Peek = "[" /\ Do("make_lh_expr", <<"make_ident", "[", "ws", "index">>)
          \/ Peek \notin {".", "["} /\ Do("make_lh_expr", <<"make_path", "lh_path">>)

\* The indices of an element; eat_seq_ignore_ws eats the `]` of the last one,
\* and eat_if another, if there is one.
index ==
    \/ Do("index", <<"make_expr", "Arg", "ws", "more_index">>)
    \/ /\ Top("more_index")
       /\ Eating("more_index", eat_seq_ignore_ws(toks, "]", "["),
                 IF ate_seq_ignore_ws(toks, "]", "[") THEN <<"ws", "index">> ELSE <<"]", "Array">>)

IsFuncCall == JustTypeArgs \/ Curr = "("

IsStruct ==
    /\ segs > 0
    /\ \/ Curr = "{" /\ ~inMatch
       \/ inMatch /\ cmp_seq_ignore_ws(<<"Ident", ":", "Ident", ",">>)

IsItemlessEnum == segs > 1 /\ Curr = ";"

lh_path ==
    /\ Top("lh_path")
    /\ \/ segs = 1 /\ ~IsFuncCall /\ ~IsStruct /\ Do("lh_path", <<"Name">>)
       \/ IsFuncCall /\ Do("lh_path", <<"make_type_args", "ws", "(", "ws", "make_arg_list", "ws", ")", "Call">>)
       \/ ~IsFuncCall /\ IsStruct /\ Do("lh_path", <<"make_field_list", "StructInit">>)
       \/ ~IsFuncCall /\ ~IsStruct /\ IsItemlessEnum /\ Do("lh_path", <<"EnumInit">>)
       \/ segs # 1 /\ ~IsFuncCall /\ ~IsStruct /\ ~IsItemlessEnum /\ Err("lh_path")

-----------------------------------------------------------------------------
(* Statements and patterns *)

\* An empty block holds an exit statement
make_block ==
    \/ /\ Top("make_block") /\ cmp_seq_ignore_ws(<<"{", "}">>)
       /\ Eating("make_block", eat_seq_ignore_ws(toks, "{", "}"), <<"Open", "Exit", "Block">>)
    \/ Top("make_block") /\ ~cmp_seq_ignore_ws(<<"{", "}">>) /\ Do("make_block", <<"ws", "block">>)
    \/ Curr = "{" /\ Do("block", <<"{", "Open", "ws", "each_stmt", "Block">>)
    \/ Curr # "{" /\ Do("block", <<"Block">>)
    \/ Curr = "}" /\ Do("each_stmt", <<"}">>)
    \/ Curr # "}" /\ Do("each_stmt", <<"make_stmt", "ws", "each_stmt">>)

StmtOf(k) ==
    CASE k = "let" -> <<"make_assignment">>
      [] k = "if" -> <<"make_if_stmt">>
      [] k = "while" -> <<"make_while_stmt">>
      [] k = "return" -> <<"make_return_stmt">>
      [] k = "match" -> <<"in_match", "make_match_stmt", "out_of_match">>
      [] k = "asm" -> <<"make_asm_stmt">>
      [] k = "exit" -> <<"ws", "Exit">>
      [] k = "@" -> <<"builtin", "Builtin">>

StmtKeywords == {"let", "if", "while", "return", "match", "asm", "exit", "@"}

make_stmt ==
    \/ Curr \in StmtKeywords /\ Do("make_stmt", <<Curr>> \o StmtOf(Curr) \o <<"ws", ";">>)
    \/ Curr \notin StmtKeywords /\ Do("make_stmt", <<"make_expr_stmt", "ws", ";">>)

set_in_match ==
    /\ Top("in_match") \/ Top("out_of_match")
    /\ inMatch' = (Head(work) = "in_match")
    /\ work' = Tail(work)
    /\ UNCHANGED <<toks, segs, out, status, input>>

make_assignment ==
    \/ Do("make_assignment", <<"ws", "make_lh_expr", "ws", "let_ty", "=", "ws", "make_expr", "Let">>)
    \/ Curr = ":" /\ Do("let_ty", <<":", "ws", "make_ty", "ws">>)
    \/ Curr # ":" /\ Do("let_ty", <<>>)

\* Mutant: no blanks are eaten before the `else`
Mut_make_if_stmt ==
    \/ Do("make_if_stmt", <<"ws", "make_expr", "ws", "make_block", "els", "If">>)
    \/ Curr = "else" /\ Do("els", <<"else", "ws", "make_block", "Else">>)
    \/ Curr # "else" /\ Do("els", <<>>)

make_if_stmt ==
    \/ Do("make_if_stmt", <<"ws", "make_expr", "ws", "make_block", "ws", "els", "If">>)
    \/ Curr = "else" /\ Do("els", <<"else", "ws", "make_block", "Else">>)
    \/ Curr # "else" /\ Do("els", <<>>)

make_while_stmt == Do("make_while_stmt", <<"ws", "make_expr", "ws", "make_block", "ws", "While">>)

make_match_stmt ==
    Do("make_match_stmt", <<"ws", "make_expr", "ws", "{", "ws", "make_arms", "ws", "}", "Match">>)

make_return_stmt ==
    \/ Do("make_return_stmt", <<"ws", "returned">>)
    \/ Curr = ";" /\ Do("returned", <<"Exit">>)
    \/ Curr # ";" /\ Do("returned", <<"make_expr", "Ret">>)

\* Mutant: the block is skipped up to its `}`
Mut_make_asm_stmt ==
    \/ Do("make_asm_stmt", <<"ws", "asm_block">>)
    \/ Curr = "{" /\ Do("asm_block", <<"{", "ws", "each_inst">>)
    \/ Curr # "{" /\ Err("asm_block")
    \/ Curr = "}" /\ Do("each_inst", <<"}", "ws", ";", "InlineAsm">>)
    \/ Curr # "}" /\ Eating("each_inst", Tail(toks), <<"each_inst">>)

make_asm_stmt ==
    \/ Do("make_asm_stmt", <<"ws", "asm_block">>)
    \/ Curr = "{" /\ Do("asm_block", <<"{", "ws", "each_inst">>)
    \/ Curr # "{" /\ Err("asm_block")
    \/ Curr = "}" /\ Do("each_inst", <<"}", "ws", ";", "InlineAsm">>)
    \/ Curr # "}" /\ Do("each_inst", <<"make_assembly_inst", "ws", "each_inst">>)

make_assembly_inst ==
    \/ IsIdent(Curr) /\ Do("make_assembly_inst", <<"make_ident", "src">>)
    \/ ~IsIdent(Curr) /\ Err("make_assembly_inst")
    \/ Curr = ";" /\ Do("src", <<";">>)
    \/ Curr # ";" /\ Do("src", <<"make_location", "ws", "dst", "inst_end">>)
    \/ Curr = "," /\ Do("dst", <<",", "ws", "make_location">>)
    \/ Curr # "," /\ Do("dst", <<>>)
    \/ Curr = ";" /\ Do("inst_end", <<";">>)
    \/ Curr # ";" /\ Err("inst_end")

make_location ==
    \/ Curr = "(" /\ Do("make_location", <<"(", "make_ident", ")">>)
    \/ Curr \in Literal \cup {"-"} /\ Do("make_location", <<"make_literal">>)
    \/ Curr = "%" /\ Do("make_location", <<"%", "register">>)
    \/ Curr \notin Literal \cup {"-", "(", "%"} /\ Todo("make_location")
    \/ Curr \in Registers /\ Do("register", <<"Ident">>)
    \/ Curr \notin Registers /\ Err("register")

\* Mutant: what starts no statement is passed over
Mut_make_expr_stmt ==
    \/ (IsIdent(Curr) \/ Curr = "*") /\ Do("make_expr_stmt", <<"make_lh_expr", "ws", "lh_stmt">>)
    \/ Curr = "<" /\ Todo("make_expr_stmt")
    \/ Curr = "{" /\ Do("make_expr_stmt", <<"make_block", "BlockStmt">>)
    \/ ~IsIdent(Curr) /\ Curr \notin {"*", "<", "{"} /\ Do("make_expr_stmt", <<>>)
    \/ out # <<>> /\ Last(out) = "Call" /\ Do("lh_stmt", <<"CallStmt">>)
    \/ out # <<>> /\ Last(out) \in {"Name", "Deref", "Array", "FieldAccess"} /\ Do("lh_stmt", <<"assign_stmt">>)
    \/ out # <<>> /\ Last(out) \in {"StructInit", "EnumInit"} /\ Err("lh_stmt")

make_expr_stmt ==
    \/ (IsIdent(Curr) \/ Curr = "*") /\ Do("make_expr_stmt", <<"make_lh_expr", "ws", "lh_stmt">>)
    \/ Curr = "<" /\ Todo("make_expr_stmt")
    \/ Curr = "{" /\ Do("make_expr_stmt", <<"make_block", "BlockStmt">>)
    \/ ~IsIdent(Curr) /\ Curr \notin {"*", "<", "{"} /\ Err("make_expr_stmt")
    \/ out # <<>> /\ Last(out) = "Call" /\ Do("lh_stmt", <<"CallStmt">>)
    \/ out # <<>> /\ Last(out) \in {"Name", "Deref", "Array", "FieldAccess"} /\ Do("lh_stmt", <<"assign_stmt">>)
    \/ out # <<>> /\ Last(out) \in {"StructInit", "EnumInit"} /\ Err("lh_stmt")

AssignOps == {"+", "-", "*", "/", "|", "&"}

make_assign_stmt_expr ==
    \/ \E o \in AssignOps :
          cmp_seq(<<o, "=">>) /\ Do("assign_stmt", <<o, "=", "ws", "make_expr", "AssignOp">>)
    \/ Curr = "=" /\ Do("assign_stmt", <<"=", "ws", "make_expr", "Assign">>)
    \/ /\ Curr # "="
       /\ \A o \in AssignOps : ~cmp_seq(<<o, "=">>)
       /\ Todo("assign_stmt")

make_arms ==
    \/ Curr = "}" /\ Do("make_arms", <<>>)
    \/ Curr # "}" /\ Do("make_arms", <<"make_pat", "ws", "-", ">", "ws", "make_block", ",", "Arm", "ws", "make_arms">>)

make_pat ==
    \/ IsIdent(Curr) /\ Do("make_pat", <<"make_path", "path_pat">>)
    \/ segs > 1 /\ Curr = "(" /\ Do("path_pat", <<"(", "ws", "make_pat_list", "ws", ")", "EnumPat">>)
    \/ segs > 1 /\ Curr # "(" /\ Do("path_pat", <<"EnumPat">>)
    \/ segs = 1 /\ Do("path_pat", <<"Wild">>)
    \/ Curr = "[" /\ Do("make_pat", <<"[", "ws", "make_pat_list", "ws", "]", "ArrayPat">>)
    \/ Curr \in Literal \cup {"-"} /\ Do("make_pat", <<"make_literal", "ValuePat">>)
    \/ ~IsIdent(Curr) /\ Curr \notin Literal \cup {"-", "["} /\ Todo("make_pat")

\* Also for `(`: only `]` stops the list before a pattern
make_pat_list == CommaList("make_pat_list", "more_pats", "]", <<>>, <<"make_pat">>, <<>>)

-----------------------------------------------------------------------------

Init ==
    /\ input \in Inputs
    /\ toks = input.t
    /\ work = <<"parse">>
    /\ segs = 0
    /\ inMatch = FALSE
    /\ out = <<>>
    /\ status = "run"

Primitive == eat_if \/ eat_whitespace \/ build \/ eat_attr \/ count_eaten_seq \/ set_in_match

Type ==
    \/ make_ident \/ make_path \/ make_seg \/ seg \/ more_segs \/ make_ty \/ ty_args \/ fn_params
    \/ ret \/ make_array_type \/ make_type_args \/ make_generics \/ bound \/ make_literal
    \/ make_types("types<", "each_type<", "more_types<", "<", ">")
    \/ make_types("types(", "each_type(", "more_types(", "(", ")")

Declaration ==
    \/ parse \/ parse_const \/ opt_params \/ parse_fn \/ parse_linked_fn \/ parse_impl \/ parse_struct
    \/ parse_enum \/ parse_trait \/ parse_import \/ make_trait_fn \/ make_variants \/ make_fields \/ make_params

Expression ==
    \/ make_expr \/ array_count \/ make_expr_list \/ make_arg_list \/ make_field_list \/ builtin
    \/ advance_to_op \/ make_op \/ make_lh_expr \/ index \/ lh_path

Statement ==
    \/ make_block \/ make_stmt \/ make_assignment \/ make_if_stmt \/ make_while_stmt \/ make_match_stmt
    \/ make_return_stmt \/ make_asm_stmt \/ make_assembly_inst \/ make_location \/ make_expr_stmt
    \/ make_assign_stmt_expr \/ make_arms \/ make_pat \/ make_pat_list

\* The parse is over
Over == status # "run" /\ UNCHANGED vars

Next == Primitive \/ Type \/ Declaration \/ Expression \/ Statement \/ Over

Spec == Init /\ [][Next]_vars /\ WF_vars(Next)

-----------------------------------------------------------------------------

TypeOK ==
    /\ toks \in Seq(Token)
    /\ toks = <<>> <=> status = "past the end"
    /\ segs \in Nat
    /\ inMatch \in BOOLEAN
    /\ out \in Seq(Node)
    /\ status \in {"run", "ok", "error", "todo", "unreachable", "past the end", "overflow"}
    /\ status = "run" <=> work # <<>>

\* A text of the language is parsed, and as what it is written for: every
\* optional token and every blank is eaten by the method it belongs to.
ParsesAsWritten ==
    status # "run" /\ input.o # AnyTree => status = "ok" /\ out = input.o

Attr(i) == i < Len(input.t) /\ input.t[i] = "#" /\ input.t[i + 1] = "["

\* Whatever the text, eat_tkn never runs past its end, but in an attribute
\* without its `]`.
StaysInInput ==
    status = "past the end" =>
        \E i \in 1..Len(input.t) : Attr(i) /\ \A j \in i..Len(input.t) : input.t[j] # "]"

\* No text takes the parser to an arm of a match that it calls unreachable.
NeverUnreachable == status # "unreachable"

Attributes == \A i \in 1..Len(input.t) : input.t[i] = "#" => Attr(i)

\* Every loop of the parser eats a token or ends, whatever the text: the parse
\* ends.  A `#` that opens no attribute is not eaten.
ParseEnds == Attributes => <>(status # "run")
\* The same of every text: attributes are passed over.
AttributesIgnored == <>(status # "run")
=============================================================================
