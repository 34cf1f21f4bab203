----------------------------- MODULE MCCodeGen -----------------------------
(* Instances of CodeGen.  The order of the registers is that of the hash set *)
(* USABLE_REGS; the set is always built from the same list.                  *)
EXTENDS CodeGen

AllRegs == <<"RAX", "R13", "R10", "RDI", "RCX", "R14", "R11", "R8", "RDX",
             "R15", "R12", "R9", "RSI", "RBX">>
AllArgRegs == <<"RDI", "RSI", "RDX", "RCX", "R8", "R9">>

TwoParams == <<7, 2>>

Frag(ops, kinds, stmts, clobbers, maxNodes, maxStmts, maxArgs) ==
    [ops |-> ops, kinds |-> kinds, stmts |-> stmts, clobbers |-> clobbers,
     maxNodes |-> maxNodes, maxStmts |-> maxStmts, maxArgs |-> maxArgs]

\* variables and elements
Elements ==
    Frag({"add", "sub", "lt"}, {"lit", "var", "elem", "index", "bin"},
         {"let", "set", "setelem", "letarr", "if", "ret"}, {}, 7, 3, 1)

\* pointers, structs and enums
Places ==
    Frag({"add", "lt"}, {"lit", "var", "bin", "not", "deref"},
         {"set", "setptr", "letptr", "letstruct", "letenum", "if", "ret"}, {}, 4, 3, 1)

\* calls in the arguments of calls
Calling ==
    Frag({"add"}, {"lit", "var", "bin", "call"}, {"call"}, {"RAX"}, 6, 2, 2)

\* divisions, which need RAX and RDX
Dividing ==
    Frag({"add", "div"}, {"lit", "var", "bin"}, {"let", "set", "ret"}, {}, 6, 2, 1)

MCFragments == {Elements, Places, Calling, Dividing}

-----------------------------------------------------------------------------
(* Fragments the generator fails on, with the property that shows it *)

OneParam == <<7>>

\* ResultRight: x % y is the quotient
Remainder == {Frag({"rem"}, {"var", "bin"}, {"ret"}, {}, 4, 1, 1)}
\* ResultRight, with LeftConst: 1 < x is x < 1
Comparing == {Frag({"lt"}, {"lit", "var", "bin"}, {"if"}, {}, 4, 1, 1)}
\* NeverOutOfRegs: five assignments of an element
Leaking == {Frag({"add"}, {"lit", "elem"}, {"letarr", "let"}, {}, 9, 7, 1)}
\* ResultRight, with OneParam: f(x, g(y))
Spilling == {Frag({"add"}, {"lit", "var", "call"}, {"call"}, {"RAX"}, 6, 1, 2)}
\* OperandsIntact, with OneParam: RAX and RDX are restored the wrong way round
Saving == {Frag({"div"}, {"var", "bin", "call"}, {"ret"}, {"RAX"}, 8, 1, 3)}
\* NoWildAccess: a negative dividend traps
Negative == {Frag({"sub", "div"}, {"var", "bin"}, {"ret"}, {}, 5, 1, 1)}
\* CallsAligned: a call while RAX is saved
Aligning == {Frag({"add"}, {"var", "bin", "call"}, {"ret"}, {"RAX"}, 5, 1, 1)}
\* ResultRight: return a[0]
ReturnElement == {Frag({"add"}, {"lit", "elem", "retelem"}, {"letarr", "ret"}, {}, 5, 2, 1)}
\* VarsIntact: S { f: a[0] }
FieldElement == {Frag({"add"}, {"lit", "elem", "var", "partelem"}, {"letarr", "letstruct"}, {}, 5, 2, 1)}
\* NoWildAccess: let e = E::V(x), let a = {x, y}: a move from memory to memory
ItemMemory == {Frag({}, {"var", "itemmem"}, {s}, {}, 2, 1, 1) : s \in {"letenum", "letarr"}}
\* ResultRight: let x = f(a + b, g(1)): the sum releases RDI, which g overwrites
Clearing == {Frag({"add"}, {"lit", "var", "bin", "call"}, {"let"}, {"RAX"}, 7, 1, 2)}
\* ResultRight: a[0] / 1
ElementDiv == {Frag({"div"}, {"elem", "lit", "bin"}, {"letarr", "let"}, {}, 5, 2, 1)}
=============================================================================
