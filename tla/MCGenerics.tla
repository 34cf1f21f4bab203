----------------------------- MODULE MCGenerics -----------------------------
(* Programs for Generics. *)
EXTENDS Generics

TInt  == Base("int")
TBool == Base("bool")
TChar  == Base("char")
TStr == Base("cstr")
T    == Gen("T")
U    == Gen("U")
V    == Gen("V")
Box(t) == Adt("box", <<t>>)

fn(name, gens, params, body) ==
  [name |-> name, gens |-> gens, params |-> params, linked |-> FALSE, body |-> body]
use(k, to, tys, args, stmt) ==
  [k |-> k, to |-> to, tys |-> tys, args |-> args, stmt |-> stmt]

Stmt(to, tys, args)  == use("call", to, tys, args, TRUE)    \* f(x);
Value(to, tys, args) == use("call", to, tys, args, FALSE)   \* let y = f(x);
Trait(to, tys, args) == use("trait", to, tys, args, FALSE)
Lit(ty)   == use("init", "box", <<ty>>, <<>>, FALSE)
Const(ty) == use("const", "", <<ty>>, <<>>, FALSE)

Printf == [fn("printf", <<"T">>, <<TStr, T>>, <<>>) EXCEPT !.linked = TRUE]

Traits == [t \in {"add", "conv"} |->
             IF t = "add" THEN [gens |-> <<"T">>, params |-> <<T, T>>]
             ELSE [gens |-> <<"T", "U">>, params |-> <<T>>]]
Impls == <<[of |-> "add", tys |-> <<TInt>>], [of |-> "add", tys |-> <<TBool>>]>>

Program(fns) == [fns |-> fns, traits |-> Traits, impls |-> Impls]

\* one<T>(x: T), swap<T, U>(y: U, x: T), open<T>(b: box<T>), and main
Generic(one, swap, open, main) ==
  <<Printf, fn("one", <<"T">>, <<T>>, one),
    fn("swap", <<"T", "U">>, <<U, T>>, swap),
    fn("open", <<"T">>, <<Box(T)>>, open),
    fn("down", <<>>, <<TInt>>, <<Value("down", <<>>, <<TInt>>)>>),
    fn("main", <<>>, <<>>, main)>>

\* bodies of generic functions that keep to their own parameters
Bodies(t) == {<<>>, <<Stmt("printf", <<t>>, <<TStr, t>>)>>,
              <<Stmt("printf", <<>>, <<TStr, t>>)>>}

\* what main does: no two calls ask for the same version
Uses == {Stmt("one", <<TInt>>, <<TInt>>), Value("one", <<>>, <<TBool>>),
         Value("one", <<>>, <<Box(TInt)>>),
         Stmt("swap", <<>>, <<TBool, TInt>>), Value("swap", <<TBool, TChar>>, <<TChar, TBool>>),
         Value("open", <<>>, <<Box(TInt)>>), Stmt("printf", <<>>, <<TStr, TInt>>),
         Stmt("down", <<>>, <<TInt>>), Trait("add", <<TInt>>, <<TInt, TInt>>),
         Lit(TInt), Const(TInt)}
Mains == {<<u>> : u \in Uses} \cup
         ({<<u, v>> : u \in Uses, v \in Uses} \ {<<u, u>> : u \in Uses}) \cup
         {<<Lit(TInt), Value("open", <<>>, <<Box(TInt)>>), Stmt("one", <<TInt>>, <<TInt>>),
            Value("one", <<>>, <<TBool>>), Value("swap", <<>>, <<TBool, TInt>>)>>}

\* Functions that call each other, in a statement ("S") or in an expression
\* ("E"): a calls itself and b, b calls a and itself.
Call(kind, to) == use("call", to, <<>>, <<>>, kind = "S")
Mutual ==
  {Program(<<fn("a", <<>>, <<>>, <<Call(aa, "a"), Call(ab, "b")>>),
             fn("b", <<>>, <<>>, <<Call(ba, "a"), Call(bb, "b")>>),
             fn("main", <<>>, <<>>, <<Call(main, "a")>>)>>) :
     aa \in {"S", "E"}, ab \in {"S", "E"}, ba \in {"S", "E"}, bb \in {"S", "E"}, main \in {"S", "E"}}

FirstMain(fns) == <<Last(fns)>> \o Front(fns)

PassPrograms ==
  {Program(Generic(one, swap, <<>>, main)) :
     one \in Bodies(T), swap \in Bodies(U), main \in Mains} \cup
  {Program(FirstMain(Generic(one, <<>>, <<>>, main))) :
     one \in Bodies(T), main \in Mains} \cup
  Mutual

-----------------------------------------------------------------------------
(* Programs that are not compiled as they should be, with the property that *)
(* shows it                                                                 *)

\* VersionPerUse: two calls of one function with one type
TwicePrograms ==
  {Program(Generic(<<>>, <<>>, <<>>,
     <<Stmt("one", <<TInt>>, <<TInt>>), Stmt("one", <<TInt>>, <<TInt>>)>>))}

\* CallsDefined: one<T> calls open::<T> or swap::<T, T>
NestedPrograms ==
  {Program(Generic(<<Stmt("swap", <<T, T>>, <<T, T>>)>>, <<>>, <<>>,
                   <<Stmt("one", <<TInt>>, <<TInt>>)>>))}

\* VersionPerUse: one<T>, used with bool, prints a number
StrayPrograms ==
  {Program(Generic(<<Stmt("printf", <<>>, <<TStr, TInt>>)>>, <<>>, <<>>,
                   <<Stmt("one", <<TBool>>, <<TBool>>)>>))}

\* VersionsTyped: the program of stuff/asmgen/gen/gen.cm in small: two versions that print
TwoVersionPrograms ==
  {Program(Generic(<<Stmt("printf", <<T>>, <<TStr, T>>)>>, <<>>, <<>>,
                   <<Stmt("one", <<TInt>>, <<TInt>>), Stmt("one", <<TBool>>, <<TBool>>)>>))}

\* VersionsTyped: one version that hands on its box<T>
InnerPrograms ==
  {Program(Generic(<<>>, <<>>, <<Stmt("printf", <<>>, <<TStr, Box(T)>>)>>,
                   <<Value("open", <<>>, <<Box(TInt)>>)>>))}

\* LoweringEnds: down(x) { down(x); }
RecursivePrograms ==
  {Program(<<fn("down", <<>>, <<TInt>>, <<Stmt("down", <<>>, <<TInt>>)>>),
             fn("main", <<>>, <<>>, <<Stmt("down", <<>>, <<TInt>>)>>)>>)}

\* LegalAccepted: three<T, U, V>(x: T, y: U, z: V), called without type arguments
ThreePrograms ==
  {Program(<<fn("three", <<"T", "U", "V">>, <<T, U, V>>, <<>>),
             fn("main", <<>>, <<>>, <<Value("three", <<>>, <<TInt, TBool, TChar>>)>>)>>)}

\* LegalAccepted: the example of readme.md: one<T: add>(x: T) { <<T>::add>(x, x) }
TraitPrograms ==
  {Program(Generic(<<Trait("add", <<T>>, <<T, T>>)>>, <<>>, <<>>,
                   <<Stmt("one", <<TInt>>, <<TInt>>)>>))}

\* CallsDefined: the direct call of stuff/parse_ui/trait/into.cm
ConvPrograms ==
  {[Program(Generic(<<>>, <<>>, <<>>, <<Trait("conv", <<TBool, TInt>>, <<TBool>>)>>))
      EXCEPT !.impls = <<[of |-> "conv", tys |-> <<TBool, TInt>>]>>]}

=============================================================================
