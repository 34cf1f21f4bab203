-------------------------------- MODULE Locals --------------------------------
(***************************************************************************)
(* Checking the statements of a function: TyCheckRes::visit_stmt           *)
(* (src/typeck.rs), which for each statement runs the inference            *)
(* (TypeInfer::visit_stmt, src/typeck/infer.rs), walks the parts of the    *)
(* statement (walk_stmt, src/visit.rs) and runs the checks                 *)
(* (StmtCheck::visit_stmt, src/typeck/check.rs).                           *)
(*                                                                         *)
(* The three visitors call themselves and each other.  `work' is what is   *)
(* left to do, the head first: a task is a pair of the function and the    *)
(* node it is called with, and a step replaces the head by the calls its   *)
(* body makes.  Types are "Int", "Float", "Bool", "Void" and one enum, "E",*)
(* whose variant holds an Int; expressions are names, values and sums.     *)
(* Every expression has its own `at', the place that makes it a key of     *)
(* expr_ty.                                                                *)
(***************************************************************************)
EXTENDS Integers, Sequences, FiniteSets, SequencesExt, Functions

CONSTANTS
  Programs,   \* [params, ret, body, overlap, others, other_ret]: the functions
              \* to check; overlap says that one of another file takes up the
              \* same span, with these variables and this return type
  Globals     \* the names of functions and global constants

VARIABLES
  prog,       \* the function
  fn_at,      \* the function get_fn_by_span finds for a place in it
  func_refs,  \* the variables of "own" (this function) and of "other", the
              \* one of another file
  unsed_vars, \* variable -> has it been used
  record_used,
  poisoned,   \* error_in_current_expr_tree
  expr_ty,    \* expression -> type, the inference table
  returns,    \* is the function in func_return
  errors,     \* what has been reported: message and place (a statement is at one of
              \* its expressions, the function at <<>>)
  work,
  outcome     \* "checking", "checked" or "panic"

vars == <<prog, fn_at, func_refs, unsed_vars, record_used, poisoned, expr_ty,
          returns, errors, work, outcome>>

None == "None"
\* f with g on top of it: inserting into a HashMap.
With(f, g) == g @@ f
Without(f, S) == [x \in DOMAIN f \ S |-> f[x]]
Get(f, x) == IF x \in DOMAIN f THEN f[x] ELSE None

-----------------------------------------------------------------------------
(* Types *)

is_ty_eq(a, b) == a /= None /\ a = b

is_truthy(t) == t \in {"Int", "Float", "Bool"}

\* The type of l + r: "TODO: remove Carr's rules".
fold_ty(l, r) ==
  CASE {l, r} = {"Int"} -> "Int"
    [] {l, r} \in {{"Float"}, {"Int", "Float"}} -> "Float"
    [] {l, r} = {"Void"} -> "Void"
    [] OTHER -> None

\* fold_ty reports an operation on bools itself.
IllegalOp(l, r) == {l, r} = {"Bool"}

-----------------------------------------------------------------------------
(* The context: errors, lookups *)

\* The error list after reporting these messages in turn: a poisoned tree
\* reports nothing.
push_error(msgs) == errors \cup (IF poisoned THEN {} ELSE msgs)

get_fn_by_span == fn_at

Local(n) == Get(func_refs[get_fn_by_span], n)
type_of_ident(n) == IF Local(n) /= None THEN Local(n) ELSE Get(Globals, n)

\* The variables after a lookup of n, which marks it as used.
Marked(n) ==
  IF record_used /\ get_fn_by_span = "own" /\ n \in DOMAIN unsed_vars
  THEN [unsed_vars EXCEPT ![n] = TRUE]
  ELSE unsed_vars

\* The head of the work is done and has called these, in this order.
Then(calls) == work' = calls \o Tail(work)
Calls(f, nodes) == [i \in DOMAIN nodes |-> <<f, nodes[i]>>]

Head_(f) == outcome = "checking" /\ work /= <<>> /\ Head(work)[1] = f
Node == Head(work)[2]

Frame == UNCHANGED <<prog, fn_at, returns, outcome>>

-----------------------------------------------------------------------------
(* TyCheckRes::visit_stmt *)


visit_stmt ==
  /\ Head_("visit")
  /\ poisoned' = FALSE
  /\ Then(<< <<"infer", Node>>, <<"walk", Node>>, <<"record", TRUE>>, <<"check", Node>> >>)
  /\ UNCHANGED <<func_refs, unsed_vars, record_used, expr_ty, errors>> /\ Frame

set_record_used_vars ==
  /\ Head_("record")
  /\ record_used' = Node
  /\ Then(<<>>)
  /\ UNCHANGED <<func_refs, unsed_vars, poisoned, expr_ty, errors>> /\ Frame

-----------------------------------------------------------------------------
(* TypeInfer *)

Expressions(s) ==
  CASE s.k \in {"let", "assign", "op"} -> <<s.lval, s.e>>
    [] s.k \in {"call", "if", "while", "match", "ret"} -> <<s.e>>
    [] OTHER -> <<>>

\* The blocks of an if, a while or a block statement, one after the other.
Nested(s) ==
  CASE s.k = "if" -> s.blk \o s.els
    [] s.k \in {"while", "block"} -> s.blk
    [] OTHER -> <<>>

\* The inference walks into an if and a while.
Mut_InferStmt ==
  /\ Head_("infer")
  /\ \/ Node.k \in {"let", "assign", "op"} /\ Then(<< <<"inferE", Node.e>>, <<"bind", Node>> >>)
     \/ Node.k \in {"call", "match", "ret"} /\ Then(Calls("inferE", Expressions(Node)))
     \/ Node.k \in {"exit", "if", "while", "block"} /\ Then(Calls("infer", Nested(Node)))
  /\ UNCHANGED <<func_refs, unsed_vars, record_used, poisoned, expr_ty, errors>> /\ Frame

\* "DO NOT WALK DEEPER the calling method is doing the walking", but for a block.
InferStmt ==
  /\ Head_("infer")
  /\ \/ Node.k \in {"let", "assign", "op"} /\ Then(<< <<"inferE", Node.e>>, <<"bind", Node>> >>)
     \/ Node.k \in {"call", "if", "while", "match", "ret"} /\ Then(Calls("inferE", Expressions(Node)))
     \/ Node.k = "exit" /\ Then(<<>>)
     \/ Node.k = "block" /\ Then(Calls("infer", Node.blk))
  /\ UNCHANGED <<func_refs, unsed_vars, record_used, poisoned, expr_ty, errors>> /\ Frame

\* The inference of a name or a value; of a sum, after its operands.
InferExpr ==
  /\ Head_("inferE")
  /\ \/ /\ Node.k = "id" /\ type_of_ident(Node.name) /= None
        /\ unsed_vars' = Marked(Node.name)
        /\ expr_ty' = With(expr_ty, Node :> type_of_ident(Node.name))
        /\ UNCHANGED <<errors, poisoned>>
        /\ Then(<<>>)
     \/ /\ Node.k = "id" /\ type_of_ident(Node.name) = None
        /\ errors' = push_error({<<"no type infered", Node.at>>})
        /\ poisoned' = TRUE
        /\ unsed_vars' = Marked(Node.name)
        /\ UNCHANGED expr_ty
        /\ Then(<<>>)
     \/ /\ Node.k = "val"
        /\ expr_ty' = With(expr_ty, Node :> Node.ty)
        /\ UNCHANGED <<unsed_vars, errors, poisoned>>
        /\ Then(<<>>)
     \/ /\ Node.k = "sum"
        /\ UNCHANGED <<expr_ty, unsed_vars, errors, poisoned>>
        /\ Then(<< <<"inferE", Node.lhs>>, <<"inferE", Node.rhs>>, <<"sum", Node>> >>)
  /\ UNCHANGED <<func_refs, record_used>> /\ Frame

\* fold_ty of a sum whose operands have been visited.  The walk that checks
\* reports a sum without a type, or with another than before; the inference
\* does not.
Fold(reports) ==
  LET l == Get(expr_ty, Node.lhs)
      r == Get(expr_ty, Node.rhs)
      t == fold_ty(l, r)
      msgs == CASE IllegalOp(l, r) -> {<<"illegal boolean operation", Node.at>>}
                [] reports /\ ~IllegalOp(l, r) /\ t = None ->
                     {<<"no type found for bin expr", Node.at>>}
                [] reports /\ t /= None /\ Get(expr_ty, Node) \notin {None, t} ->
                     {<<"ICE", Node.at>>}
                [] OTHER -> {}
  IN /\ errors' = push_error(msgs)
     /\ poisoned' = (poisoned \/ msgs /= {})
     /\ expr_ty' = IF t = None THEN expr_ty ELSE With(expr_ty, Node :> t)
     /\ Then(<<>>)

InferSum == Head_("sum") /\ Fold(FALSE) /\ UNCHANGED <<func_refs, unsed_vars, record_used>> /\ Frame

\* The second half of an assignment, after the right side: a `let' declares
\* its variable, with the type of the right side before any given one.
BindLet ==
  /\ Head_("bind") /\ Node.k = "let"
  /\ LET n == Node.lval.name
         t == IF Get(expr_ty, Node.e) /= None THEN expr_ty[Node.e] ELSE Node.given
         global == n \in DOMAIN Globals
         dup == n \in DOMAIN func_refs["own"]
     IN \/ /\ t = None
           /\ errors' = push_error({<<"variable not found", Node.lval.at>>})
           /\ poisoned' = TRUE
           /\ Then(<<>>)
           /\ UNCHANGED <<func_refs, unsed_vars, record_used>>
        \/ /\ t /= None
           /\ record_used' = FALSE
           /\ unsed_vars' = With(unsed_vars, n :> FALSE)
           /\ func_refs' = [func_refs EXCEPT !["own"] = With(@, n :> t)]
           /\ errors' = push_error(
                IF global THEN {<<"conflicts with global name", Node.lval.at>>}
                ELSE IF dup THEN {<<"duplicate variable name", Node.lval.at>>} ELSE {})
           /\ poisoned' = (poisoned \/ global \/ dup)
           /\ Then(<< <<"inferE", Node.lval>> >>)
  /\ UNCHANGED expr_ty /\ Frame

BindAssign ==
  /\ Head_("bind") /\ Node.k = "assign"
  /\ \/ /\ Get(expr_ty, Node.e) = None
        /\ errors' = push_error({<<"variable not found", Node.lval.at>>})
        /\ poisoned' = TRUE
        /\ Then(<<>>)
        /\ UNCHANGED <<unsed_vars, record_used>>
     \/ /\ Get(expr_ty, Node.e) /= None
        /\ record_used' = TRUE
        /\ unsed_vars' = Marked(Node.lval.name)
        /\ Then(<< <<"inferE", Node.lval>> >>)
        /\ UNCHANGED <<errors, poisoned>>
  /\ UNCHANGED <<func_refs, expr_ty>> /\ Frame

\* `x += e' gives its right side the type of the sum.
BindOp ==
  /\ Head_("bind") /\ Node.k = "op"
  /\ LET lty == type_of_ident(Node.lval.name)
         rty == Get(expr_ty, Node.e)
         t == fold_ty(lty, rty)
         msgs == IF lty = None THEN {<<"undeclared variable name", Node.lval.at>>}
                 ELSE IF IllegalOp(lty, rty) THEN {<<"illegal boolean operation", Node.lval.at>>}
                 ELSE {}
     IN /\ errors' = push_error(msgs)
        /\ poisoned' = (poisoned \/ msgs /= {})
        /\ expr_ty' = IF t = None THEN expr_ty ELSE With(expr_ty, Node.e :> t)
  /\ unsed_vars' = Marked(Node.lval.name)
  /\ Then(<< <<"inferE", Node.lval>> >>)
  /\ UNCHANGED <<func_refs, record_used>> /\ Frame

-----------------------------------------------------------------------------
(* walk_stmt, with TyCheckRes as its visitor *)

\* visit_match_arm is overridden to do nothing: the arms are left to StmtCheck.
walk_stmt ==
  /\ Head_("walk")
  /\ Then(Calls("expr", Expressions(Node)) \o Calls("visit", Nested(Node)))
  /\ UNCHANGED <<func_refs, unsed_vars, record_used, poisoned, expr_ty, errors>> /\ Frame

visit_expr ==
  /\ Head_("expr")
  /\ \/ /\ ~poisoned /\ Node.k = "id"
        /\ unsed_vars' = Marked(Node.name)
        /\ errors' = push_error(IF type_of_ident(Node.name) = None
                                THEN {<<"no type found for ident expr", Node.at>>} ELSE {})
        /\ poisoned' = (type_of_ident(Node.name) = None)
        /\ Then(<<>>)
     \/ /\ ~poisoned /\ Node.k = "sum"
        /\ Then(<< <<"expr", Node.lhs>>, <<"expr", Node.rhs>>, <<"sum2", Node>> >>)
        /\ UNCHANGED <<unsed_vars, errors, poisoned>>
     \/ /\ poisoned \/ Node.k = "val"
        /\ Then(<<>>)
        /\ UNCHANGED <<unsed_vars, errors, poisoned>>
  /\ UNCHANGED <<func_refs, record_used, expr_ty>> /\ Frame

CheckSum == Head_("sum2") /\ Fold(TRUE) /\ UNCHANGED <<func_refs, unsed_vars, record_used>> /\ Frame

-----------------------------------------------------------------------------
(* StmtCheck *)

check_assignment ==
  /\ Head_("check") /\ Node.k \in {"let", "assign", "op"}
  /\ errors' = push_error(IF is_ty_eq(Get(expr_ty, Node.lval), Get(expr_ty, Node.e)) THEN {}
                          ELSE {<<"assign to expression of wrong type", Node.lval.at>>})
  /\ Then(<<>>)
  /\ UNCHANGED <<func_refs, unsed_vars, record_used, poisoned, expr_ty>> /\ Frame

\* The statements inside are checked by the walk, and once more by this.
CheckBranch ==
  /\ Head_("check") /\ Node.k \in {"if", "while", "block"}
  /\ LET bad == Node.k /= "block" /\ ~is_truthy(Get(expr_ty, Node.e)) IN
     /\ errors' = push_error(IF bad THEN {<<"condition must be truthy", Node.e.at>>} ELSE {})
     /\ poisoned' = (poisoned \/ bad)
  /\ Then(Calls("check", Nested(Node)))
  /\ UNCHANGED <<func_refs, unsed_vars, record_used, expr_ty>> /\ Frame

\* The return type of the function the place is found in.
func_ret == IF get_fn_by_span = "own" THEN prog.ret ELSE prog.other_ret

CheckRet ==
  /\ Head_("check") /\ Node.k = "ret"
  /\ errors' = push_error(IF is_ty_eq(Get(expr_ty, Node.e), func_ret) THEN {}
                          ELSE {<<"wrong return type", Node.e.at>>})
  /\ returns' = (returns \/ get_fn_by_span = "own")
  /\ Then(<<>>)
  /\ UNCHANGED <<prog, fn_at, outcome, func_refs, unsed_vars, record_used, poisoned, expr_ty>>

CheckExit ==
  /\ Head_("check") /\ Node.k = "exit"
  /\ errors' = push_error(IF is_ty_eq(func_ret, "Void") THEN {}
                          ELSE {<<"return type must be void", Node.at>>})
  /\ Then(<<>>)
  /\ UNCHANGED <<func_refs, unsed_vars, record_used, poisoned, expr_ty>> /\ Frame

\* Calls are checked by visit_expr.
CheckCall ==
  /\ Head_("check") /\ Node.k = "call"
  /\ Then(<<>>)
  /\ UNCHANGED <<func_refs, unsed_vars, record_used, poisoned, expr_ty, errors>> /\ Frame

\* check_pattern_type: what a pattern binds when matched with type t, and
\* whether it cannot match it.
Bound(pat, t) ==
  CASE pat.k = "bind" -> pat.name :> t
    [] pat.k = "variant" /\ t = "E" /\ pat.item.k = "bind" -> pat.item.name :> "Int"
    [] OTHER -> [n \in {} |-> None]

check_pattern_type(pat, t) ==
  \/ pat.k = "bind"
  \/ pat.k = "val" /\ t = "Int" /\ pat.ty = "Int"
  \/ pat.k = "variant" /\ t = "E" /\ (pat.item.k = "val" => pat.item.ty = "Int")

\* A match goes through its arms with the variables bound so far.
CheckMatch ==
  /\ Head_("check") /\ Node.k = "match"
  /\ LET t == Get(expr_ty, Node.e) IN
     IF t \in {"Int", "E"}
     THEN /\ Then(<< <<"arms", [ty |-> t, arms |-> Node.arms, bound |-> [n \in {} |-> None]]>> >>)
          /\ UNCHANGED outcome
     ELSE outcome' = "panic" /\ UNCHANGED work
  /\ UNCHANGED <<prog, fn_at, returns, func_refs, unsed_vars, record_used, poisoned,
                 expr_ty, errors>>

\* An arm: its pattern, its variables, its statements.
Arm ==
  /\ Head_("arms") /\ Node.arms /= <<>>
  /\ LET arm == Head(Node.arms)
         ok == check_pattern_type(arm.pat, Node.ty)
         bound == With(Node.bound, Bound(arm.pat, Node.ty))
     IN /\ errors' = push_error(IF ok THEN {} ELSE {<<"pattern of wrong type", arm.at>>})
        /\ poisoned' = (poisoned \/ ~ok)
        /\ func_refs' = [func_refs EXCEPT ![get_fn_by_span] = With(@, bound)]
        /\ Then(Calls("visit", arm.blk)
                 \o << <<"leave", [Node EXCEPT !.arms = Tail(@), !.bound = bound]>> >>)
  /\ UNCHANGED <<unsed_vars, record_used, expr_ty>> /\ Frame

\* Only a match on an int removes the variables of the arm again: "I need to
\* deal with this some way or I will have ghost vars".
LeaveArm ==
  /\ Head_("leave")
  /\ \/ /\ Node.ty = "E"
        /\ Then(<< <<"arms", Node>> >>)
        /\ UNCHANGED func_refs
     \/ /\ Node.ty = "Int"
        /\ Then(<< <<"arms", [Node EXCEPT !.bound = [n \in {} |-> None]]>> >>)
        /\ func_refs' = [func_refs EXCEPT ![get_fn_by_span] = Without(@, DOMAIN Node.bound)]
  /\ UNCHANGED <<unsed_vars, record_used, poisoned, expr_ty, errors>> /\ Frame

LastArm ==
  /\ Head_("arms") /\ Node.arms = <<>>
  /\ Then(<<>>)
  /\ UNCHANGED <<func_refs, unsed_vars, record_used, poisoned, expr_ty, errors>> /\ Frame

-----------------------------------------------------------------------------
(* The function: visit_params and walk_func before, the missing return and  *)
(* the unused variables after its statements.  A poisoned last statement    *)
(* silences these.                                                          *)

FinishFunc ==
  /\ outcome = "checking" /\ work = <<>>
  /\ errors' = push_error(
       (IF prog.ret /= "Void" /\ ~returns THEN {<<"no return statement", <<>>>>} ELSE {})
         \cup {<<"unused variable", <<>>, n>> : n \in {m \in DOMAIN unsed_vars : ~unsed_vars[m]}})
  /\ outcome' = "checked"
  /\ UNCHANGED <<prog, fn_at, func_refs, unsed_vars, record_used, poisoned, expr_ty,
                 returns, work>>

Next ==
  \/ visit_stmt \/ set_record_used_vars
  \/ InferStmt \/ InferExpr \/ InferSum
  \/ BindLet \/ BindAssign \/ BindOp
  \/ walk_stmt \/ visit_expr \/ CheckSum
  \/ check_assignment \/ CheckBranch \/ CheckRet \/ CheckExit \/ CheckCall
  \/ CheckMatch \/ Arm \/ LeaveArm \/ LastArm
  \/ FinishFunc
  \/ outcome /= "checking" /\ UNCHANGED vars

Init ==
  /\ prog \in Programs
  /\ fn_at \in {"own"} \cup (IF prog.overlap THEN {"other"} ELSE {})
  /\ func_refs = [f \in {"own", "other"} |-> IF f = "own" THEN prog.params ELSE prog.others]
  /\ unsed_vars = [n \in DOMAIN prog.params |-> FALSE]
  /\ record_used = TRUE
  /\ poisoned = FALSE
  /\ expr_ty = [e \in {} |-> None]
  /\ returns = FALSE
  /\ errors = {}
  /\ work = Calls("visit", prog.body)
  /\ outcome = "checking"

Spec == Init /\ [][Next]_vars
-----------------------------------------------------------------------------
(* What the language means: a variable is visible from its `let' to the end *)
(* of the function, a name a pattern binds only in the arm of the pattern.  *)
(* A state is what is visible, what has been used, whether something        *)
(* returns, and what was illegal so far: for each offence the places at     *)
(* which it may be reported, the lets of another type than the given one    *)
(* apart (`mistyped').                                                      *)

TypeIn(e, env) ==
  CASE e.k = "val" -> e.ty
    [] e.k = "id" -> IF e.name \in DOMAIN env THEN env[e.name] ELSE None
    [] OTHER -> LET of(x) == IF x.k = "val" THEN x.ty
                             ELSE IF x.name \in DOMAIN env THEN env[x.name] ELSE None
                IN IF of(e.lhs) = of(e.rhs) /\ of(e.lhs) \in {"Int", "Float"}
                   THEN of(e.lhs) ELSE None

Parts(e) == IF e.k = "sum" THEN {e, e.lhs, e.rhs} ELSE {e}
NamesIn(e) == {x.name : x \in {y \in Parts(e) : y.k = "id"}}

\* Where a statement is, without the statements in its blocks and arms.
Places(s) ==
  IF s.k = "exit" THEN {s.at}
  ELSE {e.at : e \in UNION {Parts(x) : x \in Range(Expressions(s))}}

Require(st, cond, places) == [st EXCEPT !.bad = @ \cup (IF cond THEN {} ELSE {places})]

\* The statement s reads e.
Read(s, e, st) ==
  Require([st EXCEPT !.used = @ \cup NamesIn(e)], TypeIn(e, st.env) /= None, Places(s))

RECURSIVE After(_, _), AfterOne(_, _), AfterArms(_, _, _)

After(ss, st) == IF ss = <<>> THEN st ELSE After(Tail(ss), AfterOne(Head(ss), st))

AfterOne(s, st) ==
  CASE s.k = "let" ->
         LET t == TypeIn(s.e, st.env)
             r == Require(Read(s, s.e, st), s.lval.name \notin DOMAIN st.env, Places(s))
         IN IF {t, s.given} = {None} THEN r
            ELSE [r EXCEPT !.env = With(@, s.lval.name :> IF t = None THEN s.given ELSE t),
                           !.vars = @ \cup {s.lval.name},
                           !.mistyped = @ \cup IF None \in {t, s.given} \/ t = s.given
                                               THEN {} ELSE {Places(s)}]
    [] s.k = "assign" ->
         Require(Read(s, s.lval, Read(s, s.e, st)),
                 TypeIn(s.lval, st.env) = TypeIn(s.e, st.env), Places(s))
    [] s.k = "op" ->
         Require(Read(s, s.lval, Read(s, s.e, st)),
                 /\ TypeIn(s.lval, st.env) = TypeIn(s.e, st.env)
                 /\ TypeIn(s.e, st.env) \in {"Int", "Float"}, Places(s))
    [] s.k = "call" -> Read(s, s.e, st)
    [] s.k \in {"if", "while"} ->
         After(Nested(s), Require(Read(s, s.e, st), is_truthy(TypeIn(s.e, st.env)), Places(s)))
    [] s.k = "block" -> After(s.blk, st)
    [] s.k = "match" -> AfterArms(s.arms, TypeIn(s.e, st.env), Read(s, s.e, st))
    [] s.k = "ret" -> [Require(Read(s, s.e, st), TypeIn(s.e, st.env) = prog.ret, Places(s))
                         EXCEPT !.returns = TRUE]
    [] OTHER -> Require(st, prog.ret = "Void", Places(s))

AfterArms(arms, t, st) ==
  IF arms = <<>> THEN st
  ELSE LET arm == Head(arms)
           b == Bound(arm.pat, t)
           in == After(arm.blk, [st EXCEPT !.env = With(@, b), !.used = @ \ DOMAIN b])
           out == [in EXCEPT !.env = With(Without(@, DOMAIN b),
                                          [n \in DOMAIN b \cap DOMAIN st.env |-> st.env[n]]),
                             !.used = (@ \ DOMAIN b) \cup st.used]
       IN AfterArms(Tail(arms), t, Require(out, check_pattern_type(arm.pat, t), {arm.at}))

Meaning ==
  After(prog.body, [env |-> With(Globals, prog.params), vars |-> DOMAIN prog.params,
                    used |-> {}, returns |-> FALSE, bad |-> {}, mistyped |-> {}])

\* Every variable is used and something is returned.
Whole(m) == m.vars \subseteq m.used /\ (prog.ret = "Void" \/ m.returns)

Legal == LET m == Meaning IN m.bad \cup m.mistyped = {} /\ Whole(m)

\* Every offence has an error at one of its places.
Reported(offences) == \A places \in offences : \E e \in errors : e[2] \in places

-----------------------------------------------------------------------------
(* Properties *)

TypeOK ==
  /\ record_used \in BOOLEAN /\ poisoned \in BOOLEAN /\ returns \in BOOLEAN
  /\ \A f \in {"own", "other"} : Range(func_refs[f]) \subseteq {"Int", "Float", "Bool", "E"}
  /\ Range(expr_ty) \subseteq {"Int", "Float", "Bool", "E"}
  /\ DOMAIN unsed_vars \subseteq DOMAIN func_refs["own"]
  /\ outcome \in {"checking", "checked", "panic"}

\* A legal function is checked without an error: the three visitors see each
\* declaration before its uses, and whatever they visit more than once they
\* do not report. (TyCheckRes::visit_stmt and the visitors it runs)
AcceptsLegal == outcome = "checked" /\ Legal => errors = {}


\* A let whose right side has another type than the given one has an error: "let
\* x: int = item; // error: type mismatch" (stuff/parse_ui/trait/trait_err.cm).
GivenTypesChecked == outcome = "checked" => Reported(Meaning.mistyped)

\* An error never stops the checker: it goes on to the end of the function.
NeverPanics == outcome /= "panic"
==============================================================================
