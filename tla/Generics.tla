------------------------------ MODULE Generics ------------------------------
(***************************************************************************)
(* Generic functions: how the type checker records the types they are used *)
(* with, how lir/mono.rs makes one version of the function from each       *)
(* record, and which labels the lowered calls name.                        *)
(*                                                                         *)
(* A program is its functions, in the order of the text, and its traits    *)
(* and impls.  Of a body the model keeps its uses: calls, trait calls,     *)
(* struct literals and scoped consts.  The types of the arguments are what *)
(* inference has found for them (module Locals models that part).  A label *)
(* is the sequence of the texts it is put together from.                   *)
(***************************************************************************)
EXTENDS Integers, Sequences, FiniteSets, SequencesExt

CONSTANTS
  Programs,   \* the programs to compile
  MaxFrames   \* the stack of the compiler: how many calls of Func::lower it holds

VARIABLES
  prog,          \* the program
  st,            \* "check", "mono", "lower"; "done", "rejected", "panic"
  at,            \* <<function, use>> the type checker is at; <<item, 0>> later
  node_resolved, \* GenericResolver::node_resolved, one record per argument
  children,      \* GenericResolver::item_generics: the children, in order
  next_id,       \* uniq_generic_instance_id
  type_args,     \* the type arguments of the calls, with the inferred ones
  mono_expr_ty,  \* TyCheckRes::mono_expr_ty
  versions,      \* what mono_func returned and is not lowered yet
  frames,        \* the active calls of Func::lower: <<function, next use>>
  out            \* the lowered functions

vars == <<prog, st, at, node_resolved, children, next_id, type_args,
          mono_expr_ty, versions, frames, out>>

resolver == <<node_resolved, children, next_id, type_args>>

-----------------------------------------------------------------------------
(* Types.  A type parameter that is not resolved yet is a path.            *)

Base(n)   == [k |-> "base", n |-> n, a |-> <<>>]
Gen(n)    == [k |-> "gen", n |-> n, a |-> <<>>]
APath(n)  == [k |-> "path", n |-> n, a |-> <<>>]
Adt(n, a) == [k |-> "struct", n |-> n, a |-> a]

has_generics(t) == t.k = "gen" \/ t.a # <<>>

RECURSIVE generics(_)
generics(t) ==
  IF t.k = "gen" THEN {t.n}
  ELSE UNION {generics(t.a[i]) : i \in DOMAIN t.a}

is_ty_eq(s, t) == s.k # "path" /\ s.k = t.k /\ s.n = t.n

\* replace_with_concrete_ty; the type itself where the code keeps it
RECURSIVE replace_with_concrete_ty(_, _, _)
replace_with_concrete_ty(t, gens, tys) ==
  IF t.k = "gen" /\ \E i \in DOMAIN tys : gens[i] = t.n
  THEN tys[CHOOSE i \in DOMAIN tys : gens[i] = t.n]
  ELSE [t EXCEPT !.a =
          [i \in DOMAIN t.a |-> replace_with_concrete_ty(t.a[i], gens, tys)]]

\* The type that stands in `ty` where `has_gen` has a type parameter: a set
\* of at most one pair <<type, parameter>>.
RECURSIVE peel_out_ty(_, _)
peel_out_ty(ty, has_gen) ==
  IF has_gen.k = "gen" THEN {<<ty, has_gen.n>>}
  ELSE IF ty.k = "struct" /\ is_ty_eq(ty, has_gen)
  THEN LET some == {i \in DOMAIN ty.a \cap DOMAIN has_gen.a :
                      peel_out_ty(ty.a[i], has_gen.a[i]) # {}}
       IN  IF some = {} THEN {}
           ELSE LET i == CHOOSE i \in some : \A j \in some : i <= j
                IN  peel_out_ty(ty.a[i], has_gen.a[i])
  ELSE {}

-----------------------------------------------------------------------------
(* The program *)

Fns       == prog.fns
Fn(name)  == LET i == CHOOSE i \in DOMAIN Fns : Fns[i].name = name
             IN  Fns[i]
Func(n)   == <<"Func", n>>
IsGeneric(f) == f.gens # <<>>

\* The expressions of a function whose types matter: the arguments of its calls.
Exprs(f) == UNION {{<<f.name, i, j>> : j \in DOMAIN f.body[i].args} :
                     i \in DOMAIN f.body}
ExprTy(e) == Fn(e[1]).body[e[2]].args[e[3]]

-----------------------------------------------------------------------------
(* GenericResolver *)

\* (children of structs are recorded too, and read by nobody)
push_generic_child(acc, stack) ==
  IF Len(stack) >= 2 /\ stack[1][1] = "Func" /\ IsGeneric(Fn(stack[1][2]))
  THEN [acc EXCEPT !.kids = Append(@, [of |-> stack[1][2], node |-> stack[2]])]
  ELSE acc

\* the position of the argument is forgotten
Mut_push_resolved_child(acc, stack, ty, id, idx) ==
  [acc EXCEPT !.res = @ \cup
     {[node |-> stack[i], idx |-> 0, ty |-> ty, id |-> id] : i \in DOMAIN stack}]

\* every node on the stack, the enclosing function too, learns the type
push_resolved_child(acc, stack, ty, id, idx) ==
  [acc EXCEPT !.res = @ \cup
     {[node |-> stack[i], idx |-> idx, ty |-> ty, id |-> id] : i \in DOMAIN stack}]

Pop(stack) == IF stack = <<>> THEN stack ELSE Front(stack)

\* acc is [res, kids, stack]; a struct pops once, whatever it pushed
RECURSIVE collect_generic_usage(_, _, _, _)
collect_generic_usage(acc, ty, id, idx) ==
  LET Element(a, t) ==
        IF t.k = "gen"
        THEN LET s == Append(a.stack, <<"Struct", ty.n>>)
             IN  push_generic_child([a EXCEPT !.stack = s], s)
        ELSE collect_generic_usage(a, t, id, idx)
      Collected ==
        IF \E i \in DOMAIN ty.a : has_generics(ty.a[i])
        THEN FoldLeft(Element, acc, ty.a)
        ELSE push_resolved_child(acc, acc.stack, ty, id, idx)
  IN  IF ty.k = "gen" THEN push_generic_child(acc, acc.stack)
      ELSE IF ty.k = "struct" THEN [Collected EXCEPT !.stack = Pop(@)]
      ELSE push_resolved_child(acc, acc.stack, ty, id, idx)

\* collect the types tys one after the other: type i as argument i - 1, each
\* with its own copy of the stack when `fresh`
CollectAll(tys, id, stack, fresh) ==
  LET Step(acc, i) ==
        collect_generic_usage(IF fresh THEN [acc EXCEPT !.stack = stack] ELSE acc,
                              tys[i], id, i - 1)
  IN  FoldLeft(Step, [res |-> node_resolved, kids |-> children, stack |-> stack],
               [i \in 1..Len(tys) |-> i])

build_stack(f, node) == IF IsGeneric(f) THEN <<Func(f.name), node>> ELSE <<node>>

-----------------------------------------------------------------------------
(* Type checking, one statement at a time *)

Cur    == Fns[at[1]]
CurUse == Cur.body[at[2]]

AtUse(k) == /\ st = "check"
            /\ at[2] \in 1..Len(Cur.body)
            /\ CurUse.k = k

Record(acc) == /\ node_resolved' = acc.res
               /\ children' = acc.kids

Later == UNCHANGED <<prog, mono_expr_ty, versions, frames, out>>

\* walk_func visits the parameters first: those whose types have type
\* arguments are collected as argument 0 of the function itself.
visit_params ==
  /\ st = "check" /\ at[2] = 0
  /\ LET gs == SelectSeq(Cur.params, has_generics)
         Step(acc, i) ==
           collect_generic_usage([acc EXCEPT !.stack = <<Func(Cur.name)>>],
                                 gs[i], next_id + i - 1, 0)
     IN  /\ Record(FoldLeft(Step, [res |-> node_resolved, kids |-> children,
                                   stack |-> <<>>],
                            [i \in 1..Len(gs) |-> i]))
         /\ next_id' = next_id + Len(gs)
  /\ at' = <<at[1], 1>>
  /\ UNCHANGED <<st, type_args>> /\ Later

visit_const ==
  /\ AtUse("const")
  /\ Record(CollectAll(CurUse.tys, next_id,
                       IF IsGeneric(Cur) THEN <<Func(Cur.name)>> ELSE <<>>, TRUE))
  /\ next_id' = next_id + 1
  /\ at' = <<at[1], at[2] + 1>>
  /\ UNCHANGED <<st, type_args>> /\ Later

\* A struct literal: field i has the struct's parameter i as its type.
visit_struct_init ==
  /\ AtUse("init")
  /\ Record(CollectAll(CurUse.tys, next_id,
                       build_stack(Cur, <<"Struct", CurUse.to>>), TRUE))
  /\ next_id' = next_id + 1
  /\ at' = <<at[1], at[2] + 1>>
  /\ UNCHANGED <<st, type_args>> /\ Later

\* TypeInfer: the type arguments of a call that gives none.  Only the first
\* type found for a parameter counts.
Pairs(g, args) ==
  LET Step(ps, j) ==
        LET new == IF has_generics(g.params[j])
                   THEN peel_out_ty(args[j], g.params[j]) ELSE {}
        IN  IF \E p \in new : \A i \in DOMAIN ps : ps[i][2] # p[2]
            THEN Append(ps, CHOOSE p \in new : TRUE)
            ELSE ps
  IN  FoldLeft(Step, <<>>, [j \in 1..Len(g.params) |-> j])

Swapped(s, i, j) == [s EXCEPT ![i] = s[j], ![j] = s[i]]

\* the found types stay in the order of the parameters
Mut_sort_like_type_args(gens, ps) == ps

\* "Sort the list like the type args": move each in turn to the end.
sort_like_type_args(gens, ps) ==
  LET Step(s, g) ==
        LET i == CHOOSE i \in DOMAIN s : s[i][2] = g IN Swapped(s, i, Len(s))
  IN  FoldLeft(Step, ps, gens)

Unused(g, ps) == ps # <<>> /\ \E i \in DOMAIN g.gens :
                                 \A j \in DOMAIN ps : ps[j][2] # g.gens[i]

infer_type_args(g, u) ==
  IF u.tys # <<>> \/ ~IsGeneric(g) THEN u.tys
  ELSE LET s == sort_like_type_args(g.gens, Pairs(g, u.args))
       IN  [i \in DOMAIN s |-> s[i][1]]

ArgsAgree(params, args, gens, tys) ==
  \A j \in DOMAIN args :
     is_ty_eq(replace_with_concrete_ty(params[j], gens, tys), args[j])

visit_call ==
  /\ AtUse("call")
  /\ LET g   == Fn(CurUse.to)
         bad == CurUse.tys = <<>> /\ IsGeneric(g) /\ Unused(g, Pairs(g, CurUse.args))
         tys == IF bad THEN <<>> ELSE infer_type_args(g, CurUse)
     IN  /\ Record(CollectAll(tys, next_id, build_stack(Cur, Func(g.name)), TRUE))
         /\ type_args' = [type_args EXCEPT ![at] = tys]
         /\ st' = IF ~bad /\ ArgsAgree(g.params, CurUse.args, g.gens, tys)
                  THEN st ELSE "rejected"
  /\ next_id' = next_id + 1
  /\ at' = <<at[1], at[2] + 1>>
  /\ Later

\* Nobody turns the type arguments of a trait call from paths into type
\* parameters; one stack serves all of them.
visit_trait_meth ==
  /\ AtUse("trait")
  /\ LET def == prog.traits[CurUse.to]
         tys == [i \in DOMAIN CurUse.tys |->
                   IF CurUse.tys[i].k = "gen" THEN APath(CurUse.tys[i].n)
                   ELSE CurUse.tys[i]]
     IN  /\ Record(CollectAll(tys, next_id,
                              build_stack(Cur, <<"Trait", CurUse.to>>), FALSE))
         /\ type_args' = [type_args EXCEPT ![at] = tys]
         /\ st' = IF ArgsAgree(def.params, CurUse.args, def.gens, tys)
                  THEN st ELSE "rejected"
  /\ next_id' = next_id + 1
  /\ at' = <<at[1], at[2] + 1>>
  /\ Later

func_checked ==
  /\ st = "check" /\ at[2] = Len(Cur.body) + 1
  /\ IF at[1] < Len(Fns)
     THEN at' = <<at[1] + 1, 0>> /\ st' = st
     ELSE at' = <<1, 0>> /\ st' = "mono"
  /\ UNCHANGED resolver /\ Later

-----------------------------------------------------------------------------
(* Monomorphisation and lowering, one function at a time *)

Join(tys, sep) ==
  [i \in 1..(2 * Len(tys) - 1) |->
     IF i % 2 = 1 THEN tys[(i + 1) \div 2] ELSE sep]

\* the texts are those of types; a name alone is a text as well
Label(name, tys) == <<Base(name)>> \o Join(tys, Base("0"))

Resolved(f)     == {r \in node_resolved : r.node = Func(f.name)}
InstanceIds(rs) == {r.id : r \in rs}
Instance(rs, id) == SetToSortSeq({r \in rs : r.id = id},
                                 LAMBDA r, s : r.idx < s.idx)

\* One clone per record of argument 0; clone i becomes the version of the
\* i-th instance in the order of the hash map.  A trait call in it is looked
\* up with the arguments of the function, and is not a function that
\* lowering would find: with one, and with more instances than clones, the
\* compiler panics.
sub_mono_generic(f, rs, order) ==
  [i \in 1..Cardinality({r \in rs : r.idx = 0}) |->
     [fn    |-> f.name,
      label |-> IF i > Len(order) THEN <<Base(f.name)>>
                ELSE LET gs == Instance(rs, order[i])
                     IN  Label(f.name, [j \in DOMAIN gs |-> gs[j].ty])]]

MonoPanics(f, rs) ==
  \/ Cardinality(InstanceIds(rs)) > Cardinality({r \in rs : r.idx = 0})
  \/ \E i \in DOMAIN f.body : f.body[i].k = "trait"

\* every argument is taken for the first parameter
Mut_Substituted(tbl, f, rs, order) ==
  LET Write(t, r) ==
        [e \in DOMAIN t |-> IF e \in Exprs(f) /\ f.gens[1] \in generics(ExprTy(e))
                            THEN <<r.ty>> ELSE t[e]]
      Inst(t, id) == FoldLeft(Write, t, Instance(rs, id))
  IN  FoldLeft(Inst, tbl, order)

\* GenSubstitution: every argument of every instance is written over the
\* types of the expressions that mention its parameter.
Substituted(tbl, f, rs, order) ==
  LET Write(t, r) ==
        LET g == f.gens[IF r.idx < Len(f.gens) THEN r.idx + 1 ELSE Len(f.gens)]
        IN  [e \in DOMAIN t |->
               IF e \in Exprs(f) /\ g \in generics(ExprTy(e))
               THEN <<r.ty>> ELSE t[e]]
      Inst(t, id) == FoldLeft(Write, t, Instance(rs, id))
  IN  FoldLeft(Inst, tbl, order)

\* the functions that a generic function calls with its own parameters
DependentFns(f) ==
  LET kids == SelectSeq(children, LAMBDA c : c.of = f.name /\ c.node[1] = "Func")
  IN  [i \in DOMAIN kids |-> Fn(kids[i].node[2])]

mono_func ==
  /\ st = "mono" /\ at[1] <= Len(Fns)
  /\ LET f  == Fns[at[1]]
         rs == Resolved(f)
         fs == <<f>> \o DependentFns(f)
     IN  IF ~IsGeneric(f)
         THEN /\ versions' = <<[fn |-> f.name, label |-> <<Base(f.name)>>]>>
              /\ st' = "lower"
              /\ UNCHANGED mono_expr_ty
         ELSE IF rs = {}
         THEN versions' = <<>> /\ st' = "lower" /\ UNCHANGED mono_expr_ty
         ELSE IF \E i \in DOMAIN fs : MonoPanics(fs[i], rs)
         THEN st' = "panic" /\ UNCHANGED <<versions, mono_expr_ty>>
         ELSE \E order \in SetToSeqs(InstanceIds(rs)) :
                /\ versions' = FlattenSeq([i \in DOMAIN fs |->
                                  sub_mono_generic(fs[i], rs, order)])
                /\ mono_expr_ty' =
                     LET Each(t, g) == Substituted(t, g, rs, order)
                     IN  FoldLeft(Each, mono_expr_ty, fs)
                /\ st' = "lower"
  /\ UNCHANGED <<prog, at, frames, out>> /\ UNCHANGED resolver

\* What code generation calls: the type arguments as they stand in the call.
CallLabel(f, i) ==
  LET u   == f.body[i]
      tys == type_args[<<CHOOSE k \in DOMAIN Fns : Fns[k].name = f.name, i>>]
  IN  IF tys = <<>> \/ (u.k = "call" /\ Fn(u.to).linked) THEN <<Base(u.to)>>
      ELSE Label(u.to, tys)

Calls(f) == {i \in DOMAIN f.body : f.body[i].k \in {"call", "trait"}}

LoweredTy(e) == IF has_generics(ExprTy(e)) /\ mono_expr_ty[e] # <<>>
                THEN mono_expr_ty[e][1] ELSE ExprTy(e)

\* Func::lower of the next version
lower_func ==
  /\ st = "lower" /\ versions # <<>> /\ frames = <<>>
  /\ LET v == Head(versions)
         f == Fn(v.fn)
     IN  /\ out' = IF f.linked THEN out
                   ELSE Append(out, [fn |-> v.fn, label |-> v.label,
                          calls |-> {CallLabel(f, i) : i \in Calls(f)},
                          tys   |-> [e \in Exprs(f) |-> LoweredTy(e)]])
         /\ frames' = <<<<v.fn, 1>>>>
  /\ versions' = Tail(versions)
  /\ UNCHANGED <<prog, st, at, mono_expr_ty>> /\ UNCHANGED resolver


\* A call statement keeps its function with the body, a call expression
\* without (lower_minus_body).
LowersCallee(u) == u.k = "call" /\ u.stmt

lower_stmt ==
  /\ st = "lower" /\ frames # <<>> /\ Len(frames) < MaxFrames
  /\ LET top  == Last(frames)
         body == Fn(top[1]).body
         rest == Append(Front(frames), <<top[1], top[2] + 1>>)
     IN  frames' = IF top[2] > Len(body) THEN Front(frames)
                   ELSE IF LowersCallee(body[top[2]])
                   THEN Append(rest, <<body[top[2]].to, 1>>)
                   ELSE rest
  /\ UNCHANGED <<prog, st, at, mono_expr_ty, versions, out>> /\ UNCHANGED resolver

item_lowered ==
  /\ st = "lower" /\ versions = <<>> /\ frames = <<>>
  /\ at' = <<at[1] + 1, 0>>
  /\ st' = "mono"
  /\ UNCHANGED <<prog, mono_expr_ty, versions, frames, out>> /\ UNCHANGED resolver

\* The impls: the label has the types one after the other.
lower_impls ==
  /\ st = "mono" /\ at[1] > Len(Fns)
  /\ out' = out \o [i \in DOMAIN prog.impls |->
                      [fn |-> prog.impls[i].of,
                       label |-> <<Base(prog.impls[i].of)>> \o prog.impls[i].tys,
                       calls |-> {}, tys |-> <<>>]]
  /\ st' = "done"
  /\ UNCHANGED <<prog, at, mono_expr_ty, versions, frames>> /\ UNCHANGED resolver

Init ==
  /\ prog \in Programs
  /\ st = "check" /\ at = <<1, 0>>
  /\ node_resolved = {} /\ children = <<>> /\ next_id = 0
  /\ type_args = [p \in UNION {{<<k, i>> : i \in DOMAIN Fns[k].body} : k \in DOMAIN Fns}
                    |-> <<>>]
  /\ mono_expr_ty = [e \in UNION {Exprs(Fns[k]) : k \in DOMAIN Fns} |-> <<>>]
  /\ versions = <<>> /\ frames = <<>> /\ out = <<>>

Next ==
  \/ visit_params \/ visit_const \/ visit_struct_init
  \/ visit_call \/ visit_trait_meth \/ func_checked
  \/ mono_func \/ lower_func \/ lower_stmt \/ item_lowered \/ lower_impls

Spec == Init /\ [][Next]_vars

-----------------------------------------------------------------------------
(* What the program means: the versions its uses ask for.                  *)

\* the type arguments a call means, given or found by parameter name
MeantArgs(g, u) ==
  IF u.tys # <<>> THEN u.tys
  ELSE [i \in DOMAIN g.gens |->
          (CHOOSE p \in UNION {peel_out_ty(u.args[j], g.params[j]) :
                                 j \in DOMAIN u.args} : p[2] = g.gens[i])[1]]

Asked(v) ==
  LET f == Fn(v[1]) IN
  {<<f.body[i].to,
     LET tys == MeantArgs(Fn(f.body[i].to), f.body[i])
     IN  [k \in DOMAIN tys |-> replace_with_concrete_ty(tys[k], f.gens, v[2])]>> :
   i \in {i \in DOMAIN f.body : f.body[i].k = "call"}}

RECURSIVE Closed(_)
Closed(vs) == LET more == vs \cup UNION {Asked(v) : v \in vs}
              IN  IF more = vs THEN vs ELSE Closed(more)

Needed == {v \in Closed({<<Fns[k].name, <<>>>> :
                           k \in {k \in DOMAIN Fns : ~IsGeneric(Fns[k])}}) :
             ~Fn(v[1]).linked}

FnVersions == SelectSeq(out, LAMBDA o : \E k \in DOMAIN Fns : Fns[k].name = o.fn)

-----------------------------------------------------------------------------
(* Properties *)

TypeOK ==
  /\ st \in {"check", "mono", "lower", "done", "rejected", "panic"}
  /\ at \in (1..Len(Fns) + 1) \X Nat
  /\ \A r \in node_resolved : r.id < next_id
  /\ \A i \in DOMAIN frames : frames[i][2] \in 1..(Len(Fn(frames[i][1]).body) + 1)

\* A program whose uses have the right types gets through: type checking
\* reports nothing and monomorphisation does not panic.
LegalAccepted == st \notin {"rejected", "panic"}

\* "For every use with a unique set there is a unique version" (readme.md):
\* the versions made are exactly those the uses ask for, each made once.
VersionPerUse ==
  st = "done" =>
    /\ \A i, j \in DOMAIN out : out[i].label = out[j].label => i = j
    /\ {FnVersions[i].label : i \in DOMAIN FnVersions}
         = {Label(v[1], v[2]) : v \in Needed}

\* What a lowered function calls is a function of the program, a linked one,
\* or the method of an impl.
CallsDefined ==
  st = "done" =>
    \A i \in DOMAIN out : \A c \in out[i].calls :
       \/ \E j \in DOMAIN out : out[j].label = c
       \/ \E k \in DOMAIN Fns : Fns[k].linked /\ c = <<Base(Fns[k].name)>>

\* Versions, uses and calls match: one version per set of types a function is
\* used with, and no call of a version that does not exist.
VersionsMatchUses == VersionPerUse /\ CallsDefined

TypedAs(o, v) ==
  \A e \in DOMAIN o.tys :
     o.tys[e] = replace_with_concrete_ty(ExprTy(e), Fn(v[1]).gens, v[2])

\* The expressions of a version have the types of this version.
VersionsTyped ==
  st = "done" =>
    \A i \in DOMAIN FnVersions : \A v \in Needed :
       Label(v[1], v[2]) = FnVersions[i].label => TypedAs(FnVersions[i], v)

\* So much is true: they have, in functions that come in one version.
OneVersionTyped ==
  st = "done" =>
    \A i \in DOMAIN FnVersions : \A v \in Needed :
       (/\ Label(v[1], v[2]) = FnVersions[i].label
        /\ \A w \in Needed : w[1] = v[1] => w = v)
       => TypedAs(FnVersions[i], v)

\* The functions that call themselves by call statements alone.
RECURSIVE Reached(_)
Reached(names) ==
  LET more == names \cup {c.to : c \in {u \in UNION {Range(Fn(n).body) : n \in names} :
                                          u.k = "call" /\ u.stmt}}
  IN  IF more = names THEN names ELSE Reached(more)

Loops == {n \in {Fns[k].name : k \in DOMAIN Fns} :
            \E u \in Range(Fn(n).body) : u.k = "call" /\ u.stmt /\ n \in Reached({u.to})}

Reentered == {f \in {frames[i][1] : i \in DOMAIN frames} :
                \E i, j \in DOMAIN frames : i < j /\ frames[i][1] = f /\ frames[j][1] = f}


\* Lowering never runs out of stack.  It does on a function that calls itself in
\* a call statement.
LoweringEnds == Len(frames) < MaxFrames
=============================================================================
