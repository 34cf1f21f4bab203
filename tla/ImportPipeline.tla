--------------------------- MODULE ImportPipeline ---------------------------
(***************************************************************************)
(* The main thread of enumc's process_file, composed with the parser       *)
(* threads of module ParserThreads: parse the root file, then type check   *)
(* with visit_prog, which receives the items of an imported file when it   *)
(* reaches the import and checks them, recursively, before it goes on.     *)
(*                                                                         *)
(* One frame of `frames` is one active call of visit_prog.  Of a           *)
(* declaration the model keeps its kind, its name and the global names its *)
(* bodies use: what decides the name tables, the file scopes and the error *)
(* report.  Types are left to the type checker proper.                     *)
(***************************************************************************)
EXTENDS ParserThreads, FiniteSets

VARIABLES
    frames,      \* active calls of visit_prog, innermost last
    receiving,   \* the innermost one is in the recv() loop of an import
    batch,       \* the declarations that loop has gathered
    fileNames,   \* TyCheckRes.file_names
    scope,       \* ScopeWalker.global_scope: file -> declared names
    names,       \* the global tables of TyCheckRes, one set of names each
    unused,      \* unsed_vars: global consts whose `used` cell is false
    errors,      \* ErrorReport.errors
    poisoned,    \* ErrorReport.error_in_current_expr_tree
    imported,    \* TyCheckRes.imported_items
    detected,    \* history: every error a check ever found
    waited       \* history: imports whose recv() loop has ended

checkVars == <<frames, receiving, batch, fileNames, scope, names, unused,
               errors, poisoned, imported, detected, waited>>

vars == <<threadVars, checkVars>>

-----------------------------------------------------------------------------
(* Names, scopes and the error report *)

Table == {"func", "span", "global", "struct", "enum", "trait", "impl"}

Error(what, f, n) == [what |-> what, file |-> f, name |-> n]

ErrorAt(d, what) == Error(what, FileOf(d), ItemOf(d).name)

Only(condition, e) == IF condition THEN {e} ELSE {}

\* ErrorReport::push_error, for all the errors one handler finds: a poisoned
\* report drops them.
push_error(E) ==
    /\ errors' = IF poisoned THEN errors ELSE errors \cup E
    /\ detected' = detected \cup E

\* The new declaration takes the place of the others.
Mut_add_decl(f, S) == scope' = [scope EXCEPT ![f] = S]

\* ScopeWalker::add_decl and add_item do nothing for a file without a scope.
add_decl(f, S) == scope' = [scope EXCEPT ![f] = @ \cup S]

\* ScopeWalker::add_file_scope: whatever the scope held is replaced.
add_file_scope(sc, f) == [g \in DOMAIN sc \cup {f} |-> IF g = f THEN {} ELSE sc[g]]

\* ScopeWalker::add_file_scopes, on every entry of visit_prog.
add_file_scopes(files) == [f \in files |-> {}]

\* func_spans is keyed by the whole span: place and file.
Span(d) == [file |-> FileOf(d), pos |-> d.pos]

\* visit_func: the span table, then name_func, then the global names unless
\* the function was known.
AddFunc(tbl, d) ==
    LET n == ItemOf(d).name
    IN  [tbl EXCEPT !["span"] = @ \cup {Span(d)},
                    !["func"] = @ \cup {n},
                    !["global"] = IF n \in tbl["func"] THEN @ ELSE @ \cup {n}]

FuncErrors(d) ==
    Only(Span(d) \in names["span"], ErrorAt(d, "same span"))
      \cup Only(ItemOf(d).name \in names["func"], ErrorAt(d, "multiple function"))

-----------------------------------------------------------------------------
(* visit_prog, first half: walk the declarations *)

Top == frames[Len(frames)]

NextDecl == Top.items[Top.at + 1]

Walking ==
    /\ phase = "check"
    /\ ~ receiving
    /\ Top.at < Len(Top.items)

Advance == frames' = [frames EXCEPT ![Len(frames)].at = @ + 1]

Visit(kind) == Walking /\ ItemOf(NextDecl).kind = kind /\ Advance

visit_func ==
    /\ Visit("func")
    /\ add_decl(FileOf(NextDecl), {ItemOf(NextDecl).name})
    /\ names' = AddFunc(names, NextDecl)
    /\ push_error(FuncErrors(NextDecl))
    /\ UNCHANGED <<threadVars, receiving, batch, fileNames, unused, poisoned,
                   imported, waited>>

\* A global const: declared twice is an error, and it starts out unused.
visit_const ==
    LET d == NextDecl
        n == ItemOf(d).name
    IN  /\ Visit("const")
        /\ push_error(Only(n \in names["global"], ErrorAt(d, "already declared")))
        /\ names' = [names EXCEPT !["global"] = @ \cup {n}]
        /\ add_decl(FileOf(d), {n})
        /\ unused' = unused \cup {[file |-> FileOf(d), name |-> n]}
        /\ UNCHANGED <<threadVars, receiving, batch, fileNames, poisoned,
                       imported, waited>>

\* A struct or an enum with at least one field or variant.
visit_adt ==
    \E kind \in {"struct", "enum"} :
        LET d == NextDecl
            n == ItemOf(d).name
        IN  /\ Visit(kind)
            /\ push_error(Only(n \in names[kind], ErrorAt(d, "duplicate struct names")))
            /\ names' = [names EXCEPT ![kind] = @ \cup {n}]
            /\ add_decl(FileOf(d), {n})
            /\ UNCHANGED <<threadVars, receiving, batch, fileNames, unused,
                           poisoned, imported, waited>>

\* The table is overwritten even when the trait was known; the scope is not.
visit_trait ==
    LET d == NextDecl
        n == ItemOf(d).name
        known == n \in names["trait"]
    IN  /\ Visit("trait")
        /\ push_error(Only(known, ErrorAt(d, "duplicate trait")))
        /\ names' = [names EXCEPT !["trait"] = @ \cup {n}]
        /\ add_decl(FileOf(d), IF known THEN {} ELSE {n})
        /\ UNCHANGED <<threadVars, receiving, batch, fileNames, unused,
                       poisoned, imported, waited>>

\* TraitSolve::add_impl wants the trait to be there already, and then enters
\* the implementation, a duplicate too.
add_impl(key) ==
    IF key.of \in names["trait"] THEN [names EXCEPT !["impl"] = @ \cup {key}] ELSE names

\* visit_impl, then visit_func on the method.
visit_impl ==
    LET d == NextDecl
        i == ItemOf(d)
        key == [of |-> i.of, targs |-> i.targs]
        added == i.of \in names["trait"] /\ key \notin names["impl"]
    IN  /\ Visit("impl")
        /\ push_error(Only(~ added, ErrorAt(d, "no trait")) \cup FuncErrors(d))
        /\ names' = AddFunc(add_impl(key), d)
        /\ add_decl(FileOf(d), IF added THEN {i.of, i.name} ELSE {i.name})
        /\ UNCHANGED <<threadVars, receiving, batch, fileNames, unused,
                       poisoned, imported, waited>>

-----------------------------------------------------------------------------
(* visit_prog, an import: `while let Ok(Ok(blob)) = rcv.recv()` *)

visit_import ==
    /\ Visit("import")
    /\ receiving' = TRUE
    /\ batch' = <<>>
    /\ UNCHANGED <<threadVars, fileNames, scope, names, unused, errors,
                   poisoned, imported, detected, waited>>

\* The loop is over: visit_prog(imports), whose first act is to clear the
\* scope of every known file.
EnterBatch(items, files) ==
    /\ frames' = Append(frames, [items |-> items, at |-> 0])
    /\ receiving' = FALSE
    /\ batch' = <<>>
    /\ scope' = add_file_scopes(files)
    /\ waited' = waited \cup {Top.items[Top.at]}

\* `added_file` set by the first blob of the loop.
Mut_Registered(d) ==
    IF batch = <<>> THEN fileNames \cup {FileOf(d)} ELSE fileNames

\* The file a blob comes from is registered; `added_file` is never set, so
\* this happens for every blob.
Registered(d) == fileNames \cup {FileOf(d)}

BlobDecl(m) == [thread |-> m.thread, pos |-> m.pos]

recv_blob ==
    LET m == log[head + 1]
        d == BlobDecl(m)
    IN  /\ phase = "check" /\ receiving
        /\ head < Len(log)
        /\ m.ok
        /\ head' = head + 1
        /\ fileNames' = Registered(d)
        /\ \/ /\ m.count = 0
              /\ EnterBatch(Append(batch, d), fileNames')
           \/ /\ m.count # 0
              /\ batch' = Append(batch, d)
              /\ scope' = add_file_scope(scope, FileOf(d))
              /\ UNCHANGED <<frames, receiving, waited>>
        /\ UNCHANGED <<prog, threads, log, phase, names, unused, errors,
                       poisoned, imported, detected>>

\* What the loop had gathered goes with the error.
Mut_recv_error ==
    /\ phase = "check" /\ receiving
    /\ head < Len(log)
    /\ ~ log[head + 1].ok
    /\ head' = head + 1
    /\ EnterBatch(<<>>, fileNames)
    /\ UNCHANGED <<prog, threads, log, phase, fileNames, names, unused, errors,
                   poisoned, imported, detected>>

\* recv() returns Ok(Err(_)): a parse error, of whichever file, ends the loop
\* and is dropped.
recv_error ==
    /\ phase = "check" /\ receiving
    /\ head < Len(log)
    /\ ~ log[head + 1].ok
    /\ head' = head + 1
    /\ EnterBatch(batch, fileNames)
    /\ UNCHANGED <<prog, threads, log, phase, fileNames, names, unused, errors,
                   poisoned, imported, detected>>

\* recv() returns Err(RecvError): no message left and every sender dropped.
recv_closed ==
    /\ phase = "check" /\ receiving
    /\ head = Len(log)
    /\ NoSenders
    /\ EnterBatch(batch, fileNames)
    /\ UNCHANGED <<threadVars, fileNames, names, unused, errors, poisoned,
                   imported, detected>>

-----------------------------------------------------------------------------
(* visit_prog, second half: check the bodies, report unused consts, return *)

Bodies(items) == {d \in {items[k] : k \in DOMAIN items} :
                    ItemOf(d).kind \in {"func", "impl"}}

\* The statements of the bodies, one per use of a global name.
Statements(items) ==
    UNION {{[file |-> FileOf(d), name |-> u] : u \in ItemOf(d).uses} : d \in Bodies(items)}

\* type_of_ident finds a const or a function of any file among the globals.
Declared(st) == st.name \in names["global"]

\* The const of that name in the root file.
Mut_MarkedUsed(items) == {[st EXCEPT !.file = Root] : st \in {s \in Statements(items) : Declared(s)}}

\* What type_of_ident marks as used: the const of that name in the file of the
\* USE.
MarkedUsed(items) == {st \in Statements(items) : Declared(st)}

FailedLookups(items) ==
    {Error("no type found", st.file, st.name) :
        st \in {s \in Statements(items) : ~ Declared(s)}}

\* poisoned(true) before push_error.
Mut_LookupErrors(items) == {}

\* A failed lookup pushes its error and only then poisons the report, which
\* visit_stmt has cleared before: all of these get through.
LookupErrors(items) == FailedLookups(items)

\* Bodies are walked functions first, then impls, each in the order of their
\* place; the last body with a statement has the last word on the poison.  The
\* places of different files overlap, so any of several files may be last.
LastBodies(items) ==
    LET walked(kind) == {d \in Bodies(items) :
                            ItemOf(d).kind = kind /\ ItemOf(d).uses # {}}
        final == IF walked("impl") # {} THEN walked("impl") ELSE walked("func")
    IN  {d \in final : \A e \in final : FileOf(e) = FileOf(d) => e.pos <= d.pos}

PoisonAfter(items) ==
    IF LastBodies(items) = {} THEN {poisoned}
    ELSE {u \notin names["global"] : u \in UNION {ItemOf(d).uses : d \in LastBodies(items)}}

UnusedErrors(S) == {Error("unused", u.file, u.name) : u \in S}

\* The call of visit_prog ends.  For an import the caller then extends
\* imported_items; for the root file process_file asks report_errors.
check_bodies ==
    LET items == Top.items
        left == unused \ MarkedUsed(items)
    IN  /\ phase = "check" /\ ~ receiving
        /\ Top.at = Len(items)
        /\ unused' = left
        /\ poisoned' \in PoisonAfter(items)
        /\ errors' = errors \cup LookupErrors(items)
                       \cup (IF poisoned' THEN {} ELSE UnusedErrors(left))
        /\ detected' = detected \cup FailedLookups(items) \cup UnusedErrors(left)
        /\ frames' = SubSeq(frames, 1, Len(frames) - 1)
        /\ \/ /\ Len(frames) > 1
              /\ imported' = imported \o items
              /\ phase' = phase
           \/ /\ Len(frames) = 1
              /\ imported' = imported
              /\ phase' = IF errors' = {} THEN "lower" ELSE "failed"
        /\ UNCHANGED <<prog, threads, log, head, receiving, batch, fileNames,
                       scope, names, waited>>

-----------------------------------------------------------------------------
(* process_file *)

RootItems == [p \in 1..threads[1].parsed |-> [thread |-> 1, pos |-> p]]

\* The root file is parsed: into_items() drops the last sender of the main
\* thread, TyCheckRes::new takes the receiver and visit_prog begins.
RootParsed ==
    /\ phase = "parse"
    /\ threads[1].parsed = Len(Text(1).items)
    /\ Goto(1, "done")
    /\ \/ /\ Text(1).end = "eof"
          /\ phase' = "check"
          /\ frames' = <<[items |-> RootItems, at |-> 0]>>
          /\ fileNames' = {Root}
          /\ scope' = add_file_scopes({Root})
       \/ /\ Text(1).end # "eof"
          /\ phase' = IF Text(1).end = "error" THEN "failed" ELSE "crashed"
          /\ UNCHANGED <<frames, fileNames, scope>>
    /\ UNCHANGED <<prog, log, head, receiving, batch, names, unused, errors,
                   poisoned, imported, detected, waited>>

\* lower_items consumes the type checker, and the receiver with it.
lower_items ==
    /\ phase = "lower"
    /\ phase' = "done"
    /\ UNCHANGED <<prog, threads, log, head, checkVars>>

MainStep ==
    \/ RootParsed
    \/ visit_func \/ visit_const \/ visit_adt \/ visit_trait \/ visit_impl
    \/ visit_import \/ recv_blob \/ recv_error \/ recv_closed
    \/ check_bodies
    \/ lower_items

Init ==
    /\ ThreadInit
    /\ frames = <<>>
    /\ receiving = FALSE
    /\ batch = <<>>
    /\ fileNames = {}
    /\ scope = [f \in {} |-> {}]
    /\ names = [x \in Table |-> {}]
    /\ unused = {}
    /\ errors = {}
    /\ poisoned = FALSE
    /\ imported = <<>>
    /\ detected = {}
    /\ waited = {}

Parse(t) == t \in DOMAIN threads /\ ThreadStep(t) /\ UNCHANGED checkVars

Next == MainStep \/ \E t \in DOMAIN threads : Parse(t)

\* The operating system runs every thread, and nothing the main thread does
\* between two recv() calls can block.
Fairness == WF_vars(MainStep) /\ \A t \in 1..MaxThreads : WF_vars(Parse(t))

Spec == Init /\ [][Next]_vars

FairSpec == Spec /\ Fairness

-----------------------------------------------------------------------------
(* Properties *)

Frame == [items : Seq(Decl), at : Nat]

TypeOK ==
    /\ ThreadTypeOK
    /\ frames \in Seq(Frame)
    /\ receiving \in BOOLEAN
    /\ batch \in Seq(Decl)
    /\ fileNames \subseteq File
    /\ DOMAIN scope = fileNames
    /\ poisoned \in BOOLEAN
    /\ imported \in Seq(Decl)
    /\ phase = "check" => frames # <<>>

\* The receive loop trusts `count`: a blob says how many more of its file
\* follow it in the channel, however the sends of the threads interleave.
\* Blobs of one thread sit in the channel in file order, and nothing of a file
\* that failed to parse is ever sent but its one error.
StreamsInOrder ==
    /\ \A i \in 1..Len(log) :
         LET m == log[i] IN
           /\ m.thread \in DOMAIN threads
           /\ m.ok => /\ m.pos \in 1..threads[m.thread].sent
                      /\ m.count = Len(Text(m.thread).items) - m.pos
           /\ ~ m.ok => Text(m.thread).end = "error"
    /\ \A i, j \in 1..Len(log) :
         i < j /\ log[i].thread = log[j].thread =>
            log[i].ok /\ log[j].ok /\ log[i].pos < log[j].pos

\* Error::error_with_span looks the file of a span up and panics with "error
\* for non existent file": a declaration is never walked, nor gathered, before
\* its file is registered, though a batch may mix the items of several files.
FilesKnown ==
    /\ \A k \in 1..Len(frames) : \A i \in 1..Len(frames[k].items) :
         FileOf(frames[k].items[i]) \in fileNames
    /\ \A i \in 1..Len(batch) : FileOf(batch[i]) \in fileNames

\* A declaration taken from the channel is in exactly one place: the batch being
\* gathered, an active visit_prog, or imported_items, which lowering turns into
\* code.  None is lost and none is walked or lowered twice.
Occurrences(d) ==
    Cardinality({i \in DOMAIN batch : batch[i] = d})
    + Cardinality({i \in DOMAIN imported : imported[i] = d})
    + Cardinality({at \in (2..Len(frames)) \X (1..Len(log)) :
                     /\ at[2] \in DOMAIN frames[at[1]].items
                     /\ frames[at[1]].items[at[2]] = d})

ReceivedOnce ==
    \A i \in 1..head :
        log[i].ok /\ (phase \in {"check", "lower", "done"})
            => Occurrences(BlobDecl(log[i])) = 1

\* Entering a batch clears the scopes of every file, the importer's included.
\* What the innermost visit_prog has declared since its last import is still in
\* scope, so bodies checked after a leading run of imports see every header.
HeadersSinceLastImport ==
    phase = "check" /\ ~ receiving =>
        \A k \in 1..Top.at :
            LET d == Top.items[k] IN
              /\ ItemOf(d).kind \in {"func", "const", "struct", "enum"}
              /\ \A j \in k..Top.at : ~ IsImport(ItemOf(Top.items[j]))
              => ItemOf(d).name \in scope[FileOf(d)]

\* A poisoned report swallows errors, also those of declarations walked after
\* an import whose last statement failed.  It never swallows the only one: a
\* program in which any check failed is never accepted.
ErrorsNotLost == detected # {} => errors # {}

\* Type checking the root file has ended.
Checked == phase \in {"lower", "done"} \/ (phase = "failed" /\ fileNames # {})

\* Only the root file imports, and not itself.
Flat ==
    \A f \in File : \A i \in 1..Len(prog[f].items) :
        IsImport(prog[f].items[i]) => f = Root /\ prog[f].items[i].of # Root

\* Every import that is walked ends its loop at one terminator (the blob with
\* count 0, or an error) or at a closed channel.  When only the root imports
\* there are as many loops as threads, so whichever import receives what, type
\* checking ends with nothing left in the channel and nothing left to send.
FlatImportsComplete ==
    Checked /\ Flat =>
        /\ head = Len(log)
        /\ \A t \in DOMAIN threads :
             \/ threads[t].pc \in {"exit", "done"}
             \/ threads[t].pc = "send" /\ threads[t].sent = threads[t].parsed

\* type_of_ident marks the const of a name in the file of the USE, and every
\* call of visit_prog reports what is unmarked so far, long before the rest of
\* the program is read.  It is right only about a file that comes in one piece:
\* with a single import in the program, a const that a function of its own file
\* uses is never reported as unused, unless the import lies in that file.
UsedConstsKept ==
    \A e \in errors : e.what = "unused" /\ Len(threads) <= 2 =>
        LET items == prog[e.file].items IN
          \/ \E k \in DOMAIN items : IsImport(items[k])
          \/ ~ \E k \in DOMAIN items : items[k].kind = "func" /\ e.name \in items[k].uses

\* The receive loop has no timeout: an empty file, an unreadable one or a
\* panicking parser sends nothing at all.  process_file still comes to an end,
\* because the last sender to go closes the channel.
Terminates == <>(phase \in {"done", "failed", "crashed"})

-----------------------------------------------------------------------------
(* What the documentation says, and the code does not do *)

SentAndReceived(t) ==
    \A p \in 1..Len(Text(t).items) :
        \E i \in 1..head : log[i].ok /\ log[i].thread = t /\ log[i].pos = p

\* typeck.rs: "if we encounter an import we apply this process from start to
\* finish before moving on from here": when the loop of an import has ended, all
\* items of the (well-formed) file it names have been received.
WaitsForImport ==
    \A t \in DOMAIN threads :
        threads[t].by \in waited /\ Text(t).end = "eof" => SentAndReceived(t)

\* typeck.rs: "At this point all names are known we start resolving": when
\* visit_prog turns to the bodies, every declaration it has walked is in scope.
AllNamesKnown ==
    phase = "check" /\ ~ receiving /\ Top.at = Len(Top.items) =>
        \A k \in 1..Top.at :
            LET d == Top.items[k] IN
              ItemOf(d).kind \in {"func", "const", "struct", "enum"}
                => ItemOf(d).name \in scope[FileOf(d)]

\* readme.md: "one can import items from another file and use them as if they
\* are defined in the current file": a const the importing file uses is not
\* reported as unused.
ImportedConstUsable ==
    \A e \in errors : e.what = "unused" =>
        ~ \E k \in 1..Len(prog[Root].items) :
            /\ prog[Root].items[k].kind = "func"
            /\ e.name \in prog[Root].items[k].uses

\* visit_prog: "After all checking then we can check for unused vars": no const
\* is reported while bodies of the file that declares it are unchecked.
UnusedAfterAllChecking ==
    phase = "check" /\ frames # <<>> =>
        ~ \E e \in errors : e.what = "unused" /\ e.file = Root

\* ErrorReport: "Errors collected during parsing and type checking": a program
\* with a file that does not parse is not accepted.
ParseErrorsReported ==
    phase \in {"lower", "done"} =>
        \A t \in DOMAIN threads : threads[t].pc = "done" => Text(t).end # "error"

=============================================================================
