-------------------------- MODULE MCImportPipeline --------------------------
(* Small file systems for ImportPipeline: a root file r and the files a and b *)
EXTENDS ImportPipeline

CONSTANTS r, a, b

MCFile == {r, a, b}

import(f) == [kind |-> "import", of |-> f]
fn(n, uses) == [kind |-> "func", name |-> n, uses |-> uses]
const(n) == [kind |-> "const", name |-> n]
struct(n) == [kind |-> "struct", name |-> n]
enum(n) == [kind |-> "enum", name |-> n]
trait(n) == [kind |-> "trait", name |-> n]
impl(n, of) == [kind |-> "impl", name |-> n, of |-> of, targs |-> "int", uses |-> {}]

MCItem ==
    {import(f) : f \in {a, b}}
      \cup {fn(n, u) : n \in {"main", "fa", "fb"}, u \in SUBSET {"kr", "ka", "zz"}}
      \cup {const(n) : n \in {"kr", "ka"}}
      \cup {struct("s"), enum("e"), trait("t"), impl("it", "t")}

Ok(items) == [items |-> items, end |-> "eof"]
Ends(items, how) == {[items |-> items, end |-> e] : e \in how}

FileSystems(rs, as, bs) ==
    {[f \in MCFile |-> CASE f = r -> tr [] f = a -> ta [] f = b -> tb] :
        tr \in rs, ta \in as, tb \in bs}

main == fn("main", {})

\* Every way a file can end, files with nothing in them, imports before and
\* after other items, an import inside an import, a file imported twice.
AllPrograms ==
    FileSystems(
        {Ok(<<import(a), main>>),
         Ok(<<const("kr"), import(a), fn("main", {"kr"})>>),
         Ok(<<import(b), import(a), enum("e")>>)}
          \cup Ends(<<import(b), main>>, {"eof", "error", "panic"}),
        {Ok(<<const("ka"), fn("fa", {"ka"})>>),
         Ok(<<struct("s"), import(b)>>),
         Ok(<<import(b), fn("fa", {"zz"})>>)}
          \cup Ends(<<>>, {"eof", "error", "unreadable"}),
        {Ok(<<trait("t"), impl("it", "t")>>),
         Ok(<<fn("fb", {})>>)}
          \cup Ends(<<struct("s")>>, {"error", "panic"}))

\* Only the root imports: three threads at most besides the root's.
FlatPrograms ==
    FileSystems(
        {Ok(<<import(a), import(b), main>>),
         Ok(<<import(a), import(b), import(a)>>)},
        {Ok(<<>>), Ok(<<fn("fa", {})>>), Ok(<<struct("s"), trait("t")>>)}
          \cup Ends(<<const("ka")>>, {"error", "panic"}),
        {Ok(<<>>), Ok(<<fn("fb", {})>>), Ok(<<const("ka"), impl("it", "t")>>)}
          \cup Ends(<<>>, {"error", "unreadable"}))

MCPrograms == AllPrograms \cup FlatPrograms

-----------------------------------------------------------------------------
(* File systems on which the code does not do what the documentation says.  *)

\* An import inside an import.
ChainPrograms ==
    FileSystems({Ok(<<import(a), main>>)},
                {Ok(<<import(b), fn("fa", {})>>)}, {Ok(<<fn("fb", {})>>)})

\* A type declared before the import.
DeclBeforeImport ==
    FileSystems({Ok(<<struct("s"), import(a), main>>)},
                {Ok(<<fn("fa", {})>>)}, {Ok(<<>>)})

\* A const of the imported file, used by the root only.
ConstImported ==
    FileSystems({Ok(<<import(a), fn("main", {"ka"})>>)},
                {Ok(<<const("ka")>>)}, {Ok(<<>>)})

\* A const declared before the import and used after it.
ConstBeforeImport ==
    FileSystems({Ok(<<const("kr"), import(a), fn("main", {"kr"})>>)},
                {Ok(<<fn("fa", {})>>)}, {Ok(<<>>)})

\* An imported file that does not parse.
BadImport ==
    FileSystems({Ok(<<import(a), main>>)},
                Ends(<<fn("fa", {})>>, {"error"}), {Ok(<<>>)})
=============================================================================
