--------------------------- MODULE ParserThreads ---------------------------
(***************************************************************************)
(* The parser threads of enumc and the channel they share.                 *)
(*                                                                         *)
(* process_file parses the root file on the main thread.  Every `import`   *)
(* the parser meets, in whatever file, starts a detached thread that       *)
(* reads, lexes and parses the imported file and then sends its items, one *)
(* message per declaration, down ONE mpsc channel shared by all threads.   *)
(* The main thread is the only receiver (module ImportPipeline).           *)
(*                                                                         *)
(* The channel is an append-only log with a read cursor: log[head + 1] is  *)
(* the next message recv() returns.  A thread is its entry in `threads`;   *)
(* entry 1 is the main thread while it parses the root file.               *)
(***************************************************************************)
EXTENDS Naturals, Sequences

CONSTANTS
    File,        \* the source files
    Root,        \* the file named on the command line
    Item,        \* declarations; an import names its file in field `of`
    Programs,    \* the file systems to compile: what each file holds
    MaxThreads   \* bound: how many parser threads may be started

\* How the text of a file ends: cleanly, at a token that makes parse() return
\* Err, at a token that makes it panic (unreachable!, todo!), or not at all
\* because the file cannot be read.
Ending == {"eof", "error", "panic", "unreadable"}

FileText == [items : Seq(Item), end : Ending]

IsImport(item) == item.kind = "import"

\* An unreadable root ends process_file before the channel exists.
ASSUME ConstantsAssumption ==
    /\ Root \in File
    /\ Programs \subseteq [File -> FileText]
    /\ \A p \in Programs : p[Root].end # "unreadable"
    /\ \A i \in Item : IsImport(i) => i.of \in File
    /\ MaxThreads \in Nat \ {0}

VARIABLES
    prog,      \* the file system being compiled; never changes
    threads,   \* every parser thread started so far
    log,       \* all messages ever sent on the channel
    head,      \* how many of them recv() has returned
    phase      \* what the main thread is doing

threadVars == <<prog, threads, log, head, phase>>

ThreadPC == {"read", "parse", "send", "exit", "done"}

\* A declaration is known by the thread that parsed it and its place there.
Decl == [thread : Nat \ {0}, pos : Nat \ {0}]

Thread == [file : File, by : [thread : Nat, pos : Nat], pc : ThreadPC,
           parsed : Nat, sent : Nat]

\* ParseResult<ParsedBlob>: a declaration with the number of declarations of
\* the same file still to come, or the error that ended the parse.
Message == [ok : BOOLEAN, thread : Nat \ {0}, pos : Nat, count : Nat]

Phase == {"parse", "check", "lower", "done", "failed", "crashed"}

Text(t) == prog[threads[t].file]

NewThread(f, parent, p) ==
    [file |-> f, by |-> [thread |-> parent, pos |-> p],
     pc |-> "read", parsed |-> 0, sent |-> 0]

ItemOf(d) == prog[threads[d.thread].file].items[d.pos]

FileOf(d) == threads[d.thread].file

\* The receiver lives in TyCheckRes, which lower_items consumes.
ReceiverOpen == phase \in {"parse", "check", "lower"}

\* Sender::send: the result is ignored, so sending to a dropped receiver is
\* a message lost.
Send(m) == log' = IF ReceiverOpen THEN Append(log, m) ELSE log

\* try_recv() in place of recv(): an empty channel is taken for a closed one.
Mut_NoSendersTry == TRUE

\* The root parser's sender lives as long as the type checker.
Mut_NoSendersRoot ==
    ~ ReceiverOpen /\ \A t \in DOMAIN threads : threads[t].pc = "done"

\* Every thread owns a clone of the sender until it ends; the root parser's
\* own sender goes with the parser in into_items().
NoSenders == \A t \in DOMAIN threads : threads[t].pc = "done"

ThreadInit ==
    /\ prog \in Programs
    /\ threads = <<[NewThread(Root, 0, 0) EXCEPT !.pc = "parse"]>>
    /\ log = <<>>
    /\ head = 0
    /\ phase = "parse"

Goto(t, pc) == threads' = [threads EXCEPT ![t].pc = pc]

\* The spawned closure reads its file; on failure `?` leaves the closure with
\* nothing sent and the Err is dropped with the join handle.
ReadFile(t) ==
    /\ threads[t].pc = "read"
    /\ Goto(t, IF Text(t).end = "unreadable" THEN "done" ELSE "parse")
    /\ UNCHANGED <<prog, log, head, phase>>

\* parse(): one declaration that is not an import.
ParseItem(t) ==
    /\ threads[t].pc = "parse"
    /\ threads[t].parsed < Len(Text(t).items)
    /\ ~ IsImport(Text(t).items[threads[t].parsed + 1])
    /\ threads' = [threads EXCEPT ![t].parsed = @ + 1]
    /\ UNCHANGED <<prog, log, head, phase>>

\* parse(): an import starts a thread with its own clone of the sender, and is
\* itself kept as an item.  Nothing remembers which files were imported before.
ParseImport(t) ==
    /\ threads[t].pc = "parse"
    /\ threads[t].parsed < Len(Text(t).items)
    /\ IsImport(Text(t).items[threads[t].parsed + 1])
    /\ Len(threads) < MaxThreads
    /\ LET p == threads[t].parsed + 1
       IN  threads' = Append([threads EXCEPT ![t].parsed = p],
                             NewThread(Text(t).items[p].of, t, p))
    /\ UNCHANGED <<prog, log, head, phase>>

\* The parser of a thread has read its whole file: on to sending, or send the
\* one error, or unwind from a panic (which drops the sender, too).
ParseEnd(t) ==
    /\ t # 1
    /\ threads[t].pc = "parse"
    /\ threads[t].parsed = Len(Text(t).items)
    /\ \/ /\ Text(t).end = "eof"
          /\ Goto(t, "send")
          /\ log' = log
       \/ /\ Text(t).end = "error"
          /\ Goto(t, "exit")
          /\ Send([ok |-> FALSE, thread |-> t, pos |-> 0, count |-> 0])
       \/ /\ Text(t).end = "panic"
          /\ Goto(t, "done")
          /\ log' = log
    /\ UNCHANGED <<prog, head, phase>>

\* The count sent before it is decremented.
Mut_Remaining(t, p) == threads[t].parsed - p + 1

\* The declarations that follow the p-th one: `cnt -= 1` comes before the send.
Remaining(t, p) == threads[t].parsed - p

\* for item in items { cnt -= 1; snd.send(Ok(ParsedBlob { count: cnt, .. })) }
SendItem(t) ==
    /\ threads[t].pc = "send"
    /\ threads[t].sent < threads[t].parsed
    /\ LET p == threads[t].sent + 1
       IN  /\ Send([ok |-> TRUE, thread |-> t, pos |-> p,
                    count |-> Remaining(t, p)])
           /\ threads' = [threads EXCEPT ![t].sent = p]
    /\ UNCHANGED <<prog, head, phase>>

\* The closure returns and its sender is dropped.
Exit(t) ==
    /\ \/ threads[t].pc = "exit"
       \/ threads[t].pc = "send" /\ threads[t].sent = threads[t].parsed
    /\ Goto(t, "done")
    /\ UNCHANGED <<prog, log, head, phase>>

\* A panic of the main thread ends the process and every thread with it.
ThreadStep(t) ==
    /\ phase # "crashed"
    /\ \/ ReadFile(t)
       \/ ParseItem(t)
       \/ ParseImport(t)
       \/ ParseEnd(t)
       \/ SendItem(t)
       \/ Exit(t)

ThreadTypeOK ==
    /\ prog \in Programs
    /\ threads \in Seq(Thread)
    /\ Len(threads) \in 1..MaxThreads
    /\ log \in Seq(Message)
    /\ head \in 0..Len(log)
    /\ phase \in Phase

=============================================================================
