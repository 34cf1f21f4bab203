------------------------ MODULE ImportPipelineProofs ------------------------
(***************************************************************************)
(* Proofs about ImportPipeline for every file system, every number of      *)
(* threads and every interleaving.  The first part is about the channel    *)
(* and the errors.  The second follows what the main thread receives: a    *)
(* declaration taken from the channel is kept in exactly one place, what   *)
(* visit_prog has declared since its last import is still in scope, if     *)
(* only the root file imports then type checking ends with nothing left in *)
(* the channel, and a const that a function of its own file uses is never  *)
(* reported as unused.                                                     *)
(***************************************************************************)
EXTENDS ImportPipeline, SequenceTheorems, FiniteSetTheorems, FunctionTheorems, TLAPS

-----------------------------------------------------------------------------
(* The inductive invariant *)

\* Where a parser thread can be: it sends only what it has parsed, only once
\* its whole file has parsed cleanly, and it leaves with an error only if the
\* file has one.
ThreadOK(th) ==
    LET text == prog[th.file] IN
      /\ th.sent <= th.parsed
      /\ th.parsed <= Len(text.items)
      /\ th.pc \in {"read", "parse", "exit"} => th.sent = 0
      /\ th.pc = "send" \/ th.sent > 0 =>
           text.end = "eof" /\ th.parsed = Len(text.items)
      /\ th.pc = "exit" => text.end = "error"

ThreadInv == \A t \in 1..Len(threads) : ThreadOK(threads[t])

\* StreamsInOrder, and which threads have sent an error.
LogInv ==
    /\ StreamsInOrder
    /\ \A i \in 1..Len(log) : ~ log[i].ok =>
         threads[log[i].thread].pc \in {"exit", "done"}
    /\ \A i \in 1..Len(log) : log[i].ok => Text(log[i].thread).end = "eof"

\* Every declaration the main thread holds was parsed by a thread.
DeclsValid ==
    /\ \A k \in 1..Len(frames) : \A i \in 1..Len(frames[k].items) :
         frames[k].items[i].thread \in 1..Len(threads)
    /\ \A i \in 1..Len(batch) : batch[i].thread \in 1..Len(threads)

\* A poisoned report is never an empty one.
PoisonInv ==
    /\ ErrorsNotLost
    /\ poisoned => errors # {}

\* The first thread is the root's, and nothing is received while it parses.
RootInv ==
    /\ threads[1].file = Root
    /\ phase = "parse" => batch = <<>>

IInv ==
    /\ TypeOK
    /\ RootInv
    /\ ThreadInv
    /\ LogInv
    /\ DeclsValid
    /\ FilesKnown
    /\ PoisonInv

-----------------------------------------------------------------------------
(* Facts about the operators *)

\* What the constants say of the text of a thread's file.
LEMMA TextType ==
    ASSUME ThreadTypeOK, NEW t \in 1..Len(threads)
    PROVE  /\ Text(t) \in FileText
           /\ Text(t).items \in Seq(Item)
           /\ Len(Text(t).items) \in Nat
           /\ threads[t] \in Thread
<1>1. threads[t] \in Thread
  BY DEF ThreadTypeOK
<1>2. threads[t].file \in File
  BY <1>1 DEF Thread
<1>3. prog \in [File -> FileText]
  BY ConstantsAssumption DEF ThreadTypeOK
<1>4. Text(t) \in FileText
  BY <1>2, <1>3 DEF Text
<1>5. Text(t).items \in Seq(Item)
  BY <1>4 DEF FileText
<1> QED
  BY <1>1, <1>4, <1>5

\* What a step of a parser thread leaves alone: the files of the threads that
\* exist, and their number never shrinks.
ThreadsGrow ==
    /\ Len(threads) <= Len(threads')
    /\ \A t \in 1..Len(threads) : threads'[t].file = threads[t].file

\* One thread changes its place, counters or both; all others stay.
LEMMA UpdateThread ==
    ASSUME ThreadTypeOK, NEW t \in 1..Len(threads), NEW rec \in Thread,
           rec.file = threads[t].file,
           threads' = [threads EXCEPT ![t] = rec]
    PROVE  /\ threads' \in Seq(Thread)
           /\ Len(threads') = Len(threads)
           /\ threads'[t] = rec
           /\ \A s \in 1..Len(threads) : s # t => threads'[s] = threads[s]
           /\ ThreadsGrow
BY DEF ThreadTypeOK, ThreadsGrow

-----------------------------------------------------------------------------
(* Steps of a parser thread *)

\* An index of a sequence that has grown by one is old or the new one.
LEMMA LastOrBefore ==
    ASSUME NEW n \in Nat, NEW i \in 1..(n + 1)
    PROVE  i \in 1..n \/ i = n + 1
OBVIOUS

\* A message is appended, or nothing is sent because the receiver is gone.
LEMMA SendType ==
    ASSUME ThreadTypeOK, NEW m \in Message, Send(m)
    PROVE  /\ log' \in Seq(Message)
           /\ log' = log \/ log' = Append(log, m)
           /\ Len(log) <= Len(log')
BY DEF ThreadTypeOK, Send

\* The invariant of threads and channel after one thread t has moved, whatever
\* the step was, from what the step says of t.
LEMMA LogKept ==
    ASSUME ThreadTypeOK, ThreadInv, LogInv, prog' = prog, log' = log,
           NEW t \in 1..Len(threads), NEW rec \in Thread,
           rec.file = threads[t].file,
           threads' = [threads EXCEPT ![t] = rec],
           rec.sent = threads[t].sent,
           threads[t].pc \notin {"exit", "done"} \/ rec.pc = "done"
    PROVE  LogInv'
<1>1. /\ threads' \in Seq(Thread)
      /\ Len(threads') = Len(threads)
      /\ \A s \in 1..Len(threads) : /\ threads'[s].file = threads[s].file
                                    /\ threads'[s].sent = threads[s].sent
                                    /\ threads[s].pc \in {"exit", "done"} =>
                                         threads'[s].pc \in {"exit", "done"}
  <2>1. /\ threads' \in Seq(Thread)
        /\ Len(threads') = Len(threads)
        /\ threads'[t] = rec
        /\ \A s \in 1..Len(threads) : s # t => threads'[s] = threads[s]
    BY UpdateThread
  <2>2. rec.pc = "done" \/ threads[t].pc \notin {"exit", "done"}
    OBVIOUS
  <2> HIDE DEF ThreadTypeOK, ThreadInv, LogInv
  <2>3. ASSUME NEW s \in 1..Len(threads)
        PROVE  /\ threads'[s].file = threads[s].file
               /\ threads'[s].sent = threads[s].sent
               /\ threads[s].pc \in {"exit", "done"} =>
                    threads'[s].pc \in {"exit", "done"}
    <3>1. CASE s = t
      BY <2>1, <2>2, <3>1
    <3>2. CASE s # t
      BY <2>1, <3>2
    <3> QED
      BY <3>1, <3>2
  <2> QED
    BY <2>1, <2>3
<1>2. \A s \in 1..Len(threads) : Text(s)' = Text(s)
  BY <1>1 DEF Text
<1>3. \A i \in 1..Len(log) : log[i].thread \in 1..Len(threads)
  BY DEF LogInv, StreamsInOrder, ThreadTypeOK
<1>4. \A i \in 1..Len(log) : ~ log[i].ok =>
         threads'[log[i].thread].pc \in {"exit", "done"}
  BY <1>1, <1>3 DEF LogInv
<1>5. \A i \in 1..Len(log) : log[i].ok => Text(log[i].thread)'.end = "eof"
  BY <1>2, <1>3 DEF LogInv
<1>6. StreamsInOrder'
  BY <1>1, <1>2, <1>3 DEF LogInv, StreamsInOrder, ThreadTypeOK
<1> QED
  BY <1>3, <1>4, <1>5, <1>6 DEF LogInv

\* The same for the invariant of the threads themselves.
LEMMA ThreadsKept ==
    ASSUME ThreadTypeOK, ThreadInv, prog' = prog,
           NEW t \in 1..Len(threads), NEW rec \in Thread,
           rec.file = threads[t].file,
           threads' = [threads EXCEPT ![t] = rec],
           ThreadOK(rec)
    PROVE  ThreadInv'
<1>1. /\ Len(threads') = Len(threads)
      /\ threads'[t] = rec
      /\ \A s \in 1..Len(threads) : s # t => threads'[s] = threads[s]
  BY UpdateThread
<1> QED
  BY <1>1 DEF ThreadInv, ThreadOK

\* A message of thread t is appended: the earlier messages of t, if any, are
\* blobs of lower places.
LEMMA LogGrows ==
    ASSUME ThreadTypeOK, ThreadInv, LogInv, prog' = prog,
           NEW t \in 1..Len(threads), NEW rec \in Thread,
           rec.file = threads[t].file,
           threads' = [threads EXCEPT ![t] = rec],
           ThreadOK(rec),
           threads[t].pc \notin {"exit", "done"},
           NEW m \in Message, m.thread = t, log' = Append(log, m),
           \/ /\ m.ok /\ Text(t).end = "eof"
              /\ m.pos = threads[t].sent + 1 /\ rec.sent = m.pos
              /\ m.count = Len(Text(t).items) - m.pos
           \/ /\ ~ m.ok /\ Text(t).end = "error" /\ rec.pc = "exit"
              /\ threads[t].sent = 0 /\ rec.sent = 0
    PROVE  LogInv'
<1>1. /\ Len(threads') = Len(threads)
      /\ threads'[t] = rec
      /\ \A s \in 1..Len(threads) : /\ s # t => threads'[s] = threads[s]
                                    /\ threads'[s].file = threads[s].file
  BY UpdateThread
<1>2. \A s \in 1..Len(threads) : prog[threads'[s].file] = Text(s)
  BY <1>1 DEF Text
<1>3. /\ log \in Seq(Message) /\ log' \in Seq(Message)
      /\ Len(log') = Len(log) + 1
      /\ log'[Len(log) + 1] = m
      /\ \A i \in 1..Len(log) : log'[i] = log[i]
  BY DEF ThreadTypeOK
<1>4. \A i \in 1..Len(log) :
         /\ log[i].thread \in 1..Len(threads)
         /\ log[i].thread \in DOMAIN threads
         /\ log[i] \in Message
  BY <1>3 DEF LogInv, StreamsInOrder, ThreadTypeOK
<1>5. \A i \in 1..Len(log) : log[i].thread = t =>
         m.ok /\ log[i].ok /\ log[i].pos < m.pos
  <2> SUFFICES ASSUME NEW i \in 1..Len(log), log[i].thread = t
               PROVE  m.ok /\ log[i].ok /\ log[i].pos < m.pos
    OBVIOUS
  <2>1. log[i].ok /\ Text(t).end = "eof" /\ log[i].pos \in 1..threads[t].sent
    BY DEF LogInv, StreamsInOrder
  <2>2. threads[t].sent \in Nat
    BY TextType DEF Thread
  <2> QED
    BY <2>1, <2>2
<1>6. \A i \in 1..Len(log) : log[i].ok => log[i].pos \in 1..threads'[log[i].thread].sent
  <2> SUFFICES ASSUME NEW i \in 1..Len(log), log[i].ok
               PROVE  log[i].pos \in 1..threads'[log[i].thread].sent
    OBVIOUS
  <2>1. log[i].pos \in 1..threads[log[i].thread].sent
    BY DEF LogInv, StreamsInOrder
  <2>2. CASE log[i].thread # t
    BY <1>1, <1>4, <2>1, <2>2
  <2>3. CASE log[i].thread = t
    <3>1. threads[t].sent \in Nat
      BY TextType DEF Thread
    <3> QED
      BY <1>1, <1>5, <2>1, <2>3, <3>1
  <2> QED
    BY <2>2, <2>3
<1>7. \A i \in 1..Len(log') :
         LET n == log'[i] IN
           /\ n.thread \in DOMAIN threads'
           /\ n.ok => /\ n.pos \in 1..threads'[n.thread].sent
                      /\ n.count = Len(prog[threads'[n.thread].file].items) - n.pos
           /\ ~ n.ok => prog[threads'[n.thread].file].end = "error"
  <2>1. DOMAIN threads' = DOMAIN threads /\ t \in DOMAIN threads
    BY DEF ThreadTypeOK
  <2> SUFFICES ASSUME NEW i \in 1..Len(log')
               PROVE  LET n == log'[i] IN
                        /\ n.thread \in DOMAIN threads'
                        /\ n.ok => /\ n.pos \in 1..threads'[n.thread].sent
                                   /\ n.count = Len(prog[threads'[n.thread].file].items) - n.pos
                        /\ ~ n.ok => prog[threads'[n.thread].file].end = "error"
    OBVIOUS
  <2>2. CASE i \in 1..Len(log)
    BY <1>2, <1>3, <1>4, <1>6, <2>1, <2>2 DEF LogInv, StreamsInOrder
  <2>3. CASE i = Len(log) + 1
    <3>1. m.ok => m.pos \in 1..threads'[t].sent
      BY <1>1, TextType DEF Thread
    <3> QED
      BY <1>2, <1>3, <2>1, <2>3, <3>1
  <2>4. i \in 1..Len(log) \/ i = Len(log) + 1
    <3>1. Len(log) \in Nat /\ i \in 1..(Len(log) + 1)
      BY <1>3
    <3> QED
      BY Zenon, <3>1, LastOrBefore
  <2> QED
    BY Zenon, <2>2, <2>3, <2>4
<1>8. \A i, j \in 1..Len(log') :
         i < j /\ log'[i].thread = log'[j].thread =>
            log'[i].ok /\ log'[j].ok /\ log'[i].pos < log'[j].pos
  <2> SUFFICES ASSUME NEW i \in 1..Len(log'), NEW j \in 1..Len(log'),
                      i < j, log'[i].thread = log'[j].thread
               PROVE  log'[i].ok /\ log'[j].ok /\ log'[i].pos < log'[j].pos
    OBVIOUS
  <2>1. i \in 1..Len(log) /\ log'[i] = log[i]
    BY <1>3
  <2>2. CASE j \in 1..Len(log)
    BY <1>3, <2>1, <2>2 DEF LogInv, StreamsInOrder
  <2>3. CASE j = Len(log) + 1
    BY <1>3, <1>5, <2>1, <2>3
  <2>4. j \in 1..Len(log) \/ j = Len(log) + 1
    <3>1. Len(log) \in Nat /\ j \in 1..(Len(log) + 1)
      BY <1>3
    <3> QED
      BY Zenon, <3>1, LastOrBefore
  <2> QED
    BY Zenon, <2>2, <2>3, <2>4
<1>9. \A i \in 1..Len(log') :
         /\ ~ log'[i].ok => threads'[log'[i].thread].pc \in {"exit", "done"}
         /\ log'[i].ok => prog[threads'[log'[i].thread].file].end = "eof"
  <2> SUFFICES ASSUME NEW i \in 1..Len(log')
               PROVE  /\ ~ log'[i].ok => threads'[log'[i].thread].pc \in {"exit", "done"}
                      /\ log'[i].ok => prog[threads'[log'[i].thread].file].end = "eof"
    OBVIOUS
  <2>1. CASE i \in 1..Len(log)
    <3>1. log[i].thread \in 1..Len(threads) /\ log'[i] = log[i]
      BY <1>3, <1>4, <2>1
    <3>2. ~ log[i].ok => log[i].thread # t
      BY <1>5, <2>1
    <3> QED
      BY <1>1, <1>2, <2>1, <3>1, <3>2 DEF LogInv
  <2>2. CASE i = Len(log) + 1
    BY <1>1, <1>2, <1>3, <2>2
  <2> QED
    BY <1>3, <2>1, <2>2
<1> HIDE DEF LogInv
<1>10. StreamsInOrder'
  BY Zenon, <1>7, <1>8 DEF StreamsInOrder, Text
<1> QED
  BY Zenon, <1>9, <1>10 DEF LogInv, Text

\* A thread that has parsed, or sent, one more declaration.
LEMMA CounterUpdate ==
    ASSUME NEW th \in Thread, NEW n \in Nat
    PROVE  /\ [th EXCEPT !.parsed = n] \in Thread
           /\ [th EXCEPT !.parsed = n].file = th.file
           /\ [th EXCEPT !.parsed = n].pc = th.pc
           /\ [th EXCEPT !.parsed = n].sent = th.sent
           /\ [th EXCEPT !.parsed = n].parsed = n
           /\ [th EXCEPT !.sent = n] \in Thread
           /\ [th EXCEPT !.sent = n].file = th.file
           /\ [th EXCEPT !.sent = n].pc = th.pc
           /\ [th EXCEPT !.sent = n].parsed = th.parsed
           /\ [th EXCEPT !.sent = n].sent = n
BY DEF Thread

\* Every step of a parser thread keeps the threads and the channel in order.
LEMMA ThreadStepInv ==
    ASSUME ThreadTypeOK, ThreadInv, LogInv,
           NEW t \in 1..Len(threads), ThreadStep(t)
    PROVE  ThreadTypeOK' /\ ThreadInv' /\ LogInv' /\ ThreadsGrow
<1> DEFINE th == threads[t]
<1>0. /\ th \in Thread
      /\ Text(t) \in FileText /\ Text(t).items \in Seq(Item)
      /\ Len(Text(t).items) \in Nat
      /\ ThreadOK(th)
      /\ Text(t) = prog[th.file]
      /\ Len(threads) \in 1..MaxThreads /\ threads \in Seq(Thread)
      /\ MaxThreads \in Nat
  BY TextType, ConstantsAssumption DEF ThreadInv, ThreadTypeOK, Text
<1>a. th.parsed \in Nat /\ th.sent \in Nat
  BY <1>0 DEF Thread
<1> USE <1>0, <1>a
<1>1. CASE ReadFile(t)
  <2> DEFINE rec == [th EXCEPT !.pc = IF Text(t).end = "unreadable" THEN "done" ELSE "parse"]
  <2>1. /\ threads' = [threads EXCEPT ![t] = rec]
        /\ rec \in Thread /\ ThreadOK(rec)
        /\ rec.file = th.file /\ rec.sent = th.sent /\ th.pc = "read"
        /\ prog' = prog /\ log' = log /\ head' = head /\ phase' = phase
    BY <1>1 DEF ReadFile, Goto, Thread, ThreadPC, ThreadOK
  <2> HIDE DEF rec
  <2> QED
    BY <2>1, UpdateThread, LogKept, ThreadsKept DEF ThreadTypeOK
<1>2. CASE ParseItem(t)
  <2> DEFINE p == th.parsed + 1
             rec == [th EXCEPT !.parsed = p]
  <2>1. /\ threads' = [threads EXCEPT ![t] = rec]
        /\ th.pc = "parse" /\ th.parsed < Len(Text(t).items)
        /\ prog' = prog /\ log' = log /\ head' = head /\ phase' = phase
    BY <1>2 DEF ParseItem
  <2>p. p \in Nat
    OBVIOUS
  <2>2. /\ rec \in Thread /\ rec.file = th.file /\ rec.sent = th.sent
        /\ rec.pc = th.pc /\ rec.parsed = p
    BY ZenonT(60), <2>p, CounterUpdate
  <2> HIDE DEF rec
  <2>3. ThreadOK(rec)
    BY <2>1, <2>2 DEF ThreadOK
  <2> HIDE DEF rec
  <2> QED
    BY <2>1, <2>2, <2>3, UpdateThread, LogKept, ThreadsKept DEF ThreadTypeOK
<1>3. CASE ParseImport(t)
  <2> DEFINE p == th.parsed + 1
             rec == [th EXCEPT !.parsed = p]
             new == NewThread(Text(t).items[p].of, t, p)
             old == [threads EXCEPT ![t] = rec]
  <2>1. /\ p \in 1..Len(Text(t).items)
        /\ threads' = Append(old, new)
        /\ prog' = prog /\ log' = log /\ head' = head /\ phase' = phase
        /\ Len(threads) < MaxThreads /\ th.pc = "parse"
    <3>1. /\ th.pc = "parse" /\ th.parsed < Len(Text(t).items)
          /\ Len(threads) < MaxThreads
          /\ threads' = Append(old, new)
          /\ prog' = prog /\ log' = log /\ head' = head /\ phase' = phase
      BY ZenonT(60), <1>3 DEF ParseImport
    <3>2. p \in 1..Len(Text(t).items)
      BY <3>1
    <3> QED
      BY Zenon, <3>1, <3>2
  <2>a. /\ rec \in Thread /\ rec.file = th.file /\ rec.sent = th.sent
        /\ rec.pc = th.pc /\ rec.parsed = p
    <3>1. p \in Nat
      OBVIOUS
    <3> QED
      BY ZenonT(60), <3>1, CounterUpdate
  <2>b. ThreadOK(rec)
    <3> HIDE DEF rec
    <3> QED
      BY <2>1, <2>a DEF ThreadOK
  <2>2. Text(t).items[p].of \in File
    <3>1. IsImport(Text(t).items[p])
      BY <1>3 DEF ParseImport
    <3>2. Text(t).items[p] \in Item
      BY <2>1
    <3> HIDE DEF p
    <3> QED
      BY ZenonT(60), <3>1, <3>2, ConstantsAssumption
  <2>3. new \in Thread /\ new.sent = 0 /\ new.parsed = 0 /\ new.pc = "read"
    <3>1. p \in Nat /\ t \in Nat
      OBVIOUS
    <3> HIDE DEF p
    <3> QED
      BY <2>2, <3>1 DEF NewThread, Thread, ThreadPC
  <2>4. ThreadOK(new)
    <3> HIDE DEF new
    <3>1. new.file \in File
      BY <2>3 DEF Thread
    <3>2. prog[new.file] \in FileText
      BY <3>1, ConstantsAssumption DEF ThreadTypeOK
    <3>3. Len(prog[new.file].items) \in Nat
      BY <3>2 DEF FileText
    <3> QED
      BY <2>3, <3>3 DEF ThreadOK
  <2> HIDE DEF rec, new, p
  <2>5. /\ threads' \in Seq(Thread)
        /\ Len(threads') = Len(threads) + 1
        /\ threads'[t] = rec
        /\ threads'[Len(threads) + 1] = new
        /\ \A s \in 1..Len(threads) : s # t => threads'[s] = threads[s]
    <3>1. old \in Seq(Thread) /\ Len(old) = Len(threads)
      BY <2>a
    <3> QED
      BY <2>1, <2>3, <3>1
  <2>6. ThreadsGrow
    BY <2>a, <2>5 DEF ThreadsGrow
  <2>7. ThreadInv'
    BY <2>1, <2>b, <2>4, <2>5 DEF ThreadInv, ThreadOK
  <2>8. ThreadTypeOK'
    BY <2>1, <2>5 DEF ThreadTypeOK
  <2>9. LogInv'
    <3>1. \A s \in 1..Len(threads) : /\ prog[threads'[s].file] = Text(s)
                                     /\ threads'[s].sent = threads[s].sent
                                     /\ threads'[s].pc = threads[s].pc
                                     /\ s \in DOMAIN threads'
      BY <2>a, <2>5 DEF Text
    <3>2. \A i \in 1..Len(log) : log[i].thread \in 1..Len(threads)
      BY DEF LogInv, StreamsInOrder
    <3>3. StreamsInOrder'
      <4>2. ASSUME NEW i \in 1..Len(log)
            PROVE  /\ log[i].thread \in DOMAIN threads'
                   /\ log[i].ok =>
                        /\ log[i].pos \in 1..threads'[log[i].thread].sent
                        /\ log[i].count = Len(prog[threads'[log[i].thread].file].items)
                                            - log[i].pos
                   /\ ~ log[i].ok => prog[threads'[log[i].thread].file].end = "error"
        <5>1. log[i].thread \in 1..Len(threads)
          BY Zenon, <3>2
        <5>2. /\ prog[threads'[log[i].thread].file] = Text(log[i].thread)
              /\ threads'[log[i].thread].sent = threads[log[i].thread].sent
              /\ log[i].thread \in DOMAIN threads'
          BY Zenon, <3>1, <5>1
        <5>3. /\ log[i].ok =>
                   /\ log[i].pos \in 1..threads[log[i].thread].sent
                   /\ log[i].count = Len(Text(log[i].thread).items) - log[i].pos
              /\ ~ log[i].ok => Text(log[i].thread).end = "error"
          BY Zenon DEF LogInv, StreamsInOrder
        <5> QED
          BY Zenon, <5>2, <5>3
      <4>3. \A i, j \in 1..Len(log) :
               i < j /\ log[i].thread = log[j].thread =>
                  log[i].ok /\ log[j].ok /\ log[i].pos < log[j].pos
        BY DEF LogInv, StreamsInOrder
      <4> QED
        BY Zenon, <2>1, <4>2, <4>3 DEF StreamsInOrder, Text
    <3> QED
      BY <2>1, <3>1, <3>2, <3>3 DEF LogInv, Text
  <2> QED
    BY <2>6, <2>7, <2>8, <2>9
<1>4. CASE ParseEnd(t)
  <2>1. th.pc = "parse" /\ th.parsed = Len(Text(t).items) /\ th.sent = 0
        /\ prog' = prog /\ head' = head /\ phase' = phase
    BY <1>4 DEF ParseEnd, ThreadOK
  <2>2. CASE Goto(t, "send") /\ log' = log /\ Text(t).end = "eof"
    <3> DEFINE rec == [th EXCEPT !.pc = "send"]
    <3>1. /\ threads' = [threads EXCEPT ![t] = rec]
          /\ rec \in Thread /\ ThreadOK(rec) /\ rec.file = th.file /\ rec.sent = th.sent
      BY <2>1, <2>2 DEF Goto, Thread, ThreadPC, ThreadOK
    <3> HIDE DEF rec
    <3> QED
      BY <2>1, <2>2, <3>1, UpdateThread, LogKept, ThreadsKept DEF ThreadTypeOK
  <2>3. CASE Goto(t, "done") /\ log' = log
    <3> DEFINE rec == [th EXCEPT !.pc = "done"]
    <3>1. /\ threads' = [threads EXCEPT ![t] = rec]
          /\ rec \in Thread /\ ThreadOK(rec) /\ rec.file = th.file /\ rec.sent = th.sent
          /\ rec.pc = "done"
      BY <2>1, <2>3 DEF Goto, Thread, ThreadPC, ThreadOK
    <3> HIDE DEF rec
    <3> QED
      BY <2>1, <2>3, <3>1, UpdateThread, LogKept, ThreadsKept DEF ThreadTypeOK
  <2>4. CASE /\ Goto(t, "exit") /\ Text(t).end = "error"
             /\ Send([ok |-> FALSE, thread |-> t, pos |-> 0, count |-> 0])
    <3> DEFINE rec == [th EXCEPT !.pc = "exit"]
               m == [ok |-> FALSE, thread |-> t, pos |-> 0, count |-> 0]
    <3>1. /\ threads' = [threads EXCEPT ![t] = rec]
          /\ rec \in Thread /\ ThreadOK(rec) /\ rec.file = th.file /\ rec.sent = th.sent
          /\ rec.pc = "exit"
      BY <2>1, <2>4 DEF Goto, Thread, ThreadPC, ThreadOK
    <3>2. m \in Message /\ m.thread = t /\ ~ m.ok
      BY DEF Message
    <3> HIDE DEF rec, m
    <3>3. /\ log' \in Seq(Message)
          /\ log' = log \/ log' = Append(log, m)
          /\ Len(log) <= Len(log')
      BY <2>4, <3>2, SendType DEF m
    <3>4. LogInv'
      <4>1. CASE log' = log
        BY <2>1, <3>1, <4>1, LogKept
      <4>2. CASE log' = Append(log, m)
        BY <2>1, <2>4, <3>1, <3>2, <4>2, LogGrows
      <4> QED
        BY <3>3, <4>1, <4>2
    <3>5. ThreadTypeOK' /\ ThreadsGrow
      <4>1. threads' \in Seq(Thread) /\ Len(threads') = Len(threads) /\ ThreadsGrow
        BY <3>1, UpdateThread
      <4> QED
        BY <2>1, <3>3, <4>1 DEF ThreadTypeOK
    <3> QED
      BY <2>1, <3>1, <3>4, <3>5, ThreadsKept
  <2> QED
    BY <1>4, <2>2, <2>3, <2>4 DEF ParseEnd
<1>5. CASE SendItem(t)
  <2> DEFINE p == th.sent + 1
             rec == [th EXCEPT !.sent = p]
             m == [ok |-> TRUE, thread |-> t, pos |-> p, count |-> th.parsed - p]
  <2>a. /\ threads' = [threads EXCEPT ![t] = rec]
        /\ th.pc = "send" /\ th.sent < th.parsed
        /\ prog' = prog /\ head' = head /\ phase' = phase
    BY <1>5 DEF SendItem, Remaining
  <2>b. Text(t).end = "eof" /\ th.parsed = Len(Text(t).items)
        /\ p \in Nat /\ p <= th.parsed
    BY <2>a DEF ThreadOK
  <2>c. /\ rec \in Thread /\ rec.file = th.file /\ rec.sent = p
        /\ rec.pc = th.pc /\ rec.parsed = th.parsed
    BY ZenonT(60), <2>b, CounterUpdate
  <2>d. ThreadOK(rec)
    <3> HIDE DEF rec
    <3> QED
      BY <2>a, <2>b, <2>c DEF ThreadOK
  <2>1. /\ threads' = [threads EXCEPT ![t] = rec]
        /\ rec \in Thread /\ ThreadOK(rec) /\ rec.file = th.file /\ rec.sent = p
        /\ th.pc = "send" /\ Text(t).end = "eof" /\ th.parsed = Len(Text(t).items)
        /\ p \in Nat /\ p <= th.parsed
        /\ prog' = prog /\ head' = head /\ phase' = phase
    BY <2>a, <2>b, <2>c, <2>d
  <2>2. /\ m \in Message /\ m.thread = t /\ m.ok /\ m.pos = p
        /\ m.count = Len(Text(t).items) - p
    <3>1. th.parsed - p \in Nat /\ t \in Nat \ {0}
      BY SMTT(60), <2>1
    <3> HIDE DEF p
    <3> QED
      BY <2>1, <3>1 DEF Message
  <2>3. Send(m)
    BY <1>5 DEF SendItem, Remaining
  <2> HIDE DEF rec, m, p
  <2>4. /\ log' \in Seq(Message)
        /\ log' = log \/ log' = Append(log, m)
        /\ Len(log) <= Len(log')
    BY <2>2, <2>3, SendType
  <2>5. LogInv'
    <3>1. CASE log' = Append(log, m)
      BY ZenonT(60), <2>1, <2>2, <3>1, LogGrows DEF p
    <3>2. CASE log' = log
      <4>1. /\ Len(threads') = Len(threads) /\ threads'[t] = rec
            /\ \A s \in 1..Len(threads) : /\ s # t => threads'[s] = threads[s]
                                          /\ prog[threads'[s].file] = Text(s)
        BY <2>1, UpdateThread DEF Text
      <4>2. \A i \in 1..Len(log) : log[i].thread \in 1..Len(threads)
        BY DEF LogInv, StreamsInOrder
      <4>3. rec.sent = th.sent + 1 /\ th.sent \in Nat
        BY <2>1 DEF p, Thread
      <4>4. \A i \in 1..Len(log) : log[i].ok =>
               log[i].pos \in 1..threads'[log[i].thread].sent
        BY SMTT(60), <4>1, <4>2, <4>3 DEF LogInv, StreamsInOrder
      <4>5. \A i \in 1..Len(log) : ~ log[i].ok => log[i].thread # t
        BY <2>1 DEF LogInv
      <4>6. StreamsInOrder'
        <5>1. DOMAIN threads' = DOMAIN threads
          BY <2>1
        <5>2. ASSUME NEW i \in 1..Len(log)
              PROVE  /\ log[i].thread \in DOMAIN threads'
                     /\ log[i].ok =>
                          /\ log[i].pos \in 1..threads'[log[i].thread].sent
                          /\ log[i].count = Len(prog[threads'[log[i].thread].file].items)
                                              - log[i].pos
                     /\ ~ log[i].ok => prog[threads'[log[i].thread].file].end = "error"
          <6>1. prog[threads'[log[i].thread].file] = Text(log[i].thread)
            BY Zenon, <4>1, <4>2
          <6> QED
            BY Zenon, <4>4, <5>1, <6>1 DEF LogInv, StreamsInOrder
        <5>3. \A i, j \in 1..Len(log) :
                 i < j /\ log[i].thread = log[j].thread =>
                    log[i].ok /\ log[j].ok /\ log[i].pos < log[j].pos
          BY DEF LogInv, StreamsInOrder
        <5> QED
          BY Zenon, <2>1, <3>2, <5>2, <5>3 DEF StreamsInOrder, Text
      <4> QED
        BY <2>1, <3>2, <4>1, <4>2, <4>5, <4>6 DEF LogInv, Text
    <3> QED
      BY <2>4, <3>1, <3>2
  <2>6. ThreadTypeOK' /\ ThreadsGrow
    <3>1. threads' \in Seq(Thread) /\ Len(threads') = Len(threads) /\ ThreadsGrow
      BY <2>1, UpdateThread
    <3> QED
      BY <2>1, <2>4, <3>1 DEF ThreadTypeOK
  <2> QED
    BY <2>1, <2>5, <2>6, ThreadsKept
<1>6. CASE Exit(t)
  <2> DEFINE rec == [th EXCEPT !.pc = "done"]
  <2>1. /\ threads' = [threads EXCEPT ![t] = rec]
        /\ rec \in Thread /\ ThreadOK(rec)
        /\ rec.file = th.file /\ rec.sent = th.sent /\ rec.pc = "done"
        /\ prog' = prog /\ log' = log /\ head' = head /\ phase' = phase
    BY <1>6 DEF Exit, Goto, Thread, ThreadPC, ThreadOK
  <2> HIDE DEF rec
  <2> QED
    BY <2>1, UpdateThread, LogKept, ThreadsKept DEF ThreadTypeOK
<1> QED
  BY <1>1, <1>2, <1>3, <1>4, <1>5, <1>6 DEF ThreadStep

-----------------------------------------------------------------------------
(* Steps of the main thread *)

\* The empty batch.
LEMMA EmptySequence ==
    ASSUME NEW S
    PROVE  <<>> \in Seq(S)
OBVIOUS

\* Nothing that threads or channel depend on changes.
LEMMA ThreadsStutter ==
    ASSUME ThreadInv, LogInv, UNCHANGED <<prog, threads, log>>
    PROVE  ThreadInv' /\ LogInv'
BY DEF ThreadInv, ThreadOK, LogInv, StreamsInOrder, Text

\* Parser threads do not touch what the main thread holds.
LEMMA DeclsKept ==
    ASSUME DeclsValid, FilesKnown, ThreadsGrow, ThreadTypeOK, ThreadTypeOK',
           UNCHANGED <<frames, batch, fileNames>>
    PROVE  DeclsValid' /\ FilesKnown'
<1>1. Len(threads) \in Nat /\ Len(threads') \in Nat
  BY DEF ThreadTypeOK
<1>2. \A t \in 1..Len(threads) : /\ t \in 1..Len(threads')
                                 /\ threads'[t].file = threads[t].file
  BY <1>1 DEF ThreadsGrow
<1>3. DeclsValid'
  BY <1>2 DEF DeclsValid
<1>4. FilesKnown'
  BY <1>2 DEF DeclsValid, FilesKnown, FileOf
<1> QED
  BY <1>3, <1>4

\* The step of visit_prog to its next declaration.
LEMMA AdvanceFrames ==
    ASSUME TypeOK, Walking, Advance
    PROVE  /\ frames' \in Seq(Frame)
           /\ frames' # <<>>
           /\ Len(frames') = Len(frames)
           /\ \A k \in 1..Len(frames) : frames'[k].items = frames[k].items
<1>1. frames \in Seq(Frame) /\ frames # <<>> /\ Len(frames) \in 1..Len(frames)
  BY DEF TypeOK, Walking
<1> DEFINE n == Len(frames)
           f == frames[n]
           new == [f EXCEPT !.at = @ + 1]
<1>2. f \in Frame /\ f.at \in Nat
  <2>1. f \in Frame
    BY <1>1
  <2> QED
    BY <2>1 DEF Frame
<1>3. new \in Frame /\ new.items = f.items
  BY <1>2 DEF Frame
<1>4. frames' = [frames EXCEPT ![n] = new]
  BY DEF Advance
<1> HIDE DEF new, f
<1>5. frames' \in Seq(Frame) /\ Len(frames') = Len(frames) /\ frames'[n] = new
      /\ \A k \in 1..Len(frames) : k # n => frames'[k] = frames[k]
  BY <1>1, <1>3, <1>4
<1>6. \A k \in 1..Len(frames) : frames'[k].items = frames[k].items
  BY <1>3, <1>5 DEF f
<1> QED
  BY <1>1, <1>5, <1>6

\* push_error keeps a failed check visible.
LEMMA PushError ==
    ASSUME PoisonInv, NEW E, push_error(E), poisoned' = poisoned
    PROVE  PoisonInv'
BY DEF PoisonInv, ErrorsNotLost, push_error

\* What the visits of functions, consts, types, traits and impls have in
\* common, an import included.
LEMMA VisitInv ==
    ASSUME IInv, Walking, Advance, PoisonInv',
           UNCHANGED <<threadVars, fileNames, poisoned, imported>>,
           DOMAIN scope' = DOMAIN scope,
           receiving' \in BOOLEAN,
           batch' = batch \/ batch' = <<>>
    PROVE  IInv'
<1>1. /\ frames' \in Seq(Frame) /\ frames' # <<>>
      /\ Len(frames') = Len(frames)
      /\ \A k \in 1..Len(frames) : frames'[k].items = frames[k].items
  BY AdvanceFrames DEF IInv
<1>2. batch' \in Seq(Decl)
  BY EmptySequence DEF IInv, TypeOK
<1>3. ThreadTypeOK'
  BY DEF IInv, TypeOK, ThreadTypeOK, threadVars
<1>4. TypeOK'
  BY <1>1, <1>2, <1>3 DEF IInv, TypeOK, threadVars
<1>5. ThreadInv' /\ LogInv'
  BY ThreadsStutter DEF IInv, threadVars
<1>6. DeclsValid'
  BY <1>1 DEF IInv, DeclsValid, threadVars
<1>7. FilesKnown'
  BY <1>1 DEF IInv, FilesKnown, FileOf, threadVars
<1>8. RootInv'
  BY DEF IInv, RootInv, threadVars, Walking
<1> QED
  BY <1>4, <1>5, <1>6, <1>7, <1>8 DEF IInv

\* The end of a receive loop: the batch becomes a new frame.
LEMMA EnterBatchInv ==
    ASSUME IInv, NEW b \in Seq(Decl), phase = "check",
           UNCHANGED <<prog, threads, log, phase, poisoned, errors, detected, imported>>,
           head' \in 0..Len(log),
           fileNames \subseteq fileNames', fileNames' \subseteq File,
           EnterBatch(b, fileNames'),
           \A i \in 1..Len(b) : /\ b[i].thread \in 1..Len(threads)
                                /\ FileOf(b[i]) \in fileNames'
    PROVE  IInv'
<1> DEFINE new == [items |-> b, at |-> 0]
<1>1. new \in Frame /\ new.items = b
  BY DEF Frame
<1> HIDE DEF new
<1>2. frames' = Append(frames, new) /\ batch' = <<>> /\ receiving' = FALSE
      /\ DOMAIN scope' = fileNames'
  BY DEF EnterBatch, add_file_scopes, new
<1>3. /\ frames \in Seq(Frame) /\ frames' \in Seq(Frame)
      /\ Len(frames') = Len(frames) + 1
      /\ frames'[Len(frames) + 1] = new
      /\ \A k \in 1..Len(frames) : frames'[k] = frames[k]
      /\ frames' # <<>>
  BY <1>1, <1>2 DEF IInv, TypeOK
<1>4. ThreadTypeOK'
  BY DEF IInv, TypeOK, ThreadTypeOK
<1>5. TypeOK'
  <2>1. batch' \in Seq(Decl)
    BY <1>2, EmptySequence
  <2> QED
    BY <1>2, <1>3, <1>4, <2>1 DEF IInv, TypeOK
<1>6. ThreadInv' /\ LogInv'
  BY ThreadsStutter DEF IInv
<1>7. DeclsValid'
  BY <1>1, <1>2, <1>3 DEF IInv, DeclsValid
<1>8. FilesKnown'
  BY <1>1, <1>2, <1>3 DEF IInv, FilesKnown, FileOf
<1>9. PoisonInv'
  BY DEF IInv, PoisonInv, ErrorsNotLost
<1>10. RootInv'
  BY DEF IInv, RootInv
<1> QED
  BY <1>5, <1>6, <1>7, <1>8, <1>9, <1>10 DEF IInv

\* One more declaration in the batch: its thread exists and its file has just
\* been registered.
LEMMA BlobFacts ==
    ASSUME IInv, head < Len(log), log[head + 1].ok,
           fileNames' = Registered(BlobDecl(log[head + 1]))
    PROVE  LET d == BlobDecl(log[head + 1])
               b == Append(batch, d)
           IN  /\ head + 1 \in 0..Len(log)
               /\ d \in Decl
               /\ FileOf(d) \in fileNames'
               /\ b \in Seq(Decl)
               /\ fileNames \subseteq fileNames' /\ fileNames' \subseteq File
               /\ \A i \in 1..Len(b) : /\ b[i].thread \in 1..Len(threads)
                                       /\ FileOf(b[i]) \in fileNames'
<1> DEFINE m == log[head + 1]
           d == BlobDecl(m)
           b == Append(batch, d)
<1>1. head + 1 \in 1..Len(log)
  BY DEF IInv, TypeOK, ThreadTypeOK
<1>2. m \in Message /\ m.thread \in 1..Len(threads) /\ m.pos \in 1..threads[m.thread].sent
  BY <1>1 DEF IInv, LogInv, StreamsInOrder, TypeOK, ThreadTypeOK
<1>3. d \in Decl /\ d.thread = m.thread
  BY <1>2 DEF BlobDecl, Decl, Message
<1>4. FileOf(d) \in File
  BY <1>2, <1>3, TextType DEF FileOf, IInv, TypeOK, Thread
<1>5. /\ FileOf(d) \in fileNames'
      /\ fileNames \subseteq fileNames' /\ fileNames' \subseteq File
  BY <1>4 DEF Registered, IInv, TypeOK
<1> HIDE DEF d
<1>6. /\ batch \in Seq(Decl) /\ b \in Seq(Decl) /\ Len(b) = Len(batch) + 1
      /\ b[Len(batch) + 1] = d
      /\ \A i \in 1..Len(batch) : b[i] = batch[i]
  BY <1>3 DEF IInv, TypeOK
<1> HIDE DEF b
<1>7. \A i \in 1..Len(b) : b[i].thread \in 1..Len(threads) /\ FileOf(b[i]) \in fileNames'
  BY <1>2, <1>3, <1>5, <1>6 DEF IInv, DeclsValid, FilesKnown
<1>8. head + 1 \in 0..Len(log)
  BY <1>1 DEF IInv, TypeOK, ThreadTypeOK
<1> QED
  BY <1>3, <1>5, <1>6, <1>7, <1>8 DEF d, b

\* The parse errors and the closed channel leave the batch as it is.
LEMMA RecvStopInv ==
    ASSUME IInv, phase = "check", EnterBatch(batch, fileNames),
           UNCHANGED <<prog, threads, log, phase, fileNames, poisoned, errors,
                       detected, imported>>,
           head' \in 0..Len(log)
    PROVE  IInv'
<1>1. batch \in Seq(Decl)
  BY DEF IInv, TypeOK
<1>2. fileNames \subseteq fileNames' /\ fileNames' \subseteq File
  BY DEF IInv, TypeOK
<1>3. EnterBatch(batch, fileNames')
  BY DEF EnterBatch
<1>4. \A i \in 1..Len(batch) : /\ batch[i].thread \in 1..Len(threads)
                               /\ FileOf(batch[i]) \in fileNames'
  BY DEF IInv, DeclsValid, FilesKnown
<1> QED
  BY <1>1, <1>2, <1>3, <1>4, EnterBatchInv

\* One blob taken from the channel.
LEMMA RecvBlobInv ==
    ASSUME IInv, recv_blob
    PROVE  IInv'
<1> DEFINE m == log[head + 1]
           d == BlobDecl(m)
           b == Append(batch, d)
<1>1. /\ phase = "check" /\ head < Len(log) /\ m.ok /\ head' = head + 1
      /\ fileNames' = Registered(d)
      /\ UNCHANGED <<prog, threads, log, phase, errors, poisoned, imported, detected>>
  BY DEF recv_blob
<1>2. /\ head' \in 0..Len(log) /\ d \in Decl /\ b \in Seq(Decl)
      /\ fileNames \subseteq fileNames' /\ fileNames' \subseteq File
      /\ FileOf(d) \in fileNames'
      /\ \A i \in 1..Len(b) : /\ b[i].thread \in 1..Len(threads)
                              /\ FileOf(b[i]) \in fileNames'
  BY <1>1, BlobFacts
<1>3. CASE EnterBatch(b, fileNames')
  BY <1>1, <1>2, <1>3, EnterBatchInv
<1>4. CASE /\ batch' = b /\ scope' = add_file_scope(scope, FileOf(d))
           /\ UNCHANGED <<frames, receiving>>
  <2>1. DOMAIN scope' = fileNames'
    BY <1>1, <1>4 DEF add_file_scope, Registered, IInv, TypeOK
  <2> HIDE DEF b, d, m
  <2>2. ThreadTypeOK'
    BY <1>1, <1>2 DEF IInv, TypeOK, ThreadTypeOK
  <2>3. TypeOK'
    BY <1>1, <1>2, <1>4, <2>1, <2>2 DEF IInv, TypeOK
  <2>4. ThreadInv' /\ LogInv'
    BY <1>1, ThreadsStutter DEF IInv
  <2>5. DeclsValid'
    BY <1>1, <1>2, <1>4 DEF IInv, DeclsValid
  <2>6. FilesKnown'
    BY <1>1, <1>2, <1>4 DEF IInv, FilesKnown, FileOf
  <2>7. PoisonInv'
    BY <1>1 DEF IInv, PoisonInv, ErrorsNotLost
  <2>8. RootInv'
    BY <1>1 DEF IInv, RootInv
  <2> QED
    BY <2>3, <2>4, <2>5, <2>6, <2>7, <2>8 DEF IInv
<1> QED
  BY <1>3, <1>4 DEF recv_blob

\* A call of visit_prog ends; if its last statement left the report poisoned,
\* that statement has put an error into it.
LEMMA CheckBodiesInv ==
    ASSUME IInv, check_bodies
    PROVE  IInv'
<1> DEFINE n == Len(frames)
           items == Top.items
<1>1. /\ phase = "check" /\ frames' = SubSeq(frames, 1, n - 1)
      /\ UNCHANGED <<prog, threads, log, head, receiving, batch, fileNames, scope>>
      /\ poisoned' \in PoisonAfter(items)
  BY DEF check_bodies
<1>2. frames \in Seq(Frame) /\ n \in Nat \ {0} /\ Top \in Frame
  <2>1. frames \in Seq(Frame) /\ frames # <<>>
    BY <1>1 DEF IInv, TypeOK
  <2>2. n \in Nat \ {0}
    BY <2>1
  <2> QED
    BY <2>1, <2>2 DEF Top
<1>3. /\ frames' \in Seq(Frame) /\ Len(frames') = n - 1
      /\ \A k \in 1..Len(frames') : frames'[k] = frames[k] /\ k \in 1..n
  <2>1. \A k \in 1..(n - 1) : frames[k] \in Frame
    BY <1>2
  <2>2. 1 \in Int /\ n - 1 \in Int
    BY <1>2
  <2> HIDE DEF n
  <2> QED
    BY <1>1, <1>2, <2>1, <2>2, SubSeqProperties
<1>4. items \in Seq(Decl)
  BY <1>2 DEF Frame
<1> HIDE DEF items
<1>5. imported' \in Seq(Decl)
  <2>1. imported \in Seq(Decl)
    BY DEF IInv, TypeOK
  <2>2. imported \o items \in Seq(Decl)
    BY <1>4, <2>1, ConcatProperties
  <2>3. imported' = imported \/ imported' = imported \o items
    BY DEF check_bodies, items
  <2> QED
    BY <2>1, <2>2, <2>3
<1>6. PoisonInv'
  <2>1. poisoned' \in BOOLEAN
    BY <1>1 DEF PoisonAfter, IInv, TypeOK
  <2>2. \/ poisoned' = poisoned
        \/ poisoned' => FailedLookups(items) # {}
    <3>1. CASE LastBodies(items) = {}
      BY <1>1, <3>1 DEF PoisonAfter
    <3>2. CASE LastBodies(items) # {} /\ poisoned'
      <4>1. PICK d \in LastBodies(items) : \E u \in ItemOf(d).uses : u \notin names["global"]
        BY <1>1, <3>2 DEF PoisonAfter
      <4>2. PICK u \in ItemOf(d).uses : u \notin names["global"]
        BY <4>1
      <4>3. d \in Bodies(items)
        BY DEF LastBodies
      <4> DEFINE st == [file |-> FileOf(d), name |-> u]
      <4>4. st \in Statements(items)
        BY <4>2, <4>3 DEF Statements
      <4>5. ~ Declared(st)
        BY <4>2 DEF Declared
      <4> QED
        BY <4>4, <4>5 DEF FailedLookups
    <3> QED
      BY <3>1, <3>2
  <2>3. /\ errors \cup FailedLookups(items) \subseteq errors'
        /\ ~ poisoned' => detected' \subseteq detected \cup errors'
    BY DEF check_bodies, LookupErrors, items
  <2> QED
    BY <2>1, <2>2, <2>3 DEF IInv, PoisonInv, ErrorsNotLost
<1>7. phase' \in Phase /\ (phase' = "check" => frames' # <<>>) /\ poisoned' \in BOOLEAN
  <2>1. phase' \in Phase
    BY <1>1 DEF check_bodies, Phase
  <2>2. phase' = "check" => n > 1
    BY <1>1 DEF check_bodies
  <2>3. poisoned' \in BOOLEAN
    BY <1>1 DEF PoisonAfter, IInv, TypeOK
  <2> QED
    BY <1>2, <1>3, <2>1, <2>2, <2>3
<1>8. TypeOK'
  <2>1. ThreadTypeOK'
    BY <1>1, <1>7 DEF IInv, TypeOK, ThreadTypeOK
  <2> QED
    BY <1>1, <1>3, <1>5, <1>7, <2>1 DEF IInv, TypeOK
<1>9. ThreadInv' /\ LogInv'
  BY <1>1, ThreadsStutter DEF IInv
<1>10. DeclsValid'
  BY <1>1, <1>3 DEF IInv, DeclsValid
<1>11. FilesKnown'
  BY <1>1, <1>3 DEF IInv, FilesKnown, FileOf
<1>12. RootInv'
  BY <1>1 DEF IInv, RootInv, check_bodies
<1> QED
  BY <1>6, <1>8, <1>9, <1>10, <1>11, <1>12 DEF IInv

\* The root parser hands its items over.
LEMMA RootParsedInv ==
    ASSUME IInv, RootParsed
    PROVE  IInv'
<1> DEFINE th == threads[1]
           rec == [th EXCEPT !.pc = "done"]
<1>1. /\ 1 \in 1..Len(threads) /\ th \in Thread /\ ThreadOK(th)
      /\ ThreadTypeOK /\ ThreadInv /\ LogInv
  <2>1. 1 \in 1..Len(threads)
    BY DEF IInv, TypeOK, ThreadTypeOK
  <2> QED
    BY <2>1, TextType DEF IInv, TypeOK, ThreadInv
<1>2. /\ threads' = [threads EXCEPT ![1] = rec]
      /\ UNCHANGED <<prog, log, head, receiving, batch, errors, poisoned, imported, detected>>
      /\ phase' \in Phase
  BY DEF RootParsed, Goto, Phase
<1>3. /\ rec \in Thread /\ rec.file = th.file /\ rec.sent = th.sent /\ rec.pc = "done"
      /\ ThreadOK(rec)
  BY <1>1 DEF Thread, ThreadPC, ThreadOK
<1> HIDE DEF rec
<1>4. /\ threads' \in Seq(Thread) /\ Len(threads') = Len(threads)
      /\ ThreadsGrow /\ threads'[1].file = th.file
  BY <1>1, <1>2, <1>3, UpdateThread
<1>5. ThreadInv' /\ LogInv'
  BY <1>1, <1>2, <1>3, LogKept, ThreadsKept
<1>6. ThreadTypeOK'
  BY <1>1, <1>2, <1>4 DEF ThreadTypeOK
<1>7. PoisonInv'
  BY <1>2 DEF IInv, PoisonInv, ErrorsNotLost
<1>r. threads'[1].file = Root /\ batch = <<>> /\ batch' = <<>>
  BY <1>2, <1>4 DEF IInv, RootInv, RootParsed
<1>8. CASE UNCHANGED <<frames, fileNames, scope>> /\ phase' # "check"
  <2>1. DeclsValid' /\ FilesKnown'
    BY <1>1, <1>2, <1>4, <1>6, <1>8, DeclsKept DEF IInv
  <2>2. TypeOK'
    BY <1>2, <1>6, <1>8 DEF IInv, TypeOK
  <2>3. RootInv'
    BY <1>r DEF RootInv
  <2> QED
    BY <1>5, <1>7, <2>1, <2>2, <2>3 DEF IInv
<1>9. CASE /\ phase' = "check"
           /\ frames' = <<[items |-> RootItems, at |-> 0]>>
           /\ fileNames' = {Root}
           /\ scope' = add_file_scopes({Root})
  <2> DEFINE new == [items |-> RootItems, at |-> 0]
  <2>1. /\ RootItems \in Seq(Decl)
        /\ \A i \in 1..Len(RootItems) : RootItems[i].thread = 1
    <3>1. th.parsed \in Nat
      BY <1>1 DEF Thread
    <3> DEFINE n == th.parsed
    <3>2. \A p \in 1..n : [thread |-> 1, pos |-> p] \in Decl
      BY <3>1 DEF Decl
    <3> HIDE DEF n
    <3>3. [p \in 1..n |-> [thread |-> 1, pos |-> p]] \in [1..n -> Decl]
      BY <3>2
    <3>4. RootItems = [p \in 1..n |-> [thread |-> 1, pos |-> p]]
      BY DEF RootItems, n
    <3>5. n \in Nat
      BY <3>1 DEF n
    <3>6. RootItems \in Seq(Decl) /\ Len(RootItems) = n
      BY <3>3, <3>4, <3>5, SeqDef
    <3>7. \A i \in 1..n : RootItems[i].thread = 1
      BY <3>4
    <3> QED
      BY <3>6, <3>7
  <2>2. new \in Frame /\ new.items = RootItems
    BY <2>1 DEF Frame
  <2>3. frames' = <<new>>
    BY <1>9
  <2> HIDE DEF new
  <2>4. /\ frames' \in Seq(Frame) /\ frames' # <<>> /\ Len(frames') = 1
        /\ frames'[1] = new
    BY <2>2, <2>3
  <2>5. DOMAIN scope' = fileNames' /\ fileNames' \subseteq File
    BY <1>9, ConstantsAssumption DEF add_file_scopes
  <2>6. TypeOK'
    BY <1>2, <1>6, <2>4, <2>5 DEF IInv, TypeOK
  <2>7. DeclsValid'
    BY <1>1, <1>4, <1>r, <2>1, <2>2, <2>4 DEF DeclsValid
  <2>8. FilesKnown'
    BY <1>9, <1>r, <2>1, <2>2, <2>4 DEF FilesKnown, FileOf
  <2>9. RootInv'
    BY <1>r DEF RootInv
  <2> QED
    BY <1>5, <1>7, <2>6, <2>7, <2>8, <2>9 DEF IInv
<1> QED
  BY <1>8, <1>9 DEF RootParsed

\* The visits keep the invariant, each with the errors it pushes.
LEMMA VisitsInv ==
    ASSUME IInv,
           visit_func \/ visit_const \/ visit_adt \/ visit_trait \/ visit_impl \/ visit_import
    PROVE  IInv'
<1>1. CASE visit_import
  <2>1. PoisonInv'
    BY <1>1 DEF visit_import, IInv, PoisonInv, ErrorsNotLost
  <2> QED
    BY <1>1, <2>1, VisitInv DEF visit_import, Visit
<1>2. CASE visit_func
  <2>1. PoisonInv'
    BY <1>2, PushError DEF visit_func, IInv
  <2> QED
    BY <1>2, <2>1, VisitInv DEF visit_func, Visit, add_decl, IInv, TypeOK
<1>3. CASE visit_const
  <2>1. PoisonInv'
    BY <1>3, PushError DEF visit_const, IInv
  <2> QED
    BY <1>3, <2>1, VisitInv DEF visit_const, Visit, add_decl, IInv, TypeOK
<1>4. CASE visit_adt
  <2>1. PoisonInv'
    BY <1>4, PushError DEF visit_adt, IInv
  <2> QED
    BY <1>4, <2>1, VisitInv DEF visit_adt, Visit, add_decl, IInv, TypeOK
<1>5. CASE visit_trait
  <2>1. PoisonInv'
    BY <1>5, PushError DEF visit_trait, IInv
  <2> QED
    BY <1>5, <2>1, VisitInv DEF visit_trait, Visit, add_decl, IInv, TypeOK
<1>6. CASE visit_impl
  <2>1. PoisonInv'
    BY <1>6, PushError DEF visit_impl, IInv
  <2> QED
    BY <1>6, <2>1, VisitInv DEF visit_impl, Visit, add_decl, IInv, TypeOK
<1> QED
  BY <1>1, <1>2, <1>3, <1>4, <1>5, <1>6

-----------------------------------------------------------------------------
(* The theorems *)

\* Initially one thread, no message, no frame.
LEMMA InitInv ==
    ASSUME Init
    PROVE  IInv
<1> DEFINE th == [NewThread(Root, 0, 0) EXCEPT !.pc = "parse"]
<1>1. /\ th \in Thread /\ th.sent = 0 /\ th.parsed = 0 /\ th.pc = "parse"
      /\ th.file = Root
  BY ConstantsAssumption DEF NewThread, Thread, ThreadPC
<1>2. threads = <<th>> /\ prog \in Programs /\ log = <<>> /\ head = 0 /\ phase = "parse"
  BY DEF Init, ThreadInit
<1> HIDE DEF th
<1>3. threads \in Seq(Thread) /\ Len(threads) = 1 /\ threads[1] = th
  BY <1>1, <1>2
<1>4. Len(prog[Root].items) \in Nat
  <2>1. prog[Root] \in FileText
    BY <1>2, ConstantsAssumption
  <2> QED
    BY <2>1 DEF FileText
<1>5. ThreadTypeOK
  BY <1>2, <1>3, EmptySequence, ConstantsAssumption DEF ThreadTypeOK, Phase
<1>6. TypeOK
  BY <1>2, <1>5, EmptySequence DEF Init, TypeOK
<1>7. ThreadInv
  BY <1>1, <1>3, <1>4 DEF ThreadInv, ThreadOK
<1>8. LogInv /\ DeclsValid /\ FilesKnown /\ PoisonInv
  BY <1>2 DEF Init, LogInv, StreamsInOrder, DeclsValid, FilesKnown, PoisonInv, ErrorsNotLost
<1>9. RootInv
  BY <1>1, <1>3 DEF RootInv, Init
<1> QED
  BY <1>6, <1>7, <1>8, <1>9 DEF IInv

\* Every step of every thread keeps the invariant.
LEMMA NextInv ==
    ASSUME IInv, [Next]_vars
    PROVE  IInv'
<1>1. CASE UNCHANGED vars
  <2>1. UNCHANGED <<prog, threads, log, head, phase>> /\ UNCHANGED checkVars
    BY <1>1 DEF vars, threadVars
  <2>2. ThreadInv' /\ LogInv'
    BY <2>1, ThreadsStutter DEF IInv
  <2>3. ThreadTypeOK'
    BY <2>1 DEF IInv, TypeOK, ThreadTypeOK
  <2>4. TypeOK' /\ RootInv'
    BY <2>1, <2>3 DEF IInv, TypeOK, checkVars, RootInv
  <2>5. DeclsValid' /\ FilesKnown' /\ PoisonInv'
    BY <2>1 DEF IInv, DeclsValid, FilesKnown, FileOf, PoisonInv, ErrorsNotLost, checkVars
  <2> QED
    BY <2>2, <2>4, <2>5 DEF IInv
<1>2. ASSUME NEW t \in DOMAIN threads, Parse(t)
      PROVE  IInv'
  <2>1. t \in 1..Len(threads) /\ ThreadTypeOK
    BY DEF IInv, TypeOK, ThreadTypeOK
  <2>2. ThreadTypeOK' /\ ThreadInv' /\ LogInv' /\ ThreadsGrow
    BY <1>2, <2>1, ThreadStepInv DEF Parse, IInv
  <2>3. UNCHANGED <<frames, receiving, batch, fileNames, scope, errors, poisoned,
                    imported, detected>>
    BY <1>2 DEF Parse, checkVars
  <2>4. phase' = phase
    BY <1>2 DEF Parse, ThreadStep, ReadFile, ParseItem, ParseImport, ParseEnd, SendItem, Remaining, Exit
  <2>5. DeclsValid' /\ FilesKnown'
    BY <2>1, <2>2, <2>3, DeclsKept DEF IInv
  <2>6. TypeOK'
    BY <2>2, <2>3, <2>4 DEF IInv, TypeOK
  <2>7. RootInv'
    <3>1. 1 \in 1..Len(threads)
      BY <2>1 DEF ThreadTypeOK
    <3> QED
      BY <2>2, <2>3, <2>4, <3>1 DEF IInv, RootInv, ThreadsGrow
  <2>8. PoisonInv'
    BY <2>3 DEF IInv, PoisonInv, ErrorsNotLost
  <2> QED
    BY <2>2, <2>5, <2>6, <2>7, <2>8 DEF IInv
<1>3. CASE RootParsed
  BY <1>3, RootParsedInv
<1>4. CASE visit_func \/ visit_const \/ visit_adt \/ visit_trait \/ visit_impl \/ visit_import
  BY <1>4, VisitsInv
<1>5. CASE recv_blob
  BY <1>5, RecvBlobInv
<1>6. CASE recv_error
  <2>1. head' \in 0..Len(log)
    BY <1>6 DEF recv_error, IInv, TypeOK, ThreadTypeOK
  <2> QED
    BY <1>6, <2>1, RecvStopInv DEF recv_error
<1>7. CASE recv_closed
  <2>1. head' \in 0..Len(log)
    BY <1>7 DEF recv_closed, IInv, TypeOK, ThreadTypeOK, threadVars
  <2> QED
    BY <1>7, <2>1, RecvStopInv DEF recv_closed, threadVars
<1>8. CASE check_bodies
  BY <1>8, CheckBodiesInv
<1>9. CASE lower_items
  <2>1. UNCHANGED <<prog, threads, log, head>> /\ UNCHANGED checkVars
        /\ phase' = "done"
    BY <1>9 DEF lower_items
  <2>2. ThreadInv' /\ LogInv'
    BY <2>1, ThreadsStutter DEF IInv
  <2>3. ThreadTypeOK'
    BY <2>1 DEF IInv, TypeOK, ThreadTypeOK, Phase
  <2>4. TypeOK' /\ RootInv'
    BY <2>1, <2>3 DEF IInv, TypeOK, checkVars, RootInv
  <2>5. DeclsValid' /\ FilesKnown' /\ PoisonInv'
    BY <2>1 DEF IInv, DeclsValid, FilesKnown, FileOf, PoisonInv, ErrorsNotLost, checkVars
  <2> QED
    BY <2>2, <2>4, <2>5 DEF IInv
<1> QED
  BY <1>1, <1>2, <1>3, <1>4, <1>5, <1>6, <1>7, <1>8, <1>9 DEF Next, MainStep

\* The inductive invariant holds in every reachable state.
THEOREM Invariance == Spec => []IInv
<1>1. Init => IInv
  BY InitInv
<1>2. IInv /\ [Next]_vars => IInv'
  BY NextInv
<1> QED
  BY <1>1, <1>2, PTL DEF Spec

\* The state of threads, channel and type checker keeps its types.
THEOREM TypeCorrect == Spec => []TypeOK
<1>1. IInv => TypeOK
  BY DEF IInv
<1> QED
  BY <1>1, Invariance, PTL

\* Whatever the interleaving of any number of parser threads, what a thread
\* sends arrives in file order with the right count of what is to come, and of
\* a file that does not parse nothing arrives but one error.
THEOREM StreamsStayInOrder == Spec => []StreamsInOrder
<1>1. IInv => StreamsInOrder
  BY DEF IInv, LogInv
<1> QED
  BY <1>1, Invariance, PTL

\* error_with_span never meets a file it does not know.
THEOREM FilesAlwaysKnown == Spec => []FilesKnown
<1>1. IInv => FilesKnown
  BY DEF IInv
<1> QED
  BY <1>1, Invariance, PTL

\* A program in which some check failed is not accepted, poisoned or not.
THEOREM NoErrorLost == Spec => []ErrorsNotLost
<1>1. IInv => ErrorsNotLost
  BY DEF IInv, PoisonInv
<1> QED
  BY <1>1, Invariance, PTL

-----------------------------------------------------------------------------
(* The places a received declaration can be in *)

\* The lists that hold them: the batch, imported_items and the items of the
\* active calls of visit_prog, but for the first, which has the root's.
Slot(b, im, fr, k) == IF k = 0 THEN b ELSE IF k = 1 THEN im ELSE fr[k].items

Slots(fr) == {0, 1} \cup 2..Len(fr)

\* The declarations of the first h messages.
Got(lg, h) == {BlobDecl(lg[i]) : i \in {j \in 1..h : lg[j].ok}}

Somewhere(b, im, fr, d) ==
    \E k \in Slots(fr) : \E i \in 1..Len(Slot(b, im, fr, k)) : Slot(b, im, fr, k)[i] = d

\* What the lists hold is what has been received, and nothing is held twice.
PlacesOK(b, im, fr, lg, h) ==
    /\ \A d \in Got(lg, h) : Somewhere(b, im, fr, d)
    /\ \A k \in Slots(fr) : \A i \in 1..Len(Slot(b, im, fr, k)) :
         Slot(b, im, fr, k)[i] \in Got(lg, h)
    /\ \A k, l \in Slots(fr) :
         \A i \in 1..Len(Slot(b, im, fr, k)), j \in 1..Len(Slot(b, im, fr, l)) :
           Slot(b, im, fr, k)[i] = Slot(b, im, fr, l)[j] => k = l /\ i = j
    /\ \A k \in Slots(fr) : k # 1 => Len(Slot(b, im, fr, k)) <= h

OnceInv ==
    /\ PlacesOK(batch, imported, frames, log, head)
    /\ receiving \/ batch = <<>>
    /\ phase = "parse" => head = 0 /\ frames = <<>> /\ imported = <<>> /\ ~ receiving

-----------------------------------------------------------------------------
(* What visit_prog waits at, and what is in scope *)

ItemAt(p, th, d) == p[th[d.thread].file].items[d.pos]

\* A call of visit_prog that waits, for the recv() loop or for the call inside
\* it, waits at an import.
WaitsOK(p, th, fr, rcv) ==
    \A k \in 1..Len(fr) :
        /\ fr[k].at <= Len(fr[k].items)
        /\ k < Len(fr) \/ rcv =>
             fr[k].at # 0 /\ IsImport(ItemAt(p, th, fr[k].items[fr[k].at]))

\* HeadersSinceLastImport, of the call f.
InScope(p, th, f, sc) ==
    \A k \in 1..f.at :
        /\ ItemAt(p, th, f.items[k]).kind \in {"func", "const", "struct", "enum"}
        /\ \A j \in k..f.at : ~ IsImport(ItemAt(p, th, f.items[j]))
        => ItemAt(p, th, f.items[k]).name \in sc[th[f.items[k].thread].file]

HeadersInv ==
    /\ WaitsOK(prog, threads, frames, receiving)
    /\ phase = "check" /\ ~ receiving => InScope(prog, threads, Top, scope)

-----------------------------------------------------------------------------
(* How the places change *)

\* Lists of the same contents.
LEMMA PlacesSame ==
    ASSUME NEW b, NEW im, NEW fr, NEW lg, NEW h, PlacesOK(b, im, fr, lg, h),
           NEW fr2, Slots(fr2) = Slots(fr), \A k \in 2..Len(fr) : fr2[k].items = fr[k].items,
           Len(fr) \in Nat
    PROVE  PlacesOK(b, im, fr2, lg, h)
<1>2. \A k \in Slots(fr) : Slot(b, im, fr2, k) = Slot(b, im, fr, k)
  BY DEF Slots, Slot
<1>3. \A d : Somewhere(b, im, fr, d) <=> Somewhere(b, im, fr2, d)
  BY <1>2 DEF Somewhere
<1> QED
  BY <1>2, <1>3 DEF PlacesOK

\* The channel grows behind the cursor.
LEMMA PlacesLog ==
    ASSUME NEW b, NEW im, NEW fr, NEW lg, NEW h, PlacesOK(b, im, fr, lg, h),
           NEW lg2, \A i \in 1..h : lg2[i] = lg[i]
    PROVE  PlacesOK(b, im, fr, lg2, h)
<1>1. Got(lg2, h) = Got(lg, h)
  BY DEF Got
<1> QED
  BY <1>1 DEF PlacesOK

\* The received declarations after one more message.
LEMMA GotMore ==
    ASSUME NEW lg, NEW h \in Nat
    PROVE  /\ lg[h + 1].ok => Got(lg, h + 1) = Got(lg, h) \cup {BlobDecl(lg[h + 1])}
           /\ ~ lg[h + 1].ok => Got(lg, h + 1) = Got(lg, h)
<1>1. \A i \in 1..(h + 1) : i \in 1..h \/ i = h + 1
  OBVIOUS
<1>2. \A i \in 1..h : i \in 1..(h + 1)
  OBVIOUS
<1>3. h + 1 \in 1..(h + 1)
  OBVIOUS
<1> DEFINE n == h + 1
<1> HIDE DEF n
<1> QED
  BY <1>1, <1>2, <1>3 DEF Got, n

\* An error is received, and dropped.
LEMMA PlacesSkip ==
    ASSUME NEW b, NEW im, NEW fr, NEW lg, NEW h \in Nat, PlacesOK(b, im, fr, lg, h),
           ~ lg[h + 1].ok,
           \A k \in Slots(fr) : Len(Slot(b, im, fr, k)) \in Nat
    PROVE  PlacesOK(b, im, fr, lg, h + 1)
<1>1. Got(lg, h + 1) = Got(lg, h)
  BY GotMore
<1>2. \A k \in Slots(fr) : k # 1 => Len(Slot(b, im, fr, k)) <= h + 1
  BY DEF PlacesOK
<1> QED
  BY <1>1, <1>2 DEF PlacesOK

\* A blob is received and put into the batch.
LEMMA PlacesAppend ==
    ASSUME NEW b \in Seq(Decl), NEW im, NEW fr, NEW lg, NEW h \in Nat,
           PlacesOK(b, im, fr, lg, h), lg[h + 1].ok,
           NEW d \in Decl, d = BlobDecl(lg[h + 1]), d \notin Got(lg, h),
           \A k \in Slots(fr) : Len(Slot(b, im, fr, k)) \in Nat
    PROVE  PlacesOK(Append(b, d), im, fr, lg, h + 1)
<1> DEFINE c == Append(b, d)
           S(k) == Slot(b, im, fr, k)
           T(k) == Slot(c, im, fr, k)
           n == Len(b)
<1>1. Got(lg, h + 1) = Got(lg, h) \cup {d}
  BY GotMore
<1>2. /\ n \in Nat /\ Len(c) = n + 1 /\ c[n + 1] = d
      /\ \A i \in 1..n : c[i] = b[i] /\ i \in 1..(n + 1)
      /\ \A i \in 1..(n + 1) : i \in 1..n \/ i = n + 1
      /\ n + 1 \in 1..(n + 1)
  OBVIOUS
<1>3. T(0) = c /\ S(0) = b /\ 0 \in Slots(fr) /\ \A k : k # 0 => T(k) = S(k)
  BY DEF Slot, Slots
<1>4. /\ \A e \in Got(lg, h) : Somewhere(b, im, fr, e)
      /\ \A k \in Slots(fr) : \A i \in 1..Len(S(k)) : S(k)[i] \in Got(lg, h)
      /\ \A k, l \in Slots(fr) : \A i \in 1..Len(S(k)), j \in 1..Len(S(l)) :
           S(k)[i] = S(l)[j] => k = l /\ i = j
      /\ \A k \in Slots(fr) : k # 1 => Len(S(k)) <= h
      /\ \A k \in Slots(fr) : Len(S(k)) \in Nat
  BY DEF PlacesOK
<1>5. \A e : Somewhere(b, im, fr, e) <=> \E k \in Slots(fr) : \E i \in 1..Len(S(k)) : S(k)[i] = e
  BY DEF Somewhere
<1>6. \A e : Somewhere(c, im, fr, e) <=> \E k \in Slots(fr) : \E i \in 1..Len(T(k)) : T(k)[i] = e
  BY DEF Somewhere
<1> HIDE DEF S, T, c, n
<1>7. \A k \in Slots(fr) : \A i \in 1..Len(T(k)) :
         \/ k = 0 /\ i = n + 1 /\ T(k)[i] = d
         \/ i \in 1..Len(S(k)) /\ T(k)[i] = S(k)[i]
  BY <1>2, <1>3 DEF n
<1>8. \A k \in Slots(fr) : \A i \in 1..Len(S(k)) : i \in 1..Len(T(k)) /\ T(k)[i] = S(k)[i]
  BY <1>2, <1>3 DEF n
<1>9. \A e \in Got(lg, h + 1) : Somewhere(c, im, fr, e)
  <2>1. ASSUME NEW e \in Got(lg, h) PROVE Somewhere(c, im, fr, e)
    BY <1>4, <1>5, <1>6, <1>8
  <2>2. Somewhere(c, im, fr, d)
    <3>1. n + 1 \in 1..Len(T(0)) /\ T(0)[n + 1] = d
      BY <1>2, <1>3
    <3> QED
      BY <3>1, <1>3, <1>6
  <2> QED
    BY <2>1, <2>2, <1>1
<1>10. \A k \in Slots(fr) : \A i \in 1..Len(T(k)) : T(k)[i] \in Got(lg, h + 1)
  BY <1>1, <1>4, <1>7
<1>11. \A k, l \in Slots(fr) : \A i \in 1..Len(T(k)), j \in 1..Len(T(l)) :
         T(k)[i] = T(l)[j] => k = l /\ i = j
  <2> SUFFICES ASSUME NEW k \in Slots(fr), NEW l \in Slots(fr),
                      NEW i \in 1..Len(T(k)), NEW j \in 1..Len(T(l)), T(k)[i] = T(l)[j]
               PROVE  k = l /\ i = j
    OBVIOUS
  <2>1. CASE i \in 1..Len(S(k)) /\ T(k)[i] = S(k)[i]
    <3>1. T(k)[i] # d
      BY <2>1, <1>4
    <3>2. j \in 1..Len(S(l)) /\ T(l)[j] = S(l)[j]
      BY <3>1, <1>7
    <3>3. S(k)[i] = S(l)[j]
      BY <2>1, <3>2
    <3>4. \A x, y \in Slots(fr) : \A u \in 1..Len(S(x)), v \in 1..Len(S(y)) :
             S(x)[u] = S(y)[v] => x = y /\ u = v
      BY <1>4
    <3> QED
      BY Zenon, <2>1, <3>2, <3>3, <3>4
  <2>2. CASE k = 0 /\ i = n + 1 /\ T(k)[i] = d
    <3>1. l = 0 /\ j = n + 1
      BY <2>2, <1>4, <1>7
    <3> QED
      BY <2>2, <3>1
  <2> QED
    BY <2>1, <2>2, <1>7
<1>12. \A k \in Slots(fr) : k # 1 => Len(T(k)) <= h + 1
  <2>1. \A k \in Slots(fr) : k # 1 => Len(S(k)) <= h + 1
    BY <1>4
  <2>2. n <= h
    BY <1>3, <1>4 DEF n
  <2>3. Len(T(0)) <= h + 1
    BY <2>2, <1>2, <1>3
  <2> QED
    BY <2>1, <2>3, <1>3
<1> QED
  BY <1>6, <1>9, <1>10, <1>11, <1>12 DEF PlacesOK, T, c

\* The batch becomes the items of a new call of visit_prog.
LEMMA PlacesEnter ==
    ASSUME NEW b, NEW im, NEW fr \in Seq(Frame), NEW lg, NEW h \in Nat,
           PlacesOK(b, im, fr, lg, h), fr # <<>>,
           NEW new \in Frame, new.items = b
    PROVE  PlacesOK(<<>>, im, Append(fr, new), lg, h)
<1> DEFINE n == Len(fr)
           gr == Append(fr, new)
           S(k) == Slot(b, im, fr, k)
           T(k) == Slot(<<>>, im, gr, k)
<1>1. /\ n \in Nat /\ n # 0 /\ Len(gr) = n + 1 /\ gr[n + 1] = new
      /\ \A k \in 1..n : gr[k] = fr[k]
  OBVIOUS
<1> HIDE DEF gr
<1>2. /\ n + 1 \in Slots(gr) /\ 0 \in Slots(fr) /\ 0 \in Slots(gr)
      /\ \A k \in Slots(gr) : k = 0 \/ k = n + 1 \/ k \in Slots(fr)
      /\ \A k \in Slots(fr) : k \in Slots(gr) /\ k # n + 1
      /\ n + 1 # 0 /\ n + 1 # 1
  BY <1>1 DEF Slots
<1>3. S(0) = b /\ T(0) = <<>> /\ T(n + 1) = b
  BY <1>1, <1>2 DEF Slot
<1>4. \A k \in Slots(fr) : k # 0 => T(k) = S(k)
  <2>1. \A k \in Slots(fr) : k = 0 \/ k = 1 \/ k \in 1..n
    BY <1>1 DEF Slots
  <2> QED
    BY <2>1, <1>1 DEF Slot
<1>5. /\ \A e \in Got(lg, h) : Somewhere(b, im, fr, e)
      /\ \A k \in Slots(fr) : \A i \in 1..Len(S(k)) : S(k)[i] \in Got(lg, h)
      /\ \A k, l \in Slots(fr) : \A i \in 1..Len(S(k)), j \in 1..Len(S(l)) :
           S(k)[i] = S(l)[j] => k = l /\ i = j
      /\ \A k \in Slots(fr) : k # 1 => Len(S(k)) <= h
  BY DEF PlacesOK
<1>6. \A e : Somewhere(b, im, fr, e) <=> \E k \in Slots(fr) : \E i \in 1..Len(S(k)) : S(k)[i] = e
  BY DEF Somewhere
<1>7. \A e : Somewhere(<<>>, im, gr, e) <=> \E k \in Slots(gr) : \E i \in 1..Len(T(k)) : T(k)[i] = e
  BY DEF Somewhere
<1>8. Len(T(0)) = 0 /\ 1..Len(T(0)) = {}
  BY <1>3
<1> HIDE DEF S, T, n
\* Where a list of the new state was before.
<1> DEFINE was(k) == IF k = n + 1 THEN 0 ELSE k
<1>9. \A k \in Slots(gr) : k # 0 =>
         was(k) \in Slots(fr) /\ T(k) = S(was(k))
  BY <1>2, <1>3, <1>4
<1>10. \A k, l \in Slots(gr) : k # 0 /\ l # 0 /\ was(k) = was(l) => k = l
  BY <1>2
<1> HIDE DEF was
<1>11. \A e \in Got(lg, h) : Somewhere(<<>>, im, gr, e)
  <2> SUFFICES ASSUME NEW e \in Got(lg, h)
               PROVE  \E k \in Slots(gr) : \E i \in 1..Len(T(k)) : T(k)[i] = e
    BY <1>7
  <2>1. PICK k \in Slots(fr) : \E i \in 1..Len(S(k)) : S(k)[i] = e
    BY <1>5, <1>6
  <2>2. CASE k = 0
    <3>1. \E i \in 1..Len(T(n + 1)) : T(n + 1)[i] = e
      BY <2>1, <2>2, <1>3
    <3> QED
      BY <3>1, <1>2
  <2>3. CASE k # 0
    BY <2>1, <2>3, <1>2, <1>4
  <2> QED
    BY <2>2, <2>3
<1>12. \A k \in Slots(gr) : \A i \in 1..Len(T(k)) : T(k)[i] \in Got(lg, h)
  BY <1>5, <1>8, <1>9
<1>13. \A k, l \in Slots(gr) : \A i \in 1..Len(T(k)), j \in 1..Len(T(l)) :
         T(k)[i] = T(l)[j] => k = l /\ i = j
  <2> SUFFICES ASSUME NEW k \in Slots(gr), NEW l \in Slots(gr),
                      NEW i \in 1..Len(T(k)), NEW j \in 1..Len(T(l)), T(k)[i] = T(l)[j]
               PROVE  k = l /\ i = j
    OBVIOUS
  <2>1. k # 0 /\ l # 0
    BY <1>8
  <2>2. T(k) = S(was(k)) /\ T(l) = S(was(l)) /\ was(k) \in Slots(fr) /\ was(l) \in Slots(fr)
    BY <2>1, <1>9
  <2>3. was(k) = was(l) /\ i = j
    BY <2>2, <1>5
  <2> QED
    BY <2>1, <2>3, <1>10
<1>14. \A k \in Slots(gr) : k # 1 => Len(T(k)) <= h
  <2> SUFFICES ASSUME NEW k \in Slots(gr), k # 1 PROVE Len(T(k)) <= h
    OBVIOUS
  <2>1. CASE k = 0
    BY <2>1, <1>8
  <2>2. CASE k # 0
    <3>1. was(k) # 1
      BY <1>2 DEF was
    <3> QED
      BY <2>2, <3>1, <1>5, <1>9
  <2> QED
    BY <2>1, <2>2
<1> QED
  BY <1>11, <1>12, <1>13, <1>14 DEF PlacesOK, T, gr

\* A call of visit_prog ends: what it has walked is imported.
LEMMA PlacesLeave ==
    ASSUME NEW b, NEW im \in Seq(Decl), NEW fr \in Seq(Frame), NEW lg, NEW h,
           PlacesOK(b, im, fr, lg, h), Len(fr) > 1,
           NEW gr, Len(gr) = Len(fr) - 1, \A k \in 1..(Len(fr) - 1) : gr[k] = fr[k]
    PROVE  PlacesOK(b, im \o fr[Len(fr)].items, gr, lg, h)
<1> DEFINE n == Len(fr)
           its == fr[n].items
           jm == im \o its
           m == Len(im)
           S(k) == Slot(b, im, fr, k)
           T(k) == Slot(b, jm, gr, k)
<1>1. its \in Seq(Decl) /\ n \in Nat /\ n > 1
  <2>1. n \in 1..n
    OBVIOUS
  <2>2. fr[n] \in Frame
    BY <2>1
  <2> QED
    BY <2>2 DEF Frame
<1> HIDE DEF its
<1>2. /\ m \in Nat /\ Len(its) \in Nat /\ Len(jm) = m + Len(its)
      /\ \A i \in 1..m : jm[i] = im[i]
      /\ \A i \in 1..Len(jm) : i \in 1..m \/ (i - m \in 1..Len(its) /\ jm[i] = its[i - m])
      /\ \A j \in 1..Len(its) : j + m \in 1..Len(jm) /\ jm[j + m] = its[j]
  BY <1>1
<1> HIDE DEF jm
<1>3. /\ n \in Slots(fr) /\ n # 0 /\ n # 1 /\ 0 \in Slots(gr) /\ 1 \in Slots(gr)
      /\ \A k \in Slots(gr) : k \in Slots(fr) /\ k # n
      /\ \A k \in Slots(fr) : k # n => k \in Slots(gr)
      /\ 1 \in Slots(fr)
  BY <1>1 DEF Slots
<1>4. S(n) = its /\ S(1) = im /\ T(1) = jm
  BY <1>3 DEF Slot, its
<1>5. \A k \in Slots(gr) : k # 1 => T(k) = S(k)
  <2>1. \A k \in Slots(gr) : k = 0 \/ k = 1 \/ k \in 1..(n - 1)
    BY <1>1 DEF Slots
  <2> QED
    BY <2>1 DEF Slot
<1>6. /\ \A e \in Got(lg, h) : Somewhere(b, im, fr, e)
      /\ \A k \in Slots(fr) : \A i \in 1..Len(S(k)) : S(k)[i] \in Got(lg, h)
      /\ \A k, l \in Slots(fr) : \A i \in 1..Len(S(k)), j \in 1..Len(S(l)) :
           S(k)[i] = S(l)[j] => k = l /\ i = j
      /\ \A k \in Slots(fr) : k # 1 => Len(S(k)) <= h
  BY DEF PlacesOK
<1>7. \A e : Somewhere(b, im, fr, e) <=> \E k \in Slots(fr) : \E i \in 1..Len(S(k)) : S(k)[i] = e
  BY DEF Somewhere
<1>8. \A e : Somewhere(b, jm, gr, e) <=> \E k \in Slots(gr) : \E i \in 1..Len(T(k)) : T(k)[i] = e
  BY DEF Somewhere
<1> HIDE DEF S, T, n, m
\* Where an entry of a list was before.
<1> DEFINE Old(k, i) == k = 1 => i \in 1..m
<1>9. ASSUME NEW k \in Slots(gr), NEW i \in 1..Len(T(k))
      PROVE  /\ Old(k, i) => i \in 1..Len(S(k)) /\ T(k)[i] = S(k)[i] /\ k \in Slots(fr) /\ k # n
             /\ ~ Old(k, i) => k = 1 /\ i - m \in 1..Len(S(n)) /\ T(k)[i] = S(n)[i - m]
  <2>1. CASE k # 1
    BY <2>1, <1>3, <1>5
  <2>2. CASE k = 1
    <3>1. i \in 1..Len(jm)
      BY <2>2, <1>4
    <3> QED
      BY <2>2, <3>1, <1>2, <1>3, <1>4 DEF m
  <2> QED
    BY <2>1, <2>2
<1> HIDE DEF Old
<1>u. \A x, y \in Slots(fr) : \A u \in 1..Len(S(x)), v \in 1..Len(S(y)) :
         S(x)[u] = S(y)[v] => x = y /\ u = v
  BY <1>6
<1>10. \A e \in Got(lg, h) : Somewhere(b, jm, gr, e)
  <2> SUFFICES ASSUME NEW e \in Got(lg, h)
               PROVE  \E k \in Slots(gr) : \E i \in 1..Len(T(k)) : T(k)[i] = e
    BY <1>8
  <2>1. PICK k \in Slots(fr) : \E i \in 1..Len(S(k)) : S(k)[i] = e
    BY <1>6, <1>7
  <2>2. PICK i \in 1..Len(S(k)) : S(k)[i] = e
    BY <2>1
  <2>3. CASE k = n
    <3>1. i + m \in 1..Len(T(1)) /\ T(1)[i + m] = e
      BY <2>2, <2>3, <1>2, <1>4
    <3> QED
      BY <3>1, <1>3
  <2>4. CASE k = 1
    <3>1. i \in 1..Len(T(1)) /\ T(1)[i] = e
      <4>1. i \in 1..m /\ im[i] = e
        BY <2>2, <2>4, <1>4 DEF m
      <4> QED
        BY <4>1, <1>2, <1>4
    <3> QED
      BY <3>1, <1>3
  <2>5. CASE k # n /\ k # 1
    BY <2>2, <2>5, <1>3, <1>5
  <2> QED
    BY <2>3, <2>4, <2>5
<1>11. \A k \in Slots(gr) : \A i \in 1..Len(T(k)) : T(k)[i] \in Got(lg, h)
  BY <1>3, <1>6, <1>9
<1>12. \A k, l \in Slots(gr) : \A i \in 1..Len(T(k)), j \in 1..Len(T(l)) :
         T(k)[i] = T(l)[j] => k = l /\ i = j
  <2> SUFFICES ASSUME NEW k \in Slots(gr), NEW l \in Slots(gr),
                      NEW i \in 1..Len(T(k)), NEW j \in 1..Len(T(l)), T(k)[i] = T(l)[j]
               PROVE  k = l /\ i = j
    OBVIOUS
  <2>1. CASE Old(k, i) /\ Old(l, j)
    <3>1. /\ i \in 1..Len(S(k)) /\ j \in 1..Len(S(l)) /\ S(k)[i] = S(l)[j]
          /\ k \in Slots(fr) /\ l \in Slots(fr)
      BY <2>1, <1>9
    <3> QED
      BY <3>1, <1>u
  <2>2. CASE Old(k, i) /\ ~ Old(l, j)
    <3>1. /\ i \in 1..Len(S(k)) /\ j - m \in 1..Len(S(n)) /\ S(k)[i] = S(n)[j - m]
          /\ k \in Slots(fr) /\ n \in Slots(fr) /\ k # n
      BY <2>2, <1>3, <1>9
    <3> QED
      BY <3>1, <1>u
  <2>3. CASE ~ Old(k, i) /\ Old(l, j)
    <3>1. /\ i - m \in 1..Len(S(n)) /\ j \in 1..Len(S(l)) /\ S(n)[i - m] = S(l)[j]
          /\ n \in Slots(fr) /\ l \in Slots(fr) /\ l # n
      BY <2>3, <1>3, <1>9
    <3> QED
      BY <3>1, <1>u
  <2>4. CASE ~ Old(k, i) /\ ~ Old(l, j)
    <3>1. /\ i - m \in 1..Len(S(n)) /\ j - m \in 1..Len(S(n)) /\ S(n)[i - m] = S(n)[j - m]
          /\ n \in Slots(fr) /\ k = 1 /\ l = 1
      BY <2>4, <1>3, <1>9
    <3>2. i - m = j - m
      BY <3>1, <1>u
    <3>3. i \in Int /\ j \in Int /\ m \in Int
      <4>1. Len(T(1)) \in Nat
        BY <1>2, <1>4
      <4> QED
        BY <4>1, <3>1, <1>2
    <3> QED
      BY <3>1, <3>2, <3>3
  <2> QED
    BY <2>1, <2>2, <2>3, <2>4
<1>13. \A k \in Slots(gr) : k # 1 => Len(T(k)) <= h
  BY <1>3, <1>5, <1>6
<1> QED
  BY <1>10, <1>11, <1>12, <1>13 DEF PlacesOK, T, jm, its, n

-----------------------------------------------------------------------------
(* Counting the places *)

LEMMA SingleOccurrence ==
    ASSUME IInv, PlacesOK(batch, imported, frames, log, head),
           NEW d \in Got(log, head)
    PROVE  Occurrences(d) = 1
<1> DEFINE A == {i \in DOMAIN batch : batch[i] = d}
           B == {i \in DOMAIN imported : imported[i] = d}
           C == {at \in (2..Len(frames)) \X (1..Len(log)) :
                   /\ at[2] \in DOMAIN frames[at[1]].items
                   /\ frames[at[1]].items[at[2]] = d}
           S(k) == Slot(batch, imported, frames, k)
<1>1. /\ batch \in Seq(Decl) /\ imported \in Seq(Decl) /\ frames \in Seq(Frame)
      /\ Len(frames) \in Nat /\ log \in Seq(Message) /\ Len(log) \in Nat
      /\ head \in Nat /\ head <= Len(log)
  BY DEF IInv, TypeOK, ThreadTypeOK
<1>2. \A k \in 2..Len(frames) : frames[k].items \in Seq(Decl)
  <2>1. \A k \in 2..Len(frames) : frames[k] \in Frame
    BY <1>1
  <2> QED
    BY <2>1 DEF Frame
<1>3. /\ S(0) = batch /\ S(1) = imported
      /\ \A k \in 2..Len(frames) : S(k) = frames[k].items /\ k # 0 /\ k # 1 /\ k \in Slots(frames)
      /\ 0 \in Slots(frames) /\ 1 \in Slots(frames)
      /\ \A k \in Slots(frames) : k = 0 \/ k = 1 \/ k \in 2..Len(frames)
  BY DEF Slot, Slots
<1>4. PICK k \in Slots(frames) : \E i \in 1..Len(S(k)) : S(k)[i] = d
  BY DEF PlacesOK, Somewhere
<1>5. PICK i \in 1..Len(S(k)) : S(k)[i] = d
  BY <1>4
<1>6. \A l \in Slots(frames) : \A j \in 1..Len(S(l)) : S(l)[j] = d => l = k /\ j = i
  BY <1>5 DEF PlacesOK
<1>7. k # 1 => Len(S(k)) <= head
  BY DEF PlacesOK
<1> HIDE DEF S
<1>8. DOMAIN batch = 1..Len(S(0)) /\ DOMAIN imported = 1..Len(S(1))
      /\ \A l \in 2..Len(frames) : DOMAIN frames[l].items = 1..Len(S(l))
  BY <1>1, <1>2, <1>3
<1>9. A = IF k = 0 THEN {i} ELSE {}
  BY <1>3, <1>5, <1>6, <1>8
<1>10. B = IF k = 1 THEN {i} ELSE {}
  BY <1>3, <1>5, <1>6, <1>8
<1>11. C = IF k \in 2..Len(frames) THEN {<<k, i>>} ELSE {}
  <2>1. ASSUME NEW at \in C PROVE k \in 2..Len(frames) /\ at = <<k, i>>
    <3>1. at[1] \in 2..Len(frames) /\ at[2] \in DOMAIN frames[at[1]].items
          /\ frames[at[1]].items[at[2]] = d /\ at = <<at[1], at[2]>>
      BY <2>1
    <3> HIDE DEF C
    <3>2. at[1] \in Slots(frames) /\ at[2] \in 1..Len(S(at[1])) /\ S(at[1])[at[2]] = d
      BY <3>1, <1>3, <1>8
    <3> QED
      BY <3>1, <3>2, <1>6
  <2>2. ASSUME k \in 2..Len(frames) PROVE <<k, i>> \in C
    <3>1. i \in DOMAIN frames[k].items /\ frames[k].items[i] = d
      BY <2>2, <1>3, <1>5, <1>8
    <3>2. i \in 1..Len(log)
      <4>1. Len(S(k)) <= head
        BY <2>2, <1>3, <1>7
      <4>2. Len(S(k)) \in Nat
        BY <2>2, <1>2, <1>3
      <4> QED
        BY <4>1, <4>2, <1>1, <1>5
    <3> QED
      BY <2>2, <3>1, <3>2
  <2> HIDE DEF C
  <2> QED
    BY <2>1, <2>2
<1> HIDE DEF A, B, C
<1>12. Occurrences(d) = Cardinality(A) + Cardinality(B) + Cardinality(C)
  BY DEF Occurrences, A, B, C
<1>13. Cardinality({}) = 0 /\ Cardinality({i}) = 1 /\ Cardinality({<<k, i>>}) = 1
  BY FS_EmptySet, FS_Singleton
<1>14. CASE k = 0
  BY <1>3, <1>9, <1>10, <1>11, <1>12, <1>13, <1>14
<1>15. CASE k = 1
  BY <1>3, <1>9, <1>10, <1>11, <1>12, <1>13, <1>15
<1>16. CASE k \in 2..Len(frames)
  BY <1>3, <1>9, <1>10, <1>11, <1>12, <1>13, <1>16
<1> QED
  BY <1>3, <1>14, <1>15, <1>16

-----------------------------------------------------------------------------
(* The steps keep every declaration in its one place *)

LEMMA ListTypes ==
    ASSUME IInv
    PROVE  /\ batch \in Seq(Decl) /\ imported \in Seq(Decl) /\ frames \in Seq(Frame)
           /\ Len(frames) \in Nat /\ head \in Nat /\ head <= Len(log) /\ Len(log) \in Nat
           /\ \A k \in 1..Len(frames) : /\ frames[k] \in Frame /\ frames[k].items \in Seq(Decl)
                                        /\ Len(frames[k].items) \in Nat /\ frames[k].at \in Nat
           /\ \A k \in Slots(frames) : Len(Slot(batch, imported, frames, k)) \in Nat
<1>1. /\ batch \in Seq(Decl) /\ imported \in Seq(Decl) /\ frames \in Seq(Frame)
      /\ Len(frames) \in Nat /\ head \in Nat /\ head <= Len(log) /\ Len(log) \in Nat
  BY DEF IInv, TypeOK, ThreadTypeOK
<1>2. ASSUME NEW k \in 1..Len(frames)
      PROVE  /\ frames[k] \in Frame /\ frames[k].items \in Seq(Decl)
             /\ Len(frames[k].items) \in Nat /\ frames[k].at \in Nat
  <2>1. frames[k] \in Frame
    BY <1>1
  <2> QED
    BY <2>1 DEF Frame
<1>3. ASSUME NEW k \in Slots(frames) PROVE Len(Slot(batch, imported, frames, k)) \in Nat
  <2>1. k = 0 \/ k = 1 \/ k \in 1..Len(frames)
    BY <1>1 DEF Slots
  <2> QED
    BY <2>1, <1>1, <1>2 DEF Slot
<1> QED
  BY <1>1, <1>2, <1>3

\* The next message is none of those received.
LEMMA NextIsNew ==
    ASSUME IInv, head < Len(log), log[head + 1].ok
    PROVE  BlobDecl(log[head + 1]) \notin Got(log, head)
<1>1. head \in Nat /\ head + 1 \in 1..Len(log) /\ log \in Seq(Message)
  BY DEF IInv, TypeOK, ThreadTypeOK
<1>2. ASSUME NEW i \in 1..head, log[i].ok, BlobDecl(log[i]) = BlobDecl(log[head + 1])
      PROVE  FALSE
  <2>1. log[i].thread = log[head + 1].thread /\ log[i].pos = log[head + 1].pos
    BY <1>2 DEF BlobDecl
  <2>2. i \in 1..Len(log) /\ i < head + 1
    BY <1>1
  <2>3. log[i].pos < log[head + 1].pos
    BY <1>1, <2>1, <2>2 DEF IInv, LogInv, StreamsInOrder
  <2>4. log[i].pos \in Nat
    <3>1. log[i] \in Message
      BY <1>1, <2>2
    <3> QED
      BY <3>1 DEF Message
  <2> QED
    BY <2>1, <2>3, <2>4
<1> QED
  BY <1>2 DEF Got

\* A receive loop ends with the declarations b.
LEMMA EnterOnce ==
    ASSUME NEW b \in Seq(Decl), NEW h \in Nat, IInv, phase = "check", phase' = phase,
           PlacesOK(b, imported, frames, log, h), EnterBatch(b, fileNames'),
           UNCHANGED <<log, imported>>, head' = h
    PROVE  OnceInv'
<1> DEFINE new == [items |-> b, at |-> 0]
<1>1. new \in Frame /\ new.items = b
  BY DEF Frame
<1>2. frames' = Append(frames, new) /\ receiving' = FALSE /\ batch' = <<>>
  BY DEF EnterBatch
<1> HIDE DEF new
<1>3. frames \in Seq(Frame) /\ frames # <<>>
  BY DEF IInv, TypeOK
<1>4. PlacesOK(<<>>, imported, Append(frames, new), log, h)
  BY <1>1, <1>3, PlacesEnter
<1> QED
  BY <1>2, <1>4 DEF OnceInv

LEMMA RecvOnce ==
    ASSUME IInv, OnceInv, recv_blob \/ recv_error \/ recv_closed
    PROVE  OnceInv'
<1>1. /\ batch \in Seq(Decl) /\ head \in Nat
      /\ \A k \in Slots(frames) : Len(Slot(batch, imported, frames, k)) \in Nat
      /\ PlacesOK(batch, imported, frames, log, head)
  BY ListTypes DEF OnceInv
<1>2. CASE recv_blob
  <2> DEFINE d == BlobDecl(log[head + 1])
             b == Append(batch, d)
  <2>1. /\ phase = "check" /\ phase' = phase /\ head < Len(log) /\ log[head + 1].ok
        /\ head' = head + 1 /\ UNCHANGED <<log, imported>> /\ receiving
        /\ fileNames' = Registered(d)
    BY <1>2 DEF recv_blob
  <2>2. d \in Decl /\ b \in Seq(Decl) /\ d \notin Got(log, head)
    BY <2>1, BlobFacts, NextIsNew
  <2>3. PlacesOK(b, imported, frames, log, head + 1)
    BY <1>1, <2>1, <2>2, PlacesAppend
  <2>4. CASE EnterBatch(b, fileNames')
    <3>1. head + 1 \in Nat
      BY <1>1
    <3> QED
      BY <2>1, <2>2, <2>3, <2>4, <3>1, EnterOnce
  <2>5. CASE batch' = b /\ UNCHANGED <<frames, receiving>>
    BY <2>1, <2>3, <2>5 DEF OnceInv
  <2> QED
    BY <1>2, <2>4, <2>5 DEF recv_blob
<1>3. CASE recv_error
  <2>1. /\ phase = "check" /\ phase' = phase /\ ~ log[head + 1].ok
        /\ head' = head + 1 /\ UNCHANGED <<log, imported>>
        /\ EnterBatch(batch, fileNames')
    BY <1>3 DEF recv_error, EnterBatch
  <2>2. PlacesOK(batch, imported, frames, log, head + 1) /\ head + 1 \in Nat
    BY <1>1, <2>1, PlacesSkip
  <2> QED
    BY <1>1, <2>1, <2>2, EnterOnce
<1>4. CASE recv_closed
  <2>1. /\ phase = "check" /\ phase' = phase /\ head' = head
        /\ UNCHANGED <<log, imported>> /\ EnterBatch(batch, fileNames')
    BY <1>4 DEF recv_closed, EnterBatch, threadVars
  <2> QED
    BY <1>1, <2>1, EnterOnce
<1> QED
  BY <1>2, <1>3, <1>4

LEMMA VisitOnce ==
    ASSUME IInv, OnceInv,
           visit_func \/ visit_const \/ visit_adt \/ visit_trait \/ visit_impl \/ visit_import
    PROVE  OnceInv'
<1>1. /\ Walking /\ Advance /\ UNCHANGED <<threadVars, imported>>
      /\ batch' = batch \/ batch' = <<>>
      /\ receiving' = receiving \/ receiving' = TRUE
  BY DEF visit_func, visit_const, visit_adt, visit_trait, visit_impl, visit_import, Visit
<1>2. phase = "check" /\ batch = <<>>
  BY <1>1 DEF Walking, OnceInv
<1>3. /\ Len(frames') = Len(frames)
      /\ \A k \in 1..Len(frames) : frames'[k].items = frames[k].items
      /\ Len(frames) \in Nat
  BY <1>1, AdvanceFrames, ListTypes DEF IInv
<1>4. Slots(frames') = Slots(frames) /\ \A k \in 2..Len(frames) : frames'[k].items = frames[k].items
  BY <1>3 DEF Slots
<1>5. PlacesOK(batch, imported, frames, log, head)
  BY DEF OnceInv
<1>6. PlacesOK(batch, imported, frames', log, head)
  BY <1>3, <1>4, <1>5, PlacesSame
<1> QED
  BY <1>1, <1>2, <1>6 DEF OnceInv, threadVars

LEMMA CheckBodiesOnce ==
    ASSUME IInv, OnceInv, check_bodies
    PROVE  OnceInv'
<1> DEFINE n == Len(frames)
           gr == SubSeq(frames, 1, n - 1)
<1>1. /\ frames' = gr /\ phase = "check" /\ UNCHANGED <<log, head, receiving, batch>>
      /\ n > 1 => imported' = imported \o frames[n].items
      /\ n = 1 => imported' = imported
      /\ phase' \in {"check", "lower", "failed"}
  BY DEF check_bodies, Top
<1>2. /\ frames \in Seq(Frame) /\ frames # <<>> /\ n \in Nat /\ n # 0
      /\ imported \in Seq(Decl) /\ PlacesOK(batch, imported, frames, log, head)
  BY <1>1, ListTypes DEF IInv, TypeOK, OnceInv
<1>3. Len(gr) = n - 1 /\ \A k \in 1..(n - 1) : gr[k] = frames[k]
  <2>1. \A k \in 1..(n - 1) : frames[k] \in Frame
    BY <1>2
  <2>2. 1 \in Int /\ n - 1 \in Int
    BY <1>2
  <2> HIDE DEF n
  <2> QED
    BY <1>2, <2>1, <2>2, SubSeqProperties
<1> HIDE DEF gr
<1>4. CASE n > 1
  BY <1>1, <1>2, <1>3, <1>4, PlacesLeave DEF OnceInv
<1>5. CASE n = 1
  <2>1. Slots(gr) = Slots(frames) /\ 2..n = {}
    BY <1>3, <1>5 DEF Slots
  <2>2. PlacesOK(batch, imported, gr, log, head)
    BY <1>2, <2>1, PlacesSame
  <2> QED
    BY <1>1, <1>5, <2>2 DEF OnceInv
<1>6. n > 1 \/ n = 1
  <2>1. n \in Nat /\ n # 0
    BY <1>2
  <2> HIDE DEF n
  <2> QED
    BY <2>1
<1> QED
  BY <1>4, <1>5, <1>6

LEMMA RootParsedOnce ==
    ASSUME IInv, OnceInv, RootParsed
    PROVE  OnceInv'
<1>1. /\ frames = <<>> /\ ~ receiving /\ UNCHANGED <<log, head, receiving, batch, imported>>
      /\ phase' # "parse"
      /\ frames' = frames \/ frames' = <<[items |-> RootItems, at |-> 0]>>
  BY DEF RootParsed, OnceInv
<1>2. Slots(frames') = Slots(frames) /\ 2..Len(frames) = {} /\ Len(frames) \in Nat
  BY <1>1 DEF Slots
<1>3. PlacesOK(batch, imported, frames', log, head)
  BY <1>2, PlacesSame DEF OnceInv
<1> QED
  BY <1>1, <1>3 DEF OnceInv

\* What the parser threads do to the channel.
LEMMA ThreadStepLog ==
    ASSUME IInv, NEW t \in DOMAIN threads, ThreadStep(t)
    PROVE  /\ phase' = phase /\ head' = head /\ prog' = prog
           /\ \A i \in 1..head : log'[i] = log[i]
<1>1. phase' = phase /\ head' = head /\ prog' = prog
  BY DEF ThreadStep, ReadFile, ParseItem, ParseImport, ParseEnd, SendItem, Exit
<1>2. log' = log \/ \E m : log' = Append(log, m)
  BY DEF ThreadStep, ReadFile, ParseItem, ParseImport, ParseEnd, SendItem, Exit, Send
<1>3. log \in Seq(Message) /\ head \in 0..Len(log)
  BY DEF IInv, TypeOK, ThreadTypeOK
<1>4. ASSUME NEW m, log' = Append(log, m) PROVE \A i \in 1..head : log'[i] = log[i]
  BY <1>3, <1>4
<1> QED
  BY <1>1, <1>2, <1>4

LEMMA NextOnce ==
    ASSUME IInv, OnceInv, [Next]_vars
    PROVE  OnceInv'
<1>1. CASE UNCHANGED vars
  BY <1>1 DEF OnceInv, vars, threadVars, checkVars
<1>2. ASSUME NEW t \in DOMAIN threads, Parse(t) PROVE OnceInv'
  <2>1. UNCHANGED checkVars /\ phase' = phase /\ head' = head /\ \A i \in 1..head : log'[i] = log[i]
    BY <1>2, ThreadStepLog DEF Parse
  <2>2. PlacesOK(batch, imported, frames, log', head)
    BY <2>1, PlacesLog DEF OnceInv
  <2> QED
    BY <2>1, <2>2 DEF OnceInv, checkVars
<1>3. CASE RootParsed
  BY <1>3, RootParsedOnce
<1>4. CASE visit_func \/ visit_const \/ visit_adt \/ visit_trait \/ visit_impl \/ visit_import
  BY <1>4, VisitOnce
<1>5. CASE recv_blob \/ recv_error \/ recv_closed
  BY <1>5, RecvOnce
<1>6. CASE check_bodies
  BY <1>6, CheckBodiesOnce
<1>7. CASE lower_items
  BY <1>7 DEF lower_items, OnceInv, checkVars
<1> QED
  BY <1>1, <1>2, <1>3, <1>4, <1>5, <1>6, <1>7 DEF Next, MainStep

LEMMA InitOnce ==
    ASSUME Init
    PROVE  OnceInv
<1>1. batch = <<>> /\ imported = <<>> /\ frames = <<>> /\ head = 0 /\ ~ receiving
  BY DEF Init, ThreadInit
<1>2. Slots(frames) = {0, 1} /\ \A k \in {0, 1} : Slot(batch, imported, frames, k) = <<>>
  BY <1>1 DEF Slots, Slot
<1>3. Got(log, head) = {}
  BY <1>1 DEF Got
<1> QED
  BY <1>1, <1>2, <1>3 DEF OnceInv, PlacesOK

-----------------------------------------------------------------------------
(* No declaration is lost or held twice *)

\* Whatever the interleaving of the parser threads and however deep the imports
\* nest, a declaration that has been received is in exactly one of the batch,
\* an active visit_prog and imported_items.
THEOREM EachReceivedOnce == Spec => []ReceivedOnce
<1>1. Init => IInv /\ OnceInv
  BY InitInv, InitOnce
<1>2. IInv /\ OnceInv /\ [Next]_vars => IInv' /\ OnceInv'
  BY NextInv, NextOnce
<1>3. IInv /\ OnceInv => ReceivedOnce
  <2> SUFFICES ASSUME IInv, OnceInv, NEW i \in 1..head, log[i].ok
               PROVE  Occurrences(BlobDecl(log[i])) = 1
    BY DEF ReceivedOnce
  <2>1. BlobDecl(log[i]) \in Got(log, head)
    BY DEF Got
  <2>2. PlacesOK(batch, imported, frames, log, head)
    BY DEF OnceInv
  <2> QED
    BY <2>1, <2>2, SingleOccurrence
<1> QED
  BY <1>1, <1>2, <1>3, PTL DEF Spec

-----------------------------------------------------------------------------
(* What the innermost visit_prog has declared stays in scope *)

\* A call that has walked nothing.
LEMMA ScopeAtStart ==
    ASSUME NEW p, NEW th, NEW f, NEW sc, f.at = 0
    PROVE  InScope(p, th, f, sc)
BY DEF InScope

\* A call that waits at an import: nothing lies behind it.
LEMMA ScopeAtImport ==
    ASSUME NEW p, NEW th, NEW f, NEW sc, f.at \in Nat, f.at # 0,
           IsImport(ItemAt(p, th, f.items[f.at]))
    PROVE  InScope(p, th, f, sc)
<1>1. \A k \in 1..f.at : f.at \in k..f.at
  OBVIOUS
<1> QED
  BY <1>1 DEF InScope

\* One more declaration has been walked; no name has left its scope.
LEMMA ScopeGrows ==
    ASSUME NEW p, NEW th, NEW f, NEW g, NEW sc, NEW sc2,
           InScope(p, th, f, sc), f.at \in Nat, g.items = f.items, g.at = f.at + 1,
           \A k \in 1..f.at : LET x == th[f.items[k].thread].file IN sc[x] \subseteq sc2[x],
           LET d == f.items[f.at + 1]
           IN  ItemAt(p, th, d).kind \in {"func", "const", "struct", "enum"} =>
                 ItemAt(p, th, d).name \in sc2[th[d.thread].file]
    PROVE  InScope(p, th, g, sc2)
<1> SUFFICES ASSUME NEW k \in 1..g.at,
                    ItemAt(p, th, g.items[k]).kind \in {"func", "const", "struct", "enum"},
                    \A j \in k..g.at : ~ IsImport(ItemAt(p, th, g.items[j]))
             PROVE  ItemAt(p, th, g.items[k]).name \in sc2[th[g.items[k].thread].file]
  BY DEF InScope
<1>1. k \in 1..f.at \/ k = f.at + 1
  OBVIOUS
<1>2. CASE k \in 1..f.at
  <2>1. \A j \in k..f.at : j \in k..g.at
    BY <1>2
  <2>2. ItemAt(p, th, f.items[k]).name \in sc[th[f.items[k].thread].file]
    BY <1>2, <2>1 DEF InScope
  <2> QED
    BY <1>2, <2>2
<1>3. CASE k = f.at + 1
  BY <1>3
<1> QED
  BY <1>1, <1>2, <1>3

\* The files of the threads that parsed what a call walks have not changed.
LEMMA ScopeSame ==
    ASSUME NEW p, NEW th, NEW th2, NEW f, NEW sc, InScope(p, th, f, sc),
           \A k \in 1..f.at : th2[f.items[k].thread].file = th[f.items[k].thread].file,
           f.at \in Nat
    PROVE  InScope(p, th2, f, sc)
<1>1. \A k \in 1..f.at : ItemAt(p, th2, f.items[k]) = ItemAt(p, th, f.items[k])
  BY DEF ItemAt
<1>2. \A k \in 1..f.at : \A j \in k..f.at : j \in 1..f.at
  OBVIOUS
<1> QED
  BY <1>1, <1>2 DEF InScope

\* Every declaration of a frame is a thread's, and its file is registered.
LEMMA FrameFacts ==
    ASSUME IInv, NEW k \in 1..Len(frames)
    PROVE  /\ frames[k].at \in Nat /\ Len(frames[k].items) \in Nat
           /\ \A i \in 1..Len(frames[k].items) :
                /\ frames[k].items[i].thread \in 1..Len(threads)
                /\ threads[frames[k].items[i].thread].file \in fileNames
<1>1. frames[k].at \in Nat /\ Len(frames[k].items) \in Nat
  BY ListTypes
<1>2. \A i \in 1..Len(frames[k].items) :
         /\ frames[k].items[i].thread \in 1..Len(threads)
         /\ threads[frames[k].items[i].thread].file \in fileNames
  BY DEF IInv, DeclsValid, FilesKnown, FileOf
<1> QED
  BY <1>1, <1>2

\* The innermost call of a walking type checker.
LEMMA TopFrame ==
    ASSUME IInv, frames # <<>>
    PROVE  Len(frames) \in 1..Len(frames) /\ Len(frames) \in Nat /\ frames[Len(frames)] = Top
<1>1. frames \in Seq(Frame)
  BY DEF IInv, TypeOK
<1> QED
  BY <1>1 DEF Top

\* Steps that do not touch the calls of visit_prog.
LEMMA HeadersStutter ==
    ASSUME IInv, HeadersInv, prog' = prog,
           \A t \in 1..Len(threads) : threads'[t].file = threads[t].file,
           UNCHANGED <<frames, receiving, scope>>,
           phase' = phase \/ phase' # "check"
    PROVE  HeadersInv'
<1>1. ASSUME NEW k \in 1..Len(frames), NEW i \in 1..Len(frames[k].items)
      PROVE  /\ threads'[frames[k].items[i].thread].file = threads[frames[k].items[i].thread].file
             /\ ItemAt(prog, threads', frames[k].items[i]) = ItemAt(prog, threads, frames[k].items[i])
  <2>1. frames[k].items[i].thread \in 1..Len(threads)
    BY FrameFacts
  <2> QED
    BY <2>1 DEF ItemAt
<1>2. ASSUME NEW k \in 1..Len(frames) PROVE \A i \in 1..frames[k].at : i \in 1..Len(frames[k].items)
  <2>1. frames[k].at <= Len(frames[k].items)
    BY DEF HeadersInv, WaitsOK
  <2> QED
    BY <2>1, FrameFacts
<1>3. WaitsOK(prog, threads', frames, receiving)
  <2> SUFFICES ASSUME NEW k \in 1..Len(frames), k < Len(frames) \/ receiving
               PROVE  /\ frames[k].at # 0
                      /\ IsImport(ItemAt(prog, threads', frames[k].items[frames[k].at]))
    BY DEF HeadersInv, WaitsOK
  <2>1. frames[k].at # 0 /\ IsImport(ItemAt(prog, threads, frames[k].items[frames[k].at]))
    BY DEF HeadersInv, WaitsOK
  <2>2. frames[k].at \in 1..frames[k].at
    BY <2>1, FrameFacts
  <2> QED
    BY <1>1, <1>2, <2>1, <2>2
<1>4. ASSUME phase' = "check", ~ receiving PROVE InScope(prog, threads', Top, scope)
  <2>1. Len(frames) \in 1..Len(frames) /\ frames[Len(frames)] = Top
    BY <1>4, TopFrame DEF IInv, TypeOK
  <2>2. InScope(prog, threads, Top, scope)
    BY <1>4 DEF HeadersInv
  <2>3. \A k \in 1..Top.at : threads'[Top.items[k].thread].file = threads[Top.items[k].thread].file
    BY <1>1, <1>2, <2>1
  <2>4. Top.at \in Nat
    BY <2>1, FrameFacts
  <2> QED
    BY <2>2, <2>3, <2>4, ScopeSame
<1>5. Top' = Top
  BY DEF Top
<1> QED
  BY <1>3, <1>4, <1>5 DEF HeadersInv

\* A declaration is walked.
LEMMA AdvanceTop ==
    ASSUME IInv, Walking, Advance
    PROVE  /\ Len(frames') = Len(frames)
           /\ \A k \in 1..Len(frames) : k # Len(frames) => frames'[k] = frames[k]
           /\ Top'.items = Top.items /\ Top'.at = Top.at + 1
           /\ frames'[Len(frames)] = Top'
           /\ Top.at < Len(Top.items)
<1>1. frames # <<>> /\ Top.at < Len(Top.items)
  BY DEF Walking, IInv, TypeOK
<1>2. Len(frames) \in 1..Len(frames) /\ frames[Len(frames)] = Top /\ frames \in Seq(Frame)
  BY <1>1, TopFrame DEF IInv, TypeOK
<1>3. Top \in Frame
  BY <1>2
<1> DEFINE n == Len(frames)
           new == [Top EXCEPT !.at = @ + 1]
<1>4. new.items = Top.items /\ new.at = Top.at + 1
  BY <1>3 DEF Frame
<1>5. frames' = [frames EXCEPT ![n] = new]
  BY <1>2 DEF Advance
<1> HIDE DEF new
<1>6. Len(frames') = n /\ frames'[n] = new /\ \A k \in 1..n : k # n => frames'[k] = frames[k]
  BY <1>2, <1>5
<1>7. Top' = new
  BY <1>6 DEF Top
<1> QED
  BY <1>1, <1>4, <1>6, <1>7

LEMMA VisitHeaders ==
    ASSUME IInv, HeadersInv, Walking, Advance, UNCHANGED <<prog, threads, phase>>,
           receiving' \in BOOLEAN,
           receiving' => IsImport(ItemOf(NextDecl)),
           ~ receiving' => \A x \in fileNames : scope[x] \subseteq scope'[x],
           ~ receiving' /\ ItemOf(NextDecl).kind \in {"func", "const", "struct", "enum"} =>
              ItemOf(NextDecl).name \in scope'[FileOf(NextDecl)]
    PROVE  HeadersInv'
<1> DEFINE n == Len(frames)
<1>1. /\ Len(frames') = n
      /\ \A k \in 1..n : k # n => frames'[k] = frames[k]
      /\ Top'.items = Top.items /\ Top'.at = Top.at + 1
      /\ frames'[n] = Top'
      /\ Top.at < Len(Top.items)
  BY AdvanceTop
<1>2. n \in 1..n /\ n \in Nat /\ frames[n] = Top
  BY TopFrame DEF Walking, IInv, TypeOK
<1>3. /\ Top.at \in Nat /\ Len(Top.items) \in Nat
      /\ \A i \in 1..Len(Top.items) : threads[Top.items[i].thread].file \in fileNames
  <2> HIDE DEF n
  <2>1. /\ frames[n].at \in Nat /\ Len(frames[n].items) \in Nat
        /\ \A i \in 1..Len(frames[n].items) : threads[frames[n].items[i].thread].file \in fileNames
    BY <1>2, FrameFacts DEF n
  <2> QED
    BY <2>1, <1>2
<1>4. ~ receiving /\ phase = "check"
  BY DEF Walking
<1>5. NextDecl = Top.items[Top.at + 1] /\ ItemOf(NextDecl) = ItemAt(prog, threads, NextDecl)
      /\ FileOf(NextDecl) = threads[NextDecl.thread].file
  BY DEF NextDecl, ItemOf, ItemAt, FileOf
<1>6. WaitsOK(prog, threads, frames', receiving')
  <2> SUFFICES ASSUME NEW k \in 1..n
               PROVE  /\ frames'[k].at <= Len(frames'[k].items)
                      /\ k < n \/ receiving' =>
                           /\ frames'[k].at # 0
                           /\ IsImport(ItemAt(prog, threads, frames'[k].items[frames'[k].at]))
    BY <1>1 DEF WaitsOK
  <2>1. CASE k # n
    <3>1. k < n /\ frames'[k] = frames[k]
      BY <1>1, <1>2, <2>1
    <3> QED
      BY <3>1 DEF HeadersInv, WaitsOK
  <2>2. CASE k = n
    <3>1. Top.at + 1 <= Len(Top.items) /\ Top.at + 1 # 0 /\ ~ (k < n)
      BY <1>1, <1>2, <1>3, <2>2
    <3> QED
      BY <1>1, <1>5, <2>2, <3>1
  <2> QED
    BY <2>1, <2>2
<1>7. ASSUME ~ receiving' PROVE InScope(prog, threads, Top', scope')
  <2>1. InScope(prog, threads, Top, scope)
    BY <1>4 DEF HeadersInv
  <2>2. \A k \in 1..Top.at : k \in 1..Len(Top.items)
    BY <1>1, <1>3
  <2>3. \A k \in 1..Top.at : LET x == threads[Top.items[k].thread].file IN scope[x] \subseteq scope'[x]
    BY <1>3, <1>7, <2>2
  <2>4. LET d == Top.items[Top.at + 1]
        IN  ItemAt(prog, threads, d).kind \in {"func", "const", "struct", "enum"} =>
              ItemAt(prog, threads, d).name \in scope'[threads[d.thread].file]
    BY <1>5, <1>7
  <2> HIDE DEF HeadersInv
  <2> QED
    BY <1>1, <1>3, <2>1, <2>3, <2>4, ScopeGrows
<1> QED
  BY <1>6, <1>7 DEF HeadersInv

\* add_decl for the declaration that is walked next: its file has a scope.
LEMMA DeclAdded ==
    ASSUME IInv, Walking, NEW S, add_decl(FileOf(NextDecl), S)
    PROVE  /\ \A x \in fileNames : scope[x] \subseteq scope'[x]
           /\ S \subseteq scope'[FileOf(NextDecl)]
<1> DEFINE n == Len(frames)
<1>1. n \in 1..n /\ frames[n] = Top /\ Top.at < Len(Top.items)
  BY TopFrame DEF Walking, IInv, TypeOK
<1>2. Top.at \in Nat /\ Len(Top.items) \in Nat
  BY <1>1, FrameFacts
<1>3. Top.at + 1 \in 1..Len(Top.items)
  BY <1>1, <1>2
<1>4. FileOf(NextDecl) \in fileNames
  BY <1>1, <1>3, FrameFacts DEF NextDecl, FileOf
<1>5. DOMAIN scope = fileNames
  BY DEF IInv, TypeOK
<1> QED
  BY <1>4, <1>5 DEF add_decl

LEMMA VisitsHeaders ==
    ASSUME IInv, HeadersInv,
           visit_func \/ visit_const \/ visit_adt \/ visit_trait \/ visit_impl \/ visit_import
    PROVE  HeadersInv'
<1> DEFINE d == NextDecl
           n == ItemOf(d).name
<1>1. /\ Walking /\ Advance /\ UNCHANGED <<prog, threads, phase>>
      /\ receiving' \in BOOLEAN
      /\ visit_import \/ receiving' = FALSE
  BY DEF visit_func, visit_const, visit_adt, visit_trait, visit_impl, visit_import, Visit,
         threadVars, Walking, IInv, TypeOK
<1>2. CASE visit_import
  <2>1. receiving' = TRUE /\ IsImport(ItemOf(d))
    BY <1>2 DEF visit_import, Visit, IsImport
  <2> QED
    BY <1>1, <2>1, VisitHeaders
<1>3. CASE ~ visit_import
  <2>1. \E S : /\ add_decl(FileOf(d), S)
               /\ ItemOf(d).kind \in {"func", "const", "struct", "enum"} => n \in S
    <3>1. CASE visit_func
      BY <3>1 DEF visit_func
    <3>2. CASE visit_const
      BY <3>2 DEF visit_const
    <3>3. CASE visit_adt
      BY <3>3 DEF visit_adt
    <3>4. CASE visit_trait
      <4>1. ItemOf(d).kind = "trait" /\ \E S : add_decl(FileOf(d), S)
        BY <3>4 DEF visit_trait, Visit
      <4> QED
        BY <4>1
    <3>5. CASE visit_impl
      <4>1. ItemOf(d).kind = "impl" /\ \E S : add_decl(FileOf(d), S)
        BY <3>5 DEF visit_impl, Visit
      <4> QED
        BY <4>1
    <3> QED
      BY <1>3, <3>1, <3>2, <3>3, <3>4, <3>5
  <2>2. PICK S : /\ add_decl(FileOf(d), S)
                 /\ ItemOf(d).kind \in {"func", "const", "struct", "enum"} => n \in S
    BY <2>1
  <2>3. /\ \A x \in fileNames : scope[x] \subseteq scope'[x]
        /\ S \subseteq scope'[FileOf(d)]
    BY <1>1, <2>2, DeclAdded
  <2>4. receiving' = FALSE
    BY <1>1, <1>3
  <2>5. ItemOf(d).kind \in {"func", "const", "struct", "enum"} => n \in scope'[FileOf(d)]
    BY <2>2, <2>3
  <2> QED
    BY <1>1, <2>3, <2>4, <2>5, VisitHeaders
<1> QED
  BY <1>2, <1>3

\* The loop of an import ends, and a call of visit_prog begins.
LEMMA EnterHeaders ==
    ASSUME IInv, IInv', HeadersInv, receiving, phase = "check",
           NEW b, NEW files, EnterBatch(b, files), UNCHANGED <<prog, threads>>
    PROVE  HeadersInv'
<1> DEFINE n == Len(frames)
           new == [items |-> b, at |-> 0]
<1>1. frames \in Seq(Frame) /\ n \in Nat /\ n # 0
  BY TopFrame DEF IInv, TypeOK
<1>2. frames' = Append(frames, new) /\ receiving' = FALSE /\ new.at = 0
  BY DEF EnterBatch
<1> HIDE DEF new
<1>3. Len(frames') = n + 1 /\ frames'[n + 1] = new /\ \A k \in 1..n : frames'[k] = frames[k]
  BY <1>1, <1>2
<1>4. Len(frames'[n + 1].items) \in Nat
  <2>1. frames' \in Seq(Frame) /\ n + 1 \in 1..Len(frames')
    BY <1>1, <1>3 DEF IInv, TypeOK
  <2>2. frames'[n + 1] \in Frame
    BY <2>1
  <2> QED
    BY <2>2 DEF Frame
<1>5. WaitsOK(prog, threads, frames', FALSE)
  <2> SUFFICES ASSUME NEW k \in 1..(n + 1)
               PROVE  /\ frames'[k].at <= Len(frames'[k].items)
                      /\ k < n + 1 =>
                           /\ frames'[k].at # 0
                           /\ IsImport(ItemAt(prog, threads, frames'[k].items[frames'[k].at]))
    BY <1>3 DEF WaitsOK
  <2>1. CASE k \in 1..n
    BY <1>3, <2>1 DEF HeadersInv, WaitsOK
  <2>2. CASE k = n + 1
    BY <1>1, <1>2, <1>3, <1>4, <2>2
  <2>3. k \in 1..n \/ k = n + 1
    BY <1>1
  <2> QED
    BY <2>1, <2>2, <2>3
<1>6. Top'.at = 0
  BY <1>2, <1>3 DEF Top
<1>7. InScope(prog, threads, Top', scope')
  BY <1>6, ScopeAtStart
<1> QED
  BY <1>2, <1>5, <1>7 DEF HeadersInv

LEMMA RecvHeaders ==
    ASSUME IInv, IInv', HeadersInv, recv_blob \/ recv_error \/ recv_closed
    PROVE  HeadersInv'
<1>1. /\ phase = "check" /\ receiving /\ UNCHANGED <<prog, threads>>
      /\ \/ \E b, files : EnterBatch(b, files)
         \/ UNCHANGED <<frames, receiving>>
  BY DEF recv_blob, recv_error, recv_closed, threadVars
<1>2. CASE \E b, files : EnterBatch(b, files)
  BY <1>1, <1>2, EnterHeaders
<1>3. CASE UNCHANGED <<frames, receiving>>
  BY <1>1, <1>3 DEF HeadersInv
<1> QED
  BY <1>1, <1>2, <1>3

\* A call of visit_prog ends; its caller waits at the import.
LEMMA CheckBodiesHeaders ==
    ASSUME IInv, IInv', HeadersInv, check_bodies
    PROVE  HeadersInv'
<1> DEFINE n == Len(frames)
<1>1. /\ frames' = SubSeq(frames, 1, n - 1) /\ phase = "check" /\ ~ receiving
      /\ UNCHANGED <<prog, threads, receiving>>
      /\ phase' = "check" => n > 1
  <2>1. /\ frames' = SubSeq(frames, 1, n - 1) /\ phase = "check" /\ ~ receiving
        /\ UNCHANGED <<prog, threads, receiving>>
    BY DEF check_bodies
  <2>2. n > 1 \/ phase' \in {"lower", "failed"}
    BY DEF check_bodies
  <2> QED
    BY <2>1, <2>2
<1>2. frames \in Seq(Frame) /\ n \in Nat /\ n # 0
  BY <1>1, TopFrame DEF IInv, TypeOK
<1>3. Len(frames') = n - 1 /\ \A k \in 1..(n - 1) : frames'[k] = frames[k] /\ k \in 1..n /\ k < n
  <2>1. \A k \in 1..(n - 1) : frames[k] \in Frame /\ k \in 1..n /\ k < n
    BY <1>2
  <2>2. 1 \in Int /\ n - 1 \in Int
    BY <1>2
  <2> HIDE DEF n
  <2> QED
    BY <1>1, <1>2, <2>1, <2>2, SubSeqProperties
<1>4. WaitsOK(prog, threads, frames', FALSE)
  BY <1>3 DEF HeadersInv, WaitsOK
<1>5. ASSUME phase' = "check" PROVE InScope(prog, threads, Top', scope')
  <2>1. n > 1
    BY <1>1, <1>5
  <2>2. n - 1 \in 1..(n - 1)
    <3> HIDE DEF n
    <3> QED
      BY <1>2, <2>1
  <2>3. Top' = frames[n - 1] /\ n - 1 \in 1..n /\ n - 1 < n
    BY <1>3, <2>2 DEF Top
  <2>4. frames[n - 1].at # 0
        /\ IsImport(ItemAt(prog, threads, frames[n - 1].items[frames[n - 1].at]))
    BY <2>3 DEF HeadersInv, WaitsOK
  <2>5. frames[n - 1].at \in Nat
    BY <2>3, FrameFacts
  <2> QED
    BY <2>3, <2>4, <2>5, ScopeAtImport
<1>6. receiving' = FALSE
  BY <1>1 DEF IInv, TypeOK
<1> QED
  BY <1>1, <1>4, <1>5, <1>6 DEF HeadersInv

LEMMA RootParsedHeaders ==
    ASSUME IInv, IInv', OnceInv, HeadersInv, RootParsed
    PROVE  HeadersInv'
<1>1. frames = <<>> /\ receiving' = FALSE
  BY DEF RootParsed, OnceInv, IInv, TypeOK
<1>2. CASE phase' # "check" /\ frames' = frames
  BY <1>1, <1>2 DEF HeadersInv, WaitsOK
<1>3. CASE frames' = <<[items |-> RootItems, at |-> 0]>>
  <2>1. Len(frames') = 1 /\ frames'[1].at = 0
    BY <1>3
  <2>2. Len(frames'[1].items) \in Nat
    <3>1. frames' \in Seq(Frame)
      BY DEF IInv, TypeOK
    <3>2. frames'[1] \in Frame
      BY <2>1, <3>1
    <3> QED
      BY <3>2 DEF Frame
  <2>3. WaitsOK(prog', threads', frames', FALSE)
    BY <2>1, <2>2 DEF WaitsOK
  <2>4. InScope(prog', threads', Top', scope')
    BY <2>1, ScopeAtStart DEF Top
  <2> QED
    BY <1>1, <2>3, <2>4 DEF HeadersInv
<1> QED
  BY <1>2, <1>3 DEF RootParsed

LEMMA NextHeaders ==
    ASSUME IInv, IInv', OnceInv, HeadersInv, [Next]_vars
    PROVE  HeadersInv'
<1>1. CASE UNCHANGED vars
  BY <1>1, HeadersStutter DEF vars, threadVars, checkVars
<1>2. ASSUME NEW t \in DOMAIN threads, Parse(t) PROVE HeadersInv'
  <2>1. t \in 1..Len(threads)
    BY DEF IInv, TypeOK, ThreadTypeOK
  <2>2. ThreadsGrow
    BY <1>2, <2>1, ThreadStepInv DEF Parse, IInv, TypeOK
  <2>3. phase' = phase /\ prog' = prog
    BY <1>2, ThreadStepLog DEF Parse
  <2> QED
    BY <1>2, <2>2, <2>3, HeadersStutter DEF Parse, checkVars, ThreadsGrow
<1>3. CASE RootParsed
  BY <1>3, RootParsedHeaders
<1>4. CASE visit_func \/ visit_const \/ visit_adt \/ visit_trait \/ visit_impl \/ visit_import
  BY <1>4, VisitsHeaders
<1>5. CASE recv_blob \/ recv_error \/ recv_closed
  BY <1>5, RecvHeaders
<1>6. CASE check_bodies
  BY <1>6, CheckBodiesHeaders
<1>7. CASE lower_items
  BY <1>7, HeadersStutter DEF lower_items, checkVars
<1> QED
  BY <1>1, <1>2, <1>3, <1>4, <1>5, <1>6, <1>7 DEF Next, MainStep

LEMMA InitHeaders ==
    ASSUME Init
    PROVE  HeadersInv
BY DEF Init, ThreadInit, HeadersInv, WaitsOK

\* An import clears every scope, and still, at every moment of a walk, each
\* function, const, struct and enum walked since the last import of the
\* innermost visit_prog is in the scope of its file.
THEOREM HeadersStayInScope == Spec => []HeadersSinceLastImport
<1>1. Init => IInv /\ OnceInv /\ HeadersInv
  BY InitInv, InitOnce, InitHeaders
<1>2. IInv /\ OnceInv /\ HeadersInv /\ [Next]_vars => IInv' /\ OnceInv' /\ HeadersInv'
  BY NextInv, NextOnce, NextHeaders
<1>3. HeadersInv => HeadersSinceLastImport
  BY DEF HeadersInv, HeadersSinceLastImport, InScope, ItemAt, ItemOf, FileOf
<1> QED
  BY <1>1, <1>2, <1>3, PTL DEF Spec

-----------------------------------------------------------------------------
(* The root file: its parser never sends, and visit_prog walks all of it *)

RootParser ==
    /\ threads[1].pc \in {"parse", "done"}
    /\ phase # "parse" =>
         threads[1].pc = "done" /\ threads[1].parsed = Len(prog[Root].items)
    /\ \A i \in 1..Len(log) : log[i].thread # 1
    /\ phase = "parse" => fileNames = {}
    /\ phase = "check" =>
         /\ Len(frames[1].items) = Len(prog[Root].items)
         /\ \A k \in 1..Len(frames[1].items) : frames[1].items[k] = [thread |-> 1, pos |-> k]

\* A step of a parser thread that starts no other.
LEMMA OtherThreads ==
    ASSUME IInv, NEW t \in 1..Len(threads), ThreadStep(t), ~ ParseImport(t)
    PROVE  /\ Len(threads') = Len(threads)
           /\ \A s \in 1..Len(threads) : s # t => threads'[s] = threads[s]
<1>1. threads \in Seq(Thread) /\ threads' \in Seq(Thread)
  BY ThreadStepInv DEF IInv, TypeOK, ThreadTypeOK
<1>2. \E rec : threads' = [threads EXCEPT ![t] = rec]
  <2>1. CASE ReadFile(t)
    BY <2>1 DEF ReadFile, Goto
  <2>2. CASE ParseItem(t)
    BY <2>2 DEF ParseItem
  <2>3. CASE ParseEnd(t)
    BY <2>3 DEF ParseEnd, Goto
  <2>4. CASE SendItem(t)
    BY <2>4 DEF SendItem
  <2>5. CASE Exit(t)
    BY <2>5 DEF Exit, Goto
  <2> QED
    BY <2>1, <2>2, <2>3, <2>4, <2>5 DEF ThreadStep
<1>3. /\ DOMAIN threads' = DOMAIN threads
      /\ \A s \in 1..Len(threads) : s # t => threads'[s] = threads[s]
  BY <1>1, <1>2
<1>4. /\ Len(threads) \in Nat /\ Len(threads') \in Nat
      /\ DOMAIN threads = 1..Len(threads) /\ DOMAIN threads' = 1..Len(threads')
  BY <1>1
<1> DEFINE n == Len(threads)
           m == Len(threads')
<1>5. 1..m = 1..n /\ m \in Nat /\ n \in Nat
  BY <1>3, <1>4
<1> HIDE DEF n, m
<1>6. m = n
  BY <1>5
<1> QED
  BY <1>3, <1>6 DEF n, m

\* What a thread sends bears its own number, and the root parser sends nothing.
LEMMA SentBy ==
    ASSUME IInv, NEW t \in 1..Len(threads), ThreadStep(t),
           threads[1].pc \in {"parse", "done"},
           \A i \in 1..Len(log) : log[i].thread # 1
    PROVE  \A i \in 1..Len(log') : log'[i].thread # 1
<1>1. log' = log \/ \E m : log' = Append(log, m) /\ m.thread = t /\ t # 1
  <2>1. CASE ReadFile(t) \/ ParseItem(t) \/ ParseImport(t) \/ Exit(t)
    BY <2>1 DEF ReadFile, ParseItem, ParseImport, Exit
  <2>2. CASE ParseEnd(t)
    BY <2>2 DEF ParseEnd, Send
  <2>3. CASE SendItem(t)
    <3>1. t # 1
      BY <2>3 DEF SendItem
    <3> QED
      BY <2>3, <3>1 DEF SendItem, Send
  <2> QED
    BY <2>1, <2>2, <2>3 DEF ThreadStep
<1>2. log \in Seq(Message)
  BY DEF IInv, TypeOK, ThreadTypeOK
<1>3. ASSUME NEW m, log' = Append(log, m), m.thread = t, t # 1
      PROVE  \A i \in 1..Len(log') : log'[i].thread # 1
  BY <1>2, <1>3
<1> QED
  BY <1>1, <1>3

\* What the root parser can do.
LEMMA RootStep ==
    ASSUME IInv, ThreadStep(1), threads[1].pc \in {"parse", "done"}
    PROVE  /\ threads[1].pc = "parse"
           /\ ParseItem(1) \/ ParseImport(1)
           /\ threads[1].parsed \in Nat /\ threads[1].parsed + 1 \in 1..Len(prog[Root].items)
           /\ Text(1) = prog[Root] /\ 1 \in 1..Len(threads)
<1>1. 1 \in 1..Len(threads) /\ Text(1) = prog[Root]
  BY DEF IInv, TypeOK, ThreadTypeOK, RootInv, Text
<1>2. threads[1].pc = "parse" /\ (ParseItem(1) \/ ParseImport(1))
  BY DEF ThreadStep, ReadFile, ParseItem, ParseImport, ParseEnd, SendItem, Exit
<1>3. threads[1].parsed \in Nat /\ Len(Text(1).items) \in Nat
  BY <1>1, TextType DEF IInv, TypeOK, Thread
<1>4. threads[1].parsed < Len(Text(1).items)
  BY <1>2 DEF ParseItem, ParseImport
<1>5. threads[1].parsed + 1 \in 1..Len(Text(1).items)
  BY <1>3, <1>4
<1> QED
  BY <1>1, <1>2, <1>3, <1>5

\* The steps of the parser threads.
LEMMA ParseRoot ==
    ASSUME IInv, RootParser, NEW t \in DOMAIN threads, Parse(t)
    PROVE  RootParser'
<1>1. t \in 1..Len(threads) /\ ThreadStep(t) /\ UNCHANGED checkVars /\ 1 \in 1..Len(threads)
  BY DEF Parse, IInv, TypeOK, ThreadTypeOK
<1>2. phase' = phase /\ prog' = prog
  BY <1>1, ThreadStepLog
<1>3. \A i \in 1..Len(log') : log'[i].thread # 1
  BY <1>1, SentBy DEF RootParser
<1>4. threads'[1] = threads[1] \/ (threads[1].pc = "parse" /\ threads'[1].pc = "parse")
  <2>1. CASE t # 1
    <3>1. CASE ParseImport(t)
      <4> DEFINE old == [threads EXCEPT ![t].parsed = threads[t].parsed + 1]
                 new == NewThread(Text(t).items[threads[t].parsed + 1].of, t, threads[t].parsed + 1)
      <4>1. threads' = Append(old, new)
        BY <3>1 DEF ParseImport
      <4>2. DOMAIN old = DOMAIN threads /\ old[1] = threads[1] /\ DOMAIN threads = 1..Len(threads)
        BY <1>1, <2>1 DEF IInv, TypeOK, ThreadTypeOK
      <4> HIDE DEF old, new
      <4> QED
        BY <1>1, <4>1, <4>2
    <3>2. CASE ~ ParseImport(t)
      BY <1>1, <2>1, <3>2, OtherThreads
    <3> QED
      BY <3>1, <3>2
  <2>2. CASE t = 1
    <3> DEFINE rec == [threads[1] EXCEPT !.parsed = threads[1].parsed + 1]
    <3>1. /\ threads[1].pc = "parse" /\ 1 \in 1..Len(threads)
          /\ ParseItem(1) \/ ParseImport(1)
      BY <1>1, <2>2, RootStep DEF RootParser
    <3>2. threads \in Seq(Thread) /\ threads[1] \in Thread
      BY <3>1 DEF IInv, TypeOK, ThreadTypeOK
    <3>3. rec.pc = "parse"
      BY <3>1, <3>2 DEF Thread
    <3> HIDE DEF rec
    <3>4. threads' = [threads EXCEPT ![1] = rec]
          \/ \E new : threads' = Append([threads EXCEPT ![1] = rec], new)
      BY Zenon, <3>1 DEF ParseItem, ParseImport, rec
    <3>5. threads'[1] = rec
      BY <3>1, <3>2, <3>4
    <3> QED
      BY <3>1, <3>3, <3>5
  <2> QED
    BY <2>1, <2>2
<1> QED
  BY <1>1, <1>2, <1>3, <1>4 DEF RootParser, checkVars

\* What the type checker stands at, in terms of the root's items.
LEMMA RootFrame ==
    ASSUME IInv, RootParser, phase = "check"
    PROVE  /\ 1 \in 1..Len(frames) /\ frames[1].at \in Nat
           /\ Len(frames[1].items) \in Nat
           /\ \A k \in 1..Len(frames[1].items) :
                ItemAt(prog, threads, frames[1].items[k]) = prog[Root].items[k]
<1>1. 1 \in 1..Len(frames)
  BY TopFrame DEF IInv, TypeOK
<1>2. frames[1].at \in Nat /\ Len(frames[1].items) \in Nat
  BY <1>1, FrameFacts
<1>3. \A k \in 1..Len(frames[1].items) :
         ItemAt(prog, threads, frames[1].items[k]) = prog[Root].items[k]
  <2>1. threads[1].file = Root
    BY DEF IInv, RootInv
  <2>2. \A k \in 1..Len(frames[1].items) : frames[1].items[k] = [thread |-> 1, pos |-> k]
    BY DEF RootParser
  <2>3. \A k : ItemAt(prog, threads, [thread |-> 1, pos |-> k]) = prog[Root].items[k]
    BY <2>1 DEF ItemAt
  <2> QED
    BY <2>2, <2>3
<1> QED
  BY <1>1, <1>2, <1>3

\* process_file drops the root's parser.
LEMMA RootDone ==
    ASSUME IInv, RootParsed
    PROVE  /\ Len(threads') = Len(threads) /\ 1 \in 1..Len(threads)
           /\ threads'[1].parsed = threads[1].parsed /\ threads'[1].pc = "done"
           /\ \A s \in 2..Len(threads) : threads'[s] = threads[s]
           /\ threads[1].parsed = Len(prog[Root].items) /\ Len(prog[Root].items) \in Nat
<1> DEFINE th == threads[1]
           rec == [th EXCEPT !.pc = "done"]
<1>1. threads' = [threads EXCEPT ![1] = rec] /\ th.parsed = Len(Text(1).items)
  BY DEF RootParsed, Goto
<1>2. 1 \in 1..Len(threads) /\ threads \in Seq(Thread) /\ Text(1) = prog[Root]
  BY DEF IInv, TypeOK, ThreadTypeOK, RootInv, Text
<1>3. Len(prog[Root].items) \in Nat
  BY <1>2, TextType DEF IInv, TypeOK
<1>4. rec.pc = "done" /\ rec.parsed = th.parsed
  BY <1>2 DEF Thread
<1> HIDE DEF rec
<1>5. Len(threads') = Len(threads) /\ threads'[1] = rec
      /\ \A s \in 1..Len(threads) : s # 1 => threads'[s] = threads[s]
  BY <1>1, <1>2
<1>6. \A s \in 2..Len(threads) : s \in 1..Len(threads) /\ s # 1
  BY <1>2
<1> QED
  BY <1>1, <1>2, <1>3, <1>4, <1>5, <1>6

\* visit_prog begins with all items of the root, in order.
LEMMA RootParsedRoot ==
    ASSUME IInv, IInv', RootParser, RootParsed
    PROVE  RootParser'
<1> DEFINE n == threads[1].parsed
<1>1. phase = "parse" /\ phase' # "parse" /\ UNCHANGED <<prog, log>>
  BY DEF RootParsed
<1>2. CASE phase' = "check" /\ frames' = <<[items |-> RootItems, at |-> 0]>>
  <2>1. Len(frames') = 1 /\ frames'[1].items = RootItems
    BY <1>2
  <2>2. RootItems = [k \in 1..n |-> [thread |-> 1, pos |-> k]] /\ n \in Nat
    BY RootDone DEF RootItems
  <2> HIDE DEF n
  <2>3. RootItems \in Seq(Decl)
    <3>1. frames' \in Seq(Frame) /\ 1 \in 1..Len(frames')
      BY <2>1 DEF IInv, TypeOK
    <3>2. frames'[1] \in Frame
      BY <3>1
    <3> QED
      BY <2>1, <3>2 DEF Frame
  <2>4. Len(RootItems) = n
    <3> DEFINE m == Len(RootItems)
    <3>1. m \in Nat /\ 1..m = 1..n
      BY <2>2, <2>3
    <3> HIDE DEF m
    <3>2. m = n
      BY <2>2, <3>1
    <3> QED
      BY <3>2 DEF m
  <2>5. \A k \in 1..Len(RootItems) : RootItems[k] = [thread |-> 1, pos |-> k]
    BY <2>2, <2>4
  <2> QED
    BY <1>1, <1>2, <2>1, <2>4, <2>5, RootDone DEF RootParser, n
<1>3. CASE phase' \in {"failed", "crashed"}
  BY <1>1, <1>3, RootDone DEF RootParser
<1> QED
  BY <1>2, <1>3 DEF RootParsed

\* The outermost call keeps its items while there is one.
LEMMA RootKept ==
    ASSUME RootParser, UNCHANGED <<prog, threads, log>>, phase' # "parse", phase # "parse",
           phase' = "check" => phase = "check" /\ frames'[1].items = frames[1].items
    PROVE  RootParser'
BY DEF RootParser

LEMMA BottomKept ==
    ASSUME IInv, phase = "check", phase' = "check",
           \/ Walking /\ Advance
           \/ \E b, files : EnterBatch(b, files)
           \/ check_bodies
    PROVE  frames'[1].items = frames[1].items
<1>1. frames \in Seq(Frame) /\ 1 \in 1..Len(frames) /\ Len(frames) \in Nat
  BY TopFrame DEF IInv, TypeOK
<1>2. CASE Walking /\ Advance
  <2>1. /\ 1 # Len(frames) => frames'[1] = frames[1]
        /\ frames'[Len(frames)].items = Top.items /\ frames[Len(frames)] = Top
    BY <1>1, <1>2, AdvanceTop DEF Top
  <2> QED
    BY <2>1
<1>3. ASSUME NEW b, NEW files, EnterBatch(b, files) PROVE frames'[1] = frames[1]
  <2> DEFINE new == [items |-> b, at |-> 0]
  <2>1. frames' = Append(frames, new)
    BY <1>3 DEF EnterBatch
  <2> HIDE DEF new
  <2> QED
    BY <1>1, <2>1
<1>4. CASE check_bodies
  <2> DEFINE n == Len(frames)
  <2>1. n > 1 /\ frames' = SubSeq(frames, 1, n - 1)
    BY <1>4 DEF check_bodies
  <2>2. 1 \in Int /\ n - 1 \in Int /\ 1 \in 1..(n - 1) /\ \A k \in 1..(n - 1) : frames[k] \in Frame
    BY <1>1, <2>1
  <2> HIDE DEF n
  <2>3. frames'[1] = frames[1]
    BY <1>1, <2>1, <2>2, SubSeqProperties
  <2> QED
    BY <2>3
<1> QED
  BY <1>2, <1>3, <1>4

LEMMA NextRoot ==
    ASSUME IInv, IInv', RootParser, [Next]_vars
    PROVE  RootParser'
<1>1. CASE UNCHANGED vars
  BY <1>1 DEF vars, threadVars, checkVars, RootParser
<1>2. ASSUME NEW t \in DOMAIN threads, Parse(t) PROVE RootParser'
  BY <1>2, ParseRoot
<1>3. CASE RootParsed
  BY <1>3, RootParsedRoot
<1>4. CASE visit_func \/ visit_const \/ visit_adt \/ visit_trait \/ visit_impl \/ visit_import
  <2>1. Walking /\ Advance /\ UNCHANGED threadVars
    BY <1>4 DEF visit_func, visit_const, visit_adt, visit_trait, visit_impl, visit_import, Visit
  <2>2. phase = "check" /\ UNCHANGED <<prog, threads, log, phase>>
    BY <2>1 DEF Walking, threadVars
  <2> QED
    BY <2>1, <2>2, BottomKept, RootKept
<1>5. CASE recv_blob \/ recv_error \/ recv_closed
  <2>1. /\ phase = "check" /\ UNCHANGED <<prog, threads, log, phase>>
        /\ frames' = frames \/ \E b, files : EnterBatch(b, files)
    BY <1>5 DEF recv_blob, recv_error, recv_closed, threadVars
  <2> QED
    BY <2>1, BottomKept, RootKept
<1>6. CASE check_bodies
  <2>1. phase = "check" /\ UNCHANGED <<prog, threads, log>> /\ phase' \in {"check", "lower", "failed"}
    BY <1>6 DEF check_bodies
  <2> QED
    BY <1>6, <2>1, BottomKept, RootKept
<1>7. CASE lower_items
  BY <1>7, RootKept DEF lower_items
<1> QED
  BY <1>1, <1>2, <1>3, <1>4, <1>5, <1>6, <1>7 DEF Next, MainStep

LEMMA InitRoot ==
    ASSUME Init
    PROVE  RootParser
<1> DEFINE th == [NewThread(Root, 0, 0) EXCEPT !.pc = "parse"]
<1>1. th.pc = "parse"
  BY DEF NewThread
<1>2. threads = <<th>> /\ log = <<>> /\ phase = "parse" /\ fileNames = {}
  BY DEF Init, ThreadInit
<1> HIDE DEF th
<1> QED
  BY <1>1, <1>2 DEF RootParser

-----------------------------------------------------------------------------
(* One loop per thread: what is counted when only the root imports *)

\* The imports among the first n items of the root.
RootImports(p, n) == {k \in 1..n : IsImport(p[Root].items[k])}

\* The received messages that end a loop.
Terminators(lg, h) == {i \in 1..h : ~ lg[i].ok \/ lg[i].count = 0}

\* The imports of the root whose loop has ended.
Ended(p, n, rcv) == RootImports(p, n) \ (IF rcv THEN {n} ELSE {})

Closed == head = Len(log) /\ NoSenders

\* Every thread but the root parser was started by the root.
FlatThreads ==
    /\ \A t \in 2..Len(threads) : threads[t].file # Root
    /\ Len(threads) = Cardinality(RootImports(prog, threads[1].parsed)) + 1

\* visit_prog walks the root, and inside it at most one batch.
FlatFrames == phase = "check" => Len(frames) = 1 \/ (Len(frames) = 2 /\ ~ receiving)

\* As many loops have ended as terminators have been received, unless the
\* channel was found closed.
FlatCount ==
    /\ phase = "check" =>
         \/ Closed
         \/ Cardinality(Terminators(log, head))
              = Cardinality(Ended(prog, frames[1].at, receiving))
    /\ Checked =>
         \/ Closed
         \/ Cardinality(Terminators(log, head))
              = Cardinality(RootImports(prog, Len(prog[Root].items)))

FlatInv == Flat => FlatThreads /\ FlatFrames /\ FlatCount

LEMMA FiniteCounts ==
    ASSUME NEW p, NEW lg, NEW n \in Nat
    PROVE  IsFiniteSet(RootImports(p, n)) /\ IsFiniteSet(Terminators(lg, n))
<1>1. IsFiniteSet(1..n)
  BY FS_Interval
<1> QED
  BY <1>1, FS_Subset DEF RootImports, Terminators

LEMMA ImportsNext ==
    ASSUME NEW p, NEW n \in Nat
    PROVE  /\ ~ IsImport(p[Root].items[n + 1]) => RootImports(p, n + 1) = RootImports(p, n)
           /\ IsImport(p[Root].items[n + 1]) =>
                /\ RootImports(p, n + 1) = RootImports(p, n) \cup {n + 1}
                /\ Cardinality(RootImports(p, n + 1)) = Cardinality(RootImports(p, n)) + 1
<1> DEFINE m == n + 1
<1>1. /\ \A k \in 1..m : k \in 1..n \/ k = m
      /\ \A k \in 1..n : k \in 1..m /\ k # m
      /\ m \in 1..m
  OBVIOUS
<1> HIDE DEF m
<1>2. ~ IsImport(p[Root].items[m]) => RootImports(p, m) = RootImports(p, n)
  BY <1>1 DEF RootImports
<1>3. IsImport(p[Root].items[m]) => RootImports(p, m) = RootImports(p, n) \cup {m}
  BY <1>1 DEF RootImports
<1>4. m \notin RootImports(p, n)
  BY <1>1 DEF RootImports
<1>5. Cardinality(RootImports(p, n) \cup {m}) = Cardinality(RootImports(p, n)) + 1
  BY <1>4, FiniteCounts, FS_AddElement
<1> QED
  BY <1>2, <1>3, <1>5 DEF m

LEMMA TerminatorsNext ==
    ASSUME NEW lg, NEW n \in Nat
    PROVE  /\ lg[n + 1].ok /\ lg[n + 1].count # 0 => Terminators(lg, n + 1) = Terminators(lg, n)
           /\ ~ lg[n + 1].ok \/ lg[n + 1].count = 0 =>
                Cardinality(Terminators(lg, n + 1)) = Cardinality(Terminators(lg, n)) + 1
<1> DEFINE m == n + 1
<1>1. /\ \A k \in 1..m : k \in 1..n \/ k = m
      /\ \A k \in 1..n : k \in 1..m /\ k # m
      /\ m \in 1..m
  OBVIOUS
<1> HIDE DEF m
<1>2. lg[m].ok /\ lg[m].count # 0 => Terminators(lg, m) = Terminators(lg, n)
  BY <1>1 DEF Terminators
<1>3. ~ lg[m].ok \/ lg[m].count = 0 => Terminators(lg, m) = Terminators(lg, n) \cup {m}
  BY <1>1 DEF Terminators
<1>4. m \notin Terminators(lg, n)
  BY <1>1 DEF Terminators
<1>5. Cardinality(Terminators(lg, n) \cup {m}) = Cardinality(Terminators(lg, n)) + 1
  BY <1>4, FiniteCounts, FS_AddElement
<1> QED
  BY <1>2, <1>3, <1>5 DEF m

\* A loop begins at the import n + 1, and one ends at the import n.
LEMMA EndedNext ==
    ASSUME NEW p, NEW n \in Nat
    PROVE  /\ Ended(p, n + 1, TRUE) = Ended(p, n, FALSE)
           /\ ~ IsImport(p[Root].items[n + 1]) => Ended(p, n + 1, FALSE) = Ended(p, n, FALSE)
           /\ n # 0 /\ IsImport(p[Root].items[n]) =>
                Cardinality(Ended(p, n, FALSE)) = Cardinality(Ended(p, n, TRUE)) + 1
<1>1. Ended(p, n, FALSE) = RootImports(p, n) /\ Ended(p, n + 1, FALSE) = RootImports(p, n + 1)
  BY DEF Ended
<1>2. n + 1 \notin RootImports(p, n)
  BY DEF RootImports
<1>3. Ended(p, n + 1, TRUE) = RootImports(p, n)
  <2>1. Ended(p, n + 1, TRUE) = RootImports(p, n + 1) \ {n + 1}
    BY DEF Ended
  <2> QED
    BY <2>1, <1>2, ImportsNext
<1>4. ASSUME n # 0, IsImport(p[Root].items[n])
      PROVE  Cardinality(Ended(p, n, FALSE)) = Cardinality(Ended(p, n, TRUE)) + 1
  <2>1. n \in RootImports(p, n)
    BY <1>4 DEF RootImports
  <2>2. Cardinality(RootImports(p, n) \ {n}) = Cardinality(RootImports(p, n)) - 1
    BY <2>1, FiniteCounts, FS_RemoveElement
  <2>3. Cardinality(RootImports(p, n)) \in Nat
    BY FiniteCounts, FS_CardinalityType
  <2>4. Ended(p, n, TRUE) = RootImports(p, n) \ {n}
    BY DEF Ended
  <2> DEFINE c == Cardinality(RootImports(p, n))
  <2>5. Cardinality(Ended(p, n, FALSE)) = c /\ Cardinality(Ended(p, n, TRUE)) = c - 1
    BY <2>2, <2>4, <1>1
  <2>6. (c - 1) + 1 = c
    <3>1. c \in Nat
      BY <2>3
    <3> HIDE DEF c
    <3> QED
      BY <3>1
  <2> HIDE DEF c
  <2> QED
    BY Zenon, <2>5, <2>6
<1> QED
  BY <1>1, <1>3, <1>4, ImportsNext

\* No other thread meets an import.
LEMMA FlatNoImport ==
    ASSUME IInv, Flat, FlatThreads, NEW t \in 2..Len(threads), NEW k \in 1..Len(Text(t).items)
    PROVE  ~ IsImport(Text(t).items[k])
<1>1. t \in 1..Len(threads)
  BY DEF IInv, TypeOK, ThreadTypeOK
<1>2. threads[t].file \in File /\ threads[t].file # Root
  BY <1>1, TextType DEF FlatThreads, IInv, TypeOK, Thread
<1> QED
  BY <1>2 DEF Flat, Text

LEMMA ParseFlatThreads ==
    ASSUME IInv, RootParser, Flat, FlatThreads,
           NEW t \in 1..Len(threads), ThreadStep(t), prog' = prog
    PROVE  FlatThreads'
<1> DEFINE n == threads[1].parsed
<1>1. /\ threads \in Seq(Thread) /\ Len(threads) \in Nat /\ 1 \in 1..Len(threads)
      /\ threads' \in Seq(Thread)
      /\ Len(threads) <= Len(threads')
      /\ \A s \in 1..Len(threads) : threads'[s].file = threads[s].file
  BY ThreadStepInv DEF IInv, TypeOK, ThreadTypeOK, ThreadsGrow
<1>3. CASE t # 1
  <2>1. ~ ParseImport(t)
    <3>1. t \in 2..Len(threads)
      BY <1>1, <1>3
    <3>2. Len(Text(t).items) \in Nat /\ threads[t].parsed \in Nat
      BY TextType DEF IInv, TypeOK, Thread
    <3>3. threads[t].parsed < Len(Text(t).items) => threads[t].parsed + 1 \in 1..Len(Text(t).items)
      BY <3>2
    <3> QED
      BY <3>1, <3>3, FlatNoImport DEF ParseImport
  <2>2. Len(threads') = Len(threads) /\ threads'[1] = threads[1]
    BY <1>1, <1>3, <2>1, OtherThreads
  <2>3. \A s \in 2..Len(threads') : threads'[s].file # Root
    BY <1>1, <2>2 DEF FlatThreads
  <2> QED
    BY <2>2, <2>3 DEF FlatThreads
<1>4. CASE t = 1
  <2>1. /\ threads[1].pc = "parse"
        /\ ParseItem(1) \/ ParseImport(1)
        /\ n \in Nat /\ n + 1 \in 1..Len(prog[Root].items)
        /\ Text(1) = prog[Root]
    BY <1>4, RootStep DEF RootParser
  <2> DEFINE rec == [threads[1] EXCEPT !.parsed = n + 1]
             old == [threads EXCEPT ![1] = rec]
  <2>2. rec \in Thread /\ rec.pc = "parse" /\ rec.parsed = n + 1
    <3>1. threads[1] \in Thread /\ n + 1 \in Nat
      BY <1>1, <2>1
    <3>2. rec \in Thread /\ rec.pc = threads[1].pc /\ rec.parsed = n + 1
      BY ZenonT(60), <3>1, CounterUpdate
    <3> QED
      BY <2>1, <3>2
  <2>3. ParseItem(1) => threads' = old /\ ~ IsImport(prog[Root].items[n + 1])
    BY <2>1 DEF ParseItem
  <2>4. ParseImport(1) => /\ threads' = Append(old, NewThread(prog[Root].items[n + 1].of, 1, n + 1))
                          /\ IsImport(prog[Root].items[n + 1])
    BY <2>1 DEF ParseImport
  <2> HIDE DEF rec
  <2>5. old \in Seq(Thread) /\ Len(old) = Len(threads) /\ old[1] = rec
        /\ \A s \in 2..Len(threads) : old[s] = threads[s]
    BY <1>1, <2>2
  <2> HIDE DEF old
  <2> DEFINE c == Cardinality(RootImports(prog, n))
  <2>6. Len(threads) = c + 1
    BY DEF FlatThreads
  <2>7. CASE ParseItem(1)
    <3>1. RootImports(prog, n + 1) = RootImports(prog, n)
      BY <2>1, <2>3, <2>7, ImportsNext
    <3>2. \A s \in 2..Len(threads') : threads'[s].file # Root
      BY <1>1, <2>3, <2>5, <2>7 DEF FlatThreads
    <3>3. Len(threads') = Cardinality(RootImports(prog, threads'[1].parsed)) + 1
      BY <2>2, <2>3, <2>5, <2>6, <2>7, <3>1
    <3> QED
      BY <3>2, <3>3 DEF FlatThreads
  <2>8. CASE ParseImport(1)
    <3> DEFINE new == NewThread(prog[Root].items[n + 1].of, 1, n + 1)
    <3>1. Cardinality(RootImports(prog, n + 1)) = c + 1
      BY <2>1, <2>4, <2>8, ImportsNext
    <3>2. new.file # Root
      <4>1. Root \in File
        BY ConstantsAssumption
      <4> QED
        BY <2>1, <2>4, <2>8, <4>1 DEF NewThread, Flat
    <3> HIDE DEF new
    <3>3. threads' = Append(old, new)
      BY <2>4, <2>8 DEF new
    <3>4. Len(threads') = Len(threads) + 1 /\ threads'[Len(threads) + 1] = new
          /\ \A s \in 1..Len(threads) : threads'[s] = old[s]
      BY <2>5, <3>3
    <3>5. \A s \in 2..Len(threads') : threads'[s].file # Root
      <4> SUFFICES ASSUME NEW s \in 2..Len(threads') PROVE threads'[s].file # Root
        OBVIOUS
      <4>1. s \in 2..Len(threads) \/ s = Len(threads) + 1
        BY <1>1, <3>4
      <4> QED
        BY <1>1, <3>2, <3>4, <4>1 DEF FlatThreads
    <3>6. threads'[1] = rec
      BY <1>1, <2>5, <3>4
    <3>7. Len(threads') = Cardinality(RootImports(prog, threads'[1].parsed)) + 1
      BY <2>2, <2>6, <3>1, <3>4, <3>6
    <3> QED
      BY <3>5, <3>7 DEF FlatThreads
  <2> QED
    BY <2>1, <2>7, <2>8
<1> QED
  BY <1>3, <1>4

\* The step of a thread changes nothing that is counted, and a closed channel
\* means that there is no such step.
LEMMA ParseFlat ==
    ASSUME IInv, RootParser, Flat, FlatInv, NEW t \in DOMAIN threads, Parse(t)
    PROVE  FlatInv'
<1>1. t \in 1..Len(threads) /\ ThreadStep(t) /\ UNCHANGED checkVars
  BY DEF Parse, IInv, TypeOK, ThreadTypeOK
<1>2. phase' = phase /\ head' = head /\ prog' = prog /\ \A i \in 1..head : log'[i] = log[i]
  BY <1>1, ThreadStepLog
<1>3. FlatThreads'
  BY <1>1, <1>2, ParseFlatThreads DEF FlatInv
<1>4. FlatFrames'
  BY <1>1, <1>2 DEF FlatInv, FlatFrames, checkVars
<1>5. ~ Closed
  BY <1>1 DEF Closed, NoSenders, ThreadStep, ReadFile, ParseItem, ParseImport, ParseEnd, SendItem, Exit
<1>6. Terminators(log', head) = Terminators(log, head)
  BY <1>2 DEF Terminators
<1>7. FlatCount'
  <2>1. Checked' = Checked
    BY <1>1, <1>2 DEF Checked, checkVars
  <2> QED
    BY <1>1, <1>2, <1>5, <1>6, <2>1 DEF FlatInv, FlatCount, checkVars
<1> QED
  BY <1>3, <1>4, <1>7 DEF FlatInv

\* visit_prog begins on the root: no loop has ended.
LEMMA RootParsedFlat ==
    ASSUME IInv, RootParser, OnceInv, Flat, FlatInv, RootParsed
    PROVE  FlatInv'
<1>1. phase = "parse" /\ UNCHANGED <<prog, log, head, receiving>> /\ threads[1].file = Root
  BY DEF RootParsed, IInv, RootInv
<1>2. /\ Len(threads') = Len(threads) /\ threads'[1].parsed = threads[1].parsed
      /\ \A s \in 2..Len(threads) : threads'[s] = threads[s]
  BY RootDone
<1>3. FlatThreads'
  BY <1>1, <1>2 DEF FlatInv, FlatThreads
<1>4. CASE phase' = "check" /\ frames' = <<[items |-> RootItems, at |-> 0]>>
  <2>1. Len(frames') = 1 /\ frames'[1].at = 0
    BY <1>4
  <2>2. Terminators(log, 0) = {} /\ Ended(prog, 0, receiving) = {} /\ head = 0
    BY <1>1 DEF Terminators, Ended, RootImports, OnceInv
  <2>3. FlatFrames' /\ FlatCount'
    BY <1>1, <1>4, <2>1, <2>2 DEF FlatFrames, FlatCount, Checked
  <2> QED
    BY <1>3, <2>3 DEF FlatInv
<1>5. CASE phase' \in {"failed", "crashed"} /\ fileNames' = fileNames
  <2>1. FlatFrames' /\ FlatCount'
    BY <1>1, <1>5 DEF FlatFrames, FlatCount, Checked, RootParser
  <2> QED
    BY <1>3, <2>1 DEF FlatInv
<1> QED
  BY <1>4, <1>5 DEF RootParsed

\* Steps of the type checker leave the threads alone.
LEMMA FlatThreadsSame ==
    ASSUME FlatThreads, UNCHANGED <<prog, threads>>
    PROVE  FlatThreads'
BY DEF FlatThreads

\* An index within what has been sent is one of the whole text.
LEMMA WithinText ==
    ASSUME NEW x, NEW s \in Nat, NEW p \in Nat, NEW l \in Nat, x \in 1..s, s <= p, p <= l
    PROVE  x \in 1..l
  OBVIOUS

\* What a call inside another walks came from the thread of an import.
LEMMA BatchDecl ==
    ASSUME IInv, OnceInv, RootParser, NEW n \in 2..Len(frames), NEW k \in 1..Len(frames[n].items)
    PROVE  LET d == frames[n].items[k]
           IN  /\ d.thread \in 2..Len(threads)
               /\ d.pos \in 1..Len(Text(d.thread).items)
               /\ Text(d.thread).items \in Seq(Item)
               /\ ItemOf(d) = Text(d.thread).items[d.pos]
<1> DEFINE d == frames[n].items[k]
<1>1. n \in Slots(frames) /\ Slot(batch, imported, frames, n) = frames[n].items
  BY DEF Slots, Slot
<1>2. d \in Got(log, head)
  BY <1>1 DEF OnceInv, PlacesOK
<1>3. PICK i \in 1..head : log[i].ok /\ d = BlobDecl(log[i])
  BY <1>2 DEF Got
<1>4. i \in 1..Len(log)
  BY DEF IInv, TypeOK, ThreadTypeOK
<1>5. /\ d.thread = log[i].thread /\ d.pos = log[i].pos
      /\ d.thread \in 1..Len(threads) /\ d.thread # 1
      /\ d.pos \in 1..threads[d.thread].sent
  BY <1>3, <1>4 DEF BlobDecl, IInv, LogInv, StreamsInOrder, RootParser, TypeOK, ThreadTypeOK
<1> HIDE DEF d
<1>6. d.thread \in 2..Len(threads)
  BY <1>5 DEF IInv, TypeOK, ThreadTypeOK
<1>7. d.pos \in 1..Len(Text(d.thread).items) /\ Text(d.thread).items \in Seq(Item)
  <2>1. /\ ThreadOK(threads[d.thread]) /\ Len(Text(d.thread).items) \in Nat
        /\ Text(d.thread).items \in Seq(Item) /\ threads[d.thread] \in Thread
    BY <1>5, TextType DEF IInv, ThreadInv, TypeOK
  <2>2. /\ threads[d.thread].sent \in Nat /\ threads[d.thread].parsed \in Nat
        /\ threads[d.thread].sent <= threads[d.thread].parsed
        /\ threads[d.thread].parsed <= Len(Text(d.thread).items)
    BY <2>1 DEF ThreadOK, Thread, Text
  <2>3. d.pos \in 1..threads[d.thread].sent
    BY <1>5
  <2>4. d.pos \in 1..Len(Text(d.thread).items)
    BY <2>1, <2>2, <2>3, WithinText
  <2> QED
    BY <2>1, <2>4
<1>8. ItemOf(d) = Text(d.thread).items[d.pos]
  BY DEF ItemOf, Text
<1> QED
  BY <1>6, <1>7, <1>8 DEF d

\* The declarations of a batch are no imports.
LEMMA FlatBatch ==
    ASSUME IInv, OnceInv, RootParser, Flat, FlatThreads, Len(frames) = 2, NEW k \in 1..Len(frames[2].items)
    PROVE  ~ IsImport(ItemOf(frames[2].items[k]))
<1> DEFINE d == frames[2].items[k]
<1>1. /\ d.thread \in 2..Len(threads) /\ d.pos \in 1..Len(Text(d.thread).items)
      /\ ItemOf(d) = Text(d.thread).items[d.pos]
  BY BatchDecl
<1> HIDE DEF d
<1> QED
  BY <1>1, FlatNoImport DEF d

\* A declaration is walked: a loop begins if it is an import.
LEMMA VisitFlat ==
    ASSUME IInv, OnceInv, RootParser, HeadersInv, Flat, FlatInv,
           visit_func \/ visit_const \/ visit_adt \/ visit_trait \/ visit_impl \/ visit_import
    PROVE  FlatInv'
<1> DEFINE at == frames[1].at
<1>1. /\ Walking /\ Advance /\ UNCHANGED threadVars
      /\ \/ receiving' = TRUE /\ IsImport(ItemOf(NextDecl))
         \/ receiving' = receiving /\ ~ IsImport(ItemOf(NextDecl))
      /\ UNCHANGED fileNames
  <2>1. CASE visit_import
    BY <2>1 DEF visit_import, Visit, IsImport
  <2>2. CASE visit_adt
    BY <2>2 DEF visit_adt, Visit, IsImport
  <2>3. CASE visit_func \/ visit_const \/ visit_trait \/ visit_impl
    BY <2>3 DEF visit_func, visit_const, visit_trait, visit_impl, Visit, IsImport
  <2> QED
    BY <2>1, <2>2, <2>3
<1>2. phase = "check" /\ receiving = FALSE /\ frames # <<>>
  BY <1>1 DEF Walking, IInv, TypeOK
<1>3. UNCHANGED <<prog, threads, log, head, phase>>
  BY <1>1 DEF threadVars
<1>4. FlatThreads /\ FlatFrames /\ FlatCount
  BY DEF FlatInv
<1>5. FlatThreads'
  BY <1>2, <1>3, <1>4, FlatThreadsSame
<1>6. /\ Len(frames') = Len(frames)
      /\ \A k \in 1..Len(frames) : k # Len(frames) => frames'[k] = frames[k]
      /\ Top'.items = Top.items /\ Top'.at = Top.at + 1
      /\ frames'[Len(frames)] = Top' /\ Top = frames[Len(frames)]
      /\ Top.at < Len(Top.items)
  BY <1>1, <1>2, AdvanceTop, TopFrame
<1>7. /\ 1 \in 1..Len(frames) /\ at \in Nat /\ Len(frames[1].items) \in Nat
      /\ \A k \in 1..Len(frames[1].items) :
           ItemAt(prog, threads, frames[1].items[k]) = prog[Root].items[k]
  BY <1>2, RootFrame
<1>8. Closed' = Closed /\ ~ Checked'
  BY <1>2, <1>3 DEF Closed, NoSenders, Checked
<1>9. NextDecl = Top.items[Top.at + 1] /\ ItemOf(NextDecl) = ItemAt(prog, threads, NextDecl)
  BY DEF NextDecl, ItemOf, ItemAt
<1>10. CASE Len(frames) = 1
  <2>1. Top = frames[1] /\ frames'[1].items = frames[1].items /\ frames'[1].at = at + 1
    BY <1>6, <1>10
  <2>2. ItemOf(NextDecl) = prog[Root].items[at + 1]
    <3>1. at + 1 \in 1..Len(frames[1].items)
      BY <1>6, <1>7, <2>1
    <3> QED
      BY <1>7, <1>9, <2>1, <3>1
  <2>3. Ended(prog, at + 1, receiving') = Ended(prog, at, receiving)
    BY <1>1, <1>2, <1>7, <2>2, EndedNext
  <2>4. FlatFrames'
    BY <1>2, <1>3, <1>4, <1>6, <1>10, <2>1 DEF FlatFrames
  <2>5. FlatCount'
    BY <1>2, <1>3, <1>4, <1>8, <2>1, <2>3 DEF FlatCount
  <2> QED
    BY <1>5, <2>4, <2>5 DEF FlatInv
<1>11. CASE Len(frames) = 2
  <2>1. Top = frames[2] /\ frames'[1] = frames[1]
    BY <1>6, <1>11
  <2>2. ~ IsImport(ItemOf(NextDecl))
    <3>1. frames[2].at \in Nat /\ Len(frames[2].items) \in Nat
      BY <1>11, FrameFacts
    <3>2. Top.at + 1 \in 1..Len(frames[2].items)
      BY <1>6, <2>1, <3>1
    <3> QED
      BY <1>4, <1>9, <1>11, <2>1, <3>2, FlatBatch
  <2>3. receiving' = receiving
    BY <1>1, <2>2
  <2>4. FlatFrames'
    BY <1>2, <1>3, <1>4, <1>6, <1>11, <2>1, <2>3 DEF FlatFrames
  <2>5. FlatCount'
    BY <1>2, <1>3, <1>4, <1>8, <2>1, <2>3 DEF FlatCount
  <2> QED
    BY <1>5, <2>4, <2>5 DEF FlatInv
<1> QED
  BY <1>2, <1>4, <1>10, <1>11 DEF FlatFrames

\* The loop of an import of the root ends with one more terminator received,
\* or because the channel is closed.
LEMMA EnterFlat ==
    ASSUME IInv, RootParser, HeadersInv, Flat, FlatInv, phase = "check", receiving,
           UNCHANGED <<prog, threads, log, phase>>,
           NEW b, NEW files, EnterBatch(b, files),
           \/ Closed'
           \/ ~ Closed /\ Cardinality(Terminators(log', head')) = Cardinality(Terminators(log, head)) + 1
    PROVE  FlatInv'
<1> DEFINE at == frames[1].at
<1>1. FlatThreads /\ FlatFrames /\ FlatCount /\ receiving = TRUE
  BY DEF FlatInv, IInv, TypeOK
<1>2. Len(frames) = 1 /\ frames \in Seq(Frame)
  BY <1>1 DEF FlatFrames, IInv, TypeOK
<1>3. Len(frames') = 2 /\ frames'[1] = frames[1] /\ receiving' = FALSE
  <2> DEFINE new == [items |-> b, at |-> 0]
  <2>1. frames' = Append(frames, new) /\ receiving' = FALSE
    BY DEF EnterBatch
  <2> HIDE DEF new
  <2>2. Len(frames') = Len(frames) + 1 /\ \A k \in 1..Len(frames) : frames'[k] = frames[k]
    <3>1. frames \in Seq(Frame)
      BY <1>2
    <3> QED
      BY <2>1, <3>1
  <2> QED
    BY <1>2, <2>1, <2>2
<1>4. /\ 1 \in 1..Len(frames) /\ at \in Nat /\ Len(frames[1].items) \in Nat
      /\ \A k \in 1..Len(frames[1].items) :
           ItemAt(prog, threads, frames[1].items[k]) = prog[Root].items[k]
  BY RootFrame
<1>5. at <= Len(frames[1].items) /\ at # 0 /\ IsImport(ItemAt(prog, threads, frames[1].items[at]))
  BY <1>4 DEF HeadersInv, WaitsOK
<1>6. IsImport(prog[Root].items[at])
  <2>1. at \in 1..Len(frames[1].items)
    BY <1>4, <1>5
  <2> QED
    BY <1>4, <1>5, <2>1
<1>7. Cardinality(Ended(prog, at, FALSE)) = Cardinality(Ended(prog, at, TRUE)) + 1
  BY <1>4, <1>5, <1>6, EndedNext
<1>8. FlatThreads'
  BY <1>1, FlatThreadsSame
<1>9. FlatFrames'
  BY <1>1, <1>3 DEF FlatFrames
<1>10. FlatCount'
  <2>1. ~ Checked'
    BY DEF Checked
  <2>2. CASE Closed'
    BY <2>1, <2>2 DEF FlatCount
  <2>3. CASE ~ Closed /\ Cardinality(Terminators(log', head')) = Cardinality(Terminators(log, head)) + 1
    <3>1. Cardinality(Terminators(log, head)) = Cardinality(Ended(prog, at, TRUE))
      BY <1>1, <2>3 DEF FlatCount
    <3>2. Cardinality(Terminators(log', head')) = Cardinality(Ended(prog, at, FALSE))
      BY Zenon, <2>3, <3>1, <1>7
    <3> QED
      BY <1>3, <2>1, <3>2 DEF FlatCount
  <2> QED
    BY <2>2, <2>3
<1> QED
  BY <1>8, <1>9, <1>10 DEF FlatInv

LEMMA RecvFlat ==
    ASSUME IInv, RootParser, HeadersInv, Flat, FlatInv, recv_blob \/ recv_error \/ recv_closed
    PROVE  FlatInv'
<1>1. /\ phase = "check" /\ receiving /\ UNCHANGED <<prog, threads, log, phase>>
      /\ head \in Nat /\ Len(log) \in Nat
  BY ListTypes DEF recv_blob, recv_error, recv_closed, threadVars
<1>2. ASSUME head < Len(log) PROVE ~ Closed
  BY <1>1, <1>2 DEF Closed
<1>3. CASE recv_blob
  <2>1. head < Len(log) /\ log[head + 1].ok /\ head' = head + 1
    BY <1>3 DEF recv_blob
  <2>2. CASE log[head + 1].count = 0
    <3>1. \E b, files : EnterBatch(b, files)
      BY <1>3, <2>2 DEF recv_blob
    <3>2. Cardinality(Terminators(log, head + 1)) = Cardinality(Terminators(log, head)) + 1
      BY <1>1, <2>2, TerminatorsNext
    <3> QED
      BY <1>1, <1>2, <2>1, <3>1, <3>2, EnterFlat
  <2>3. CASE log[head + 1].count # 0
    <3>1. UNCHANGED <<frames, receiving>>
      BY <1>3, <2>3 DEF recv_blob
    <3>2. Terminators(log, head + 1) = Terminators(log, head)
      BY <1>1, <2>1, <2>3, TerminatorsNext
    <3>3. ~ Closed
      BY <1>2, <2>1
    <3>4. FlatThreads'
      BY <1>1, FlatThreadsSame DEF FlatInv
    <3>5. FlatFrames'
      BY <1>1, <3>1 DEF FlatInv, FlatFrames
    <3>6. FlatCount'
      BY <1>1, <2>1, <3>1, <3>2, <3>3 DEF FlatInv, FlatCount, Checked
    <3> QED
      BY <3>4, <3>5, <3>6 DEF FlatInv
  <2> QED
    BY <2>2, <2>3
<1>4. CASE recv_error
  <2>1. head < Len(log) /\ ~ log[head + 1].ok /\ head' = head + 1 /\ EnterBatch(batch, fileNames)
    BY <1>4 DEF recv_error
  <2>2. Cardinality(Terminators(log, head + 1)) = Cardinality(Terminators(log, head)) + 1
    BY <1>1, <2>1, TerminatorsNext
  <2> QED
    BY <1>1, <1>2, <2>1, <2>2, EnterFlat
<1>5. CASE recv_closed
  <2>1. Closed' /\ EnterBatch(batch, fileNames)
    BY <1>5 DEF recv_closed, Closed, NoSenders, threadVars
  <2> QED
    BY <1>1, <2>1, EnterFlat
<1> QED
  BY <1>3, <1>4, <1>5

\* A call of visit_prog ends: the batch's, or the root's, which has walked all
\* imports of the root.
LEMMA CheckBodiesFlat ==
    ASSUME IInv, RootParser, Flat, FlatInv, check_bodies
    PROVE  FlatInv'
<1>1. /\ phase = "check" /\ ~ receiving /\ UNCHANGED <<prog, threads, log, head, receiving, fileNames>>
      /\ Top.at = Len(Top.items) /\ frames' = SubSeq(frames, 1, Len(frames) - 1)
      /\ \/ phase' = phase
         \/ Len(frames) = 1 /\ phase' \in {"lower", "failed"}
      /\ Len(frames) = 1 => phase' \in {"lower", "failed"}
  <2>1. /\ phase = "check" /\ ~ receiving /\ UNCHANGED <<prog, threads, log, head, receiving, fileNames>>
        /\ Top.at = Len(Top.items) /\ frames' = SubSeq(frames, 1, Len(frames) - 1)
    BY DEF check_bodies
  <2>2. \/ Len(frames) > 1 /\ phase' = phase
        \/ Len(frames) = 1 /\ phase' \in {"lower", "failed"}
    BY DEF check_bodies
  <2>3. Len(frames) > 1 => Len(frames) # 1
    <3> DEFINE n == Len(frames)
    <3>1. n \in Nat
      BY ListTypes
    <3> HIDE DEF n
    <3>2. n > 1 => n # 1
      BY <3>1
    <3> QED
      BY <3>2 DEF n
  <2> QED
    BY <2>1, <2>2, <2>3
<1>2. FlatThreads /\ FlatFrames /\ FlatCount /\ receiving = FALSE
  BY <1>1 DEF FlatInv, IInv, TypeOK
<1>3. FlatThreads'
  <2>1. UNCHANGED <<prog, threads, log>>
    BY <1>1
  <2> QED
    BY <1>1, <1>2, <2>1, FlatThreadsSame
<1>4. Closed' = Closed
  BY <1>1 DEF Closed, NoSenders
<1>5. CASE Len(frames) = 2
  <2>1. frames \in Seq(Frame) /\ phase' = "check"
    BY <1>1, <1>5 DEF IInv, TypeOK
  <2>2. Len(frames') = 1 /\ frames'[1] = frames[1]
    <3>1. frames' = SubSeq(frames, 1, 1)
      BY <1>1, <1>5
    <3>2. \A k \in 1..1 : frames[k] \in Frame
      BY <1>5, <2>1
    <3> QED
      BY <2>1, <3>1, <3>2, SubSeqProperties
  <2>3. FlatFrames'
    BY <1>1, <1>2, <2>1, <2>2 DEF FlatFrames
  <2>4. FlatCount'
    BY <1>1, <1>2, <1>4, <2>1, <2>2 DEF FlatCount, Checked
  <2> QED
    BY <1>3, <2>3, <2>4 DEF FlatInv
<1>6. CASE Len(frames) = 1
  <2>1. phase' \in {"lower", "failed"}
    BY <1>1, <1>6
  <2>2. frames[1].at = Len(prog[Root].items)
    BY <1>1, <1>6 DEF Top, RootParser
  <2>3. Ended(prog, frames[1].at, receiving) = RootImports(prog, Len(prog[Root].items))
    BY <1>2, <2>2 DEF Ended
  <2>4. FlatFrames'
    BY <1>1, <2>1 DEF FlatFrames
  <2>5. FlatCount'
    BY <1>1, <1>2, <1>4, <2>1, <2>3 DEF FlatCount
  <2> QED
    BY <1>3, <2>4, <2>5 DEF FlatInv
<1> QED
  BY <1>1, <1>2, <1>5, <1>6 DEF FlatFrames

LEMMA LowerFlat ==
    ASSUME IInv, Flat, FlatInv, UNCHANGED <<prog, threads, log, head, checkVars>>,
           phase' = phase \/ (phase = "lower" /\ phase' = "done")
    PROVE  FlatInv'
<1>1. FlatThreads' /\ FlatFrames'
  BY DEF FlatInv, FlatThreads, FlatFrames, checkVars
<1>2. Closed' = Closed
  BY DEF Closed, NoSenders
<1>3. Checked' => Checked
  BY DEF Checked, checkVars
<1>4. FlatCount'
  BY <1>2, <1>3 DEF FlatInv, FlatCount, checkVars
<1> QED
  BY <1>1, <1>4 DEF FlatInv

LEMMA NextFlat ==
    ASSUME IInv, OnceInv, RootParser, HeadersInv, FlatInv, [Next]_vars
    PROVE  FlatInv'
<1>1. CASE UNCHANGED vars
  <2>1. UNCHANGED <<prog, threads, log, head, checkVars>> /\ phase' = phase
    BY <1>1 DEF vars, threadVars, checkVars
  <2>2. Flat' = Flat
    BY <2>1 DEF Flat
  <2> QED
    BY <2>1, <2>2, LowerFlat DEF FlatInv
<1>2. CASE Next
  <2>1. prog' = prog
    BY <1>2, ThreadStepLog DEF Next, MainStep, Parse, RootParsed, visit_func, visit_const, visit_adt,
       visit_trait, visit_impl, visit_import, recv_blob, recv_error, recv_closed,
       check_bodies, lower_items, threadVars
  <2>2. Flat' = Flat
    BY <2>1 DEF Flat
  <2> SUFFICES ASSUME Flat PROVE FlatInv'
    BY <2>2 DEF FlatInv
  <2>3. ASSUME NEW t \in DOMAIN threads, Parse(t) PROVE FlatInv'
    BY <2>3, ParseFlat
  <2>4. CASE RootParsed
    BY <2>4, RootParsedFlat
  <2>5. CASE visit_func \/ visit_const \/ visit_adt \/ visit_trait \/ visit_impl \/ visit_import
    BY <2>5, VisitFlat
  <2>6. CASE recv_blob \/ recv_error \/ recv_closed
    BY <2>6, RecvFlat
  <2>7. CASE check_bodies
    BY <2>7, CheckBodiesFlat
  <2>8. CASE lower_items
    BY <2>8, LowerFlat DEF lower_items
  <2> QED
    BY <1>2, <2>3, <2>4, <2>5, <2>6, <2>7, <2>8 DEF Next, MainStep
<1> QED
  BY <1>1, <1>2

LEMMA InitFlat ==
    ASSUME Init
    PROVE  FlatInv
<1> DEFINE th == [NewThread(Root, 0, 0) EXCEPT !.pc = "parse"]
<1>1. th.pc = "parse" /\ th.parsed = 0
  BY DEF NewThread
<1>2. threads = <<th>> /\ log = <<>> /\ phase = "parse" /\ fileNames = {}
  BY DEF Init, ThreadInit
<1> HIDE DEF th
<1>3. Len(threads) = 1 /\ threads[1] = th
  BY <1>2
<1>4. Cardinality(RootImports(prog, 0)) = 0
  <2>1. RootImports(prog, 0) = {}
    BY DEF RootImports
  <2> QED
    BY <2>1, FS_EmptySet
<1>5. FlatThreads
  BY <1>1, <1>3, <1>4 DEF FlatThreads
<1>6. FlatFrames /\ FlatCount
  BY <1>2 DEF FlatFrames, FlatCount, Checked
<1> QED
  BY <1>5, <1>6 DEF FlatInv

\* As many terminators as threads besides the root's, and no thread sends two:
\* every thread has sent its terminator, and it has been received.
LEMMA EveryTerminator ==
    ASSUME IInv, RootParser, FlatThreads, phase # "parse",
           Cardinality(Terminators(log, head)) = Cardinality(RootImports(prog, Len(prog[Root].items))),
           NEW t \in 2..Len(threads)
    PROVE  \E i \in 1..head : log[i].thread = t /\ (~ log[i].ok \/ log[i].count = 0)
<1> DEFINE S == Terminators(log, head)
           T == 2..Len(threads)
           f == [i \in S |-> log[i].thread]
<1>1. head \in Nat /\ Len(log) \in Nat /\ head <= Len(log) /\ Len(threads) \in Nat /\ Len(threads) # 0
  BY ListTypes DEF IInv, TypeOK, ThreadTypeOK
<1>2. \A i \in S : i \in 1..head /\ i \in 1..Len(log) /\ (~ log[i].ok \/ log[i].count = 0)
  BY <1>1 DEF Terminators
<1>3. \A i \in 1..Len(log) : /\ log[i].thread \in 1..Len(threads) /\ log[i].thread # 1
                             /\ log[i].ok => log[i].pos \in Nat /\ Len(Text(log[i].thread).items) \in Nat
                                             /\ log[i].count = Len(Text(log[i].thread).items) - log[i].pos
  <2> SUFFICES ASSUME NEW i \in 1..Len(log)
               PROVE  /\ log[i].thread \in 1..Len(threads) /\ log[i].thread # 1
                      /\ log[i].ok => log[i].pos \in Nat /\ Len(Text(log[i].thread).items) \in Nat
                                      /\ log[i].count = Len(Text(log[i].thread).items) - log[i].pos
    OBVIOUS
  <2>0. StreamsInOrder /\ DOMAIN threads = 1..Len(threads) /\ log[i].thread # 1
    BY DEF IInv, LogInv, RootParser, TypeOK, ThreadTypeOK
  <2>1. /\ log[i].thread \in 1..Len(threads) /\ log[i].thread # 1
        /\ log[i].ok => log[i].pos \in 1..threads[log[i].thread].sent
                        /\ log[i].count = Len(Text(log[i].thread).items) - log[i].pos
    BY <2>0 DEF StreamsInOrder
  <2>2. Len(Text(log[i].thread).items) \in Nat
    BY <2>1, TextType DEF IInv, TypeOK
  <2>3. log[i].ok => log[i].pos \in Nat
    BY <2>1
  <2> QED
    BY <2>1, <2>2, <2>3
<1>4. \A i, j \in 1..Len(log) : i < j /\ log[i].thread = log[j].thread =>
         log[i].ok /\ log[j].ok /\ log[i].pos < log[j].pos
  BY DEF IInv, LogInv, StreamsInOrder
<1> HIDE DEF S
<1>5. ASSUME NEW i \in S, NEW j \in S, i < j, log[i].thread = log[j].thread PROVE FALSE
  <2>1. /\ log[i].ok /\ log[j].ok /\ log[i].pos < log[j].pos
        /\ i \in 1..Len(log) /\ j \in 1..Len(log)
    BY <1>2, <1>4, <1>5
  <2> DEFINE n == Len(Text(log[j].thread).items)
             x == log[i].pos
             y == log[j].pos
  <2>2. n \in Nat /\ x \in Nat /\ y \in Nat /\ n - x = 0 /\ n - y = 0
    BY <1>2, <1>3, <1>5, <2>1 DEF Text
  <2>3. x < y
    BY <2>1
  <2> HIDE DEF n, x, y
  <2> QED
    BY <2>2, <2>3
<1>6. f \in Injection(S, T)
  <2>1. \A i \in S : log[i].thread \in T
    BY <1>1, <1>2, <1>3
  <2>2. \A i, j \in S : f[i] = f[j] => i = j
    <3> SUFFICES ASSUME NEW i \in S, NEW j \in S, log[i].thread = log[j].thread, i # j PROVE FALSE
      OBVIOUS
    <3>1. i \in Nat /\ j \in Nat
      BY <1>1, <1>2
    <3>2. i < j \/ j < i
      BY <3>1
    <3> QED
      BY <1>5, <3>2
  <2> HIDE DEF T
  <2> QED
    BY <2>1, <2>2, Fun_IsInj
<1>7. IsFiniteSet(T) /\ Cardinality(T) = Len(threads) - 1
  <2>1. 2 \in Int /\ Len(threads) \in Int
    BY <1>1
  <2>2. IsFiniteSet(T) /\ Cardinality(T) = IF 2 > Len(threads) THEN 0 ELSE Len(threads) - 2 + 1
    BY <2>1, FS_Interval
  <2> QED
    BY <1>1, <2>2
<1>8. Cardinality(S) = Cardinality(T)
  <2> DEFINE c == Cardinality(RootImports(prog, Len(prog[Root].items)))
  <2>1. Len(threads) = c + 1
    BY DEF FlatThreads, RootParser
  <2>2. Cardinality(S) = c
    BY DEF S
  <2>3. c \in Nat
    <3>1. Len(prog[Root].items) \in Nat
      <4>1. 1 \in 1..Len(threads) /\ Text(1) = prog[Root]
        BY DEF IInv, TypeOK, ThreadTypeOK, RootInv, Text
      <4> QED
        BY <4>1, TextType DEF IInv, TypeOK
    <3> QED
      BY <3>1, FiniteCounts, FS_CardinalityType
  <2> HIDE DEF c
  <2> QED
    BY <1>7, <2>1, <2>2, <2>3
<1>9. f \in Surjection(S, T)
  <2> HIDE DEF f, T
  <2> QED
    BY <1>6, <1>7, <1>8, FS_Injection
<1>10. \E i \in S : f[i] = t
  BY <1>9 DEF Surjection
<1> QED
  BY <1>2, <1>10

\* When the type checker has ended, the channel has been emptied for good.
LEMMA FlatEmptied ==
    ASSUME IInv, RootParser, FlatInv
    PROVE  FlatImportsComplete
<1> SUFFICES ASSUME Checked, Flat
             PROVE  /\ head = Len(log)
                    /\ \A t \in 1..Len(threads) :
                         \/ threads[t].pc \in {"exit", "done"}
                         \/ threads[t].pc = "send" /\ threads[t].sent = threads[t].parsed
  BY DEF FlatImportsComplete, IInv, TypeOK, ThreadTypeOK
<1>1. phase # "parse" /\ phase # "check" /\ FlatThreads
  BY DEF Checked, FlatInv, RootParser
<1>2. CASE Closed
  BY <1>2 DEF Closed, NoSenders, IInv, TypeOK, ThreadTypeOK
<1>3. CASE ~ Closed
  <2>1. Cardinality(Terminators(log, head)) = Cardinality(RootImports(prog, Len(prog[Root].items)))
    BY <1>3 DEF FlatInv, FlatCount
  <2>2. /\ head \in Nat /\ Len(log) \in Nat /\ head <= Len(log)
        /\ Len(threads) \in Nat /\ DOMAIN threads = 1..Len(threads)
    BY ListTypes DEF IInv, TypeOK, ThreadTypeOK
  \* Of a thread whose terminator has been received.
  <2>3. ASSUME NEW t \in 2..Len(threads), NEW i \in 1..head, log[i].thread = t,
               ~ log[i].ok \/ log[i].count = 0
        PROVE  /\ \/ threads[t].pc \in {"exit", "done"}
                  \/ threads[t].pc = "send" /\ threads[t].sent = threads[t].parsed
               /\ \A j \in 1..Len(log) : log[j].thread = t => j <= i
    <3>1. i \in 1..Len(log) /\ t \in 1..Len(threads) /\ StreamsInOrder
      BY <2>2 DEF IInv, LogInv
    <3>2. /\ ThreadOK(threads[t]) /\ Len(Text(t).items) \in Nat
          /\ threads[t].sent \in Nat /\ threads[t].parsed \in Nat
          /\ threads[t].pc \in ThreadPC
      BY <3>1, TextType DEF IInv, ThreadInv, TypeOK, Thread
    <3> DEFINE n == Len(Text(t).items)
    <3>3. CASE ~ log[i].ok
      <4>1. threads[t].pc \in {"exit", "done"}
        BY <2>3, <3>1, <3>3 DEF IInv, LogInv
      <4>2. ASSUME NEW j \in 1..Len(log), log[j].thread = t, i < j PROVE FALSE
        BY <2>3, <3>1, <3>3, <4>2 DEF StreamsInOrder
      <4>3. \A j \in 1..Len(log) : ~ (i < j) => j <= i
        BY <2>2
      <4> QED
        BY <4>1, <4>2, <4>3
    <3>4. CASE log[i].ok
      <4>1. log[i].pos \in 1..threads[t].sent /\ n - log[i].pos = 0
        BY <2>2, <2>3, <3>1, <3>4 DEF StreamsInOrder
      <4>2. threads[t].sent <= threads[t].parsed /\ threads[t].parsed <= n
        BY <3>2 DEF ThreadOK, Text
      <4>3. log[i].pos = n /\ threads[t].sent = n /\ threads[t].parsed = n /\ threads[t].sent # 0
        <5> DEFINE x == log[i].pos
                   s == threads[t].sent
                   p == threads[t].parsed
        <5>1. x \in 1..s /\ n - x = 0 /\ s <= p /\ p <= n /\ s \in Nat /\ p \in Nat /\ n \in Nat
          BY <3>2, <4>1, <4>2
        <5> HIDE DEF x, s, p, n
        <5>2. x = n /\ s = n /\ p = n /\ s # 0
          BY <5>1
        <5> QED
          BY <5>2 DEF x, s, p
      <4>4. threads[t].pc \in {"send", "done"}
        BY <3>2, <4>3 DEF ThreadOK, ThreadPC
      <4>5. ASSUME NEW j \in 1..Len(log), log[j].thread = t, i < j PROVE FALSE
        <5>1. log[j].ok /\ log[i].pos < log[j].pos /\ log[j].pos \in 1..threads[t].sent
          BY <2>3, <3>1, <4>5 DEF StreamsInOrder
        <5> DEFINE x == log[j].pos
        <5>2. n < x /\ x \in 1..n /\ n \in Nat
          BY <3>2, <4>3, <5>1
        <5> HIDE DEF x, n
        <5> QED
          BY <5>2
      <4>6. \A j \in 1..Len(log) : ~ (i < j) => j <= i
        BY <2>2
      <4> QED
        BY <4>3, <4>4, <4>5, <4>6
    <3> QED
      BY <3>3, <3>4
  <2>4. ASSUME NEW t \in 2..Len(threads)
        PROVE  /\ \/ threads[t].pc \in {"exit", "done"}
                  \/ threads[t].pc = "send" /\ threads[t].sent = threads[t].parsed
               /\ \A j \in 1..Len(log) : log[j].thread = t => j <= head
    <3>1. PICK i \in 1..head : log[i].thread = t /\ (~ log[i].ok \/ log[i].count = 0)
      BY <1>1, <2>1, EveryTerminator
    <3>2. \A j \in 1..Len(log) : j <= i => j <= head
      BY <2>2
    <3> QED
      BY <2>3, <3>1, <3>2
  <2>5. \A t \in 1..Len(threads) : t = 1 \/ t \in 2..Len(threads)
    BY <2>2
  <2>6. threads[1].pc = "done"
    BY <1>1 DEF RootParser
  <2>7. head = Len(log)
    <3> SUFFICES ASSUME head < Len(log) PROVE FALSE
      BY <2>2
    <3>1. Len(log) \in 1..Len(log)
      BY <2>2
    <3>2. log[Len(log)].thread \in 1..Len(threads) /\ log[Len(log)].thread # 1
      BY <2>2, <3>1 DEF IInv, LogInv, StreamsInOrder, RootParser
    <3>3. Len(log) <= head
      BY <2>4, <2>5, <3>1, <3>2
    <3> QED
      BY <2>2, <3>3
  <2> QED
    BY <2>4, <2>5, <2>6, <2>7
<1> QED
  BY <1>2, <1>3

\* When only the root file imports, and not itself, type checking ends with the
\* channel emptied and nothing left to send: the loops of the imports, each of
\* which takes whatever arrives, have together received every item of every
\* imported file, in whichever order the threads sent them.
THEOREM FlatImportsReceived == Spec => []FlatImportsComplete
<1>1. Init => IInv /\ OnceInv /\ HeadersInv /\ RootParser /\ FlatInv
  BY InitInv, InitOnce, InitHeaders, InitRoot, InitFlat
<1>2. IInv /\ OnceInv /\ HeadersInv /\ RootParser /\ FlatInv /\ [Next]_vars
        => IInv' /\ OnceInv' /\ HeadersInv' /\ RootParser' /\ FlatInv'
  BY NextInv, NextOnce, NextHeaders, NextRoot, NextFlat
<1>3. IInv /\ RootParser /\ FlatInv => FlatImportsComplete
  BY FlatEmptied
<1> QED
  BY <1>1, <1>2, <1>3, PTL DEF Spec

-----------------------------------------------------------------------------
(***************************************************************************)
(* Used consts.  With a single import in the program, visit_prog gets the  *)
(* imported file in one piece, and never reports a const as unused that a  *)
(* function of its own file uses.                                          *)
(***************************************************************************)

(* What has been sent, and by how many threads *)

Logged(lg, t, p) == \E i \in 1..Len(lg) : lg[i].ok /\ lg[i].thread = t /\ lg[i].pos = p

\* What the threads say they have sent is in the channel while it is open.
AllLogged(lg, th) == \A t \in 1..Len(th) : \A p \in 1..th[t].sent : Logged(lg, t, p)

\* A thread that is done has sent everything or nothing.
SentInv ==
    /\ ReceiverOpen => AllLogged(log, threads)
    /\ \A t \in 1..Len(threads) :
         threads[t].pc = "done" => threads[t].sent = 0 \/ threads[t].sent = threads[t].parsed

\* Up to two threads, the others were all started by imports of the root.
TreeInv ==
    /\ Len(threads) = 1 => RootImports(prog, threads[1].parsed) = {}
    /\ Len(threads) = 2 => \E k : RootImports(prog, threads[1].parsed) = {k}

\* What a step of a parser thread does to the others, and to its own counters.
LEMMA ThreadEffect ==
    ASSUME IInv, NEW t \in 1..Len(threads), ThreadStep(t)
    PROVE  \E rec : \E new :
             /\ \/ threads' = [threads EXCEPT ![t] = rec]
                \/ threads' = Append([threads EXCEPT ![t] = rec], new) /\ ParseImport(t)
             /\ new.sent = 0 /\ new.pc = "read"
             /\ \/ SendItem(t) /\ rec.sent = threads[t].sent + 1
                \/ rec.sent = threads[t].sent /\ log' = log
                \/ rec.sent = 0 /\ log' = log
                \/ rec.sent = 0 /\ \E m : Send(m)
             /\ rec.pc = "done" => rec.sent = 0 \/ rec.sent = rec.parsed
<1> DEFINE th == threads[t]
           nt == NewThread(Text(t).items[th.parsed + 1].of, t, th.parsed + 1)
           Goal(rec, new) ==
             /\ \/ threads' = [threads EXCEPT ![t] = rec]
                \/ threads' = Append([threads EXCEPT ![t] = rec], new) /\ ParseImport(t)
             /\ new.sent = 0 /\ new.pc = "read"
             /\ \/ SendItem(t) /\ rec.sent = threads[t].sent + 1
                \/ rec.sent = threads[t].sent /\ log' = log
                \/ rec.sent = 0 /\ log' = log
                \/ rec.sent = 0 /\ \E m : Send(m)
             /\ rec.pc = "done" => rec.sent = 0 \/ rec.sent = rec.parsed
<1>1. th \in Thread /\ ThreadOK(th) /\ th.parsed \in Nat /\ th.sent \in Nat
  BY TextType DEF IInv, TypeOK, ThreadInv, Thread
<1>2. nt.sent = 0 /\ nt.pc = "read"
  BY DEF NewThread
<1> HIDE DEF nt
\* Steps that change the place of the thread.
<1>3. ASSUME NEW pc, threads' = [threads EXCEPT ![t].pc = pc],
             pc = "done" => th.sent = 0 \/ th.sent = th.parsed,
             log' = log \/ (th.sent = 0 /\ \E m : Send(m))
      PROVE  \E rec : \E new : Goal(rec, new)
  <2> DEFINE rec == [th EXCEPT !.pc = pc]
  <2>1. threads' = [threads EXCEPT ![t] = rec]
    BY <1>3
  <2>2. rec.sent = th.sent /\ rec.parsed = th.parsed /\ rec.pc = pc
    BY <1>1 DEF Thread
  <2> HIDE DEF rec
  <2>3. Goal(rec, nt)
    BY <1>2, <1>3, <2>1, <2>2
  <2> QED
    BY <2>3
\* Steps that parse one more declaration.
<1>4. ASSUME threads' = [threads EXCEPT ![t] = [th EXCEPT !.parsed = th.parsed + 1]]
               \/ (/\ threads' = Append([threads EXCEPT ![t] = [th EXCEPT !.parsed = th.parsed + 1]], nt)
                   /\ ParseImport(t)),
             log' = log, th.pc = "parse"
      PROVE  \E rec : \E new : Goal(rec, new)
  <2> DEFINE n == th.parsed + 1
             rec == [th EXCEPT !.parsed = n]
  <2>1. n \in Nat
    BY <1>1
  <2>2. rec.sent = th.sent /\ rec.pc = th.pc
    BY ZenonT(60), <1>1, <2>1, CounterUpdate
  <2>3. \/ threads' = [threads EXCEPT ![t] = rec]
        \/ threads' = Append([threads EXCEPT ![t] = rec], nt) /\ ParseImport(t)
    BY <1>4
  <2> HIDE DEF rec
  <2>4. Goal(rec, nt)
    BY <1>2, <1>4, <2>2, <2>3
  <2> QED
    BY <2>4
<1>5. CASE ReadFile(t)
  <2>1. /\ th.sent = 0 /\ log' = log
        /\ \E pc : threads' = [threads EXCEPT ![t].pc = pc]
    BY <1>1, <1>5 DEF ReadFile, Goto, ThreadOK
  <2> QED
    BY <1>3, <2>1
<1>6. CASE ParseItem(t)
  BY <1>4, <1>6 DEF ParseItem
<1>7. CASE ParseImport(t)
  BY <1>4, <1>7 DEF ParseImport, nt
<1>8. CASE ParseEnd(t)
  <2>1. th.sent = 0
    BY <1>1, <1>8 DEF ParseEnd, ThreadOK
  <2>2. /\ log' = log \/ \E m : Send(m)
        /\ \E pc : threads' = [threads EXCEPT ![t].pc = pc]
    BY <1>8 DEF ParseEnd, Goto
  <2> QED
    BY <1>3, <2>1, <2>2
<1>9. CASE SendItem(t)
  <2> DEFINE n == th.sent + 1
             rec == [th EXCEPT !.sent = n]
  <2>1. n \in Nat
    BY <1>1
  <2>2. rec.sent = n /\ rec.pc = th.pc
    BY ZenonT(60), <1>1, <2>1, CounterUpdate
  <2>3. threads' = [threads EXCEPT ![t] = rec] /\ th.pc = "send"
    BY <1>9 DEF SendItem
  <2> HIDE DEF rec
  <2>4. Goal(rec, nt)
    BY <1>2, <1>9, <2>2, <2>3
  <2> QED
    BY <2>4
<1>10. CASE Exit(t)
  <2>1. /\ th.sent = 0 \/ th.sent = th.parsed
        /\ log' = log /\ threads' = [threads EXCEPT ![t].pc = "done"]
    BY <1>1, <1>10 DEF Exit, Goto, ThreadOK
  <2> QED
    BY <1>3, <2>1
<1>11. \E rec : \E new : Goal(rec, new)
  BY <1>5, <1>6, <1>7, <1>8, <1>9, <1>10 DEF ThreadStep
<1> QED
  BY <1>11

\* Messages that are in the channel stay there.
LEMMA LoggedKept ==
    ASSUME log \in Seq(Message), NEW m, log' = log \/ Send(m), NEW t, NEW p, Logged(log, t, p)
    PROVE  Logged(log', t, p)
<1>1. PICK i \in 1..Len(log) : log[i].ok /\ log[i].thread = t /\ log[i].pos = p
  BY DEF Logged
<1>2. CASE log' = log
  BY <1>2
<1>3. CASE log' = Append(log, m)
  <2>1. i \in 1..Len(log') /\ log'[i] = log[i]
    BY <1>3
  <2> QED
    BY <1>1, <2>1 DEF Logged
<1> QED
  BY <1>2, <1>3 DEF Send

LEMMA ParseSent ==
    ASSUME IInv, SentInv, NEW t \in 1..Len(threads), ThreadStep(t)
    PROVE  SentInv'
<1>1. PICK rec : \E new :
             /\ \/ threads' = [threads EXCEPT ![t] = rec]
                \/ threads' = Append([threads EXCEPT ![t] = rec], new) /\ ParseImport(t)
             /\ new.sent = 0 /\ new.pc = "read"
             /\ \/ SendItem(t) /\ rec.sent = threads[t].sent + 1
                \/ rec.sent = threads[t].sent /\ log' = log
                \/ rec.sent = 0 /\ log' = log
                \/ rec.sent = 0 /\ \E m : Send(m)
             /\ rec.pc = "done" => rec.sent = 0 \/ rec.sent = rec.parsed
  BY ThreadEffect
<1>2. PICK new :
             /\ \/ threads' = [threads EXCEPT ![t] = rec]
                \/ threads' = Append([threads EXCEPT ![t] = rec], new) /\ ParseImport(t)
             /\ new.sent = 0 /\ new.pc = "read"
             /\ \/ SendItem(t) /\ rec.sent = threads[t].sent + 1
                \/ rec.sent = threads[t].sent /\ log' = log
                \/ rec.sent = 0 /\ log' = log
                \/ rec.sent = 0 /\ \E m : Send(m)
             /\ rec.pc = "done" => rec.sent = 0 \/ rec.sent = rec.parsed
  BY <1>1
<1>3. /\ threads \in Seq(Thread) /\ log \in Seq(Message)
      /\ threads[t].sent \in Nat
  BY TextType DEF IInv, TypeOK, ThreadTypeOK, Thread
<1>4. ASSUME NEW s \in 1..Len(threads')
      PROVE  \/ s \in 1..Len(threads) /\ s # t /\ threads'[s] = threads[s]
             \/ s = t /\ threads'[s] = rec
             \/ threads'[s] = new
  <2> DEFINE old == [threads EXCEPT ![t] = rec]
             n == Len(threads)
  <2>1. /\ DOMAIN old = 1..n /\ n \in Nat /\ old[t] = rec
        /\ \A k \in 1..n : k # t => old[k] = threads[k]
    BY <1>3
  <2>2. CASE threads' = old
    <3>1. s \in 1..n
      <4>1. DOMAIN threads' = 1..n /\ Len(threads') \in Nat /\ DOMAIN threads' = 1..Len(threads')
        <5>1. threads' \in Seq(Thread)
          BY ThreadStepInv DEF IInv, TypeOK, ThreadTypeOK
        <5> QED
          BY <2>1, <2>2, <5>1
      <4> QED
        BY <4>1
    <3> QED
      BY <2>1, <2>2, <3>1
  <2>3. CASE threads' = Append(old, new)
    <3>1. Len(old) = n
      BY <2>1
    <3>2. old = [k \in 1..n |-> old[k]]
      BY <2>1
    <3> HIDE DEF old, n
    <3>3. \/ s \in 1..n /\ threads'[s] = old[s]
          \/ threads'[s] = new
      BY <2>1, <2>3, <3>1, <3>2
    <3> QED
      BY <2>1, <3>3 DEF n
  <2> QED
    BY <1>2, <2>2, <2>3
<1>5. ReceiverOpen' = ReceiverOpen
  BY ThreadStepLog DEF ReceiverOpen, IInv, TypeOK, ThreadTypeOK
<1>6. PICK m : log' = log \/ Send(m)
  BY <1>2 DEF SendItem
<1>7. ASSUME ReceiverOpen, NEW s \in 1..Len(threads'), NEW p \in 1..threads'[s].sent
      PROVE  Logged(log', s, p)
  <2>1. ASSUME s \in 1..Len(threads), p \in 1..threads[s].sent
        PROVE  Logged(log', s, p)
    <3>1. Logged(log, s, p)
      BY <1>7, <2>1 DEF SentInv, AllLogged
    <3> QED
      BY <1>3, <1>6, <3>1, LoggedKept
  <2>2. CASE s \in 1..Len(threads) /\ s # t /\ threads'[s] = threads[s]
    BY <2>1, <2>2
  <2>3. CASE threads'[s] = new
    BY <1>2, <2>3
  <2>4. CASE s = t /\ threads'[s] = rec
    <3>1. CASE rec.sent = threads[t].sent
      BY <2>1, <2>4, <3>1
    <3>2. CASE rec.sent = 0
      BY <2>4, <3>2
    <3>3. CASE SendItem(t) /\ rec.sent = threads[t].sent + 1
      <4> DEFINE n == threads[t].sent
                 q == n + 1
                 msg == [ok |-> TRUE, thread |-> t, pos |-> q, count |-> Remaining(t, q)]
      <4>1. p \in 1..n \/ p = q
        BY <1>3, <2>4, <3>3
      <4>2. Send(msg)
        BY <3>3 DEF SendItem
      <4>3. msg.ok /\ msg.thread = t /\ msg.pos = q
        OBVIOUS
      <4> HIDE DEF msg, q
      <4>4. log' = Append(log, msg)
        BY <1>7, <4>2 DEF Send
      <4>5. Len(log') \in 1..Len(log') /\ log'[Len(log')] = msg
        BY <1>3, <4>4
      <4>6. Logged(log', t, q)
        BY <4>3, <4>5 DEF Logged
      <4> QED
        BY <2>1, <2>4, <4>1, <4>6
    <3> QED
      BY <1>2, <3>1, <3>2, <3>3
  <2> QED
    BY <1>4, <2>2, <2>3, <2>4
<1>8. ASSUME NEW s \in 1..Len(threads'), threads'[s].pc = "done"
      PROVE  threads'[s].sent = 0 \/ threads'[s].sent = threads'[s].parsed
  BY <1>2, <1>4, <1>8 DEF SentInv
<1> QED
  BY <1>5, <1>7, <1>8 DEF SentInv, AllLogged

LEMMA NextSent ==
    ASSUME IInv, RootParser, SentInv, [Next]_vars
    PROVE  SentInv'
<1>1. CASE UNCHANGED vars
  BY <1>1 DEF vars, threadVars, SentInv, ReceiverOpen
<1>2. ASSUME NEW t \in DOMAIN threads, Parse(t) PROVE SentInv'
  BY <1>2, ParseSent DEF Parse, IInv, TypeOK, ThreadTypeOK
<1>3. CASE RootParsed
  <2>1. /\ log' = log /\ ReceiverOpen
        /\ threads[1].sent = 0 \/ threads[1].sent = threads[1].parsed
    BY <1>3, RootDone DEF RootParsed, ReceiverOpen, IInv, ThreadInv, ThreadOK, RootParser, SentInv
  <2>2. threads' = [threads EXCEPT ![1].pc = "done"] /\ threads[1] \in Thread
    BY <1>3, RootDone DEF RootParsed, Goto, IInv, TypeOK, ThreadTypeOK
  <2>3. threads'[1].sent = threads[1].sent /\ 1 \in 1..Len(threads)
    BY <1>3, <2>2, RootDone DEF Thread, IInv, TypeOK, ThreadTypeOK
  <2>4. \A s \in 1..Len(threads) : s = 1 \/ s \in 2..Len(threads)
    BY DEF IInv, TypeOK, ThreadTypeOK
  <2> QED
    BY <1>3, <2>1, <2>3, <2>4, RootDone DEF SentInv, AllLogged
<1>4. CASE UNCHANGED <<threads, log>> /\ (ReceiverOpen' => ReceiverOpen)
  BY <1>4 DEF SentInv
<1>5. CASE MainStep /\ ~ RootParsed
  <2>1. UNCHANGED <<threads, log>>
    BY <1>5 DEF MainStep, visit_func, visit_const, visit_adt, visit_trait, visit_impl, visit_import,
       recv_blob, recv_error, recv_closed, check_bodies, lower_items, threadVars
  <2>2. phase \in {"check", "lower"}
    BY <1>5 DEF MainStep, visit_func, visit_const, visit_adt, visit_trait, visit_impl, visit_import,
       recv_blob, recv_error, recv_closed, check_bodies, lower_items, Visit, Walking
  <2> QED
    BY <1>4, <2>1, <2>2 DEF ReceiverOpen
<1> QED
  BY <1>1, <1>2, <1>3, <1>5 DEF Next

LEMMA NextTree ==
    ASSUME IInv, RootParser, TreeInv, [Next]_vars
    PROVE  TreeInv'
<1>1. CASE UNCHANGED vars
  BY <1>1 DEF vars, threadVars, TreeInv
<1>2. ASSUME NEW t \in 1..Len(threads), ThreadStep(t) PROVE TreeInv'
  <2> DEFINE n == threads[1].parsed
  <2>1. /\ threads \in Seq(Thread) /\ Len(threads) \in Nat /\ 1 \in 1..Len(threads)
        /\ prog' = prog
    BY <1>2, ThreadStepLog DEF IInv, TypeOK, ThreadTypeOK
  <2>2. CASE ~ ParseImport(t)
    <3>1. Len(threads') = Len(threads) /\ (1 # t => threads'[1] = threads[1])
      BY <1>2, <2>1, <2>2, OtherThreads
    <3>2. CASE t # 1
      BY <2>1, <3>1, <3>2 DEF TreeInv
    <3>3. CASE t = 1
      <4> DEFINE rec == [threads[1] EXCEPT !.parsed = n + 1]
      <4>1. /\ ParseItem(1) /\ n \in Nat /\ Text(1) = prog[Root]
        BY <1>2, <2>2, <3>3, RootStep DEF RootParser
      <4>2. ~ IsImport(prog[Root].items[n + 1]) /\ threads' = [threads EXCEPT ![1] = rec]
        BY <4>1 DEF ParseItem
      <4>3. rec.parsed = n + 1
        BY <2>1 DEF Thread
      <4> HIDE DEF rec
      <4>4. threads'[1].parsed = n + 1
        BY <2>1, <4>2, <4>3
      <4>5. RootImports(prog, n + 1) = RootImports(prog, n)
        BY <4>1, <4>2, ImportsNext
      <4> QED
        BY <2>1, <3>1, <4>4, <4>5 DEF TreeInv
    <3> QED
      BY <3>2, <3>3
  <2>3. CASE ParseImport(t)
    <3> DEFINE old == [threads EXCEPT ![t].parsed = threads[t].parsed + 1]
               new == NewThread(Text(t).items[threads[t].parsed + 1].of, t, threads[t].parsed + 1)
    <3>1. threads' = Append(old, new)
      BY <2>3 DEF ParseImport
    <3>2. DOMAIN old = 1..Len(threads)
      BY <2>1
    <3>3. Len(old) = Len(threads) /\ old = [k \in 1..Len(threads) |-> old[k]]
      <4>1. Len(old) = Len(threads)
        BY <2>1, <3>2
      <4>2. old = [k \in DOMAIN old |-> old[k]]
        OBVIOUS
      <4> HIDE DEF old
      <4> QED
        BY <3>2, <4>1, <4>2
    <3> HIDE DEF old, new
    <3>4. Len(threads') = Len(threads) + 1 /\ threads'[1] = old[1]
      BY <2>1, <3>1, <3>2, <3>3
    <3>5. CASE Len(threads) = 1
      <4>1. t = 1
        BY <3>5
      <4>2. n \in Nat /\ Text(1) = prog[Root] /\ IsImport(Text(1).items[n + 1])
        BY <1>2, <2>3, <4>1, RootStep DEF RootParser, ParseImport
      <4>3. RootImports(prog, n + 1) = {} \cup {n + 1}
        BY <3>5, <4>2, ImportsNext DEF TreeInv
      <4>4. old[1].parsed = n + 1
        BY <2>1, <4>1 DEF old, Thread
      <4> QED
        BY <2>1, <3>4, <3>5, <4>3, <4>4 DEF TreeInv
    <3>6. CASE Len(threads) # 1
      <4>1. Len(threads') # 1 /\ Len(threads') # 2
        <5> DEFINE m == Len(threads)
        <5>1. m \in Nat /\ m # 0 /\ m # 1 /\ Len(threads') = m + 1
          BY <2>1, <3>4, <3>6
        <5> HIDE DEF m
        <5> QED
          BY <5>1
      <4> QED
        BY <4>1 DEF TreeInv
    <3> QED
      BY <3>5, <3>6
  <2> QED
    BY <2>2, <2>3
<1>3. ASSUME NEW t \in DOMAIN threads, Parse(t) PROVE TreeInv'
  BY <1>2, <1>3 DEF Parse, IInv, TypeOK, ThreadTypeOK
<1>4. CASE RootParsed
  <2>1. prog' = prog
    BY <1>4 DEF RootParsed
  <2> QED
    BY <1>4, <2>1, RootDone DEF TreeInv
<1>5. CASE MainStep /\ ~ RootParsed
  BY <1>5 DEF MainStep, visit_func, visit_const, visit_adt, visit_trait, visit_impl, visit_import,
     recv_blob, recv_error, recv_closed, check_bodies, lower_items, threadVars, TreeInv
<1> QED
  BY <1>1, <1>3, <1>4, <1>5 DEF Next

-----------------------------------------------------------------------------
(* A program with a single import, in the root: its batch is a whole file *)

Plain(p, f) == \A k \in DOMAIN p[f].items : ~ IsImport(p[f].items[k])

\* Every declaration of the file is among the items.
Whole(p, th, items, f) ==
    \A k \in DOMAIN p[f].items :
        \E i \in 1..Len(items) : th[items[i].thread].file = f /\ items[i].pos = k

Single == Len(threads) <= 2 /\ (Len(threads) = 2 => Plain(prog, threads[2].file))

\* One loop, one batch: nothing has been imported before it, and it is empty or
\* holds the whole file.
SingleImport ==
    /\ Len(frames) = 1 \/ (Len(frames) = 2 /\ ~ receiving)
    /\ receiving => imported = <<>>
    /\ imported # <<>> => \E k \in 1..frames[1].at : IsImport(prog[Root].items[k])
    /\ Len(frames) = 2 /\ frames[2].items # <<>> =>
         Len(threads) = 2 /\ Whole(prog, threads, frames[2].items, threads[2].file)

CallsInv == phase = "check" /\ Single => SingleImport

\* The first h messages of thread 2 make up its file.
ReceivedUpTo(p, th, lg, h) ==
    \A k \in DOMAIN p[th[2].file].items :
        \E i \in 1..h : lg[i].ok /\ lg[i].thread = 2 /\ lg[i].pos = k

AllReceived(h) == ReceivedUpTo(prog, threads, log, h)

\* Every message came from a thread that an import started.
LEMMA SenderFacts ==
    ASSUME IInv, RootParser, NEW i \in 1..Len(log)
    PROVE  /\ log[i].thread \in 2..Len(threads)
           /\ log[i].ok => /\ log[i].pos \in 1..threads[log[i].thread].sent
                           /\ log[i].count = Len(Text(log[i].thread).items) - log[i].pos
<1>1. log[i].thread \in DOMAIN threads /\ log[i].thread # 1
  BY DEF IInv, LogInv, StreamsInOrder, RootParser
<1>2. log[i].thread \in 1..Len(threads)
  BY <1>1 DEF IInv, TypeOK, ThreadTypeOK
<1>3. log[i].thread \in 2..Len(threads)
  BY <1>1, <1>2 DEF IInv, TypeOK, ThreadTypeOK
<1>4. log[i].ok => /\ log[i].pos \in 1..threads[log[i].thread].sent
                   /\ log[i].count = Len(Text(log[i].thread).items) - log[i].pos
  BY DEF IInv, LogInv, StreamsInOrder
<1> QED
  BY <1>3, <1>4

\* A terminator comes after all other declarations of its file.
LEMMA LastBlob ==
    ASSUME IInv, RootParser, SentInv, ReceiverOpen, Len(threads) = 2,
           NEW h \in 1..Len(log), log[h].ok, log[h].count = 0
    PROVE  AllReceived(h)
<1> DEFINE n == Len(Text(2).items)
           s == threads[2].sent
<1>1. log[h].thread = 2 /\ log[h].pos \in 1..s /\ n - log[h].pos = 0
  BY SenderFacts
<1>2. n \in Nat /\ s \in Nat /\ Text(2).items \in Seq(Item) /\ 2 \in 1..Len(threads)
  BY TextType DEF IInv, TypeOK, Thread
<1>3. DOMAIN Text(2).items = 1..n
  BY <1>2
<1> HIDE DEF n, s
<1>4. log[h].pos = n /\ n <= s
  <2> DEFINE x == log[h].pos
  <2>1. x \in 1..s /\ n - x = 0
    BY <1>1
  <2> HIDE DEF x
  <2>2. x = n /\ n <= s
    BY <1>2, <2>1
  <2> QED
    BY <2>2 DEF x
<1>5. ASSUME NEW k \in 1..n
      PROVE  \E i \in 1..h : log[i].ok /\ log[i].thread = 2 /\ log[i].pos = k
  <2>1. k \in 1..threads[2].sent
    BY <1>2, <1>4 DEF s
  <2>2. PICK i \in 1..Len(log) : log[i].ok /\ log[i].thread = 2 /\ log[i].pos = k
    BY <1>2, <2>1 DEF SentInv, AllLogged, Logged
  <2>3. ~ (h < i)
    <3>1. h < i => log[h].pos < log[i].pos
      BY <1>1, <2>2 DEF IInv, LogInv, StreamsInOrder
    <3>2. ~ (n < k)
      BY <1>2
    <3> QED
      BY <1>4, <2>2, <3>1, <3>2
  <2>4. i \in 1..h
    BY <2>3
  <2> QED
    BY <2>2, <2>4
<1> QED
  BY <1>3, <1>5 DEF AllReceived, ReceivedUpTo, Text

\* When the channel is closed, all or nothing has been received.
LEMMA ClosedBlob ==
    ASSUME IInv, RootParser, SentInv, ReceiverOpen, Len(threads) = 2, NoSenders
    PROVE  AllReceived(Len(log)) \/ \A i \in 1..Len(log) : ~ log[i].ok
<1>1. /\ 2 \in 1..Len(threads) /\ Text(2).items \in Seq(Item) /\ ThreadOK(threads[2])
      /\ threads[2].sent \in Nat /\ threads[2].pc = "done"
  BY TextType DEF IInv, TypeOK, ThreadTypeOK, ThreadInv, Thread, NoSenders
<1>2. CASE threads[2].sent = 0
  <2> SUFFICES ASSUME NEW i \in 1..Len(log), log[i].ok PROVE FALSE
    OBVIOUS
  <2>1. log[i].thread = 2 /\ log[i].pos \in 1..threads[2].sent
    BY SenderFacts
  <2> QED
    BY <1>2, <2>1
<1>3. CASE threads[2].sent # 0
  <2>1. threads[2].sent = Len(Text(2).items)
    BY <1>1, <1>3 DEF SentInv, ThreadOK, Text
  <2>2. \A k \in 1..threads[2].sent : Logged(log, 2, k)
    BY <1>1 DEF SentInv, AllLogged
  <2>3. DOMAIN Text(2).items = 1..threads[2].sent
    BY <1>1, <2>1
  <2> QED
    BY <2>2, <2>3 DEF AllReceived, ReceivedUpTo, Text, Logged
<1> QED
  BY <1>2, <1>3

\* Nothing received, nothing gathered.
LEMMA EmptyBatch ==
    ASSUME IInv, OnceInv, \A i \in 1..head : ~ log[i].ok
    PROVE  batch = <<>>
<1>1. Got(log, head) = {}
  BY DEF Got
<1>2. 0 \in Slots(frames) /\ Slot(batch, imported, frames, 0) = batch
  BY DEF Slots, Slot
<1>3. 1..Len(batch) = {}
  BY <1>1, <1>2 DEF OnceInv, PlacesOK
<1>4. batch \in Seq(Decl)
  BY DEF IInv, TypeOK
<1>5. Len(batch) \in Nat /\ Len(batch) = 0
  <2> DEFINE n == Len(batch)
  <2>1. n \in Nat /\ 1..n = {}
    BY <1>3, <1>4
  <2> HIDE DEF n
  <2>2. n = 0
    BY <2>1
  <2> QED
    BY <2>1, <2>2 DEF n
<1> QED
  BY <1>4, <1>5

\* Everything that was received and not imported is in the one batch.
LEMMA BatchIsWhole ==
    ASSUME NEW fr, NEW lg, NEW h, PlacesOK(<<>>, <<>>, fr, lg, h), Len(fr) = 2,
           NEW p, NEW th, ReceivedUpTo(p, th, lg, h)
    PROVE  Whole(p, th, fr[2].items, th[2].file)
<1> SUFFICES ASSUME NEW k \in DOMAIN p[th[2].file].items
             PROVE  \E i \in 1..Len(fr[2].items) :
                      th[fr[2].items[i].thread].file = th[2].file /\ fr[2].items[i].pos = k
  BY DEF Whole
<1> DEFINE d == [thread |-> 2, pos |-> k]
<1>1. PICK j \in 1..h : lg[j].ok /\ lg[j].thread = 2 /\ lg[j].pos = k
  BY DEF ReceivedUpTo
<1>2. d \in Got(lg, h)
  <2>1. BlobDecl(lg[j]) = d
    BY <1>1 DEF BlobDecl
  <2> QED
    BY <1>1, <2>1 DEF Got
<1>3. PICK n \in Slots(fr) : \E i \in 1..Len(Slot(<<>>, <<>>, fr, n)) : Slot(<<>>, <<>>, fr, n)[i] = d
  <2> HIDE DEF d
  <2> QED
    BY <1>2 DEF PlacesOK, Somewhere
<1>4. n = 2
  BY <1>3 DEF Slots, Slot
<1>5. PICK i \in 1..Len(fr[2].items) : fr[2].items[i] = d
  BY <1>3, <1>4 DEF Slot
<1>6. d.thread = 2 /\ d.pos = k
  OBVIOUS
<1> HIDE DEF d
<1> QED
  BY <1>5, <1>6

\* One or two threads.
LEMMA SingleThreads ==
    ASSUME IInv, Single
    PROVE  /\ Len(threads) = 1 \/ (Len(threads) = 2 /\ Plain(prog, threads[2].file))
           /\ \A t \in 2..Len(threads) : Len(threads) = 2 /\ t = 2
<1> DEFINE n == Len(threads)
<1>1. n \in Nat /\ n # 0 /\ n <= 2
  BY ConstantsAssumption DEF IInv, TypeOK, ThreadTypeOK, Single
<1>2. (n = 1 \/ n = 2) /\ \A t \in 2..n : n = 2 /\ t = 2
  <2> HIDE DEF n
  <2> QED
    BY <1>1
<1> QED
  BY <1>2 DEF Single

\* The loop of the import ends.
LEMMA EnterCalls ==
    ASSUME IInv, OnceInv', RootParser, CallsInv, Single, phase = "check", receiving,
           UNCHANGED <<prog, threads, log, imported>>,
           NEW b, NEW files, EnterBatch(b, files),
           b = <<>> \/ (Len(threads) = 2 /\ AllReceived(head'))
    PROVE  SingleImport'
<1>1. SingleImport /\ Len(frames) = 1 /\ imported = <<>> /\ frames \in Seq(Frame)
  BY DEF CallsInv, SingleImport, IInv, TypeOK
<1>2. /\ Len(frames') = 2 /\ frames'[1] = frames[1] /\ frames'[2].items = b
      /\ receiving' = FALSE /\ batch' = <<>>
  <2> DEFINE new == [items |-> b, at |-> 0]
  <2>1. frames' = Append(frames, new) /\ receiving' = FALSE /\ batch' = <<>> /\ new.items = b
    BY DEF EnterBatch
  <2> HIDE DEF new
  <2>2. Len(frames') = Len(frames) + 1 /\ frames'[Len(frames) + 1] = new
        /\ \A k \in 1..Len(frames) : frames'[k] = frames[k]
    <3>1. frames \in Seq(Frame)
      BY <1>1
    <3> QED
      BY <2>1, <3>1
  <2> QED
    BY <1>1, <2>1, <2>2
<1>3. ASSUME b # <<>> PROVE Len(threads) = 2 /\ Whole(prog, threads, b, threads[2].file)
  <2>1. Len(threads) = 2 /\ AllReceived(head')
    BY <1>3
  <2>2. ReceivedUpTo(prog, threads, log, head')
    BY <2>1 DEF AllReceived
  <2>3. PlacesOK(<<>>, <<>>, frames', log, head')
    BY <1>1, <1>2 DEF OnceInv
  <2>4. Whole(prog, threads, frames'[2].items, threads[2].file)
    BY <1>2, <2>2, <2>3, BatchIsWhole
  <2> QED
    BY <1>2, <2>1, <2>4
<1> QED
  BY <1>1, <1>2, <1>3 DEF SingleImport

LEMMA RecvCalls ==
    ASSUME IInv, OnceInv, OnceInv', RootParser, SentInv, CallsInv,
           recv_blob \/ recv_error \/ recv_closed
    PROVE  CallsInv'
<1>1. /\ phase = "check" /\ receiving /\ UNCHANGED <<prog, threads, log, imported, phase>>
      /\ head \in Nat /\ Len(log) \in Nat /\ head <= Len(log)
  BY ListTypes DEF recv_blob, recv_error, recv_closed, threadVars, IInv, TypeOK, ThreadTypeOK
<1>2. Single' = Single /\ ReceiverOpen
  BY <1>1 DEF Single, ReceiverOpen
<1> SUFFICES ASSUME Single PROVE SingleImport'
  BY <1>2 DEF CallsInv
<1>3. SingleImport
  BY <1>1 DEF CallsInv
<1>4. \A i \in 1..head : i \in 1..Len(log)
  BY <1>1
<1>5. \A i \in 1..Len(log) : Len(threads) = 2 /\ log[i].thread = 2
  BY SenderFacts, SingleThreads
<1>6. CASE recv_blob
  <2>1. /\ head < Len(log) /\ log[head + 1].ok /\ head' = head + 1
        /\ head + 1 \in 1..Len(log)
    <3>1. head < Len(log) /\ log[head + 1].ok /\ head' = head + 1
      BY <1>6 DEF recv_blob
    <3> QED
      BY <1>1, <3>1
  <2>2. CASE log[head + 1].count = 0
    <3>1. \E b, files : EnterBatch(b, files)
      BY <1>6, <2>2 DEF recv_blob
    <3>2. Len(threads) = 2
      BY <1>5, <2>1
    <3>3. AllReceived(head')
      BY <1>2, <2>1, <2>2, <3>2, LastBlob
    <3> QED
      BY <1>1, <3>1, <3>2, <3>3, EnterCalls
  <2>3. CASE log[head + 1].count # 0
    <3>1. UNCHANGED <<frames, receiving>>
      BY <1>6, <2>3 DEF recv_blob
    <3> QED
      BY <1>1, <1>3, <3>1 DEF SingleImport
  <2> QED
    BY <2>2, <2>3
<1>7. CASE recv_error
  <2>1. /\ head < Len(log) /\ ~ log[head + 1].ok /\ EnterBatch(batch, fileNames)
        /\ head + 1 \in 1..Len(log)
    <3>1. head < Len(log) /\ ~ log[head + 1].ok /\ EnterBatch(batch, fileNames)
      BY <1>7 DEF recv_error
    <3> QED
      BY <1>1, <3>1
  <2>2. ASSUME NEW i \in 1..head PROVE FALSE
    <3>1. i \in 1..Len(log) /\ i < head + 1 /\ log[i].thread = log[head + 1].thread
      BY <1>1, <1>4, <1>5, <2>1
    <3> QED
      BY <2>1, <3>1 DEF IInv, LogInv, StreamsInOrder
  <2>3. batch = <<>>
    BY <2>2, EmptyBatch
  <2> QED
    BY <1>1, <2>1, <2>3, EnterCalls
<1>8. CASE recv_closed
  <2>1. head = Len(log) /\ head' = head /\ NoSenders /\ EnterBatch(batch, fileNames)
    BY <1>8 DEF recv_closed, threadVars
  <2>2. CASE Len(threads) = 2
    <3>1. AllReceived(head) \/ \A i \in 1..head : ~ log[i].ok
      BY <1>2, <2>1, <2>2, ClosedBlob
    <3>2. AllReceived(head) \/ batch = <<>>
      BY <3>1, EmptyBatch
    <3> QED
      BY <1>1, <2>1, <2>2, <3>2, EnterCalls
  <2>3. CASE Len(threads) # 2
    <3>1. \A i \in 1..head : FALSE
      BY <1>4, <1>5, <2>3
    <3>2. batch = <<>>
      BY <3>1, EmptyBatch
    <3> QED
      BY <1>1, <2>1, <3>2, EnterCalls
  <2> QED
    BY <2>2, <2>3
<1> QED
  BY <1>6, <1>7, <1>8

\* The imports that the root has, with so few threads.
LEMMA OneImport ==
    ASSUME IInv, RootParser, TreeInv, Single, phase # "parse"
    PROVE  \A k, l \in 1..Len(prog[Root].items) :
             IsImport(prog[Root].items[k]) /\ IsImport(prog[Root].items[l])
               => k = l /\ Len(threads) = 2
<1>1. threads[1].parsed = Len(prog[Root].items)
  BY DEF RootParser
<1>2. \A k \in 1..Len(prog[Root].items) :
         IsImport(prog[Root].items[k]) => k \in RootImports(prog, threads[1].parsed)
  BY <1>1 DEF RootImports
<1> QED
  BY <1>2, SingleThreads DEF TreeInv

\* A declaration is walked; it is the import only in the root.
LEMMA VisitCalls ==
    ASSUME IInv, OnceInv, RootParser, HeadersInv, TreeInv, CallsInv,
           visit_func \/ visit_const \/ visit_adt \/ visit_trait \/ visit_impl \/ visit_import
    PROVE  CallsInv'
<1>1. /\ Walking /\ Advance /\ UNCHANGED threadVars /\ imported' = imported
      /\ \/ receiving' = TRUE /\ IsImport(ItemOf(NextDecl))
         \/ receiving' = receiving
  <2>1. CASE visit_import
    BY <2>1 DEF visit_import, Visit, IsImport
  <2>2. CASE visit_adt
    BY <2>2 DEF visit_adt, Visit
  <2>3. CASE visit_func \/ visit_const \/ visit_trait \/ visit_impl
    BY <2>3 DEF visit_func, visit_const, visit_trait, visit_impl, Visit
  <2> QED
    BY <2>1, <2>2, <2>3
<1>2. phase = "check" /\ ~ receiving /\ frames # <<>>
  BY <1>1 DEF Walking, IInv, TypeOK
<1>3. UNCHANGED <<prog, threads, log, head, phase, imported>>
  BY <1>1 DEF threadVars
<1>4. Single' = Single
  BY <1>3 DEF Single
<1> SUFFICES ASSUME Single PROVE SingleImport'
  BY <1>4 DEF CallsInv
<1>5. SingleImport
  BY <1>2 DEF CallsInv
<1>6. /\ Len(frames') = Len(frames)
      /\ \A k \in 1..Len(frames) : k # Len(frames) => frames'[k] = frames[k]
      /\ Top'.items = Top.items /\ Top'.at = Top.at + 1
      /\ frames'[Len(frames)] = Top' /\ Top = frames[Len(frames)]
      /\ Top.at < Len(Top.items)
      /\ NextDecl = Top.items[Top.at + 1]
  BY <1>1, <1>2, AdvanceTop, TopFrame DEF NextDecl
<1>7. Len(frames) = 1 \/ Len(frames) = 2
  BY <1>5 DEF SingleImport
<1>8. /\ frames[Len(frames)].at \in Nat /\ Len(frames[Len(frames)].items) \in Nat
      /\ frames[Len(frames)].at + 1 \in 1..Len(frames[Len(frames)].items)
  <2>1. Len(frames) \in 1..Len(frames)
    BY <1>7
  <2>2. frames[Len(frames)].at \in Nat /\ Len(frames[Len(frames)].items) \in Nat
    BY <2>1, FrameFacts
  <2> QED
    BY <1>6, <2>2
<1>9. CASE Len(frames) = 1
  <2>1. Top = frames[1] /\ frames'[1].at = frames[1].at + 1
    BY <1>6, <1>9
  <2>2. \A k \in 1..frames[1].at : k \in 1..frames'[1].at /\ k # frames[1].at + 1
                                   /\ k \in 1..Len(prog[Root].items)
    BY <1>2, <1>8, <1>9, <2>1 DEF RootParser
  <2>3. ASSUME receiving' PROVE imported = <<>>
    <3>1. IsImport(ItemOf(NextDecl))
      BY <1>1, <1>2, <2>3
    <3>2. frames[1].at + 1 \in 1..Len(frames[1].items)
      BY <1>8, <1>9
    <3>3. ItemAt(prog, threads, NextDecl) = prog[Root].items[frames[1].at + 1]
      BY <1>2, <1>6, <2>1, <3>2, RootFrame
    <3>4. IsImport(prog[Root].items[frames[1].at + 1])
      BY <3>1, <3>3 DEF ItemOf, ItemAt
    <3>5. frames[1].at + 1 \in 1..Len(prog[Root].items)
      BY <1>2, <3>2 DEF RootParser
    <3>6. ASSUME NEW k \in 1..frames[1].at, IsImport(prog[Root].items[k]) PROVE FALSE
      <4>1. phase # "parse"
        BY <1>2
      <4> QED
        BY <2>2, <3>4, <3>5, <3>6, <4>1, OneImport
    <3> QED
      BY <1>5, <3>6 DEF SingleImport
  <2> QED
    BY <1>3, <1>5, <1>6, <1>9, <2>2, <2>3 DEF SingleImport
<1>10. CASE Len(frames) = 2
  <2>1. Top = frames[2] /\ frames'[1] = frames[1] /\ frames'[2].items = frames[2].items
    BY <1>6, <1>10
  <2>2. ~ IsImport(ItemOf(NextDecl))
    <3> DEFINE d == NextDecl
    <3>1. 2 \in 2..Len(frames) /\ frames[2].at + 1 \in 1..Len(frames[2].items)
      BY <1>8, <1>10
    <3>2. /\ d.thread \in 2..Len(threads)
          /\ d.pos \in 1..Len(Text(d.thread).items)
          /\ Text(d.thread).items \in Seq(Item)
          /\ ItemOf(d) = Text(d.thread).items[d.pos]
      BY <1>6, <2>1, <3>1, BatchDecl
    <3> HIDE DEF d
    <3>3. d.thread = 2 /\ Plain(prog, threads[2].file)
      BY <3>2, SingleThreads
    <3>4. d.pos \in DOMAIN prog[threads[2].file].items
      BY <3>2, <3>3 DEF Text
    <3>5. ItemOf(d) = prog[threads[2].file].items[d.pos]
      BY <3>2, <3>3 DEF Text
    <3> QED
      BY <3>3, <3>4, <3>5 DEF Plain, d
  <2>3. ~ receiving'
    BY <1>1, <1>2, <2>2
  <2> QED
    BY <1>3, <1>5, <1>6, <1>10, <2>1, <2>3 DEF SingleImport
<1> QED
  BY <1>7, <1>9, <1>10

\* Files are kept, and so is what is whole.
LEMMA WholeKept ==
    ASSUME NEW p, NEW th, NEW tn, NEW items, NEW f, Whole(p, th, items, f),
           \A i \in 1..Len(items) : tn[items[i].thread].file = th[items[i].thread].file
    PROVE  Whole(p, tn, items, f)
BY DEF Whole

\* A parser thread moves on: a single import was one before.
LEMMA ParseCalls ==
    ASSUME IInv, CallsInv, NEW t \in 1..Len(threads), ThreadStep(t), UNCHANGED checkVars
    PROVE  CallsInv'
<1>1. ThreadsGrow /\ phase' = phase /\ prog' = prog
  BY ThreadStepInv, ThreadStepLog DEF IInv, TypeOK, ThreadTypeOK
<1>2. UNCHANGED <<frames, receiving, imported>>
  BY DEF checkVars
<1> SUFFICES ASSUME phase = "check", Single' PROVE SingleImport'
  BY <1>1 DEF CallsInv
<1> DEFINE n == Len(threads)
           m == Len(threads')
<1>3. /\ n \in Nat /\ m \in Nat /\ n <= m /\ m <= 2
      /\ \A s \in 1..n : threads'[s].file = threads[s].file
  <2>1. threads \in Seq(Thread) /\ threads' \in Seq(Thread)
    BY ThreadStepInv DEF IInv, TypeOK, ThreadTypeOK
  <2> QED
    BY <1>1, <2>1 DEF ThreadsGrow, Single
<1>4. n <= 2 /\ (n = 2 => m = 2 /\ 2 \in 1..n)
  <2> HIDE DEF n, m
  <2> QED
    BY <1>3
<1>5. Single
  <2>1. n = 2 => threads'[2].file = threads[2].file
    BY <1>3, <1>4
  <2> QED
    BY <1>1, <1>4, <2>1 DEF Single
<1>6. SingleImport
  BY <1>5 DEF CallsInv
<1>7. ASSUME Len(frames) = 2, frames[2].items # <<>>
      PROVE  Len(threads') = 2 /\ Whole(prog, threads', frames[2].items, threads'[2].file)
  <2>1. n = 2 /\ Whole(prog, threads, frames[2].items, threads[2].file)
    BY <1>6, <1>7 DEF SingleImport
  <2>2. 2 \in 1..Len(frames)
    BY <1>7
  <2>3. \A i \in 1..Len(frames[2].items) : frames[2].items[i].thread \in 1..n
    BY <2>2, FrameFacts
  <2>4. Whole(prog, threads', frames[2].items, threads[2].file)
    BY <1>3, <2>1, <2>3, WholeKept
  <2> QED
    BY <1>3, <1>4, <2>1, <2>4
<1> QED
  BY <1>1, <1>2, <1>6, <1>7 DEF SingleImport

\* Type checking begins.
LEMMA RootParsedCalls ==
    ASSUME IInv, OnceInv, RootParsed
    PROVE  CallsInv'
<1>1. imported' = <<>> /\ receiving' = FALSE
  BY DEF RootParsed, OnceInv, IInv, TypeOK
<1>2. phase' = "check" => Len(frames') = 1
  BY DEF RootParsed
<1> QED
  BY <1>1, <1>2 DEF CallsInv, SingleImport

\* A call ends: the root's, or that of the import.
LEMMA CheckBodiesCalls ==
    ASSUME IInv, HeadersInv, RootParser, CallsInv, check_bodies
    PROVE  CallsInv'
<1>1. /\ phase = "check" /\ ~ receiving /\ UNCHANGED <<prog, threads, receiving>>
      /\ frames' = SubSeq(frames, 1, Len(frames) - 1)
      /\ Len(frames) = 1 => phase' # "check"
  <2>1. /\ phase = "check" /\ ~ receiving /\ UNCHANGED <<prog, threads, receiving>>
        /\ frames' = SubSeq(frames, 1, Len(frames) - 1)
    BY DEF check_bodies
  <2>2. Len(frames) = 1 => phase' # "check"
    BY DEF check_bodies
  <2> QED
    BY <2>1, <2>2
<1>2. Single' = Single
  BY <1>1 DEF Single
<1> SUFFICES ASSUME phase' = "check", Single PROVE SingleImport'
  BY <1>2 DEF CallsInv
<1>3. Len(frames) = 2
  BY <1>1 DEF CallsInv, SingleImport
<1>4. Len(frames') = 1 /\ frames'[1] = frames[1]
  <2>1. frames \in Seq(Frame) /\ frames' = SubSeq(frames, 1, 1)
    BY <1>1, <1>3 DEF IInv, TypeOK
  <2>2. \A k \in 1..1 : frames[k] \in Frame
    BY <1>3, <2>1
  <2> QED
    BY <2>1, <2>2, SubSeqProperties
<1>5. \E k \in 1..frames[1].at : IsImport(prog[Root].items[k])
  <2>1. /\ 1 \in 1..Len(frames) /\ frames[1].at \in Nat
        /\ \A k \in 1..Len(frames[1].items) :
             ItemAt(prog, threads, frames[1].items[k]) = prog[Root].items[k]
        /\ Len(frames[1].items) \in Nat
    BY <1>1, RootFrame
  <2>2. /\ frames[1].at <= Len(frames[1].items) /\ frames[1].at # 0
        /\ IsImport(ItemAt(prog, threads, frames[1].items[frames[1].at]))
    BY <1>3, <2>1 DEF HeadersInv, WaitsOK
  <2>3. frames[1].at \in 1..frames[1].at /\ frames[1].at \in 1..Len(frames[1].items)
    BY <2>1, <2>2
  <2> QED
    BY <2>1, <2>2, <2>3
<1>6. ~ receiving' /\ prog' = prog
  BY <1>1
<1>7. \E k \in 1..frames'[1].at : IsImport(prog'[Root].items[k])
  BY <1>4, <1>5, <1>6
<1> QED
  BY <1>4, <1>6, <1>7 DEF SingleImport

LEMMA NextCalls ==
    ASSUME IInv, IInv', OnceInv, OnceInv', HeadersInv, RootParser, SentInv, TreeInv, CallsInv, [Next]_vars
    PROVE  CallsInv'
<1>1. CASE UNCHANGED vars
  BY <1>1 DEF vars, threadVars, checkVars, CallsInv, Single, SingleImport
<1>2. ASSUME NEW t \in DOMAIN threads, Parse(t) PROVE CallsInv'
  BY <1>2, ParseCalls DEF Parse, IInv, TypeOK, ThreadTypeOK
<1>3. CASE RootParsed
  BY <1>3, RootParsedCalls
<1>4. CASE visit_func \/ visit_const \/ visit_adt \/ visit_trait \/ visit_impl \/ visit_import
  BY <1>4, VisitCalls
<1>5. CASE recv_blob \/ recv_error \/ recv_closed
  BY <1>5, RecvCalls
<1>6. CASE check_bodies
  BY <1>6, CheckBodiesCalls
<1>7. CASE lower_items
  BY <1>7 DEF lower_items, CallsInv
<1> QED
  BY <1>1, <1>2, <1>3, <1>4, <1>5, <1>6, <1>7 DEF Next, MainStep

LEMMA InitSingle ==
    ASSUME Init
    PROVE  SentInv /\ TreeInv /\ CallsInv
<1> DEFINE th == [NewThread(Root, 0, 0) EXCEPT !.pc = "parse"]
<1>1. th.pc = "parse" /\ th.sent = 0 /\ th.parsed = 0
  BY DEF NewThread
<1>2. threads = <<th>> /\ phase = "parse"
  BY DEF Init, ThreadInit
<1> HIDE DEF th
<1>3. Len(threads) = 1 /\ threads[1] = th /\ 1..Len(threads) = {1}
  BY <1>2
<1>4. RootImports(prog, 0) = {}
  BY DEF RootImports
<1> QED
  BY <1>1, <1>2, <1>3, <1>4 DEF SentInv, AllLogged, TreeInv, CallsInv

-----------------------------------------------------------------------------
(* The consts that may not be reported *)

\* The file has no import, and a function of it uses the name.
Watched(p, f, n) ==
    /\ Plain(p, f)
    /\ \E k \in DOMAIN p[f].items : p[f].items[k].kind = "func" /\ n \in p[f].items[k].uses

\* An unused const has been declared; there are none before type checking.
NamesInv ==
    /\ DOMAIN names = Table
    /\ \A u \in unused : u = [file |-> u.file, name |-> u.name] /\ u.name \in names["global"]
    /\ phase = "parse" => unused = {}

\* The innermost call, whose end reports what is unused, has the whole file.
WatchInv ==
    Len(threads) <= 2 /\ phase = "check" =>
        \A u \in unused : Watched(prog, u.file, u.name) => Whole(prog, threads, Top.items, u.file)

\* UsedConstsKept.
KeptInv ==
    Len(threads) <= 2 =>
        \A e \in errors : e.what = "unused" => ~ Watched(prog, e.file, e.name)

LEMMA AddFuncGlobals ==
    ASSUME NEW tbl, DOMAIN tbl = Table, NEW d
    PROVE  DOMAIN AddFunc(tbl, d) = Table /\ tbl["global"] \subseteq AddFunc(tbl, d)["global"]
BY DEF AddFunc, Table

LEMMA NextNames ==
    ASSUME NamesInv, [Next]_vars
    PROVE  NamesInv'
<1>1. ASSUME DOMAIN names' = Table, names["global"] \subseteq names'["global"],
             unused' \subseteq unused, phase' # "parse" \/ phase' = phase
      PROVE  NamesInv'
  BY <1>1 DEF NamesInv
<1>2. CASE UNCHANGED vars
  BY <1>1, <1>2 DEF vars, threadVars, checkVars, NamesInv
<1>3. ASSUME NEW t \in DOMAIN threads, Parse(t) PROVE NamesInv'
  <2>1. phase' = phase
    BY <1>3 DEF Parse, ThreadStep, ReadFile, ParseItem, ParseImport, ParseEnd, SendItem, Exit
  <2> QED
    BY <1>1, <1>3, <2>1 DEF Parse, checkVars, NamesInv
<1>4. CASE visit_func
  <2>1. names' = AddFunc(names, NextDecl) /\ unused' = unused /\ phase' = phase
    BY <1>4 DEF visit_func, threadVars
  <2> QED
    BY <1>1, <2>1, AddFuncGlobals DEF NamesInv
<1>5. CASE visit_const
  <2> DEFINE n == ItemOf(NextDecl).name
             u == [file |-> FileOf(NextDecl), name |-> n]
  <2>1. /\ names' = [names EXCEPT !["global"] = @ \cup {n}] /\ phase = "check" /\ phase' = phase
        /\ unused' = unused \cup {u}
    BY <1>5 DEF visit_const, threadVars, Visit, Walking
  <2>2. u = [file |-> u.file, name |-> u.name] /\ u.name = n
    OBVIOUS
  <2> HIDE DEF n, u
  <2>3. DOMAIN names' = Table /\ names'["global"] = names["global"] \cup {n}
    BY <2>1 DEF NamesInv, Table
  <2> QED
    BY <2>1, <2>2, <2>3 DEF NamesInv
<1>6. CASE visit_adt
  <2>1. PICK kind \in {"struct", "enum"} : \E S : names' = [names EXCEPT ![kind] = S]
    BY <1>6 DEF visit_adt
  <2>2. unused' = unused /\ phase' = phase
    BY <1>6 DEF visit_adt, threadVars
  <2> QED
    BY <1>1, <2>1, <2>2 DEF NamesInv
<1>7. CASE visit_trait
  <2>1. \E S : names' = [names EXCEPT !["trait"] = S]
    BY <1>7 DEF visit_trait
  <2>2. unused' = unused /\ phase' = phase
    BY <1>7 DEF visit_trait, threadVars
  <2> QED
    BY <1>1, <2>1, <2>2 DEF NamesInv
<1>8. CASE visit_impl
  <2> DEFINE key == [of |-> ItemOf(NextDecl).of, targs |-> ItemOf(NextDecl).targs]
             tbl == add_impl(key)
  <2>1. names' = AddFunc(tbl, NextDecl) /\ unused' = unused /\ phase' = phase
    BY <1>8 DEF visit_impl, threadVars
  <2>2. tbl = names \/ \E S : tbl = [names EXCEPT !["impl"] = S]
    BY DEF add_impl
  <2> HIDE DEF tbl
  <2>3. DOMAIN tbl = Table /\ tbl["global"] = names["global"]
    <3>1. DOMAIN names = Table /\ "global" \in Table /\ "global" # "impl"
      BY DEF NamesInv, Table
    <3>2. ASSUME NEW S, tbl = [names EXCEPT !["impl"] = S]
          PROVE  DOMAIN tbl = Table /\ tbl["global"] = names["global"]
      BY <3>1, <3>2
    <3> QED
      BY <2>2, <3>1, <3>2
  <2> QED
    BY <1>1, <2>1, <2>3, AddFuncGlobals
<1>9. CASE RootParsed \/ visit_import \/ recv_blob \/ recv_error \/ recv_closed \/ lower_items
  BY <1>1, <1>9 DEF RootParsed, visit_import, recv_blob, recv_error, recv_closed, lower_items,
     threadVars, checkVars, NamesInv
<1>10. CASE check_bodies
  <2>1. UNCHANGED names /\ unused' = unused \ MarkedUsed(Top.items) /\ phase = "check"
    BY <1>10 DEF check_bodies
  <2>2. phase' \in {"check", "lower", "failed"}
    BY <1>10 DEF check_bodies
  <2> QED
    BY <1>1, <2>1, <2>2 DEF NamesInv
<1> QED
  BY <1>2, <1>3, <1>4, <1>5, <1>6, <1>7, <1>8, <1>9, <1>10 DEF Next, MainStep

\* A call that walks a declaration of a file without imports is one of the two.
LEMMA WatchedSingle ==
    ASSUME IInv, RootParser, TreeInv, Len(threads) <= 2, phase = "check", NEW f, Plain(prog, f),
           NEW i \in 1..Len(Top.items), threads[Top.items[i].thread].file = f
    PROVE  Single
<1>1. Top.items[i].thread \in 1..Len(threads)
  BY TopFrame, FrameFacts DEF IInv, TypeOK
<1>2. Len(threads) = 1 \/ Len(threads) = 2
  <2> DEFINE n == Len(threads)
  <2>1. n \in Nat /\ n # 0 /\ n <= 2
    BY ConstantsAssumption DEF IInv, TypeOK, ThreadTypeOK
  <2> HIDE DEF n
  <2>2. n = 1 \/ n = 2
    BY <2>1
  <2> QED
    BY <2>2 DEF n
<1>3. CASE Len(threads) = 1
  BY <1>3 DEF Single
<1>4. CASE Len(threads) = 2
  <2>1. Top.items[i].thread = 1 \/ Top.items[i].thread = 2
    BY <1>1, <1>4
  <2>2. CASE Top.items[i].thread = 2
    BY <1>4, <2>2 DEF Single
  <2>3. CASE Top.items[i].thread = 1
    <3>1. f = Root /\ threads[1].parsed = Len(prog[Root].items)
      BY <2>3 DEF IInv, RootInv, RootParser
    <3>2. PICK k : RootImports(prog, Len(prog[Root].items)) = {k}
      BY <1>4, <3>1 DEF TreeInv
    <3>3. k \in 1..Len(prog[Root].items) /\ IsImport(prog[Root].items[k])
      BY <3>2 DEF RootImports
    <3>4. prog[Root].items \in Seq(Item)
      BY <1>1, TextType DEF IInv, TypeOK, RootInv, Text, ThreadTypeOK
    <3> QED
      BY <3>1, <3>3, <3>4 DEF Plain
  <2> QED
    BY <2>1, <2>2, <2>3
<1> QED
  BY <1>2, <1>3, <1>4

\* The handlers of a declaration report no const.
LEMMA VisitErrors ==
    ASSUME visit_func \/ visit_const \/ visit_adt \/ visit_trait \/ visit_impl \/ visit_import,
           NEW e \in errors', e.what = "unused"
    PROVE  e \in errors
<1>1. \A f : \A n : \A w : Error(w, f, n).what = w
  BY DEF Error
<1>2. \A d : \A w : w # "unused" => ErrorAt(d, w) # e
  BY <1>1 DEF ErrorAt
<1>3. \A d : \A w : \A c : w # "unused" => e \notin Only(c, ErrorAt(d, w))
  BY <1>2 DEF Only
<1>4. \A d : e \notin FuncErrors(d)
  BY <1>3 DEF FuncErrors
<1>5. ASSUME NEW E, push_error(E), e \notin E PROVE e \in errors
  BY <1>5 DEF push_error
<1>6. CASE visit_func
  BY <1>4, <1>5, <1>6 DEF visit_func
<1>7. CASE visit_const
  BY <1>3, <1>5, <1>7 DEF visit_const
<1>8. CASE visit_adt
  BY <1>3, <1>5, <1>8 DEF visit_adt
<1>9. CASE visit_trait
  BY <1>3, <1>5, <1>9 DEF visit_trait
<1>10. CASE visit_impl
  BY <1>3, <1>4, <1>5, <1>10 DEF visit_impl
<1>11. CASE visit_import
  BY <1>11 DEF visit_import
<1> QED
  BY <1>6, <1>7, <1>8, <1>9, <1>10, <1>11

\* A const is declared: the call that walks it has all of a file it can watch.
LEMMA DeclaredWhole ==
    ASSUME IInv, OnceInv, RootParser, TreeInv, CallsInv, Walking, Len(threads) <= 2,
           Plain(prog, FileOf(NextDecl))
    PROVE  Whole(prog, threads, Top.items, FileOf(NextDecl))
<1> DEFINE d == NextDecl
           f == FileOf(d)
<1>1. /\ phase = "check" /\ ~ receiving /\ frames # <<>> /\ Top.at < Len(Top.items)
      /\ Len(frames) \in 1..Len(frames) /\ Top = frames[Len(frames)]
  BY TopFrame DEF Walking, IInv, TypeOK
<1>2. /\ Top.at + 1 \in 1..Len(Top.items) /\ d = Top.items[Top.at + 1]
      /\ threads[Top.items[Top.at + 1].thread].file = f
  <2>1. Top.at \in Nat /\ Len(Top.items) \in Nat
    BY <1>1, FrameFacts
  <2>2. Top.at + 1 \in 1..Len(Top.items)
    BY <1>1, <2>1
  <2> QED
    BY <2>2 DEF NextDecl, FileOf
<1> HIDE DEF d, f
<1>3. Plain(prog, f)
  BY DEF d, f
<1>4. Single
  BY <1>1, <1>2, <1>3, WatchedSingle
<1>5. SingleImport
  BY <1>1, <1>4 DEF CallsInv
<1>6. CASE Len(frames) = 1
  <2>1. Top = frames[1] /\ threads[1].file = Root
    BY <1>1, <1>6 DEF IInv, RootInv
  <2>2. /\ Len(Top.items) = Len(prog[Root].items)
        /\ \A k \in 1..Len(Top.items) : Top.items[k] = [thread |-> 1, pos |-> k]
    BY <1>1, <2>1 DEF RootParser
  <2>3. \A k \in 1..Len(Top.items) : Top.items[k].thread = 1 /\ Top.items[k].pos = k
    <3> SUFFICES ASSUME NEW k \in 1..Len(Top.items)
                 PROVE  Top.items[k].thread = 1 /\ Top.items[k].pos = k
      OBVIOUS
    <3>1. Top.items[k] = [thread |-> 1, pos |-> k]
      BY <2>2
    <3> QED
      BY <3>1
  <2>4. f = Root
    BY <1>2, <2>1, <2>3
  <2>5. prog[Root].items \in Seq(Item)
    <3>1. 1 \in 1..Len(threads)
      BY DEF IInv, TypeOK, ThreadTypeOK
    <3> QED
      BY <2>1, <3>1, TextType DEF IInv, TypeOK, Text
  <2>6. DOMAIN prog[Root].items = 1..Len(Top.items)
    BY <2>2, <2>5
  <2>7. Whole(prog, threads, Top.items, Root)
    BY <2>1, <2>3, <2>6 DEF Whole
  <2> QED
    BY <2>4, <2>7 DEF d, f
<1>7. CASE Len(frames) = 2
  <2>1. Top = frames[2] /\ 2 \in 2..Len(frames)
    BY <1>1, <1>7
  <2>2. frames[2].items # <<>>
    BY <1>2, <2>1
  <2>3. Len(threads) = 2 /\ Whole(prog, threads, Top.items, threads[2].file)
    BY <1>5, <1>7, <2>1, <2>2 DEF SingleImport
  <2>4. d.thread \in 2..Len(threads)
    BY <1>2, <2>1, BatchDecl
  <2>5. f = threads[2].file
    BY <1>2, <2>3, <2>4
  <2> QED
    BY <2>3, <2>5 DEF d, f
<1> QED
  BY <1>5, <1>6, <1>7 DEF SingleImport

\* No const is watched while an import receives.
LEMMA NoneWatched ==
    ASSUME IInv, HeadersInv, RootParser, TreeInv, CallsInv, WatchInv, Len(threads) <= 2,
           phase = "check", receiving, NEW u \in unused, Watched(prog, u.file, u.name)
    PROVE  FALSE
<1>1. PICK k \in DOMAIN prog[u.file].items : TRUE
  BY DEF Watched
<1>2. PICK i \in 1..Len(Top.items) : threads[Top.items[i].thread].file = u.file
  BY <1>1 DEF WatchInv, Whole
<1>3. Plain(prog, u.file)
  BY DEF Watched
<1>4. SingleImport
  BY <1>2, <1>3, WatchedSingle DEF CallsInv
<1>5. Len(frames) = 1 /\ Top = frames[1]
  BY <1>4 DEF SingleImport, Top
<1>6. u.file = Root
  <2>1. Top.items[i] = [thread |-> 1, pos |-> i]
    BY <1>2, <1>5 DEF RootParser
  <2>2. Top.items[i].thread = 1
    BY <2>1
  <2> QED
    BY <1>2, <2>2 DEF IInv, RootInv
<1>7. /\ frames[1].at \in 1..Len(frames[1].items)
      /\ IsImport(prog[Root].items[frames[1].at])
  <2>1. /\ 1 \in 1..Len(frames) /\ frames[1].at \in Nat /\ Len(frames[1].items) \in Nat
        /\ \A n \in 1..Len(frames[1].items) :
             ItemAt(prog, threads, frames[1].items[n]) = prog[Root].items[n]
    BY RootFrame
  <2>2. /\ frames[1].at <= Len(frames[1].items) /\ frames[1].at # 0
        /\ IsImport(ItemAt(prog, threads, frames[1].items[frames[1].at]))
    BY <1>5, <2>1 DEF HeadersInv, WaitsOK
  <2>3. frames[1].at \in 1..Len(frames[1].items)
    BY <2>1, <2>2
  <2> QED
    BY <2>1, <2>2, <2>3
<1>8. DOMAIN prog[Root].items = 1..Len(frames[1].items)
  <2>1. prog[Root].items \in Seq(Item)
    <3>1. 1 \in 1..Len(threads)
      BY DEF IInv, TypeOK, ThreadTypeOK
    <3> QED
      BY <3>1, TextType DEF IInv, TypeOK, Text, RootInv
  <2> QED
    BY <2>1 DEF RootParser
<1> QED
  BY <1>3, <1>6, <1>7, <1>8 DEF Plain

\* A use in the file marks the const.
LEMMA UseMarks ==
    ASSUME NamesInv, NEW u \in unused, NEW items, Watched(prog, u.file, u.name),
           items \in Seq(Decl), Whole(prog, threads, items, u.file)
    PROVE  u \in MarkedUsed(items)
<1>1. PICK k \in DOMAIN prog[u.file].items :
         prog[u.file].items[k].kind = "func" /\ u.name \in prog[u.file].items[k].uses
  BY DEF Watched
<1>2. PICK i \in 1..Len(items) : threads[items[i].thread].file = u.file /\ items[i].pos = k
  BY DEF Whole
<1> DEFINE d == items[i]
<1>3. ItemOf(d) = prog[u.file].items[k] /\ FileOf(d) = u.file
  BY <1>2 DEF ItemOf, FileOf
<1>4. i \in DOMAIN items
  BY <1>2
<1>5. d \in Bodies(items)
  BY <1>1, <1>3, <1>4 DEF Bodies
<1> HIDE DEF d
<1>6. u = [file |-> FileOf(d), name |-> u.name] /\ u.name \in ItemOf(d).uses
  BY <1>1, <1>3 DEF NamesInv
<1>7. u \in {[file |-> FileOf(d), name |-> n] : n \in ItemOf(d).uses}
  BY <1>6
<1>8. u \in Statements(items)
  BY <1>5, <1>7 DEF Statements
<1> QED
  BY <1>8 DEF MarkedUsed, Declared, NamesInv

\* Steps that leave the innermost call with its items.
LEMMA WatchSame ==
    ASSUME WatchInv, KeptInv, UNCHANGED <<prog, threads, unused, errors>>,
           phase' = "check" => phase = "check" /\ Top'.items = Top.items
    PROVE  WatchInv' /\ KeptInv'
BY DEF WatchInv, KeptInv

LEMMA ParseWatch ==
    ASSUME IInv, WatchInv, KeptInv, NEW t \in 1..Len(threads), ThreadStep(t), UNCHANGED checkVars
    PROVE  WatchInv' /\ KeptInv'
<1>1. ThreadsGrow /\ phase' = phase /\ prog' = prog
  BY ThreadStepInv, ThreadStepLog DEF IInv, TypeOK, ThreadTypeOK
<1>2. UNCHANGED <<frames, unused, errors>> /\ Top' = Top
  BY DEF checkVars, Top
<1>3. Len(threads') <= 2 => Len(threads) <= 2
  <2> DEFINE n == Len(threads)
             m == Len(threads')
  <2>1. n \in Nat /\ m \in Nat /\ n <= m
    BY <1>1, ThreadStepInv DEF IInv, TypeOK, ThreadTypeOK, ThreadsGrow
  <2> HIDE DEF n, m
  <2>2. m <= 2 => n <= 2
    BY <2>1
  <2> QED
    BY <2>2 DEF n, m
<1>4. ASSUME phase = "check", NEW f, Whole(prog, threads, Top.items, f)
      PROVE  Whole(prog, threads', Top.items, f)
  <2>1. Len(frames) \in 1..Len(frames) /\ frames[Len(frames)] = Top
    BY <1>4, TopFrame DEF IInv, TypeOK
  <2>2. \A i \in 1..Len(Top.items) : Top.items[i].thread \in 1..Len(threads)
    BY <2>1, FrameFacts
  <2> QED
    BY <1>1, <1>4, <2>2, WholeKept DEF ThreadsGrow
<1> QED
  BY <1>1, <1>2, <1>3, <1>4 DEF WatchInv, KeptInv

LEMMA VisitWatch ==
    ASSUME IInv, OnceInv, RootParser, TreeInv, CallsInv, WatchInv, KeptInv,
           visit_func \/ visit_const \/ visit_adt \/ visit_trait \/ visit_impl \/ visit_import
    PROVE  WatchInv' /\ KeptInv'
<1> DEFINE u == [file |-> FileOf(NextDecl), name |-> ItemOf(NextDecl).name]
<1>1. Walking /\ Advance /\ UNCHANGED threadVars /\ (unused' = unused \/ unused' = unused \cup {u})
  <2>1. CASE visit_adt
    BY <2>1 DEF visit_adt, Visit
  <2>2. CASE visit_func \/ visit_const \/ visit_trait \/ visit_impl \/ visit_import
    BY <2>2 DEF visit_func, visit_const, visit_trait, visit_impl, visit_import, Visit
  <2> QED
    BY <2>1, <2>2
<1>2. UNCHANGED <<prog, threads, phase>> /\ Top'.items = Top.items /\ phase = "check"
  BY <1>1, AdvanceTop DEF threadVars, Walking
<1>3. u.file = FileOf(NextDecl)
  OBVIOUS
<1> HIDE DEF u
<1>4. KeptInv'
  BY <1>2, VisitErrors DEF KeptInv
<1>5. Len(threads) <= 2 /\ Watched(prog, u.file, u.name) => Whole(prog, threads, Top.items, u.file)
  BY <1>1, <1>3, DeclaredWhole DEF Watched
<1>6. WatchInv'
  BY <1>1, <1>2, <1>5 DEF WatchInv
<1> QED
  BY <1>4, <1>6

LEMMA RecvWatch ==
    ASSUME IInv, HeadersInv, RootParser, TreeInv, CallsInv, WatchInv, KeptInv,
           recv_blob \/ recv_error \/ recv_closed
    PROVE  WatchInv' /\ KeptInv'
<1>1. /\ phase = "check" /\ receiving /\ UNCHANGED <<prog, threads, unused, errors>>
      /\ phase' = phase
  BY DEF recv_blob, recv_error, recv_closed, threadVars
<1> QED
  BY <1>1, NoneWatched DEF WatchInv, KeptInv

\* A call of visit_prog ends: what it reports is not watched.
LEMMA CheckBodiesWatch ==
    ASSUME IInv, NamesInv, WatchInv, KeptInv, check_bodies
    PROVE  WatchInv' /\ KeptInv'
<1> DEFINE left == unused \ MarkedUsed(Top.items)
<1>1. /\ phase = "check" /\ UNCHANGED <<prog, threads>> /\ unused' = left
      /\ errors' \subseteq errors \cup LookupErrors(Top.items) \cup UnusedErrors(left)
  BY DEF check_bodies
<1>2. Top.items \in Seq(Decl)
  <2>1. Len(frames) \in 1..Len(frames) /\ frames[Len(frames)] = Top
    BY <1>1, TopFrame DEF IInv, TypeOK
  <2> QED
    BY <2>1, ListTypes
<1>3. ASSUME Len(threads) <= 2, NEW u \in left PROVE ~ Watched(prog, u.file, u.name)
  BY <1>1, <1>2, <1>3, UseMarks DEF WatchInv
<1> HIDE DEF left
<1>4. WatchInv'
  BY <1>1, <1>3 DEF WatchInv
<1>5. ASSUME NEW e \in LookupErrors(Top.items) PROVE e.what # "unused"
  <2>1. PICK st : e = Error("no type found", st.file, st.name)
    BY <1>5 DEF LookupErrors, FailedLookups
  <2> QED
    BY <2>1 DEF Error
<1>6. ASSUME Len(threads) <= 2, NEW e \in UnusedErrors(left) PROVE ~ Watched(prog, e.file, e.name)
  <2>1. PICK u \in left : e = Error("unused", u.file, u.name)
    BY <1>6 DEF UnusedErrors
  <2>2. e.file = u.file /\ e.name = u.name
    BY <2>1 DEF Error
  <2> QED
    BY <1>3, <1>6, <2>2
<1>7. KeptInv'
  BY <1>1, <1>5, <1>6 DEF KeptInv
<1> QED
  BY <1>4, <1>7

LEMMA NextWatch ==
    ASSUME IInv, IInv', OnceInv, OnceInv', HeadersInv, RootParser, SentInv, TreeInv, CallsInv,
           NamesInv, WatchInv, KeptInv, [Next]_vars
    PROVE  WatchInv' /\ KeptInv'
<1>1. CASE UNCHANGED vars
  BY <1>1, WatchSame DEF vars, threadVars, checkVars, Top
<1>2. ASSUME NEW t \in DOMAIN threads, Parse(t) PROVE WatchInv' /\ KeptInv'
  BY <1>2, ParseWatch DEF Parse, IInv, TypeOK, ThreadTypeOK
<1>3. CASE RootParsed
  <2>1. /\ Len(threads') = Len(threads) /\ prog' = prog
        /\ unused' = {} /\ errors' = errors
    BY <1>3, RootDone DEF RootParsed, NamesInv
  <2> QED
    BY <2>1 DEF WatchInv, KeptInv
<1>4. CASE visit_func \/ visit_const \/ visit_adt \/ visit_trait \/ visit_impl \/ visit_import
  BY <1>4, VisitWatch
<1>5. CASE recv_blob \/ recv_error \/ recv_closed
  BY <1>5, RecvWatch
<1>6. CASE check_bodies
  BY <1>6, CheckBodiesWatch
<1>7. CASE lower_items
  BY <1>7, WatchSame DEF lower_items, checkVars
<1> QED
  BY <1>1, <1>2, <1>3, <1>4, <1>5, <1>6, <1>7 DEF Next, MainStep

LEMMA InitWatch ==
    ASSUME Init
    PROVE  NamesInv /\ WatchInv /\ KeptInv
BY DEF Init, ThreadInit, NamesInv, WatchInv, KeptInv, Table

LEMMA KeptSuffices ==
    ASSUME KeptInv
    PROVE  UsedConstsKept
<1> SUFFICES ASSUME NEW e \in errors, e.what = "unused", Len(threads) <= 2
             PROVE  \/ \E k \in DOMAIN prog[e.file].items : IsImport(prog[e.file].items[k])
                    \/ ~ \E k \in DOMAIN prog[e.file].items :
                           /\ prog[e.file].items[k].kind = "func"
                           /\ e.name \in prog[e.file].items[k].uses
  BY DEF UsedConstsKept
<1>1. ~ Watched(prog, e.file, e.name)
  BY DEF KeptInv
<1> QED
  BY <1>1 DEF Watched, Plain

\* With at most one import in the program, however the threads run and wherever
\* the import stands, visit_prog never reports a const as unused that a function
\* of its own file uses, unless that file has the import: the call that reports
\* has all of the file, be it the root's or the batch of the import.
THEOREM UsedConstsStayKept == Spec => []UsedConstsKept
<1> DEFINE Before == IInv /\ OnceInv /\ HeadersInv /\ RootParser
           Once == SentInv /\ TreeInv /\ CallsInv
           Kept == NamesInv /\ WatchInv /\ KeptInv
<1>1. Init => Before /\ Once /\ Kept
  BY InitInv, InitOnce, InitHeaders, InitRoot, InitSingle, InitWatch
<1>2. Before /\ [Next]_vars => Before'
  BY NextInv, NextOnce, NextHeaders, NextRoot
<1>3. Before /\ Before' /\ Once /\ [Next]_vars => Once'
  BY NextSent, NextTree, NextCalls
<1>4. Before /\ Before' /\ Once /\ Kept /\ [Next]_vars => Kept'
  BY NextNames, NextWatch
<1>5. Kept => UsedConstsKept
  BY KeptSuffices
<1> QED
  BY <1>1, <1>2, <1>3, <1>4, <1>5, PTL DEF Spec

=============================================================================
