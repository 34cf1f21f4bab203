----------------------------- MODULE StatsAlloc -----------------------------
(***************************************************************************)
(* The counting allocator (alloc.rs) under the threads of the compiler,    *)
(* and the regions with which main reports the memory of each of its       *)
(* phases.  Every access of a counter is a step of its own.  The system    *)
(* allocator is external: heap says how many blocks of a size are live.    *)
(***************************************************************************)
EXTENDS Integers, Sequences, FiniteSets, FiniteSetsExt

CONSTANTS Parsers,    \* the parser threads
          Sizes,      \* sizes of the requests
          Regions,    \* the phases main measures
          MaxRequests \* bound: calls of alloc and alloc_zeroed

ASSUME StatsAssumption == /\ Sizes \subseteq Nat /\ Sizes # {}
                          /\ Regions \in Nat \ {0} /\ MaxRequests \in Nat

Threads == Parsers \cup {"main"}

VARIABLES allocations, bytes_allocated,   \* the atomic counters
          heap,       \* size -> number of live blocks
          op,         \* what each thread does in the allocator
          region,     \* the region main is in
          at,         \* where main is: see below
          first,      \* the counter stats() has loaded
          initial_stats,
          reports,    \* what change_and_reset returned
          need_stats, \* the option of the command line
          begun, finished  \* history: calls of alloc that began, that ended

vars == <<allocations, bytes_allocated, heap, op, region, at, first,
          initial_stats, reports, need_stats, begun, finished>>
counters == <<allocations, bytes_allocated>>
mainVars == <<region, at, first, initial_stats, reports, need_stats>>

\* calls and the bytes they asked for
Stats(n, b) == [allocations |-> n, bytes |-> b]
Plus(s, size) == Stats(s.allocations + 1, s.bytes + size)
Zero == Stats(0, 0)

\* a snapshot, with the calls that had ended when stats() was called and
\* those that had begun when it returned
Snapshot(s, fin, beg) == [stats |-> s, fin |-> fin, beg |-> beg]

Idle == [pc |-> "idle", kind |-> "none", size |-> 0]

Init == /\ allocations = 0 /\ bytes_allocated = 0
        /\ heap = [s \in Sizes |-> 0]
        /\ op = [t \in Threads |-> Idle]
        /\ region = 1 /\ at = "new"
        /\ first = [n |-> 0, fin |-> Zero]
        /\ initial_stats = Snapshot(Zero, Zero, Zero)
        /\ reports = <<>>
        /\ need_stats \in BOOLEAN
        /\ begun = Zero /\ finished = Zero

-----------------------------------------------------------------------------
(* GlobalAlloc for StatsAlloc *)

\* main is in stats(), or in a phase, or between two regions, where it prints
CanRun(t) == op[t] = Idle /\ (t = "main" => at \in {"new", "work"})

\* alloc and alloc_zeroed of one size
call(t, kind, size) ==
  /\ CanRun(t)
  /\ begun.allocations < MaxRequests
  /\ op' = [op EXCEPT ![t] = [pc |-> "called", kind |-> kind, size |-> size]]
  /\ begun' = Plus(begun, size)
  /\ UNCHANGED <<counters, heap, mainVars, finished>>

\* a call of alloc_zeroed is not counted
Mut_count_call(t) ==
  /\ op[t].pc = "called"
  /\ allocations' = IF op[t].kind = "alloc" THEN allocations + 1 ELSE allocations
  /\ op' = [op EXCEPT ![t].pc = "counted"]
  /\ UNCHANGED <<bytes_allocated, heap, mainVars, begun, finished>>

count_call(t) ==
  /\ op[t].pc = "called"
  /\ allocations' = allocations + 1
  /\ op' = [op EXCEPT ![t].pc = "counted"]
  /\ UNCHANGED <<bytes_allocated, heap, mainVars, begun, finished>>

count_bytes(t) ==
  /\ op[t].pc = "counted"
  /\ bytes_allocated' = bytes_allocated + op[t].size
  /\ op' = [op EXCEPT ![t].pc = "inner"]
  /\ UNCHANGED <<allocations, heap, mainVars, begun, finished>>

inner_alloc(t) ==
  /\ op[t].pc = "inner"
  /\ heap' = [heap EXCEPT ![op[t].size] = @ + 1]
  /\ finished' = Plus(finished, op[t].size)
  /\ op' = [op EXCEPT ![t] = Idle]
  /\ UNCHANGED <<counters, mainVars, begun>>

\* any thread may free or resize any block: items travel from the parsers
dealloc(t, size) ==
  /\ CanRun(t)
  /\ heap[size] > 0
  /\ heap' = [heap EXCEPT ![size] = @ - 1]
  /\ UNCHANGED <<counters, op, mainVars, begun, finished>>

realloc(t, size, new_size) ==
  /\ CanRun(t)
  /\ heap[size] > 0 /\ new_size # size
  /\ heap' = [heap EXCEPT ![size] = @ - 1, ![new_size] = @ + 1]
  /\ UNCHANGED <<counters, op, mainVars, begun, finished>>

-----------------------------------------------------------------------------
(* main: at is "new" until Region::new begins (the last report is printed  *)
(* there), then "new_bytes", "work" in the phase,                          *)
(* "change" and "change_bytes" in change_and_reset, "end" at the end.      *)

load_allocations ==
  /\ at \in {"new", "change"} /\ op["main"] = Idle
  /\ first' = [n |-> allocations, fin |-> finished]
  /\ at' = IF at = "new" THEN "new_bytes" ELSE "change_bytes"
  /\ UNCHANGED <<counters, heap, op, region, initial_stats, reports,
                 need_stats, begun, finished>>

Loaded == Snapshot(Stats(first.n, bytes_allocated), first.fin, begun)

region_new ==
  /\ at = "new_bytes"
  /\ initial_stats' = Loaded
  /\ at' = "work"
  /\ UNCHANGED <<counters, heap, op, region, first, reports,
                 need_stats, begun, finished>>

NextRegion == /\ at' = IF region = Regions THEN "end" ELSE "new"
              /\ region' = IF region = Regions THEN region ELSE region + 1

end_phase ==
  /\ at = "work" /\ op["main"] = Idle
  /\ IF need_stats THEN at' = "change" /\ UNCHANGED region ELSE NextRegion
  /\ UNCHANGED <<counters, heap, op, first, initial_stats, reports,
                 need_stats, begun, finished>>

change_and_reset ==
  /\ at = "change_bytes"
  /\ reports' = Append(reports,
       [from |-> initial_stats, to |-> Loaded,
        diff |-> Stats(Loaded.stats.allocations - initial_stats.stats.allocations,
                       Loaded.stats.bytes - initial_stats.stats.bytes)])
  /\ initial_stats' = Loaded
  /\ NextRegion
  /\ UNCHANGED <<counters, heap, op, first, need_stats, begun, finished>>

Next == \/ \E t \in Threads :
             \/ \E kind \in {"alloc", "alloc_zeroed"}, size \in Sizes : call(t, kind, size)
             \/ count_call(t)
             \/ count_bytes(t)
             \/ inner_alloc(t)
             \/ \E size \in Sizes : dealloc(t, size)
             \/ \E size, new_size \in Sizes : realloc(t, size, new_size)
        \/ load_allocations
        \/ region_new
        \/ end_phase
        \/ change_and_reset

Spec == Init /\ [][Next]_vars

-----------------------------------------------------------------------------
(* Properties *)

Counts == [allocations : Nat, bytes : Nat]
Snapshots == [stats : Counts, fin : Counts, beg : Counts]
Reports == [from : Snapshots, to : Snapshots, diff : [allocations : Int, bytes : Int]]
Ops == [pc : {"idle", "called", "counted", "inner"},
        kind : {"none", "alloc", "alloc_zeroed"}, size : Sizes \cup {0}]

\* Counters and snapshots are natural numbers, differences are integers.
TypeOK == /\ allocations \in Nat /\ bytes_allocated \in Nat
          /\ heap \in [Sizes -> Nat]
          /\ op \in [Threads -> Ops]
          /\ region \in 1..Regions
          /\ at \in {"new", "new_bytes", "work", "change", "change_bytes", "end"}
          /\ first \in [n : Nat, fin : Counts]
          /\ initial_stats \in Snapshots
          /\ reports \in Seq(Reports)
          /\ need_stats \in BOOLEAN
          /\ begun \in Counts /\ finished \in Counts

\* The subtractions of change_and_reset never underflow (they would panic in
\* the debug build), whatever the threads do between its loads.
DiffsNatural == \A i \in DOMAIN reports :
                  reports[i].diff.allocations >= 0 /\ reports[i].diff.bytes >= 0

Within(r, Of(_)) ==
  /\ Of(r.diff) >= Of(r.to.fin) - Of(r.from.beg)
  /\ Of(r.diff) <= Of(r.to.beg) - Of(r.from.fin)

\* A report is right up to the calls that were in flight while main read the
\* counters: it never underflows, and counts at least the calls that began
\* after its first snapshot and ended before its second, at most those that
\* overlap the two.
ReportsRight ==
  LET Calls(s) == s.allocations
      Bytes(s) == s.bytes
  IN  /\ DiffsNatural
      /\ \A i \in DOMAIN reports : Within(reports[i], Calls) /\ Within(reports[i], Bytes)

\* The bytes of a report are "requested by allocations" (Stats, alloc.rs 19)
\* which the report counts.
BytesHaveCalls == \A i \in DOMAIN reports :
                    reports[i].diff.bytes > 0 => reports[i].diff.allocations > 0

\* StatsAlloc keeps track of reallocation requests too (alloc.rs 29): the
\* live memory was all requested.
LiveWasRequested ==
  LET Live(s) == s * heap[s]
  IN  MapThenSumSet(Live, Sizes) <= bytes_allocated
=============================================================================
