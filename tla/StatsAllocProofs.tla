-------------------------- MODULE StatsAllocProofs --------------------------
(***************************************************************************)
(* The allocation statistics for any number of threads and requests.       *)
(*                                                                         *)
(* The counters differ from the calls that began and that ended by what    *)
(* the threads in the allocator still owe them.  A sum over threads is     *)
(* written as the size of a set: thread t owes the pairs <<t, 1>> to       *)
(* <<t, n>>.                                                               *)
(***************************************************************************)
EXTENDS StatsAlloc, FiniteSetTheorems, SequenceTheorems, TLAPS

Owed(w) == UNION {{t} \X (1..w[t]) : t \in Threads}

\* If thread t owes x[t] and no longer w[t], all threads together owe x[t] - w[t] more.
LEMMA OwedUpdate ==
    ASSUME NEW w \in [Threads -> Nat], IsFiniteSet(Owed(w)),
           NEW t \in Threads, NEW x \in [Threads -> Nat], \A s \in Threads : s # t => x[s] = w[s]
    PROVE  /\ IsFiniteSet(Owed(x))
           /\ Cardinality(Owed(x)) = Cardinality(Owed(w)) - w[t] + x[t]
<1> DEFINE Part(m) == {t} \X (1..m)
           Rest == {p \in Owed(w) : p[1] # t}
<1>1. ASSUME NEW m \in Nat
      PROVE  IsFiniteSet(Part(m)) /\ Cardinality(Part(m)) = m
  <2>1. IsFiniteSet(1..m) /\ Cardinality(1..m) = m
    <3>1. IsFiniteSet(1..m) /\ Cardinality(1..m) = IF 1 > m THEN 0 ELSE m - 1 + 1
      BY FS_Interval, m \in Int, 1 \in Int
    <3> QED
      BY <3>1
  <2>2. IsFiniteSet({t}) /\ Cardinality({t}) = 1
    BY FS_Singleton
  <2>3. IsFiniteSet(Part(m)) /\ Cardinality(Part(m)) = Cardinality({t}) * Cardinality(1..m)
    BY <2>1, <2>2, FS_Product
  <2> QED
    BY <2>1, <2>2, <2>3
<1>2. IsFiniteSet(Rest) /\ Cardinality(Rest) \in Nat
  BY FS_Subset, FS_CardinalityType
<1>3. Owed(w) = Rest \cup Part(w[t]) /\ Rest \cap Part(w[t]) = {}
  BY DEF Owed
<1>4. Owed(x) = Rest \cup Part(x[t]) /\ Rest \cap Part(x[t]) = {}
  BY DEF Owed
<1>5. w[t] \in Nat /\ x[t] \in Nat
  OBVIOUS
<1> HIDE DEF Part, Rest
<1>6. ASSUME NEW m \in Nat, Rest \cap Part(m) = {}
      PROVE  IsFiniteSet(Rest \cup Part(m)) /\ Cardinality(Rest \cup Part(m)) = Cardinality(Rest) + m
  <2>1. IsFiniteSet(Part(m)) /\ Cardinality(Part(m)) = m
    BY <1>1
  <2>2. /\ IsFiniteSet(Rest \cup Part(m))
        /\ Cardinality(Rest \cup Part(m))
             = Cardinality(Rest) + Cardinality(Part(m)) - Cardinality(Rest \cap Part(m))
    BY <1>2, <2>1, FS_Union
  <2>3. Cardinality(Rest \cap Part(m)) = 0
    BY <1>6, FS_EmptySet
  <2> QED
    BY <1>2, <2>1, <2>2, <2>3
<1>7. Cardinality(Owed(w)) = Cardinality(Rest) + w[t]
  BY <1>3, <1>5, <1>6
<1>8. IsFiniteSet(Owed(x)) /\ Cardinality(Owed(x)) = Cardinality(Rest) + x[t]
  BY <1>4, <1>5, <1>6
<1> QED
  BY <1>2, <1>5, <1>7, <1>8

LEMMA NothingOwed ==
    ASSUME NEW w, w = [t \in Threads |-> 0]
    PROVE  IsFiniteSet(Owed(w)) /\ Cardinality(Owed(w)) = 0
<1>1. Owed(w) = {}
  BY DEF Owed
<1> QED
  BY <1>1, FS_EmptySet

-----------------------------------------------------------------------------
(* The inductive invariant *)

\* What each thread owes the counters, and has counted but not finished.
CallsToCount == [t \in Threads |-> IF op[t].pc = "called" THEN 1 ELSE 0]
CallsToEnd   == [t \in Threads |-> IF op[t].pc \in {"counted", "inner"} THEN 1 ELSE 0]
BytesToCount == [t \in Threads |-> IF op[t].pc \in {"called", "counted"} THEN op[t].size ELSE 0]
BytesToEnd   == [t \in Threads |-> IF op[t].pc = "inner" THEN op[t].size ELSE 0]

\* upper and lower differ by what the threads owe together.
Balance(upper, w, lower) ==
    /\ IsFiniteSet(Owed(w))
    /\ upper = lower + Cardinality(Owed(w))

BalanceInv ==
    /\ Balance(begun.allocations, CallsToCount, allocations)
    /\ Balance(allocations, CallsToEnd, finished.allocations)
    /\ Balance(begun.bytes, BytesToCount, bytes_allocated)
    /\ Balance(bytes_allocated, BytesToEnd, finished.bytes)

Le(s, u) == s.allocations <= u.allocations /\ s.bytes <= u.bytes

\* A snapshot lies between the calls that had ended when it began and those
\* that had begun when it ended.
SnapshotRight(s) == Le(s.fin, s.stats) /\ Le(s.stats, s.beg)

\* What main has read is not ahead of the counters.
SnapshotInv ==
    /\ SnapshotRight(initial_stats)
    /\ initial_stats.stats.allocations <= allocations
    /\ initial_stats.stats.bytes <= bytes_allocated
    /\ at \in {"new_bytes", "change_bytes"} =>
         /\ first.fin.allocations <= first.n
         /\ first.n <= allocations
         /\ Le(first.fin, finished)
         /\ initial_stats.stats.allocations <= first.n

ReportRight(r) ==
    /\ SnapshotRight(r.from) /\ SnapshotRight(r.to)
    /\ Le(r.from.stats, r.to.stats)
    /\ r.diff.allocations = r.to.stats.allocations - r.from.stats.allocations
    /\ r.diff.bytes = r.to.stats.bytes - r.from.stats.bytes

IInv ==
    /\ TypeOK
    /\ BalanceInv
    /\ SnapshotInv
    /\ \A i \in DOMAIN reports : ReportRight(reports[i])

\* What a thread counts, it no longer owes.
LEMMA BalanceMoves ==
    ASSUME NEW w \in [Threads -> Nat], NEW u \in Nat, NEW l \in Nat, Balance(u, w, l),
           NEW t \in Threads, NEW x \in [Threads -> Nat], \A s \in Threads : s # t => x[s] = w[s],
           NEW u2 \in Nat, NEW l2 \in Nat, u2 - l2 = u - l + x[t] - w[t]
    PROVE  Balance(u2, x, l2)
<1>1. IsFiniteSet(Owed(w)) /\ u = l + Cardinality(Owed(w)) /\ Cardinality(Owed(w)) \in Nat
  BY FS_CardinalityType DEF Balance
<1>2. IsFiniteSet(Owed(x)) /\ Cardinality(Owed(x)) = Cardinality(Owed(w)) - w[t] + x[t]
  BY <1>1, OwedUpdate
<1>3. w[t] \in Nat /\ x[t] \in Nat
  OBVIOUS
<1> QED
  BY <1>1, <1>2, <1>3 DEF Balance

LEMMA BalanceOrders ==
    ASSUME NEW u \in Nat, NEW l \in Nat, NEW w, Balance(u, w, l)
    PROVE  l <= u
  BY FS_CardinalityType DEF Balance

LEMMA OpSize ==
    ASSUME TypeOK, NEW t \in Threads
    PROVE  op[t].size \in Sizes \cup {0} /\ op[t].size \in Nat
<1>1. op[t].size \in Sizes \cup {0}
  BY DEF TypeOK, Ops
<1>2. \A x \in Sizes : x \in Nat
  BY StatsAssumption
<1>3. CASE op[t].size \in Sizes
  BY <1>1, <1>2, <1>3
<1>4. CASE op[t].size = 0
  BY <1>1, <1>4
<1> QED
  BY <1>1, <1>3, <1>4

LEMMA OwedTypes ==
    ASSUME TypeOK
    PROVE  /\ CallsToCount \in [Threads -> Nat]
           /\ CallsToEnd \in [Threads -> Nat]
           /\ BytesToCount \in [Threads -> Nat]
           /\ BytesToEnd \in [Threads -> Nat]
<1>1. \A t \in Threads : op[t].size \in Nat
  BY OpSize
<1> QED
  BY <1>1 DEF CallsToCount, CallsToEnd, BytesToCount, BytesToEnd

-----------------------------------------------------------------------------
(* Type correctness *)

LEMMA StatsTypeInit == Init => TypeOK
<1> SUFFICES ASSUME Init
             PROVE  TypeOK
  OBVIOUS
<1>1. Zero \in Counts
  BY DEF Zero, Stats, Counts
<1>2. first \in [n : Nat, fin : Counts] /\ initial_stats \in Snapshots
  BY <1>1 DEF Init, Snapshot, Snapshots
<1>3. Idle \in Ops
  BY DEF Idle, Ops
<1> QED
  BY <1>1, <1>2, <1>3, StatsAssumption DEF Init, TypeOK

LEMMA PlusType ==
    ASSUME NEW s \in Counts, NEW n \in Nat
    PROVE  /\ Plus(s, n) \in Counts
           /\ Plus(s, n).allocations = s.allocations + 1
           /\ Plus(s, n).bytes = s.bytes + n
  BY DEF Plus, Stats, Counts

LEMMA LoadedType ==
    ASSUME TypeOK
    PROVE  /\ Loaded \in Snapshots
           /\ Loaded.stats.allocations = first.n
           /\ Loaded.stats.bytes = bytes_allocated
           /\ Loaded.fin = first.fin /\ Loaded.beg = begun
  BY DEF TypeOK, Loaded, Snapshot, Snapshots, Stats, Counts

\* What change_and_reset reports.
Report == [from |-> initial_stats, to |-> Loaded,
           diff |-> Stats(Loaded.stats.allocations - initial_stats.stats.allocations,
                          Loaded.stats.bytes - initial_stats.stats.bytes)]

LEMMA ReportType ==
    ASSUME TypeOK
    PROVE  Report \in Reports
<1>1. Loaded \in Snapshots /\ initial_stats \in Snapshots
  BY LoadedType DEF TypeOK
<1>2. /\ Loaded.stats.allocations \in Int /\ initial_stats.stats.allocations \in Int
      /\ Loaded.stats.bytes \in Int /\ initial_stats.stats.bytes \in Int
  BY <1>1 DEF Snapshots, Counts
<1>3. Stats(Loaded.stats.allocations - initial_stats.stats.allocations,
            Loaded.stats.bytes - initial_stats.stats.bytes) \in [allocations : Int, bytes : Int]
  BY <1>2 DEF Stats
<1> QED
  BY <1>1, <1>3 DEF Report, Reports

\* A thread goes on in the allocator.
LEMMA PcType ==
    ASSUME TypeOK, NEW t \in Threads, NEW p \in {"counted", "inner"}, NEW o,
           o = [op EXCEPT ![t].pc = p]
    PROVE  /\ o \in [Threads -> Ops]
           /\ o = [op EXCEPT ![t] = [pc |-> p, kind |-> op[t].kind, size |-> op[t].size]]
<1>1. op[t] \in Ops
  BY DEF TypeOK
<1>2. [op[t] EXCEPT !.pc = p] = [pc |-> p, kind |-> op[t].kind, size |-> op[t].size]
  BY <1>1 DEF Ops
<1>3. o = [op EXCEPT ![t] = [pc |-> p, kind |-> op[t].kind, size |-> op[t].size]]
  BY <1>2
<1>4. [pc |-> p, kind |-> op[t].kind, size |-> op[t].size] \in Ops
  BY <1>1 DEF Ops
<1> QED
  BY <1>3, <1>4 DEF TypeOK

LEMMA StatsTypeStep ==
    ASSUME TypeOK, [Next]_vars
    PROVE  TypeOK'
<1>s. Sizes \subseteq Nat /\ Regions \in Nat \ {0}
  BY StatsAssumption
<1>0. CASE UNCHANGED vars
  BY <1>0 DEF vars, TypeOK
<1>1. ASSUME NEW t \in Threads, NEW kind \in {"alloc", "alloc_zeroed"}, NEW size \in Sizes,
             call(t, kind, size)
      PROVE  TypeOK'
  <2>1. begun' \in Counts
    BY <1>1, <1>s, PlusType DEF call, TypeOK
  <2>2. op' \in [Threads -> Ops]
    BY <1>1 DEF call, TypeOK, Ops
  <2> QED
    BY <1>1, <2>1, <2>2 DEF call, TypeOK, counters, mainVars
<1>2. ASSUME NEW t \in Threads, count_call(t)
      PROVE  TypeOK'
  <2>1. op' \in [Threads -> Ops]
    BY <1>2, PcType DEF count_call
  <2>2. allocations' \in Nat
    BY <1>2 DEF count_call, TypeOK
  <2> QED
    BY <1>2, <2>1, <2>2 DEF count_call, TypeOK, mainVars
<1>3. ASSUME NEW t \in Threads, count_bytes(t)
      PROVE  TypeOK'
  <2>1. op' \in [Threads -> Ops]
    BY <1>3, PcType DEF count_bytes
  <2>2. bytes_allocated' \in Nat
    BY <1>3, <1>s DEF count_bytes, TypeOK, Ops
  <2> QED
    BY <1>3, <2>1, <2>2 DEF count_bytes, TypeOK, mainVars
<1>4. ASSUME NEW t \in Threads, inner_alloc(t)
      PROVE  TypeOK'
  <2>1. op[t].size \in Nat /\ op[t].size \in Sizes \cup {0}
    BY OpSize
  <2>2. finished' \in Counts
    BY <1>4, <2>1, PlusType DEF inner_alloc, TypeOK
  <2>3. heap' \in [Sizes -> Nat]
    <3>1. heap \in [Sizes -> Nat] /\ heap' = [heap EXCEPT ![op[t].size] = @ + 1]
      BY <1>4 DEF inner_alloc, TypeOK
    <3> DEFINE z == op[t].size
    <3> HIDE DEF z
    <3>2. heap' = [heap EXCEPT ![z] = @ + 1]
      BY <3>1 DEF z
    <3>3. CASE z \in Sizes
      BY <3>1, <3>2, <3>3
    <3>4. CASE z \notin Sizes
      BY <3>1, <3>2, <3>4
    <3> QED
      BY <3>3, <3>4
  <2>4. op' \in [Threads -> Ops]
    BY <1>4 DEF inner_alloc, TypeOK, Idle, Ops
  <2> QED
    BY <1>4, <2>2, <2>3, <2>4 DEF inner_alloc, TypeOK, counters, mainVars
<1>5. ASSUME NEW t \in Threads, NEW size \in Sizes, dealloc(t, size)
      PROVE  TypeOK'
  <2>1. heap' \in [Sizes -> Nat]
    BY <1>5 DEF dealloc, TypeOK
  <2> QED
    BY <1>5, <2>1 DEF dealloc, TypeOK, counters, mainVars
<1>6. ASSUME NEW t \in Threads, NEW size \in Sizes, NEW new_size \in Sizes,
             realloc(t, size, new_size)
      PROVE  TypeOK'
  <2>1. heap' \in [Sizes -> Nat]
    BY <1>6 DEF realloc, TypeOK
  <2> QED
    BY <1>6, <2>1 DEF realloc, TypeOK, counters, mainVars
<1>7. CASE load_allocations
  <2>1. first' \in [n : Nat, fin : Counts]
    BY <1>7 DEF load_allocations, TypeOK
  <2> QED
    BY <1>7, <2>1 DEF load_allocations, TypeOK, counters
<1>8. CASE region_new
  BY <1>8, LoadedType DEF region_new, TypeOK, counters
<1>9. CASE end_phase
  <2>1. region' \in 1..Regions /\ at' \in {"change", "end", "new"}
    BY <1>9, <1>s DEF end_phase, NextRegion, TypeOK
  <2> QED
    BY <1>9, <2>1 DEF end_phase, TypeOK, counters
<1>10. CASE change_and_reset
  <2>1. region' \in 1..Regions /\ at' \in {"end", "new"}
    BY <1>10, <1>s DEF change_and_reset, NextRegion, TypeOK
  <2>2. reports' = Append(reports, Report)
    BY <1>10 DEF change_and_reset, Report
  <2>3. reports' \in Seq(Reports)
    BY <2>2, ReportType, AppendProperties DEF TypeOK
  <2> QED
    BY <1>10, <2>1, <2>3, LoadedType DEF change_and_reset, TypeOK, counters
<1> QED
  BY <1>0, <1>1, <1>2, <1>3, <1>4, <1>5, <1>6, <1>7, <1>8, <1>9, <1>10 DEF Next

-----------------------------------------------------------------------------
(* Counting *)

\* A thread's step in the allocator moves what it owes from one side of a
\* counter to the other.
Moves(t) ==
    /\ begun'.allocations - allocations'
         = begun.allocations - allocations + CallsToCount'[t] - CallsToCount[t]
    /\ allocations' - finished'.allocations
         = allocations - finished.allocations + CallsToEnd'[t] - CallsToEnd[t]
    /\ begun'.bytes - bytes_allocated'
         = begun.bytes - bytes_allocated + BytesToCount'[t] - BytesToCount[t]
    /\ bytes_allocated' - finished'.bytes
         = bytes_allocated - finished.bytes + BytesToEnd'[t] - BytesToEnd[t]

LEMMA BalanceOpStep ==
    ASSUME TypeOK, TypeOK', BalanceInv, NEW t \in Threads,
           \A s \in Threads : s # t => op'[s] = op[s], Moves(t)
    PROVE  BalanceInv'
<1>n. /\ allocations \in Nat /\ allocations' \in Nat
      /\ bytes_allocated \in Nat /\ bytes_allocated' \in Nat
      /\ begun.allocations \in Nat /\ begun'.allocations \in Nat
      /\ begun.bytes \in Nat /\ begun'.bytes \in Nat
      /\ finished.allocations \in Nat /\ finished'.allocations \in Nat
      /\ finished.bytes \in Nat /\ finished'.bytes \in Nat
  BY DEF TypeOK, Counts
<1>w. /\ CallsToCount \in [Threads -> Nat] /\ CallsToEnd \in [Threads -> Nat]
      /\ BytesToCount \in [Threads -> Nat] /\ BytesToEnd \in [Threads -> Nat]
  BY OwedTypes
<1>x. \A s \in Threads : op'[s].size \in Nat
  <2>1. \A s \in Threads : op'[s].size \in Sizes \cup {0}
    BY DEF TypeOK, Ops
  <2>2. \A z \in Sizes \cup {0} : z \in Nat
    BY StatsAssumption
  <2> QED
    BY <2>1, <2>2
<1>1. Balance(begun'.allocations, CallsToCount', allocations')
  <2>1. CallsToCount' \in [Threads -> Nat] /\ \A s \in Threads : s # t => CallsToCount'[s] = CallsToCount[s]
    BY <1>x DEF CallsToCount
  <2>2. Balance(begun.allocations, CallsToCount, allocations)
    BY DEF BalanceInv
  <2>3. begun'.allocations - allocations' = begun.allocations - allocations + CallsToCount'[t] - CallsToCount[t]
    BY DEF Moves
  <2> QED
    BY <1>n, <1>w, <2>1, <2>2, <2>3, BalanceMoves
<1>2. Balance(allocations', CallsToEnd', finished'.allocations)
  <2>1. CallsToEnd' \in [Threads -> Nat] /\ \A s \in Threads : s # t => CallsToEnd'[s] = CallsToEnd[s]
    BY <1>x DEF CallsToEnd
  <2>2. Balance(allocations, CallsToEnd, finished.allocations)
    BY DEF BalanceInv
  <2>3. allocations' - finished'.allocations = allocations - finished.allocations + CallsToEnd'[t] - CallsToEnd[t]
    BY DEF Moves
  <2> QED
    BY <1>n, <1>w, <2>1, <2>2, <2>3, BalanceMoves
<1>3. Balance(begun'.bytes, BytesToCount', bytes_allocated')
  <2>1. BytesToCount' \in [Threads -> Nat] /\ \A s \in Threads : s # t => BytesToCount'[s] = BytesToCount[s]
    BY <1>x DEF BytesToCount
  <2>2. Balance(begun.bytes, BytesToCount, bytes_allocated)
    BY DEF BalanceInv
  <2>3. begun'.bytes - bytes_allocated' = begun.bytes - bytes_allocated + BytesToCount'[t] - BytesToCount[t]
    BY DEF Moves
  <2> QED
    BY <1>n, <1>w, <2>1, <2>2, <2>3, BalanceMoves
<1>4. Balance(bytes_allocated', BytesToEnd', finished'.bytes)
  <2>1. BytesToEnd' \in [Threads -> Nat] /\ \A s \in Threads : s # t => BytesToEnd'[s] = BytesToEnd[s]
    BY <1>x DEF BytesToEnd
  <2>2. Balance(bytes_allocated, BytesToEnd, finished.bytes)
    BY DEF BalanceInv
  <2>3. bytes_allocated' - finished'.bytes = bytes_allocated - finished.bytes + BytesToEnd'[t] - BytesToEnd[t]
    BY DEF Moves
  <2> QED
    BY <1>n, <1>w, <2>1, <2>2, <2>3, BalanceMoves
<1> QED
  BY <1>1, <1>2, <1>3, <1>4 DEF BalanceInv, Balance

LEMMA BalanceInit == Init => BalanceInv
<1> SUFFICES ASSUME Init
             PROVE  BalanceInv
  OBVIOUS
<1>1. /\ CallsToCount = [t \in Threads |-> 0] /\ CallsToEnd = [t \in Threads |-> 0]
      /\ BytesToCount = [t \in Threads |-> 0] /\ BytesToEnd = [t \in Threads |-> 0]
  BY DEF Init, Idle, CallsToCount, CallsToEnd, BytesToCount, BytesToEnd
<1>2. /\ begun.allocations = 0 /\ begun.bytes = 0 /\ finished.allocations = 0 /\ finished.bytes = 0
      /\ allocations = 0 /\ bytes_allocated = 0
  BY DEF Init, Zero, Stats
<1>3. IsFiniteSet(Owed([t \in Threads |-> 0])) /\ Cardinality(Owed([t \in Threads |-> 0])) = 0
  BY NothingOwed
<1> QED
  BY <1>1, <1>2, <1>3 DEF BalanceInv, Balance

LEMMA BalanceStep ==
    ASSUME TypeOK, BalanceInv, [Next]_vars
    PROVE  BalanceInv'
<1>t. TypeOK'
  BY StatsTypeStep
<1>n. /\ allocations \in Nat /\ bytes_allocated \in Nat
      /\ begun \in Counts /\ finished \in Counts
      /\ begun.allocations \in Nat /\ begun.bytes \in Nat
      /\ finished.allocations \in Nat /\ finished.bytes \in Nat
  BY DEF TypeOK, Counts
<1>0. CASE UNCHANGED <<counters, op, begun, finished>>
  BY <1>0 DEF BalanceInv, Balance, counters, CallsToCount, CallsToEnd, BytesToCount, BytesToEnd
<1>1. ASSUME NEW t \in Threads, NEW kind \in {"alloc", "alloc_zeroed"}, NEW size \in Sizes,
             call(t, kind, size)
      PROVE  BalanceInv'
  <2>1. size \in Nat
    BY StatsAssumption
  <2>2. begun'.allocations = begun.allocations + 1 /\ begun'.bytes = begun.bytes + size
    BY <1>1, <1>n, <2>1, PlusType DEF call
  <2>3. op[t].pc = "idle" /\ op'[t].pc = "called" /\ op'[t].size = size
    BY <1>1 DEF call, CanRun, Idle, TypeOK
  <2>4. /\ CallsToCount[t] = 0 /\ CallsToCount'[t] = 1
        /\ CallsToEnd[t] = 0 /\ CallsToEnd'[t] = 0
        /\ BytesToCount[t] = 0 /\ BytesToCount'[t] = size
        /\ BytesToEnd[t] = 0 /\ BytesToEnd'[t] = 0
    BY <2>3 DEF CallsToCount, CallsToEnd, BytesToCount, BytesToEnd
  <2>5. Moves(t)
    BY <1>1, <1>n, <2>1, <2>2, <2>4 DEF call, Moves, counters
  <2>6. \A s \in Threads : s # t => op'[s] = op[s]
    BY <1>1 DEF call, TypeOK
  <2> QED
    BY <1>t, <2>5, <2>6, BalanceOpStep
<1>2. ASSUME NEW t \in Threads, count_call(t)
      PROVE  BalanceInv'
  <2>1. op' = [op EXCEPT ![t] = [pc |-> "counted", kind |-> op[t].kind, size |-> op[t].size]]
    BY <1>2, PcType DEF count_call
  <2>2. op[t].pc = "called" /\ op'[t].pc = "counted" /\ op'[t].size = op[t].size /\ op[t].size \in Nat
    BY <1>2, <2>1, OpSize DEF count_call, TypeOK
  <2>3. /\ CallsToCount[t] = 1 /\ CallsToCount'[t] = 0
        /\ CallsToEnd[t] = 0 /\ CallsToEnd'[t] = 1
        /\ BytesToCount[t] = op[t].size /\ BytesToCount'[t] = op[t].size
        /\ BytesToEnd[t] = 0 /\ BytesToEnd'[t] = 0
    BY <2>2 DEF CallsToCount, CallsToEnd, BytesToCount, BytesToEnd
  <2>4. /\ allocations' = allocations + 1
        /\ UNCHANGED <<bytes_allocated, begun, finished>>
    BY <1>2 DEF count_call
  <2>5. Moves(t)
    BY <1>n, <2>2, <2>3, <2>4 DEF Moves
  <2>6. \A s \in Threads : s # t => op'[s] = op[s]
    BY <2>1 DEF TypeOK
  <2> QED
    BY <1>t, <2>5, <2>6, BalanceOpStep
<1>3. ASSUME NEW t \in Threads, count_bytes(t)
      PROVE  BalanceInv'
  <2>1. op' = [op EXCEPT ![t] = [pc |-> "inner", kind |-> op[t].kind, size |-> op[t].size]]
    BY <1>3, PcType DEF count_bytes
  <2>2. op[t].pc = "counted" /\ op'[t].pc = "inner" /\ op'[t].size = op[t].size /\ op[t].size \in Nat
    BY <1>3, <2>1, OpSize DEF count_bytes, TypeOK
  <2>3. /\ CallsToCount[t] = 0 /\ CallsToCount'[t] = 0
        /\ CallsToEnd[t] = 1 /\ CallsToEnd'[t] = 1
        /\ BytesToCount[t] = op[t].size /\ BytesToCount'[t] = 0
        /\ BytesToEnd[t] = 0 /\ BytesToEnd'[t] = op[t].size
    BY <2>2 DEF CallsToCount, CallsToEnd, BytesToCount, BytesToEnd
  <2>4. /\ bytes_allocated' = bytes_allocated + op[t].size
        /\ UNCHANGED <<allocations, begun, finished>>
    BY <1>3 DEF count_bytes
  <2>5. Moves(t)
    <3>1. PICK z \in Nat : z = op[t].size
      BY <2>2
    <3> QED
      BY <1>n, <2>3, <2>4, <3>1 DEF Moves
  <2>6. \A s \in Threads : s # t => op'[s] = op[s]
    BY <2>1 DEF TypeOK
  <2> QED
    BY <1>t, <2>5, <2>6, BalanceOpStep
<1>4. ASSUME NEW t \in Threads, inner_alloc(t)
      PROVE  BalanceInv'
  <2>1. op' = [op EXCEPT ![t] = Idle]
    BY <1>4 DEF inner_alloc
  <2>2. op[t].pc = "inner" /\ op'[t].pc = "idle" /\ op[t].size \in Nat
    BY <1>4, <2>1, OpSize DEF inner_alloc, Idle, TypeOK
  <2>3. /\ CallsToCount[t] = 0 /\ CallsToCount'[t] = 0
        /\ CallsToEnd[t] = 1 /\ CallsToEnd'[t] = 0
        /\ BytesToCount[t] = 0 /\ BytesToCount'[t] = 0
        /\ BytesToEnd[t] = op[t].size /\ BytesToEnd'[t] = 0
    BY <2>2 DEF CallsToCount, CallsToEnd, BytesToCount, BytesToEnd
  <2>4. /\ finished'.allocations = finished.allocations + 1
        /\ finished'.bytes = finished.bytes + op[t].size
        /\ UNCHANGED <<allocations, bytes_allocated, begun>>
    BY <1>4, <1>n, <2>2, PlusType DEF inner_alloc, counters
  <2>5. Moves(t)
    <3>1. PICK z \in Nat : z = op[t].size
      BY <2>2
    <3>2. /\ finished'.allocations = finished.allocations + 1
          /\ finished'.bytes = finished.bytes + z /\ BytesToEnd[t] = z
      BY <2>3, <2>4, <3>1
    <3> QED
      BY <1>n, <2>3, <2>4, <3>2 DEF Moves
  <2>6. \A s \in Threads : s # t => op'[s] = op[s]
    BY <2>1 DEF TypeOK
  <2> QED
    BY <1>t, <2>5, <2>6, BalanceOpStep
<1>5. ASSUME NEW t \in Threads, NEW size \in Sizes, dealloc(t, size)
      PROVE  BalanceInv'
  BY <1>0, <1>5 DEF dealloc
<1>6. ASSUME NEW t \in Threads, NEW size \in Sizes, NEW new_size \in Sizes,
             realloc(t, size, new_size)
      PROVE  BalanceInv'
  BY <1>0, <1>6 DEF realloc
<1>7. CASE load_allocations \/ region_new \/ end_phase \/ change_and_reset
  BY <1>0, <1>7 DEF load_allocations, region_new, end_phase, change_and_reset
<1>8. CASE UNCHANGED vars
  BY <1>0, <1>8 DEF vars, counters
<1> QED
  BY <1>1, <1>2, <1>3, <1>4, <1>5, <1>6, <1>7, <1>8 DEF Next

\* The counters lie between the calls that ended and those that began, and
\* nothing that is counted ever decreases.
LEMMA CountersBetween ==
    ASSUME TypeOK, BalanceInv
    PROVE  /\ finished.allocations <= allocations /\ allocations <= begun.allocations
           /\ finished.bytes <= bytes_allocated /\ bytes_allocated <= begun.bytes
<1>1. /\ allocations \in Nat /\ bytes_allocated \in Nat
      /\ begun.allocations \in Nat /\ begun.bytes \in Nat
      /\ finished.allocations \in Nat /\ finished.bytes \in Nat
  BY DEF TypeOK, Counts
<1> QED
  BY <1>1, BalanceOrders DEF BalanceInv

LEMMA CountersGrow ==
    ASSUME TypeOK, [Next]_vars
    PROVE  /\ allocations <= allocations' /\ bytes_allocated <= bytes_allocated'
           /\ Le(finished, finished')
<1>1. /\ allocations \in Nat /\ bytes_allocated \in Nat /\ finished \in Counts
      /\ finished.allocations \in Nat /\ finished.bytes \in Nat
  BY DEF TypeOK, Counts
<1>2. CASE UNCHANGED <<counters, finished>>
  BY <1>1, <1>2 DEF counters, Le
<1>3. ASSUME NEW t \in Threads, count_call(t)
      PROVE  allocations <= allocations' /\ UNCHANGED <<bytes_allocated, finished>>
  BY <1>1, <1>3 DEF count_call
<1>4. ASSUME NEW t \in Threads, count_bytes(t)
      PROVE  bytes_allocated <= bytes_allocated' /\ UNCHANGED <<allocations, finished>>
  <2>1. op[t].size \in Nat
    BY OpSize
  <2> QED
    BY <1>1, <1>4, <2>1 DEF count_bytes
<1>5. ASSUME NEW t \in Threads, inner_alloc(t)
      PROVE  Le(finished, finished') /\ UNCHANGED counters
  <2>1. op[t].size \in Nat
    BY OpSize
  <2>2. /\ finished'.allocations = finished.allocations + 1
        /\ finished'.bytes = finished.bytes + op[t].size
    BY <1>1, <1>5, <2>1, PlusType DEF inner_alloc
  <2> QED
    BY <1>1, <1>5, <2>1, <2>2 DEF inner_alloc, Le
<1>6. \/ UNCHANGED <<counters, finished>>
      \/ \E t \in Threads : count_call(t) \/ count_bytes(t) \/ inner_alloc(t)
  BY DEF Next, vars, counters, call, dealloc, realloc, load_allocations, region_new, end_phase,
         change_and_reset
<1>7. finished' = finished => Le(finished, finished')
  BY <1>1 DEF Le
<1> QED
  BY <1>1, <1>2, <1>3, <1>4, <1>5, <1>6, <1>7 DEF counters

-----------------------------------------------------------------------------
(* Snapshots and reports *)

LEMMA SnapshotStep ==
    ASSUME IInv, [Next]_vars
    PROVE  SnapshotInv'
<1>t. TypeOK /\ TypeOK' /\ BalanceInv /\ BalanceInv' /\ SnapshotInv
  BY StatsTypeStep, BalanceStep DEF IInv
<1>g. /\ allocations <= allocations' /\ bytes_allocated <= bytes_allocated'
      /\ Le(finished, finished')
  BY <1>t, CountersGrow
<1>b. /\ finished.allocations <= allocations /\ allocations <= begun.allocations
      /\ finished.bytes <= bytes_allocated /\ bytes_allocated <= begun.bytes
  BY <1>t, CountersBetween
<1>n. /\ allocations \in Nat /\ allocations' \in Nat
      /\ bytes_allocated \in Nat /\ bytes_allocated' \in Nat
      /\ begun.allocations \in Nat /\ begun.bytes \in Nat
      /\ finished.allocations \in Nat /\ finished.bytes \in Nat
      /\ finished'.allocations \in Nat /\ finished'.bytes \in Nat
      /\ first.n \in Nat /\ first.fin.allocations \in Nat /\ first.fin.bytes \in Nat
      /\ initial_stats.stats.allocations \in Nat /\ initial_stats.stats.bytes \in Nat
  BY <1>t DEF TypeOK, Counts, Snapshots
\* main does nothing, or only leaves a phase
<1>1. CASE UNCHANGED <<first, initial_stats>> /\ (at' = at \/ at' \in {"change", "end", "new"})
  BY <1>1, <1>t, <1>g, <1>n DEF SnapshotInv, Le, SnapshotRight
<1>2. CASE load_allocations
  <2>1. first'.n = allocations /\ first'.fin = finished /\ UNCHANGED <<counters, initial_stats, finished>>
    BY <1>2 DEF load_allocations
  <2> QED
    BY <1>t, <1>b, <1>n, <2>1 DEF SnapshotInv, SnapshotRight, Le, counters
<1>l. ASSUME at \in {"new_bytes", "change_bytes"}
      PROVE  /\ SnapshotRight(Loaded)
             /\ Loaded.stats.allocations <= allocations /\ Loaded.stats.bytes <= bytes_allocated
  <2>1. /\ Loaded.stats.allocations = first.n /\ Loaded.stats.bytes = bytes_allocated
        /\ Loaded.fin = first.fin /\ Loaded.beg = begun
    BY <1>t, LoadedType
  <2>2. /\ first.fin.allocations <= first.n /\ first.n <= allocations /\ Le(first.fin, finished)
    BY <1>l, <1>t DEF SnapshotInv
  <2> QED
    BY <1>b, <1>n, <2>1, <2>2 DEF SnapshotRight, Le
<1>3. CASE region_new \/ change_and_reset
  <2>1. initial_stats' = Loaded /\ at \in {"new_bytes", "change_bytes"} /\ UNCHANGED counters
    BY <1>3 DEF region_new, change_and_reset
  <2>2. at' \in {"work", "end", "new"}
    BY <1>3 DEF region_new, change_and_reset, NextRegion
  <2> QED
    BY <1>l, <2>1, <2>2 DEF SnapshotInv, SnapshotRight, Le, counters
<1>4. CASE end_phase
  <2>1. UNCHANGED <<first, initial_stats>> /\ at' \in {"change", "end", "new"}
    BY <1>4 DEF end_phase, NextRegion
  <2> QED
    BY <1>1, <2>1
<1>5. CASE UNCHANGED mainVars
  BY <1>1, <1>5 DEF mainVars
<1>6. \/ load_allocations \/ region_new \/ change_and_reset \/ end_phase \/ UNCHANGED mainVars
  BY DEF Next, vars, mainVars, call, count_call, count_bytes, inner_alloc, dealloc, realloc
<1> QED
  BY <1>2, <1>3, <1>4, <1>5, <1>6

LEMMA ReportStep ==
    ASSUME IInv, [Next]_vars
    PROVE  \A i \in DOMAIN reports' : ReportRight(reports'[i])
<1>t. TypeOK /\ SnapshotInv /\ BalanceInv /\ reports \in Seq(Reports)
  BY DEF IInv, TypeOK
<1>1. CASE reports' = reports
  BY <1>1 DEF IInv
<1>2. CASE change_and_reset
  <2>1. reports' = Append(reports, Report) /\ at = "change_bytes"
    BY <1>2 DEF change_and_reset, Report
  <2>2. Report \in Reports
    BY <1>t, ReportType
  <2>3. ReportRight(Report)
    <3>1. /\ Loaded.stats.allocations = first.n /\ Loaded.stats.bytes = bytes_allocated
          /\ Loaded.fin = first.fin /\ Loaded.beg = begun
      BY <1>t, LoadedType
    <3>2. /\ Report.from = initial_stats /\ Report.to = Loaded
          /\ Report.diff.allocations = Loaded.stats.allocations - initial_stats.stats.allocations
          /\ Report.diff.bytes = Loaded.stats.bytes - initial_stats.stats.bytes
      BY DEF Report, Stats
    <3>3. /\ SnapshotRight(initial_stats) /\ initial_stats.stats.bytes <= bytes_allocated
          /\ first.fin.allocations <= first.n /\ first.n <= allocations
          /\ Le(first.fin, finished) /\ initial_stats.stats.allocations <= first.n
      BY <1>t, <2>1 DEF SnapshotInv
    <3>4. /\ finished.allocations <= allocations /\ allocations <= begun.allocations
          /\ finished.bytes <= bytes_allocated /\ bytes_allocated <= begun.bytes
      BY <1>t, CountersBetween
    <3>5. /\ allocations \in Nat /\ bytes_allocated \in Nat
          /\ begun.allocations \in Nat /\ begun.bytes \in Nat
          /\ finished.allocations \in Nat /\ finished.bytes \in Nat
          /\ first.n \in Nat /\ first.fin.allocations \in Nat /\ first.fin.bytes \in Nat
      BY <1>t DEF TypeOK, Counts
    <3>6. SnapshotRight(Loaded)
      BY <3>1, <3>3, <3>4, <3>5 DEF SnapshotRight, Le
    <3> QED
      BY <3>1, <3>2, <3>3, <3>6 DEF ReportRight, Le
  <2>4. /\ DOMAIN reports' = 1..(Len(reports) + 1) /\ Len(reports) \in Nat
        /\ DOMAIN reports = 1..Len(reports)
        /\ reports'[Len(reports) + 1] = Report
        /\ \A i \in 1..Len(reports) : reports'[i] = reports[i]
    BY <1>t, <2>1, <2>2, AppendProperties, LenProperties
  <2> SUFFICES ASSUME NEW i \in 1..(Len(reports) + 1)
               PROVE  ReportRight(reports'[i])
    BY <2>4
  <2>5. CASE i = Len(reports) + 1
    BY <2>3, <2>4, <2>5
  <2>6. CASE i # Len(reports) + 1
    <3>1. i \in 1..Len(reports)
      BY <2>4, <2>6
    <3> QED
      BY <2>4, <3>1 DEF IInv
  <2> QED
    BY <2>5, <2>6
<1>3. reports' = reports \/ change_and_reset
  BY DEF Next, vars, mainVars, call, count_call, count_bytes, inner_alloc, dealloc, realloc,
         load_allocations, region_new, end_phase
<1> QED
  BY <1>1, <1>2, <1>3

LEMMA IInvHolds == Spec => []IInv
<1>1. Init => IInv
  <2> SUFFICES ASSUME Init
               PROVE  IInv
    OBVIOUS
  <2>1. SnapshotInv
    BY DEF Init, SnapshotInv, SnapshotRight, Le, Snapshot, Zero, Stats
  <2>2. DOMAIN reports = {}
    BY DEF Init
  <2> QED
    BY <2>1, <2>2, StatsTypeInit, BalanceInit DEF IInv
<1>2. IInv /\ [Next]_vars => IInv'
  <2> SUFFICES ASSUME IInv, [Next]_vars
               PROVE  IInv'
    OBVIOUS
  <2>1. TypeOK' /\ BalanceInv'
    BY StatsTypeStep, BalanceStep DEF IInv
  <2>2. SnapshotInv'
    BY SnapshotStep
  <2>3. (\A i \in DOMAIN reports : ReportRight(reports[i]))'
    BY ReportStep DEF ReportRight, SnapshotRight, Le
  <2> QED
    BY <2>1, <2>2, <2>3 DEF IInv
<1> QED
  BY <1>1, <1>2, PTL DEF Spec

LEMMA RightReports ==
    ASSUME TypeOK, \A i \in DOMAIN reports : ReportRight(reports[i])
    PROVE  ReportsRight
<1> SUFFICES ASSUME NEW i \in DOMAIN reports
             PROVE  /\ reports[i].diff.allocations >= 0 /\ reports[i].diff.bytes >= 0
                    /\ reports[i].diff.allocations >= reports[i].to.fin.allocations - reports[i].from.beg.allocations
                    /\ reports[i].diff.allocations <= reports[i].to.beg.allocations - reports[i].from.fin.allocations
                    /\ reports[i].diff.bytes >= reports[i].to.fin.bytes - reports[i].from.beg.bytes
                    /\ reports[i].diff.bytes <= reports[i].to.beg.bytes - reports[i].from.fin.bytes
  BY DEF ReportsRight, DiffsNatural, Within
<1> DEFINE r == reports[i]
<1>1. r \in Reports /\ ReportRight(r)
  BY LenProperties, ElementOfSeq DEF TypeOK
<1> HIDE DEF r
<1>2. /\ r.from.stats.allocations \in Nat /\ r.from.stats.bytes \in Nat
      /\ r.from.fin.allocations \in Nat /\ r.from.fin.bytes \in Nat
      /\ r.from.beg.allocations \in Nat /\ r.from.beg.bytes \in Nat
      /\ r.to.stats.allocations \in Nat /\ r.to.stats.bytes \in Nat
      /\ r.to.fin.allocations \in Nat /\ r.to.fin.bytes \in Nat
      /\ r.to.beg.allocations \in Nat /\ r.to.beg.bytes \in Nat
  BY <1>1 DEF Reports, Snapshots, Counts
<1>3. /\ r.diff.allocations >= 0 /\ r.diff.bytes >= 0
      /\ r.diff.allocations >= r.to.fin.allocations - r.from.beg.allocations
      /\ r.diff.allocations <= r.to.beg.allocations - r.from.fin.allocations
      /\ r.diff.bytes >= r.to.fin.bytes - r.from.beg.bytes
      /\ r.diff.bytes <= r.to.beg.bytes - r.from.fin.bytes
  BY <1>1, <1>2 DEF ReportRight, SnapshotRight, Le
<1> QED
  BY <1>3 DEF r

\* Type correctness of the counters, the snapshots and the reports.
THEOREM StatsTypes == Spec => []TypeOK
  BY IInvHolds, PTL DEF IInv

\* However the threads interleave with the two loads of a snapshot, a report
\* is right up to the calls that were in flight while main read the counters,
\* and its subtractions never underflow.
THEOREM ReportsStayRight == Spec => []ReportsRight
<1>1. IInv => ReportsRight
  BY RightReports DEF IInv
<1> QED
  BY <1>1, IInvHolds, PTL
=============================================================================
