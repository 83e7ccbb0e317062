---------------------------- MODULE VPMU_proofs ----------------------------
(***************************************************************************)
(* Proofs about the threads of the VPMU, for every size of the ring and of *)
(* the sets, and for any number of branches, references and calls.         *)
(*                                                                         *)
(* The argument: only the emulation thread puts and only a worker takes,   *)
(* and both change a counter under its mutex.  So the counter is what is   *)
(* in the buffer, up to the step that one of them is in the middle of, and *)
(* the entries from the worker's index on are numbered upwards from what   *)
(* it has simulated.  Room that the emulation thread has seen, and an      *)
(* entry that a worker has seen, cannot disappear.                         *)
(***************************************************************************)
EXTENDS VPMU, TLAPS, SequenceTheorems

\* What the emulation thread has still to do of put_event and of cache_ref.
AfterCall == <<"trace", "full", "lock_branch", "store_branch">>
AfterTrace == <<"full", "lock_branch", "store_branch">>
AfterFull == <<"lock_branch", "store_branch">>
AfterLock == <<"store_branch">>
BeforeFill == <<"fill">>
AfterFill == <<"lock_cache", "store_cache">>
AfterFillLock == <<"store_cache">>

PutTodo == {AfterCall, AfterTrace, AfterFull, AfterLock, BeforeFill, AfterFill, AfterFillLock}

\* The steps of starts, stops and reports.
CallStep == {"reset", "enable", "disable", "setup", "SET_setup", "sync", "drained",
             "predict", "emptied", "report"}

\* The parts of TypeOK.
ControlType ==
    /\ enabled \in BOOLEAN
    /\ timing \in SUBSET {"branch", "cache"}
    /\ seen \in SUBSET {"branch", "cache"}
    /\ calls \in 0 .. MaxCalls

RegType == reg \in [{"cpu", "branch", "cache"} -> Nat]

BranchType ==
    /\ bhead \in 0 .. BRANCH_QUEUE_SIZE - 1
    /\ btail \in 0 .. BRANCH_QUEUE_SIZE - 1
    /\ bsize \in 0 .. BRANCH_QUEUE_SIZE - 1
    /\ BranchTrace \in [0 .. BRANCH_QUEUE_SIZE - 1 -> Nat]
    /\ mutex_sync_branch \in {Free, "cpu", "branch"}
    /\ bput \in Nat /\ bdone \in Nat

RefType ==
    /\ pset \in 0 .. TRACE_SET - 1
    /\ cset \in 0 .. TRACE_SET - 1
    /\ pind \in 0 .. TRACE_QUEUE_SIZE
    /\ cind \in 0 .. TRACE_QUEUE_SIZE
    /\ set_used \in 0 .. TRACE_SET
    /\ TraceBuffer \in [0 .. TRACE_SET - 1 -> [0 .. TRACE_QUEUE_SIZE - 1 -> Nat]]
    /\ mutex_sync_cache \in {Free, "cpu", "cache"}
    /\ rput \in Nat /\ rdone \in Nat

WorkerType ==
    /\ bpc \in {"loop", "size", "empty", "take", "lock", "store", "suspend", "wait"}
    /\ cpc \in {"loop", "drain", "used", "take", "lock", "store", "suspend", "wait"}

Types == ControlType /\ RegType /\ BranchType /\ RefType /\ WorkerType

\* A thread is in one call at a time, and only cpu puts.
TodoInv ==
    /\ DOMAIN todo = Thread
    /\ todo["cpu"] \in Seq(CallStep) \cup PutTodo
    /\ todo["ctrl"] \in Seq(CallStep)

\* The entry of the next branch is written, and branch_index_head is past it.
Traced == todo["cpu"] \in {AfterTrace, AfterFull, AfterLock}
Advanced == todo["cpu"] \in {AfterFull, AfterLock}

\* The j-th entry from branch_index_tail on, and the s-th set from dinero_thread's on.
Entry(j) == IF btail + j < BRANCH_QUEUE_SIZE THEN btail + j ELSE btail + j - BRANCH_QUEUE_SIZE
SetAt(s) == IF cset + s < TRACE_SET THEN cset + s ELSE cset + s - TRACE_SET

\* The updates of branch_buffer_size exclude each other.
BranchMutexInv ==
    /\ mutex_sync_branch = "branch" <=> bpc = "store"
    /\ mutex_sync_branch = "cpu" <=> todo["cpu"] = AfterLock
    /\ bpc = "store" => reg["branch"] = bsize
    /\ todo["cpu"] = AfterLock => reg["cpu"] = bsize

\* What branch_buffer_size counts.
BranchSizeInv ==
    /\ bdone <= bput
    /\ bsize = (bput - bdone) + IF bpc \in {"lock", "store"} THEN 1 ELSE 0
    /\ bpc = "take" => bsize > 0
    /\ Advanced => bsize < BRANCH_QUEUE_SIZE - 1
    /\ bhead = Entry((bput - bdone) + IF Advanced THEN 1 ELSE 0)

\* What the entries are, from branch_index_tail on.
BranchTraceInv ==
    \A j \in 0 .. BRANCH_QUEUE_SIZE - 1 :
        j < (bput - bdone) + (IF Traced THEN 1 ELSE 0) => BranchTrace[Entry(j)] = bdone + 1 + j

\* The updates of the number of full sets exclude each other.
SetMutexInv ==
    /\ mutex_sync_cache = "cache" <=> cpc = "store"
    /\ mutex_sync_cache = "cpu" <=> todo["cpu"] = AfterFillLock
    /\ cpc = "store" => reg["cache"] = set_used
    /\ todo["cpu"] = AfterFillLock => reg["cpu"] = set_used

\* What the number of full sets counts, and where the two indices are.
SetUsedInv ==
    /\ rput + cind = rdone + set_used * TRACE_QUEUE_SIZE + pind
    /\ pset = SetAt(set_used)
    /\ pind = TRACE_QUEUE_SIZE <=> todo["cpu"] \in {AfterFill, AfterFillLock}
    /\ pind > 0 => set_used < TRACE_SET
    /\ cpc = "take" => set_used > 0 /\ cind < TRACE_QUEUE_SIZE
    /\ cpc \in {"lock", "store"} => set_used > 0 /\ cind = TRACE_QUEUE_SIZE
    /\ cpc \notin {"take", "lock", "store"} => cind = 0
    /\ cind <= rdone

\* What the sets are, from dinero_thread's on, up to what cpu has filled.
TraceBufferInv ==
    \A s \in 0 .. TRACE_SET - 1, i \in 0 .. TRACE_QUEUE_SIZE - 1 :
        s < set_used \/ (s = set_used /\ i < pind) =>
            TraceBuffer[SetAt(s)][i] = (rdone - cind) + s * TRACE_QUEUE_SIZE + i + 1

\* Until its call ends, what cpu has waited for is still so.
SeenInv ==
    todo["cpu"] \in Seq(CallStep) \ {<< >>} =>
        /\ "branch" \in seen => bsize = 0
        /\ "cache" \in seen => set_used = 0

BranchInv == BranchMutexInv /\ BranchSizeInv /\ BranchTraceInv
RefInv == SetMutexInv /\ SetUsedInv /\ TraceBufferInv

\* The inductive invariant.
IInv == Types /\ TodoInv /\ BranchInv /\ RefInv /\ SeenInv
-----------------------------------------------------------------------------
(* The steps of the threads. *)

\* What the elements of PutTodo begin with and go on with.
LEMMA PutTodoFacts ==
    /\ Head(AfterCall) = "trace" /\ Tail(AfterCall) = AfterTrace
    /\ Head(AfterTrace) = "full" /\ Tail(AfterTrace) = AfterFull
    /\ Head(AfterFull) = "lock_branch" /\ Tail(AfterFull) = AfterLock
    /\ Head(AfterLock) = "store_branch" /\ Tail(AfterLock) = << >>
    /\ Head(BeforeFill) = "fill"
    /\ Head(AfterFill) = "lock_cache" /\ Tail(AfterFill) = AfterFillLock
    /\ Head(AfterFillLock) = "store_cache" /\ Tail(AfterFillLock) = << >>
    /\ << >> \notin PutTodo
<1>1. Tail(AfterCall) = AfterTrace
  BY DEF AfterCall, AfterTrace
<1>2. Tail(AfterTrace) = AfterFull
  BY DEF AfterTrace, AfterFull
<1>3. Tail(AfterFull) = AfterLock
  BY DEF AfterFull, AfterLock
<1>4. Tail(AfterFill) = AfterFillLock
  BY DEF AfterFill, AfterFillLock
<1>5. Tail(AfterLock) = << >> /\ Tail(AfterFillLock) = << >>
  BY DEF AfterLock, AfterFillLock
<1>6. /\ Head(AfterCall) = "trace" /\ Head(AfterTrace) = "full"
      /\ Head(AfterFull) = "lock_branch" /\ Head(AfterLock) = "store_branch"
      /\ Head(BeforeFill) = "fill"
      /\ Head(AfterFill) = "lock_cache" /\ Head(AfterFillLock) = "store_cache"
  BY DEF AfterCall, AfterTrace, AfterFull, AfterLock, BeforeFill, AfterFill, AfterFillLock
<1>7. << >> \notin PutTodo
  BY DEF AfterCall, AfterTrace, AfterFull, AfterLock, BeforeFill, AfterFill, AfterFillLock,
         PutTodo
<1> QED
  BY <1>1, <1>2, <1>3, <1>4, <1>5, <1>6, <1>7

\* A start, a stop or a report is no put, and stays so until its last step.
LEMMA CallFacts ==
    ASSUME NEW s \in Seq(CallStep)
    PROVE  /\ s \notin PutTodo
           /\ s # << >> => Head(s) \in CallStep /\ Tail(s) \in Seq(CallStep)
<1>1. s # << >> => Head(s) \in CallStep /\ Tail(s) \in Seq(CallStep)
  BY HeadTailProperties
<1>2. \A p \in PutTodo : Head(p) \notin CallStep /\ p # << >>
  BY PutTodoFacts DEF PutTodo, CallStep
<1> QED
  BY <1>1, <1>2

\* The next step of put_event or of cache_ref says where in it the emulation
\* thread is (vpmu-device.c:2146-2208).
LEMMA PutAt ==
    ASSUME TodoInv
    PROVE  /\ Does("cpu", "trace") => todo["cpu"] = AfterCall
           /\ Does("cpu", "full") => todo["cpu"] = AfterTrace
           /\ Does("cpu", "lock_branch") => todo["cpu"] = AfterFull
           /\ Does("cpu", "store_branch") => todo["cpu"] = AfterLock
           /\ Does("cpu", "fill") => todo["cpu"] = BeforeFill
           /\ Does("cpu", "lock_cache") => todo["cpu"] = AfterFill
           /\ Does("cpu", "store_cache") => todo["cpu"] = AfterFillLock
<1>1. CASE todo["cpu"] \in PutTodo
  BY <1>1, PutTodoFacts DEF PutTodo, Does
<1>2. CASE todo["cpu"] \in Seq(CallStep)
  BY <1>2, CallFacts DEF Does, CallStep
<1> QED
  BY <1>1, <1>2 DEF TodoInv

\* A step of CallStep is one of a start, a stop or a report.
LEMMA CallAt ==
    ASSUME TodoInv, NEW t \in Thread, NEW step \in CallStep, Does(t, step)
    PROVE  /\ todo[t] \in Seq(CallStep)
           /\ todo[t] # << >>
           /\ Tail(todo[t]) \in Seq(CallStep)
<1>1. todo[t] \in Seq(CallStep)
  BY PutTodoFacts DEF TodoInv, PutTodo, Does, Thread, CallStep
<1> QED
  BY <1>1, CallFacts DEF Does
-----------------------------------------------------------------------------
(* Which steps leave an invariant alone. *)

\* Advancing an index of a ring (vpmu-device.c:2090-2091, 2131-2133, 2158-2159, 2201-2203).
LEMMA ModNext ==
    ASSUME NEW n \in Nat \ {0}, NEW i \in 0 .. n - 1
    PROVE  (i + 1) % n = IF i + 1 < n THEN i + 1 ELSE 0
  OBVIOUS

\* The ring of branches depends on where in put_event the emulation thread is,
\* and on nothing else of its doings.
LEMMA BranchFrame ==
    ASSUME BranchInv,
           UNCHANGED branches,
           bpc' = bpc \/ {bpc, bpc'} \cap {"take", "lock", "store"} = {},
           reg'["branch"] = reg["branch"],
           todo["cpu"] = AfterLock => reg'["cpu"] = reg["cpu"],
           Traced' <=> Traced,
           Advanced' <=> Advanced,
           todo'["cpu"] = AfterLock <=> todo["cpu"] = AfterLock
    PROVE  BranchInv'
<1>1. BranchMutexInv'
  BY DEF BranchInv, BranchMutexInv, branches
<1>2. BranchSizeInv'
  BY DEF BranchInv, BranchSizeInv, branches, Entry
<1>3. BranchTraceInv'
  BY DEF BranchInv, BranchTraceInv, branches, Entry
<1> QED
  BY <1>1, <1>2, <1>3 DEF BranchInv

\* The sets of references likewise depend on cache_ref.
LEMMA RefFrame ==
    ASSUME RefInv,
           UNCHANGED refs,
           cpc' = cpc \/ {cpc, cpc'} \cap {"take", "lock", "store"} = {},
           reg'["cache"] = reg["cache"],
           todo["cpu"] = AfterFillLock => reg'["cpu"] = reg["cpu"],
           todo'["cpu"] \in {AfterFill, AfterFillLock} <=> todo["cpu"] \in {AfterFill, AfterFillLock},
           todo'["cpu"] = AfterFillLock <=> todo["cpu"] = AfterFillLock
    PROVE  RefInv'
<1>1. SetMutexInv'
  BY DEF RefInv, SetMutexInv, refs
<1>2. SetUsedInv'
  BY DEF RefInv, SetUsedInv, refs, SetAt
<1>3. TraceBufferInv'
  BY DEF RefInv, TraceBufferInv, refs, SetAt
<1> QED
  BY <1>1, <1>2, <1>3 DEF RefInv

\* A step of a start, a stop or a report disturbs neither.
LEMMA CallFrame ==
    ASSUME IInv, UNCHANGED data,
           NEW t \in Thread, NEW s \in Seq(CallStep),
           todo[t] \in Seq(CallStep),
           todo' = [todo EXCEPT ![t] = s],
           bpc' = bpc \/ {bpc, bpc'} \cap {"take", "lock", "store"} = {},
           cpc' = cpc \/ {cpc, cpc'} \cap {"take", "lock", "store"} = {}
    PROVE  TodoInv' /\ BranchInv' /\ RefInv'
<1>1. TodoInv'
  BY DEF IInv, TodoInv, Thread
<1>2. todo'["cpu"] = todo["cpu"] \/ (todo["cpu"] \notin PutTodo /\ todo'["cpu"] \notin PutTodo)
  BY CallFacts DEF IInv, TodoInv, Thread
<1>3. BranchInv'
  BY <1>2, BranchFrame DEF IInv, data, Traced, Advanced, PutTodo
<1>4. RefInv'
  BY <1>2, RefFrame DEF IInv, data, PutTodo
<1> QED
  BY <1>1, <1>3, <1>4

-----------------------------------------------------------------------------
(* The inductive invariant. *)

\* It holds when the device is created and its two workers have started.
LEMMA InitIInv == Init => IInv
<1> SUFFICES ASSUME Init PROVE IInv
  OBVIOUS
<1> USE VPMUAssumption
<1>1. ControlType
  <2>1. calls \in 0 .. MaxCalls
    BY DEF Init
  <2>2. enabled \in BOOLEAN /\ timing = {} /\ seen = {}
    BY Zenon DEF Init
  <2> QED
    BY <2>1, <2>2 DEF ControlType
<1>w. WorkerType /\ RegType
  BY DEF Init, WorkerType, RegType
<1>2. BranchType
  BY DEF Init, BranchType, Hole
<1>3. RefType
  BY DEF Init, RefType
<1>4. TodoInv
  BY EmptySeq DEF Init, TodoInv, Thread
<1>5. todo["cpu"] = << >> /\ todo["cpu"] \notin PutTodo
  BY PutTodoFacts DEF Init, Thread
<1>6. BranchInv
  BY <1>5 DEF Init, BranchInv, BranchMutexInv, BranchSizeInv, BranchTraceInv, Entry, Traced,
              Advanced, Free, PutTodo
<1>7. RefInv
  BY <1>5 DEF Init, RefInv, SetMutexInv, SetUsedInv, TraceBufferInv, SetAt, Free, PutTodo
<1>8. SeenInv
  BY <1>5 DEF SeenInv
<1> QED
  BY <1>1, <1>w, <1>2, <1>3, <1>4, <1>6, <1>7, <1>8 DEF IInv, Types

\* branch_thread preserves it (vpmu-device.c:2076-2103).
LEMMA BranchThreadIInv == IInv /\ (BranchThread \/ BranchSpurious) => IInv'
<1> SUFFICES ASSUME IInv, BranchThread \/ BranchSpurious PROVE IInv'
  OBVIOUS
<1> USE VPMUAssumption
<1>t. /\ ControlType /\ RegType /\ BranchType /\ RefType /\ WorkerType /\ TodoInv
      /\ BranchMutexInv /\ BranchSizeInv /\ BranchTraceInv /\ RefInv /\ SeenInv
  BY DEF IInv, BranchInv, Types
<1>c. /\ UNCHANGED <<control, todo, refs, cpc>>
      /\ reg'["cpu"] = reg["cpu"] /\ reg'["cache"] = reg["cache"]
  BY <1>t DEF BranchThread, BranchLoop, BranchSize, BranchEmpty, BranchTake, BranchLock, BranchStore,
              BranchSuspend, BranchSpurious, branches, RegType
<1>u. ControlType' /\ RefType'
  BY <1>t, <1>c DEF ControlType, RefType, control, refs
<1>w. WorkerType'
  BY <1>t, <1>c DEF WorkerType, BranchThread, BranchLoop, BranchSize, BranchEmpty, BranchTake,
              BranchLock, BranchStore, BranchSuspend, BranchSpurious
<1>r. RefInv' /\ TodoInv'
  BY <1>t, <1>c, RefFrame DEF TodoInv
<1>1. CASE BranchLoop \/ BranchSize \/ BranchEmpty \/ BranchSuspend \/ BranchSpurious
  <2>1. UNCHANGED <<branches, reg>>
    BY <1>1 DEF BranchLoop, BranchSize, BranchEmpty, BranchSuspend, BranchSpurious
  <2>2. RegType' /\ BranchType'
    BY <1>t, <2>1 DEF RegType, BranchType, branches
  <2>3. BranchMutexInv' /\ BranchSizeInv'
    BY <1>1, <1>t, <1>c, <2>1 DEF BranchMutexInv, BranchSizeInv, BranchLoop, BranchSize,
       BranchEmpty, BranchSuspend, BranchSpurious, branches, Entry, Advanced, BranchType
  <2>4. BranchTraceInv' /\ SeenInv'
    BY <1>t, <1>c, <2>1 DEF BranchTraceInv, SeenInv, branches, refs, control, Entry, Traced
  <2> QED
    BY <1>u, <1>w, <1>r, <2>2, <2>3, <2>4 DEF IInv, BranchInv, Types
<1>2. CASE BranchTake
  <2>1. bsize > 0 /\ bput - bdone = bsize
    BY <1>2, <1>t DEF BranchTake, BranchSizeInv, BranchType
  <2>2. btail' = IF btail + 1 < BRANCH_QUEUE_SIZE THEN btail + 1 ELSE 0
    BY <1>2, <1>t, ModNext DEF BranchTake, BranchType
  <2>3. RegType' /\ BranchType'
    BY <1>2, <1>t, <2>2 DEF RegType, BranchType, BranchTake, Hole
  <2>4. BranchMutexInv' /\ SeenInv'
    BY <1>2, <1>t, <1>c DEF BranchMutexInv, SeenInv, BranchTake, refs, control
  <2>5. BranchSizeInv'
    <3>1. bdone' = bdone + 1 /\ UNCHANGED <<bput, bhead, bsize, todo>> /\ bpc' = "lock"
      BY <1>2 DEF BranchTake
    <3>2. Advanced' = Advanced
      BY <3>1 DEF Advanced
    <3>3. bput' - bdone' = (bput - bdone) - 1 /\ bdone' <= bput'
      BY <1>t, <2>1, <3>1 DEF BranchType
    <3>4. bhead' = Entry((bput - bdone) + IF Advanced THEN 1 ELSE 0)'
      BY <1>t, <2>1, <2>2, <3>1, <3>2, <3>3 DEF BranchSizeInv, BranchType, Entry
    <3> QED
      BY <1>t, <2>1, <3>1, <3>2, <3>3, <3>4 DEF BranchSizeInv, BranchType
  <2>6. BranchTraceInv'
    <3> SUFFICES ASSUME NEW j \in 0 .. BRANCH_QUEUE_SIZE - 1,
                        j < (bput' - bdone') + (IF Traced' THEN 1 ELSE 0)
                 PROVE  BranchTrace'[Entry(j)'] = bdone' + 1 + j
      BY DEF BranchTraceInv
    <3>1. bdone' = bdone + 1 /\ bput' = bput /\ Traced' = Traced
      BY <1>2, <1>c DEF BranchTake, Traced
    <3>2. j + 1 \in 0 .. BRANCH_QUEUE_SIZE - 1
      BY <1>t, <2>1, <3>1 DEF BranchSizeInv, BranchType
    <3>3. BranchTrace[Entry(j + 1)] = bdone + 1 + (j + 1)
      BY <1>t, <3>1, <3>2 DEF BranchTraceInv, BranchType
    <3>4. /\ Entry(j)' = Entry(j + 1)
          /\ Entry(j + 1) # btail
          /\ Entry(j + 1) \in 0 .. BRANCH_QUEUE_SIZE - 1
      BY <1>t, <2>2, <3>2 DEF Entry, BranchType
    <3>5. BranchTrace'[Entry(j + 1)] = BranchTrace[Entry(j + 1)]
      BY <1>2, <1>t, <3>4 DEF BranchTake, BranchType
    <3> QED
      BY <1>t, <3>1, <3>3, <3>4, <3>5 DEF BranchType
  <2> QED
    BY <1>u, <1>w, <1>r, <2>3, <2>4, <2>5, <2>6 DEF IInv, BranchInv, Types
<1>3. CASE BranchLock
  <2>1. RegType' /\ BranchType'
    BY <1>3, <1>t DEF RegType, BranchType, BranchLock
  <2>2. BranchMutexInv'
    BY <1>3, <1>t, <1>c DEF BranchMutexInv, BranchLock, RegType, Free
  <2>3. BranchSizeInv' /\ BranchTraceInv' /\ SeenInv'
    BY <1>3, <1>t, <1>c DEF BranchSizeInv, BranchTraceInv, SeenInv, BranchLock, Entry, Traced,
       Advanced, control, refs
  <2> QED
    BY <1>u, <1>w, <1>r, <2>1, <2>2, <2>3 DEF IInv, BranchInv, Types
<1>4. CASE BranchStore
  <2>1. bsize > 0 /\ bsize' = bsize - 1 /\ todo["cpu"] # AfterLock
    BY <1>4, <1>t DEF BranchStore, BranchSizeInv, BranchMutexInv, BranchType
  <2>2. RegType' /\ BranchType'
    BY <1>4, <1>t, <2>1 DEF RegType, BranchType, BranchStore
  <2>3. BranchMutexInv'
    BY <1>4, <1>t, <1>c, <2>1 DEF BranchMutexInv, BranchStore, Free
  <2>4. BranchSizeInv'
    BY <1>4, <1>t, <1>c, <2>1 DEF BranchSizeInv, BranchStore, Entry, Advanced, BranchType
  <2>5. BranchTraceInv' /\ SeenInv'
    BY <1>4, <1>t, <1>c, <2>1 DEF BranchTraceInv, SeenInv, BranchStore, Entry, Traced, control, refs
  <2> QED
    BY <1>u, <1>w, <1>r, <2>2, <2>3, <2>4, <2>5 DEF IInv, BranchInv, Types
<1> QED
  BY <1>1, <1>2, <1>3, <1>4 DEF BranchThread

\* dinero_thread preserves it (vpmu-device.c:2105-2141).
LEMMA CacheThreadIInv == IInv /\ (CacheThread \/ CacheSpurious) => IInv'
<1> SUFFICES ASSUME IInv, CacheThread \/ CacheSpurious PROVE IInv'
  OBVIOUS
<1> USE VPMUAssumption
<1>t. /\ ControlType /\ RegType /\ BranchType /\ RefType /\ WorkerType /\ TodoInv
      /\ BranchInv /\ SetMutexInv /\ SetUsedInv /\ TraceBufferInv /\ SeenInv
  BY DEF IInv, RefInv, Types
<1>c. /\ UNCHANGED <<control, todo, branches, bpc>>
      /\ reg'["cpu"] = reg["cpu"] /\ reg'["branch"] = reg["branch"]
  BY <1>t DEF CacheThread, CacheLoop, CacheDrain, CacheUsed, CacheTake, CacheLock, CacheStore,
              CacheSuspend, CacheSpurious, refs, RegType
<1>u. ControlType' /\ BranchType'
  BY <1>t, <1>c DEF ControlType, BranchType, control, branches
<1>w. WorkerType'
  BY <1>t, <1>c DEF WorkerType, CacheThread, CacheLoop, CacheDrain, CacheUsed, CacheTake,
              CacheLock, CacheStore, CacheSuspend, CacheSpurious
<1>r. BranchInv' /\ TodoInv'
  BY <1>t, <1>c, BranchFrame DEF TodoInv, Traced, Advanced
<1>1. CASE CacheLoop \/ CacheDrain \/ CacheUsed \/ CacheSuspend \/ CacheSpurious
  <2>1. UNCHANGED <<refs, reg>>
    BY <1>1 DEF CacheLoop, CacheDrain, CacheUsed, CacheSuspend, CacheSpurious
  <2>2. RegType' /\ RefType'
    BY <1>t, <2>1 DEF RegType, RefType, refs
  <2>3. SetMutexInv'
    BY <1>1, <1>t, <1>c, <2>1 DEF SetMutexInv, CacheLoop, CacheDrain, CacheUsed, CacheSuspend,
       CacheSpurious, refs
  <2>4. SetUsedInv'
    BY <1>1, <1>t, <1>c, <2>1 DEF SetUsedInv, CacheLoop, CacheDrain, CacheUsed, CacheSuspend,
       CacheSpurious, refs, SetAt, RefType
  <2>5. TraceBufferInv' /\ SeenInv'
    BY <1>t, <1>c, <2>1 DEF TraceBufferInv, SeenInv, branches, refs, control, SetAt
  <2> QED
    BY <1>u, <1>w, <1>r, <2>2, <2>3, <2>4, <2>5 DEF IInv, RefInv, Types
<1>2. CASE CacheTake
  <2>1. rdone' = rdone + 1 /\ cind' = cind + 1 /\ set_used > 0 /\ cind < TRACE_QUEUE_SIZE
    BY <1>2, <1>t DEF CacheTake, SetUsedInv
  <2>2. UNCHANGED <<TraceBuffer, pset, pind, cset, set_used, mutex_sync_cache, rput, reg>>
    BY <1>2 DEF CacheTake
  <2>3. RegType' /\ RefType'
    BY <1>t, <2>1, <2>2 DEF RegType, RefType
  <2>4. SetMutexInv' /\ SeenInv'
    BY <1>2, <1>t, <1>c, <2>2 DEF SetMutexInv, SeenInv, CacheTake, branches, control
  <2>5. SetUsedInv'
    <3>1. rput' + cind' = rdone' + set_used' * TRACE_QUEUE_SIZE + pind'
      BY <1>t, <2>1, <2>2 DEF SetUsedInv, RefType
    <3>2. cpc' = IF cind' = TRACE_QUEUE_SIZE THEN "lock" ELSE "take"
      BY <1>2 DEF CacheTake
    <3> QED
      BY <1>t, <1>c, <2>1, <2>2, <3>1, <3>2 DEF SetUsedInv, SetAt, RefType
  <2>6. TraceBufferInv'
    <3>1. rdone' - cind' = rdone - cind
      BY <1>t, <2>1 DEF RefType
    <3> QED
      BY <1>t, <2>2, <3>1 DEF TraceBufferInv, SetAt
  <2> QED
    BY <1>u, <1>w, <1>r, <2>3, <2>4, <2>5, <2>6 DEF IInv, RefInv, Types
<1>3. CASE CacheLock
  <2>1. UNCHANGED <<TraceBuffer, pset, pind, cset, cind, set_used, rput, rdone>>
    BY <1>3 DEF CacheLock
  <2>2. RegType' /\ RefType'
    BY <1>3, <1>t, <2>1 DEF RegType, RefType, CacheLock
  <2>3. SetMutexInv'
    BY <1>3, <1>t, <1>c DEF SetMutexInv, CacheLock, RegType, Free
  <2>4. SetUsedInv'
    BY <1>3, <1>t, <1>c, <2>1 DEF SetUsedInv, CacheLock, SetAt
  <2>5. TraceBufferInv' /\ SeenInv'
    BY <1>t, <1>c, <2>1 DEF TraceBufferInv, SeenInv, SetAt, control, branches
  <2> QED
    BY <1>u, <1>w, <1>r, <2>2, <2>3, <2>4, <2>5 DEF IInv, RefInv, Types
<1>4. CASE CacheStore
  <2>1. /\ set_used > 0 /\ cind = TRACE_QUEUE_SIZE /\ todo["cpu"] # AfterFillLock
        /\ set_used' = set_used - 1 /\ cind' = 0 /\ cpc' = "loop"
    BY <1>4, <1>t DEF CacheStore, SetUsedInv, SetMutexInv
  <2>2. cset' = IF cset + 1 < TRACE_SET THEN cset + 1 ELSE 0
    BY <1>4, <1>t, ModNext DEF CacheStore, RefType
  <2>3. UNCHANGED <<TraceBuffer, pset, pind, rput, rdone, reg>>
    BY <1>4 DEF CacheStore
  <2>4. RegType' /\ RefType'
    <3>1. RegType'
      BY <1>t, <2>3 DEF RegType
    <3>2. /\ TraceBuffer' \in [0 .. TRACE_SET - 1 -> [0 .. TRACE_QUEUE_SIZE - 1 -> Nat]]
          /\ pset' \in 0 .. TRACE_SET - 1 /\ pind' \in 0 .. TRACE_QUEUE_SIZE
          /\ rput' \in Nat /\ rdone' \in Nat
      BY <1>t, <2>3 DEF RefType
    <3>3. set_used' \in 0 .. TRACE_SET /\ cind' \in 0 .. TRACE_QUEUE_SIZE
      BY <1>t, <2>1, VPMUAssumption DEF RefType
    <3>4. cset' \in 0 .. TRACE_SET - 1
      BY <1>t, <2>2, VPMUAssumption DEF RefType
    <3>5. mutex_sync_cache' \in {Free, "cpu", "cache"}
      BY <1>4 DEF CacheStore
    <3> QED
      BY <3>1, <3>2, <3>3, <3>4, <3>5 DEF RefType
  <2>5. SetMutexInv'
    BY <1>4, <1>t, <1>c, <2>1 DEF SetMutexInv, CacheStore, Free
  <2>6. \A s \in 0 .. TRACE_SET - 1 : SetAt(s)' = SetAt(s + 1)
    BY <1>t, <2>2 DEF SetAt, RefType
  <2>7. SetUsedInv'
    <3>1. set_used' * TRACE_QUEUE_SIZE = set_used * TRACE_QUEUE_SIZE - TRACE_QUEUE_SIZE
      BY <1>t, <2>1 DEF RefType
    <3>2. set_used * TRACE_QUEUE_SIZE \in Nat
      BY <1>t DEF RefType
    <3>3. rput' + cind' = rdone' + set_used' * TRACE_QUEUE_SIZE + pind'
      BY <1>t, <2>1, <2>3, <3>1, <3>2 DEF SetUsedInv, RefType
    <3>4. pset' = SetAt(set_used)'
      <4>1. SetAt(set_used)' = SetAt(set_used)
        BY <1>t, <2>1, <2>2 DEF SetAt, RefType
      <4> QED
        BY <1>t, <2>3, <4>1 DEF SetUsedInv
    <3> QED
      BY <1>t, <1>c, <2>1, <2>3, <3>3, <3>4 DEF SetUsedInv, RefType
  <2>8. TraceBufferInv'
    <3> SUFFICES ASSUME NEW s \in 0 .. TRACE_SET - 1, NEW i \in 0 .. TRACE_QUEUE_SIZE - 1,
                        s < set_used' \/ (s = set_used' /\ i < pind')
                 PROVE  TraceBuffer'[SetAt(s)'][i] =
                            (rdone' - cind') + s * TRACE_QUEUE_SIZE + i + 1
      BY DEF TraceBufferInv
    <3>1. /\ s + 1 \in 0 .. TRACE_SET - 1
          /\ s + 1 < set_used \/ (s + 1 = set_used /\ i < pind)
      BY <1>t, <2>1, <2>3 DEF SetUsedInv, RefType
    <3>2. TraceBuffer[SetAt(s + 1)][i] = (rdone - cind) + (s + 1) * TRACE_QUEUE_SIZE + i + 1
      BY <1>t, <3>1 DEF TraceBufferInv
    <3>3. (s + 1) * TRACE_QUEUE_SIZE = s * TRACE_QUEUE_SIZE + TRACE_QUEUE_SIZE
      OBVIOUS
    <3>4. s * TRACE_QUEUE_SIZE \in Nat
      OBVIOUS
    <3>5. (rdone - cind) + (s + 1) * TRACE_QUEUE_SIZE + i + 1
              = (rdone' - cind') + s * TRACE_QUEUE_SIZE + i + 1
      BY <1>t, <2>1, <2>3, <3>3, <3>4 DEF RefType
    <3> QED
      BY <2>3, <2>6, <3>2, <3>5
  <2>9. SeenInv'
    BY <1>t, <1>c, <2>1 DEF SeenInv, control, branches, RefType
  <2> QED
    BY <1>u, <1>w, <1>r, <2>4, <2>5, <2>7, <2>8, <2>9 DEF IInv, RefInv, Types
<1> QED
  BY <1>1, <1>2, <1>3, <1>4 DEF CacheThread

\* The emulation thread preserves it while it puts a branch
\* (vpmu-device.c:2146-2168).
LEMMA PutEventIInv ==
    IInv /\ (PutEvent \/ PutTrace \/ PutFull \/ PutLock \/ PutStore) => IInv'
<1> SUFFICES ASSUME IInv, PutEvent \/ PutTrace \/ PutFull \/ PutLock \/ PutStore PROVE IInv'
  OBVIOUS
<1> USE VPMUAssumption
<1>t. /\ ControlType /\ RegType /\ BranchType /\ RefType /\ WorkerType /\ TodoInv
      /\ BranchMutexInv /\ BranchSizeInv /\ BranchTraceInv /\ RefInv /\ SeenInv
  BY DEF IInv, BranchInv, Types
<1>c. /\ UNCHANGED <<control, refs, bpc, cpc>>
      /\ reg'["branch"] = reg["branch"] /\ reg'["cache"] = reg["cache"]
  BY <1>t DEF PutEvent, PutTrace, PutFull, PutLock, PutStore, branches, RegType
<1>u. ControlType' /\ RefType' /\ WorkerType'
  BY <1>t, <1>c DEF ControlType, RefType, WorkerType, control, refs
<1>d. /\ \A a, b \in PutTodo : Head(a) = Head(b) => a = b
      /\ << >> \notin PutTodo
  BY PutTodoFacts DEF PutTodo
<1>p. ASSUME NEW a \in {<< >>, AfterCall, AfterTrace, AfterFull, AfterLock},
             NEW b \in {<< >>, AfterCall, AfterTrace, AfterFull, AfterLock},
             todo["cpu"] = a, todo' = [todo EXCEPT !["cpu"] = b]
      PROVE  /\ TodoInv' /\ RefInv' /\ todo'["cpu"] = b
             /\ b # << >> => SeenInv'
  <2>1. /\ {a, b} \subseteq {<< >>} \cup (PutTodo \ {AfterFill, AfterFillLock})
        /\ << >> \in Seq(CallStep)
    BY PutTodoFacts, EmptySeq DEF PutTodo
  <2>2. TodoInv' /\ todo'["cpu"] = b
    BY <1>p, <1>t, <2>1 DEF TodoInv, Thread
  <2>3. RefInv'
    BY <1>p, <1>t, <1>c, <2>1, <2>2, RefFrame, <1>d DEF PutTodo
  <2>4. b # << >> => SeenInv'
    BY <2>1, <2>2, CallFacts DEF SeenInv
  <2> QED
    BY <2>2, <2>3, <2>4
<1>1. CASE PutEvent
  <2>1. /\ todo["cpu"] = << >> /\ todo' = [todo EXCEPT !["cpu"] = AfterCall]
        /\ UNCHANGED <<branches, reg>>
    BY <1>1 DEF PutEvent, AfterCall
  <2>2. TodoInv' /\ RefInv' /\ todo'["cpu"] = AfterCall /\ SeenInv'
    BY <1>p, <1>d, <2>1 DEF PutTodo
  <2>3. RegType' /\ BranchType'
    BY <1>t, <2>1 DEF RegType, BranchType, branches
  <2>4. BranchInv'
    BY <1>t, <1>c, <1>d, <2>1, <2>2, BranchFrame, PutTodoFacts
       DEF BranchInv, Traced, Advanced, PutTodo
  <2> QED
    BY <1>u, <2>2, <2>3, <2>4 DEF IInv, Types
<1>2. CASE PutTrace
  <2>1. /\ todo["cpu"] = AfterCall /\ todo' = [todo EXCEPT !["cpu"] = AfterTrace]
    BY <1>2, <1>t, PutAt, PutTodoFacts DEF PutTrace, Done
  <2>2. TodoInv' /\ RefInv' /\ todo'["cpu"] = AfterTrace /\ SeenInv'
    BY <1>p, <1>d, <2>1 DEF PutTodo
  <2>3. /\ BranchTrace' = [BranchTrace EXCEPT ![bhead] = bput + 1]
        /\ UNCHANGED <<reg, bhead, btail, bsize, mutex_sync_branch, bput, bdone>>
    BY <1>2 DEF PutTrace
  <2>4. RegType' /\ BranchType'
    BY <1>t, <2>3 DEF RegType, BranchType
  <2>5. ~Traced /\ ~Advanced /\ Traced' /\ ~Advanced'
    BY <1>d, <2>1, <2>2, PutTodoFacts DEF Traced, Advanced, PutTodo
  <2>6. BranchMutexInv'
    BY <1>t, <1>c, <1>d, <2>1, <2>2, <2>3, PutTodoFacts DEF BranchMutexInv, PutTodo
  <2>7. BranchSizeInv'
    BY <1>t, <1>c, <2>3, <2>5 DEF BranchSizeInv, Entry
  <2>8. BranchTraceInv'
    <3> SUFFICES ASSUME NEW j \in 0 .. BRANCH_QUEUE_SIZE - 1, j < (bput - bdone) + 1
                 PROVE  BranchTrace'[Entry(j)] = bdone + 1 + j
      BY <2>3, <2>5 DEF BranchTraceInv, Entry
    <3>1. bhead = Entry(bput - bdone) /\ bput - bdone \in 0 .. BRANCH_QUEUE_SIZE - 1
      BY <1>t, <2>5 DEF BranchSizeInv, BranchType
    <3>2. CASE j = bput - bdone
      BY <1>t, <2>3, <3>1, <3>2 DEF BranchType
    <3>3. CASE j # bput - bdone
      <4>1. j < bput - bdone
        BY <1>t, <3>3 DEF BranchType
      <4>2. Entry(j) # bhead /\ Entry(j) \in 0 .. BRANCH_QUEUE_SIZE - 1
        BY <1>t, <3>1, <4>1 DEF Entry, BranchType
      <4>3. BranchTrace[Entry(j)] = bdone + 1 + j
        BY <1>t, <2>5, <4>1 DEF BranchTraceInv, BranchType
      <4> QED
        BY <1>t, <2>3, <4>2, <4>3 DEF BranchType
    <3> QED
      BY <3>2, <3>3
  <2> QED
    BY <1>u, <2>2, <2>4, <2>6, <2>7, <2>8 DEF IInv, BranchInv, Types
<1>3. CASE PutFull
  <2>1. /\ todo["cpu"] = AfterTrace /\ todo' = [todo EXCEPT !["cpu"] = AfterFull]
    BY <1>3, <1>t, PutAt, PutTodoFacts DEF PutFull, Done
  <2>2. TodoInv' /\ RefInv' /\ todo'["cpu"] = AfterFull /\ SeenInv'
    BY <1>p, <1>d, <2>1 DEF PutTodo
  <2>3. /\ bsize # BRANCH_QUEUE_SIZE - 1
        /\ UNCHANGED <<reg, BranchTrace, btail, bsize, mutex_sync_branch, bput, bdone>>
    BY <1>3 DEF PutFull
  <2>4. bhead' = IF bhead + 1 < BRANCH_QUEUE_SIZE THEN bhead + 1 ELSE 0
    BY <1>3, <1>t, ModNext DEF PutFull, BranchType
  <2>5. RegType' /\ BranchType'
    BY <1>t, <2>3, <2>4 DEF RegType, BranchType
  <2>6. Traced /\ ~Advanced /\ Traced' /\ Advanced'
    BY <1>d, <2>1, <2>2, PutTodoFacts DEF Traced, Advanced, PutTodo
  <2>7. BranchMutexInv'
    BY <1>t, <1>c, <1>d, <2>1, <2>2, <2>3, PutTodoFacts DEF BranchMutexInv, PutTodo
  <2>8. BranchSizeInv'
    <3>1. bhead' = Entry((bput - bdone) + 1)
      BY <1>t, <2>3, <2>4, <2>6 DEF BranchSizeInv, BranchType, Entry
    <3> QED
      BY <1>t, <1>c, <2>3, <2>6, <3>1 DEF BranchSizeInv, BranchType, Entry
  <2>9. BranchTraceInv'
    BY <1>t, <2>3, <2>6 DEF BranchTraceInv, Entry
  <2> QED
    BY <1>u, <2>2, <2>5, <2>7, <2>8, <2>9 DEF IInv, BranchInv, Types
<1>4. CASE PutLock
  <2>1. /\ todo["cpu"] = AfterFull /\ todo' = [todo EXCEPT !["cpu"] = AfterLock]
    BY <1>4, <1>t, PutAt, PutTodoFacts DEF PutLock, Done
  <2>2. TodoInv' /\ RefInv' /\ todo'["cpu"] = AfterLock /\ SeenInv'
    BY <1>p, <1>d, <2>1 DEF PutTodo
  <2>3. /\ mutex_sync_branch = Free /\ mutex_sync_branch' = "cpu"
        /\ reg' = [reg EXCEPT !["cpu"] = bsize]
        /\ UNCHANGED <<BranchTrace, bhead, btail, bsize, bput, bdone>>
    BY <1>4 DEF PutLock
  <2>4. RegType' /\ BranchType'
    BY <1>t, <2>3 DEF RegType, BranchType
  <2>5. Traced /\ Advanced /\ Traced' /\ Advanced'
    BY <2>1, <2>2 DEF Traced, Advanced
  <2>6. BranchMutexInv'
    BY <1>t, <1>c, <2>2, <2>3 DEF BranchMutexInv, RegType, Free
  <2>7. BranchSizeInv' /\ BranchTraceInv'
    BY <1>t, <1>c, <2>3, <2>5 DEF BranchSizeInv, BranchTraceInv, Entry
  <2> QED
    BY <1>u, <2>2, <2>4, <2>6, <2>7 DEF IInv, BranchInv, Types
<1>5. CASE PutStore
  <2>1. /\ todo["cpu"] = AfterLock /\ todo' = [todo EXCEPT !["cpu"] = << >>]
    BY <1>5, <1>t, PutAt, PutTodoFacts DEF PutStore, Done
  <2>2. TodoInv' /\ RefInv' /\ todo'["cpu"] = << >>
    BY <1>p, <2>1
  <2>3. /\ bsize' = bsize + 1 /\ bput' = bput + 1 /\ mutex_sync_branch' = Free
        /\ UNCHANGED <<reg, BranchTrace, bhead, btail, bdone>>
    BY <1>5, <1>t, <2>1 DEF PutStore, BranchMutexInv
  <2>4. Traced /\ Advanced /\ ~Traced' /\ ~Advanced'
    BY <1>d, <2>1, <2>2 DEF Traced, Advanced, PutTodo
  <2>5. RegType' /\ BranchType'
    BY <1>t, <2>3, <2>4 DEF RegType, BranchType, BranchSizeInv
  <2>6. BranchMutexInv'
    BY <1>t, <1>c, <1>d, <2>1, <2>2, <2>3 DEF BranchMutexInv, Free, PutTodo
  <2>7. BranchSizeInv'
    BY <1>t, <1>c, <2>3, <2>4 DEF BranchSizeInv, BranchType, Entry
  <2>8. BranchTraceInv'
    BY <1>t, <2>3, <2>4 DEF BranchTraceInv, BranchType, Entry
  <2>9. SeenInv'
    BY <2>2 DEF SeenInv
  <2> QED
    BY <1>u, <2>2, <2>5, <2>6, <2>7, <2>8, <2>9 DEF IInv, BranchInv, Types
<1> QED
  BY <1>1, <1>2, <1>3, <1>4, <1>5

\* The emulation thread preserves it while it puts a reference
\* (vpmu-device.c:2170-2208).
LEMMA CacheRefIInv ==
    IInv /\ (CacheRef \/ CacheFill \/ FillLock \/ FillStore) => IInv'
<1> SUFFICES ASSUME IInv, CacheRef \/ CacheFill \/ FillLock \/ FillStore PROVE IInv'
  OBVIOUS
<1> USE VPMUAssumption
<1>t. /\ ControlType /\ RegType /\ BranchType /\ RefType /\ WorkerType /\ TodoInv
      /\ BranchInv /\ SetMutexInv /\ SetUsedInv /\ TraceBufferInv /\ SeenInv
  BY DEF IInv, RefInv, Types
<1>c. /\ UNCHANGED <<control, branches, bpc, cpc>>
      /\ reg'["branch"] = reg["branch"] /\ reg'["cache"] = reg["cache"]
  BY <1>t DEF CacheRef, CacheFill, FillLock, FillStore, refs, RegType
<1>u. ControlType' /\ BranchType' /\ WorkerType'
  BY <1>t, <1>c DEF ControlType, BranchType, WorkerType, control, branches
<1>d. /\ \A a, b \in PutTodo : Head(a) = Head(b) => a = b
      /\ << >> \notin PutTodo
  BY PutTodoFacts DEF PutTodo
<1>p. ASSUME NEW a \in {<< >>, BeforeFill, AfterFill, AfterFillLock},
             NEW b \in {<< >>, BeforeFill, AfterFill, AfterFillLock},
             todo["cpu"] = a, todo' = [todo EXCEPT !["cpu"] = b]
      PROVE  /\ TodoInv' /\ BranchInv' /\ todo'["cpu"] = b
             /\ SeenInv'
  <2>1. /\ {a, b} \subseteq {<< >>} \cup PutTodo
        /\ << >> \in Seq(CallStep)
    BY EmptySeq DEF PutTodo
  <2>2. TodoInv' /\ todo'["cpu"] = b
    BY <1>p, <1>t, <2>1 DEF TodoInv, Thread
  <2>3. {a, b} \cap {AfterTrace, AfterFull, AfterLock} = {}
    BY <1>d, PutTodoFacts DEF PutTodo
  <2>4. BranchInv'
    <3>1. ~Traced /\ ~Traced' /\ ~Advanced /\ ~Advanced'
      BY <1>p, <2>2, <2>3 DEF Traced, Advanced
    <3>2. todo'["cpu"] # AfterLock /\ todo["cpu"] # AfterLock
      BY <1>p, <2>2, <2>3
    <3> QED
      BY <1>t, <1>c, <3>1, <3>2, BranchFrame
  <2>5. SeenInv'
    BY <2>1, <2>2, CallFacts DEF SeenInv
  <2> QED
    BY <2>2, <2>4, <2>5
<1>1. CASE CacheRef
  <2>1. /\ todo["cpu"] = << >> /\ todo' = [todo EXCEPT !["cpu"] = BeforeFill]
        /\ UNCHANGED <<refs, reg>>
    BY <1>1 DEF CacheRef, BeforeFill
  <2>2. TodoInv' /\ BranchInv' /\ todo'["cpu"] = BeforeFill /\ SeenInv'
    BY <1>p, <2>1
  <2>3. RegType' /\ RefType'
    BY <1>t, <2>1 DEF RegType, RefType, refs
  <2>4. RefInv'
    BY <1>t, <1>c, <1>d, <2>1, <2>2, RefFrame, PutTodoFacts DEF RefInv, PutTodo
  <2> QED
    BY <1>u, <2>2, <2>3, <2>4 DEF IInv, Types
<1>2. CASE CacheFill
  <2>1. /\ todo["cpu"] = BeforeFill
        /\ todo' = [todo EXCEPT !["cpu"] =
                        IF pind' = TRACE_QUEUE_SIZE THEN AfterFill ELSE << >>]
    BY <1>2, <1>t, PutAt DEF CacheFill, AfterFill
  <2>2. /\ TodoInv' /\ BranchInv' /\ SeenInv'
        /\ todo'["cpu"] = IF pind' = TRACE_QUEUE_SIZE THEN AfterFill ELSE << >>
    BY <1>p, <2>1
  <2>3. /\ set_used # TRACE_SET
        /\ TraceBuffer' = [TraceBuffer EXCEPT ![pset][pind] = rput + 1]
        /\ rput' = rput + 1 /\ pind' = pind + 1
        /\ UNCHANGED <<reg, pset, cset, cind, set_used, mutex_sync_cache, rdone>>
    BY <1>2 DEF CacheFill
  <2>4. pind \in 0 .. TRACE_QUEUE_SIZE - 1 /\ set_used \in 0 .. TRACE_SET - 1
    <3>1. pind # TRACE_QUEUE_SIZE
      BY <1>t, <1>d, <2>1, PutTodoFacts DEF SetUsedInv, PutTodo
    <3> QED
      BY <1>t, <2>3, <3>1 DEF RefType
  <2>5. RegType' /\ RefType'
    <3>1. RegType'
      BY <1>t, <2>3 DEF RegType
    <3>2. TraceBuffer' \in [0 .. TRACE_SET - 1 -> [0 .. TRACE_QUEUE_SIZE - 1 -> Nat]]
      <4>1. rput + 1 \in Nat
        BY <1>t DEF RefType
      <4>2. TraceBuffer \in [0 .. TRACE_SET - 1 -> [0 .. TRACE_QUEUE_SIZE - 1 -> Nat]]
        BY <1>t DEF RefType
      <4>3. TraceBuffer' = [TraceBuffer EXCEPT ![pset][pind] = rput + 1]
        BY <2>3
      <4> QED
        BY <4>1, <4>2, <4>3
    <3>3. pind' \in 0 .. TRACE_QUEUE_SIZE /\ rput' \in Nat
      BY <1>t, <2>3, <2>4, VPMUAssumption DEF RefType
    <3>4. /\ pset' \in 0 .. TRACE_SET - 1 /\ cset' \in 0 .. TRACE_SET - 1
          /\ cind' \in 0 .. TRACE_QUEUE_SIZE /\ set_used' \in 0 .. TRACE_SET
          /\ mutex_sync_cache' \in {Free, "cpu", "cache"} /\ rdone' \in Nat
      BY <1>t, <2>3 DEF RefType
    <3> QED
      BY <3>1, <3>2, <3>3, <3>4 DEF RefType
  <2>6. SetMutexInv'
    BY <1>t, <1>c, <1>d, <2>1, <2>2, <2>3, PutTodoFacts DEF SetMutexInv, PutTodo
  <2>7. SetUsedInv'
    <3>1. set_used * TRACE_QUEUE_SIZE \in Nat
      BY <1>t DEF RefType
    <3>2. rput' + cind' = rdone' + set_used' * TRACE_QUEUE_SIZE + pind'
      BY <1>t, <2>3, <3>1 DEF SetUsedInv, RefType
    <3>3. pind' = TRACE_QUEUE_SIZE <=> todo'["cpu"] \in {AfterFill, AfterFillLock}
      BY <1>d, <2>2 DEF PutTodo
    <3> QED
      BY <1>t, <1>c, <2>3, <2>4, <3>2, <3>3 DEF SetUsedInv, RefType, SetAt
  <2>8. TraceBufferInv'
    <3> SUFFICES ASSUME NEW s \in 0 .. TRACE_SET - 1, NEW i \in 0 .. TRACE_QUEUE_SIZE - 1,
                        s < set_used \/ (s = set_used /\ i < pind + 1)
                 PROVE  TraceBuffer'[SetAt(s)][i] = (rdone - cind) + s * TRACE_QUEUE_SIZE + i + 1
      BY <2>3 DEF TraceBufferInv, SetAt
    <3>1. pset = SetAt(set_used) /\ rput + cind = rdone + set_used * TRACE_QUEUE_SIZE + pind
      BY <1>t DEF SetUsedInv
    <3>2. CASE s = set_used /\ i = pind
      <4>1. set_used * TRACE_QUEUE_SIZE \in Nat
        BY <1>t DEF RefType
      <4>2. rput + 1 = (rdone - cind) + set_used * TRACE_QUEUE_SIZE + pind + 1
        BY <1>t, <3>1, <4>1 DEF RefType
      <4>3. TraceBuffer'[pset][pind] = rput + 1
        BY <1>t, <2>3, <2>4 DEF RefType
      <4> QED
        BY <3>1, <3>2, <4>2, <4>3
    <3>3. CASE ~(s = set_used /\ i = pind)
      <4>1. s < set_used \/ (s = set_used /\ i < pind)
        BY <1>t, <3>3 DEF RefType
      <4>2. TraceBuffer[SetAt(s)][i] = (rdone - cind) + s * TRACE_QUEUE_SIZE + i + 1
        BY <1>t, <4>1 DEF TraceBufferInv
      <4>3. SetAt(s) \in 0 .. TRACE_SET - 1 /\ (SetAt(s) # pset \/ i # pind)
        BY <1>t, <2>4, <3>1, <4>1 DEF SetAt, RefType
      <4>4. TraceBuffer'[SetAt(s)][i] = TraceBuffer[SetAt(s)][i]
        BY <1>t, <2>3, <2>4, <4>3 DEF RefType
      <4> QED
        BY <4>2, <4>4
    <3> QED
      BY <3>2, <3>3
  <2> QED
    BY <1>u, <2>2, <2>5, <2>6, <2>7, <2>8 DEF IInv, RefInv, Types
<1>3. CASE FillLock
  <2>1. /\ todo["cpu"] = AfterFill /\ todo' = [todo EXCEPT !["cpu"] = AfterFillLock]
    BY <1>3, <1>t, PutAt, PutTodoFacts DEF FillLock, Done
  <2>2. TodoInv' /\ BranchInv' /\ todo'["cpu"] = AfterFillLock /\ SeenInv'
    BY <1>p, <2>1
  <2>3. /\ mutex_sync_cache = Free /\ mutex_sync_cache' = "cpu"
        /\ reg' = [reg EXCEPT !["cpu"] = set_used]
        /\ UNCHANGED <<TraceBuffer, pset, pind, cset, cind, set_used, rput, rdone>>
    BY <1>3 DEF FillLock
  <2>4. RegType' /\ RefType'
    BY <1>t, <2>3 DEF RegType, RefType
  <2>5. SetMutexInv'
    BY <1>t, <1>c, <2>2, <2>3 DEF SetMutexInv, RegType, Free
  <2>6. SetUsedInv' /\ TraceBufferInv'
    BY <1>t, <1>c, <2>1, <2>2, <2>3 DEF SetUsedInv, TraceBufferInv, SetAt
  <2> QED
    BY <1>u, <2>2, <2>4, <2>5, <2>6 DEF IInv, RefInv, Types
<1>4. CASE FillStore
  <2>1. /\ todo["cpu"] = AfterFillLock /\ todo' = [todo EXCEPT !["cpu"] = << >>]
    BY <1>4, <1>t, PutAt, PutTodoFacts DEF FillStore, Done
  <2>2. TodoInv' /\ BranchInv' /\ todo'["cpu"] = << >> /\ SeenInv'
    BY <1>p, <2>1
  <2>3. /\ set_used' = set_used + 1 /\ pind' = 0 /\ mutex_sync_cache' = Free
        /\ pind = TRACE_QUEUE_SIZE /\ set_used < TRACE_SET
        /\ UNCHANGED <<reg, TraceBuffer, cset, cind, rput, rdone>>
    BY <1>4, <1>t, <2>1 DEF FillStore, SetMutexInv, SetUsedInv
  <2>4. pset' = IF pset + 1 < TRACE_SET THEN pset + 1 ELSE 0
    BY <1>4, <1>t, ModNext DEF FillStore, RefType
  <2>5. RegType' /\ RefType'
    BY <1>t, <2>3, <2>4 DEF RegType, RefType
  <2>6. SetMutexInv'
    BY <1>t, <1>c, <1>d, <2>1, <2>2, <2>3 DEF SetMutexInv, Free, PutTodo
  <2>7. SetUsedInv'
    <3>1. /\ set_used' * TRACE_QUEUE_SIZE = set_used * TRACE_QUEUE_SIZE + TRACE_QUEUE_SIZE
          /\ set_used * TRACE_QUEUE_SIZE \in Nat
      BY <1>t, <2>3 DEF RefType
    <3>2. rput' + cind' = rdone' + set_used' * TRACE_QUEUE_SIZE + pind'
      BY <1>t, <2>3, <3>1 DEF SetUsedInv, RefType
    <3>3. pset' = SetAt(set_used)'
      <4>1. pset = SetAt(set_used)
        BY <1>t DEF SetUsedInv
      <4> QED
        BY <1>t, <2>3, <2>4, <4>1 DEF RefType, SetAt
    <3>4. ~(pind' = TRACE_QUEUE_SIZE) /\ todo'["cpu"] \notin {AfterFill, AfterFillLock}
      BY <1>d, <2>2, <2>3 DEF PutTodo
    <3> QED
      BY <1>t, <1>c, <2>3, <3>2, <3>3, <3>4 DEF SetUsedInv, RefType
  <2>8. TraceBufferInv'
    <3> SUFFICES ASSUME NEW s \in 0 .. TRACE_SET - 1, NEW i \in 0 .. TRACE_QUEUE_SIZE - 1,
                        s < set_used' \/ (s = set_used' /\ i < pind')
                 PROVE  TraceBuffer[SetAt(s)][i] = (rdone - cind) + s * TRACE_QUEUE_SIZE + i + 1
      BY <2>3 DEF TraceBufferInv, SetAt
    <3>1. s < set_used \/ (s = set_used /\ i < pind)
      BY <1>t, <2>3 DEF RefType
    <3> QED
      BY <1>t, <3>1 DEF TraceBufferInv
  <2> QED
    BY <1>u, <2>2, <2>5, <2>6, <2>7, <2>8 DEF IInv, RefInv, Types
<1> QED
  BY <1>1, <1>2, <1>3, <1>4

\* Starts, stops and reports preserve it, on either thread
\* (vpmu-device.c:4546-4730, SET.c:112-159).
LEMMA CallsIInv ==
    ASSUME IInv, NEW t \in Thread, NEW steps \in Seq(CallStep), Calls(t, steps)
    PROVE  IInv'
<1> USE VPMUAssumption
<1>t. ControlType /\ RegType /\ BranchType /\ RefType /\ WorkerType /\ TodoInv /\ SeenInv
  BY DEF IInv, Types
<1>1. /\ todo[t] = << >> /\ todo' = [todo EXCEPT ![t] = steps]
      /\ seen' = (IF t = "cpu" THEN {} ELSE seen)
      /\ calls < MaxCalls /\ calls' = calls + 1
      /\ UNCHANGED <<enabled, timing, data, bpc, cpc>>
  BY DEF Calls
<1>2. todo[t] \in Seq(CallStep)
  BY <1>1, EmptySeq
<1>3. TodoInv' /\ BranchInv' /\ RefInv'
  BY <1>1, <1>2, CallFrame
<1>4. ControlType'
  BY <1>t, <1>1 DEF ControlType
<1>5. RegType' /\ BranchType' /\ RefType' /\ WorkerType'
  BY <1>t, <1>1 DEF RegType, BranchType, RefType, WorkerType, data, branches, refs
<1>6. SeenInv'
  BY <1>t, <1>1 DEF SeenInv, TodoInv, Thread, data, branches, refs
<1> QED
  BY <1>3, <1>4, <1>5, <1>6 DEF IInv, Types

\* The steps that a start, a stop or a report consists of.
LEMMA CallSequences ==
    /\ <<"reset", "enable", "setup">> \in Seq(CallStep)
    /\ <<"reset", "SET_setup", "enable">> \in Seq(CallStep)
    /\ <<"disable", "sync", "predict", "sync", "report">> \in Seq(CallStep)
    /\ <<"predict", "sync", "report">> \in Seq(CallStep)
    /\ <<"sync">> \in Seq(CallStep)
  BY DEF CallStep

\* A step of a start, a stop or a report.
CallStepOf(t) == \/ Reset(t) \/ Enable(t) \/ Disable(t) \/ Setup(t) \/ Sync(t) \/ Drained(t)
                 \/ Predict(t) \/ Emptied(t) \/ Report(t)

\* Each of them preserves it.  What cpu has waited for stays as it was, because
\* nothing is put before its call ends (vpmu-device.c:2466-2480, 2806-2811).
LEMMA CallStepIInv ==
    ASSUME IInv, NEW t \in Thread, CallStepOf(t)
    PROVE  IInv'
<1> USE VPMUAssumption
<1>t. ControlType /\ RegType /\ BranchType /\ RefType /\ WorkerType /\ TodoInv /\ SeenInv
  BY DEF IInv, Types
<1>1. UNCHANGED <<data, calls>>
  BY DEF CallStepOf, Reset, Enable, Disable, Setup, Sync, Drained, Predict, Emptied, Report, control
<1>2. PICK step \in CallStep : Does(t, step)
  BY DEF CallStepOf, Reset, Enable, Disable, Setup, Sync, Drained, Predict, Emptied, Report, CallStep
<1>3. todo[t] \in Seq(CallStep) \ {<< >>} /\ Tail(todo[t]) \in Seq(CallStep)
  BY <1>t, <1>2, CallAt
<1>4. PICK s \in Seq(CallStep) : todo' = [todo EXCEPT ![t] = s]
  <2>1. /\ <<"drained">> \o Tail(todo[t]) \in Seq(CallStep)
        /\ <<"emptied">> \o Tail(todo[t]) \in Seq(CallStep)
    <3>1. <<"drained">> \in Seq(CallStep) /\ <<"emptied">> \in Seq(CallStep)
      BY DEF CallStep
    <3> QED
      BY <1>3, <3>1, ConcatProperties
  <2> QED
    BY <1>3, <2>1
       DEF CallStepOf, Reset, Enable, Disable, Setup, Sync, Drained, Predict, Emptied, Report, Done
<1>5. /\ bpc' = bpc \/ (bpc = "wait" /\ bpc' = "loop")
      /\ cpc' = cpc \/ (cpc = "wait" /\ cpc' = "loop")
  BY DEF CallStepOf, Reset, Enable, Disable, Setup, Sync, Drained, Predict, Emptied, Report
<1>6. TodoInv' /\ BranchInv' /\ RefInv'
  BY <1>1, <1>3, <1>4, <1>5, CallFrame
<1>7. RegType' /\ BranchType' /\ RefType' /\ WorkerType'
  <2>1. RegType'
    BY <1>t, <1>1 DEF RegType, data, branches, refs
  <2>2. BranchType'
    BY <1>t, <1>1 DEF BranchType, data, branches
  <2>3. RefType'
    BY <1>t, <1>1 DEF RefType, data, refs
  <2>4. WorkerType'
    BY <1>t, <1>5 DEF WorkerType
  <2> QED
    BY <2>1, <2>2, <2>3, <2>4
<1>8. ControlType'
  <2>1. timing' \in SUBSET {"branch", "cache"} /\ seen' \in SUBSET {"branch", "cache"}
    BY <1>t DEF ControlType, CallStepOf, Reset, Enable, Disable, Setup, Sync, Drained, Predict,
                Emptied, Report, control, Simulators
  <2>2. enabled' \in BOOLEAN
    BY <1>t DEF ControlType, CallStepOf, Reset, Enable, Disable, Setup, Sync, Drained, Predict,
                Emptied, Report, control
  <2> QED
    BY <1>t, <1>1, <2>1, <2>2 DEF ControlType
<1>9. SeenInv'
  <2>1. bsize' = bsize /\ set_used' = set_used
    BY <1>1 DEF data, branches, refs
  <2>2. /\ "branch" \in seen' => "branch" \in seen \/ bsize = 0
        /\ "cache" \in seen' => "cache" \in seen \/ set_used = 0
    BY DEF CallStepOf, Reset, Enable, Disable, Setup, Sync, Drained, Predict, Emptied, Report,
           control
  <2>3. CASE t = "cpu"
    BY <1>t, <1>3, <2>1, <2>2, <2>3 DEF SeenInv
  <2>4. CASE t = "ctrl"
    <3>1. todo'["cpu"] = todo["cpu"]
      BY <1>t, <1>4, <2>4 DEF TodoInv, Thread
    <3>2. seen' = seen
      BY <2>4 DEF CallStepOf, Reset, Enable, Disable, Setup, Sync, Drained, Predict, Emptied,
                  Report, control
    <3> QED
      BY <1>t, <2>1, <3>1, <3>2 DEF SeenInv
  <2> QED
    BY <2>3, <2>4 DEF Thread
<1> QED
  BY <1>6, <1>7, <1>8, <1>9 DEF IInv, Types

\* Every step preserves it.
LEMMA NextIInv == IInv /\ [Next]_vars => IInv'
<1> SUFFICES ASSUME IInv, [Next]_vars PROVE IInv'
  OBVIOUS
<1>1. CASE BranchThread \/ BranchSpurious
  BY <1>1, BranchThreadIInv
<1>2. CASE CacheThread \/ CacheSpurious
  BY <1>2, CacheThreadIInv
<1>3. CASE PutEvent \/ CacheRef
  BY <1>3, PutEventIInv, CacheRefIInv
<1>4. CASE DeviceStart \/ DeviceStop \/ DeviceReport \/ AskTime
  BY <1>4, CallsIInv, CallSequences DEF DeviceStart, DeviceStop, DeviceReport, AskTime, Thread
<1>5. ASSUME NEW t \in Thread, SETStart(t) \/ SETStop(t)
      PROVE  IInv'
  BY <1>5, CallsIInv, CallSequences DEF SETStart, SETStop
<1>6. ASSUME NEW t \in Thread, Step(t)
      PROVE  IInv'
  BY <1>6, CallStepIInv, PutEventIInv, CacheRefIInv DEF Step, CallStepOf
<1>7. CASE UNCHANGED vars
  <2>1. UNCHANGED <<control, todo, reg, branches, bpc, refs, cpc>>
    BY <1>7 DEF vars
  <2>2. BranchInv' /\ RefInv' /\ TodoInv'
    BY <2>1, BranchFrame, RefFrame DEF IInv, TodoInv, Traced, Advanced
  <2>3. SeenInv'
    BY <2>1 DEF IInv, SeenInv, control, branches, refs
  <2>4. Types'
    BY <2>1 DEF IInv, Types, ControlType, RegType, BranchType, RefType, WorkerType, control,
                branches, refs
  <2> QED
    BY <2>2, <2>3, <2>4 DEF IInv
<1> QED
  BY <1>1, <1>2, <1>3, <1>4, <1>5, <1>6, <1>7 DEF Next

\* So it holds in every reachable state.
LEMMA Invariant == Spec => []IInv
  BY InitIInv, NextIInv, PTL DEF Spec
-----------------------------------------------------------------------------
(* What follows from it. *)

\* The types of all variables: in particular the ring never holds more than
\* BRANCH_QUEUE_SIZE - 1 branches, no more sets than there are become full, and
\* neither counter underflows, whatever the two threads that change it do.
THEOREM TypeCorrect == Spec => []TypeOK
<1>1. IInv => TypeOK
  BY DEF IInv, Types, ControlType, RegType, BranchType, RefType, WorkerType, TypeOK
<1> QED
  BY <1>1, Invariant, PTL

\* branch_thread simulates every branch once, in the order in which put_event
\* was called, for every size of the ring.
THEOREM BranchesInOrder == Spec => []BranchInOrder
<1>1. ASSUME IInv PROVE BranchInOrder
  <2> SUFFICES ASSUME bpc = "take" PROVE BranchTrace[btail] = bdone + 1
    BY DEF BranchInOrder
  <2>1. bput - bdone > 0 /\ btail \in 0 .. BRANCH_QUEUE_SIZE - 1 /\ bdone \in Nat
    BY <1>1 DEF IInv, Types, BranchInv, BranchSizeInv, BranchType
  <2>2. BranchTrace[Entry(0)] = bdone + 1 + 0
    BY <1>1, <2>1, VPMUAssumption DEF IInv, Types, BranchType, BranchInv, BranchTraceInv
  <2>3. Entry(0) = btail
    BY <2>1, VPMUAssumption DEF Entry
  <2> QED
    BY <2>1, <2>2, <2>3
<1> QED
  BY <1>1, Invariant, PTL

\* dinero_thread simulates every reference once, in the order in which
\* cache_ref was called, for every number and size of the sets.
THEOREM ReferencesInOrder == Spec => []RefsInOrder
<1>1. ASSUME IInv PROVE RefsInOrder
  <2> SUFFICES ASSUME cpc = "take" PROVE TraceBuffer[cset][cind] = rdone + 1
    BY DEF RefsInOrder
  <2>1. set_used > 0 /\ cind < TRACE_QUEUE_SIZE
    BY <1>1 DEF IInv, RefInv, SetUsedInv
  <2>2. RefType
    BY <1>1 DEF IInv, Types
  <2>3. 0 \in 0 .. TRACE_SET - 1 /\ cind \in 0 .. TRACE_QUEUE_SIZE - 1
    BY <2>1, <2>2, VPMUAssumption DEF RefType
  <2>4. TraceBuffer[SetAt(0)][cind] = (rdone - cind) + 0 * TRACE_QUEUE_SIZE + cind + 1
    BY <1>1, <2>1, <2>3 DEF IInv, RefInv, TraceBufferInv
  <2>5. SetAt(0) = cset
    BY <2>2, VPMUAssumption DEF SetAt, RefType
  <2>6. (rdone - cind) + 0 * TRACE_QUEUE_SIZE + cind + 1 = rdone + 1
    BY <2>2, VPMUAssumption DEF RefType
  <2> QED
    BY <2>4, <2>5, <2>6
<1> QED
  BY <1>1, Invariant, PTL

\* A report that has waited for a worker counts everything that was put, but for
\* the references of one set that is not full.
THEOREM ReportsAreComplete == Spec => []ReportIsComplete
<1>1. ASSUME IInv PROVE ReportIsComplete
  <2> SUFFICES ASSUME Does("cpu", "report")
               PROVE  /\ "branch" \in seen => bdone = bput
                      /\ "cache" \in seen => rput - rdone < TRACE_QUEUE_SIZE
    BY DEF ReportIsComplete
  <2>1. todo["cpu"] \in Seq(CallStep) \ {<< >>} /\ todo["cpu"] \notin PutTodo
    BY <1>1, CallAt, CallFacts DEF IInv, CallStep, Thread
  <2>2. "branch" \in seen => bdone = bput
    BY <1>1, <2>1 DEF IInv, Types, SeenInv, BranchInv, BranchSizeInv, BranchType
  <2>3. ASSUME "cache" \in seen PROVE rput - rdone < TRACE_QUEUE_SIZE
    <3>1. set_used = 0
      BY <1>1, <2>1, <2>3 DEF IInv, SeenInv
    <3>2. cind = 0 /\ pind # TRACE_QUEUE_SIZE /\ rput + cind = rdone + 0 * TRACE_QUEUE_SIZE + pind
      BY <1>1, <2>1, <3>1 DEF IInv, RefInv, SetUsedInv, PutTodo
    <3> QED
      BY <1>1, <3>2, VPMUAssumption DEF IInv, Types, RefType
  <2> QED
    BY <2>2, <2>3
<1> QED
  BY <1>1, Invariant, PTL
=============================================================================
