--------------------------- MODULE SETTracer_proofs ---------------------------
(***************************************************************************)
(* Proofs about the tables, counters and files of the tracer, for any      *)
(* number of names, pids, processes and files, and processes that start    *)
(* and end in any order, up to the first damage.  Pids may collide in the  *)
(* hash table except where NoCollision is assumed.                         *)
(*                                                                         *)
(* The heap is a record of functions of records.  The first part says once *)
(* what each operator of the heap does to each field; the rest reads the   *)
(* heap through the operators below only.                                  *)
(***************************************************************************)
EXTENDS SETTracer, TLAPS, FiniteSetTheorems, InductionFacts

\* What a process, a counter and a file of the heap h hold.
State(h, p) == h.process[p].state
Kind(h, p) == h.process[p].type
PidOf(h, p) == h.process[p].pid
Counter(h, p) == h.process[p].tracing
Idx(h, p) == h.process[p].idx
HashPos(h, p) == h.process[p].hash_pos
Files(h, p) == h.process[p].files
Count(h, g) == h.count[g]
FileCount(h, f) == h.fcount[f]

\* p is the same in k as in h.
Same(k, h, p) ==
    /\ State(k, p) = State(h, p)
    /\ Kind(k, p) = Kind(h, p)
    /\ PidOf(k, p) = PidOf(h, p)
    /\ Counter(k, p) = Counter(h, p)
    /\ Idx(k, p) = Idx(h, p)
    /\ HashPos(k, p) = HashPos(h, p)
    /\ Files(k, p) = Files(h, p)

\* What is not of one process.
Shares(k, h) ==
    /\ k.processes = h.processes
    /\ k.mapped = h.mapped
    /\ k.counters = h.counters
    /\ k.files = h.files
    /\ k.count = h.count
    /\ k.fcount = h.fcount

\* SET_create_process: p is new.
IsCreated(k, h, p) ==
    /\ k \in Heap
    /\ \A q \in Process : q # p => Same(k, h, q)
    /\ p \in Process /\ p = h.processes + 1
    /\ State(k, p) = "live" /\ PidOf(k, p) = -1 /\ Counter(k, p) = p
    /\ Idx(k, p) = -1 /\ Files(k, p) = {}
    /\ k.processes = p
    /\ k.mapped = h.mapped
    /\ k.counters = h.counters \cup {p}
    /\ k.files = h.files
    /\ k.count = h.count
    /\ k.fcount = h.fcount

\* SET_attach_obj: p has mapped the new file f.
IsMapped(k, h, p, f) ==
    /\ k \in Heap
    /\ \A q \in Process : q # p => Same(k, h, q)
    /\ State(k, p) = State(h, p) /\ Kind(k, p) = Kind(h, p)
    /\ PidOf(k, p) = PidOf(h, p) /\ Counter(k, p) = Counter(h, p)
    /\ Idx(k, p) = Idx(h, p) /\ HashPos(k, p) = HashPos(h, p)
    /\ Files(k, p) = Files(h, p) \cup {f}
    /\ k.processes = h.processes
    /\ f \in File /\ f = h.mapped + 1 /\ k.mapped = f
    /\ k.counters = h.counters
    /\ k.files = h.files \cup {f}
    /\ k.count = h.count
    /\ FileCount(k, f) = 1
    /\ \A e \in File : e # f => FileCount(k, e) = FileCount(h, e)

\* SET_copy_process: n is a thread of p with the pid c.
IsCopied(k, h, p, c, n) ==
    /\ k \in Heap
    /\ \A q \in Process : q # n => Same(k, h, q)
    /\ n \in Process /\ n = h.processes + 1
    /\ State(k, n) = State(h, p) /\ Kind(k, n) = Kind(h, p)
    /\ PidOf(k, n) = c /\ Counter(k, n) = Counter(h, p)
    /\ Idx(k, n) = Idx(h, p) /\ HashPos(k, n) = HashPos(h, p)
    /\ Files(k, n) = Files(h, p)
    /\ k.processes = n
    /\ k.mapped = h.mapped
    /\ k.counters = h.counters
    /\ k.files = h.files
    /\ Count(k, Counter(h, p)) = Count(h, Counter(h, p)) + 1
    /\ \A g \in Process : g # Counter(h, p) => Count(k, g) = Count(h, g)
    /\ k.fcount = h.fcount

\* p is the last process that its counter counts.
IsLast(h, p) == Count(h, Counter(h, p)) - 1 < 1

\* SET_delete_process
IsDeleted(k, h, p) ==
    /\ k \in Heap
    /\ \A q \in Process : q # p => Same(k, h, q)
    /\ State(k, p) = "freed"
    /\ k.processes = h.processes
    /\ k.mapped = h.mapped
    /\ k.counters = IF IsLast(h, p) THEN h.counters \ {Counter(h, p)} ELSE h.counters
    /\ k.files = h.files \ {f \in Files(h, p) : IsLast(h, p) /\ FileCount(h, f) <= 1}
    /\ Count(k, Counter(h, p)) = IF IsLast(h, p) THEN 0 ELSE Count(h, Counter(h, p)) - 1
    /\ \A g \in Process : g # Counter(h, p) => Count(k, g) = Count(h, g)
    /\ \A f \in File : FileCount(k, f) =
           IF IsLast(h, p) /\ f \in Files(h, p) THEN FileCount(h, f) - 1 ELSE FileCount(h, f)

\* SET_attach_process: p has learnt its place in the table.
IsIdx(k, h, p, x) ==
    /\ k \in Heap
    /\ \A q \in Process : q # p => Same(k, h, q)
    /\ State(k, p) = State(h, p) /\ Kind(k, p) = Kind(h, p) /\ PidOf(k, p) = PidOf(h, p)
    /\ Counter(k, p) = Counter(h, p) /\ HashPos(k, p) = HashPos(h, p) /\ Files(k, p) = Files(h, p)
    /\ Idx(k, p) = x
    /\ Shares(k, h)

\* proc_insert: p has learnt its place in the hash table.
IsHashPos(k, h, p, x) ==
    /\ k \in Heap
    /\ \A q \in Process : q # p => Same(k, h, q)
    /\ State(k, p) = State(h, p) /\ Kind(k, p) = Kind(h, p) /\ PidOf(k, p) = PidOf(h, p)
    /\ Counter(k, p) = Counter(h, p) /\ Idx(k, p) = Idx(h, p) /\ Files(k, p) = Files(h, p)
    /\ HashPos(k, p) = x
    /\ Shares(k, h)

\* SET_start_tracing: p has learnt its pid, and its counter counts it.
IsStarted(k, h, p, x) ==
    /\ k \in Heap
    /\ \A q \in Process : q # p => Same(k, h, q)
    /\ State(k, p) = State(h, p) /\ Kind(k, p) = Kind(h, p)
    /\ Counter(k, p) = Counter(h, p) /\ Idx(k, p) = Idx(h, p)
    /\ HashPos(k, p) = HashPos(h, p) /\ Files(k, p) = Files(h, p)
    /\ PidOf(k, p) = x
    /\ k.processes = h.processes
    /\ k.mapped = h.mapped
    /\ k.counters = h.counters
    /\ k.files = h.files
    /\ Count(k, Counter(h, p)) = Count(h, Counter(h, p)) + 1
    /\ \A g \in Process : g # Counter(h, p) => Count(k, g) = Count(h, g)
    /\ k.fcount = h.fcount

\* SET_event_start_dalvik: p has taken the files of z over.
IsInherited(k, h, p, z) ==
    /\ k \in Heap
    /\ \A q \in Process : q # p => Same(k, h, q)
    /\ State(k, p) = State(h, p) /\ Kind(k, p) = Kind(h, p)
    /\ PidOf(k, p) = PidOf(h, p) /\ Counter(k, p) = Counter(h, p)
    /\ Idx(k, p) = Idx(h, p) /\ HashPos(k, p) = HashPos(h, p)
    /\ Files(k, p) = Files(h, z)
    /\ k.processes = h.processes
    /\ k.mapped = h.mapped
    /\ k.counters = h.counters
    /\ k.files = h.files
    /\ k.count = h.count
    /\ \A f \in File : FileCount(k, f) =
           IF f \in Files(h, z) THEN FileCount(h, f) + 1 ELSE FileCount(h, f)
---------------------------------------------------------------------------
(* The operators of the heap, field by field. *)

\* What the process of a heap are.
LEMMA ProcessTypes ==
    ASSUME NEW h \in Heap, NEW p \in Process
    PROVE  /\ h.process[p] \in SETProcess
           /\ State(h, p) \in {"unused", "live", "freed"}
           /\ PidOf(h, p) \in Pid \cup {-1}
           /\ Counter(h, p) \in {NULL} \cup Process
           /\ Idx(h, p) \in -1 .. MAX_PROC_TABLE_SIZE - 1
           /\ Files(h, p) \subseteq File
           /\ Count(h, p) \in Int
<1>1. h.process[p] \in SETProcess /\ Count(h, p) \in Int
  BY DEF Heap, Count
<1> QED
  BY <1>1 DEF SETProcess, State, PidOf, Counter, Idx, Files

\* What the record of a heap is.
LEMMA HeapRecord ==
    ASSUME NEW process, NEW count, NEW counters, NEW fcount, NEW files,
           NEW processes, NEW mapped, NEW k,
           k = [process |-> process, count |-> count, counters |-> counters,
                fcount |-> fcount, files |-> files, processes |-> processes,
                mapped |-> mapped]
    PROVE  /\ k.process = process /\ k.count = count /\ k.counters = counters
           /\ k.fcount = fcount /\ k.files = files
           /\ k.processes = processes /\ k.mapped = mapped
           /\ /\ process \in [Process -> SETProcess]
              /\ count \in [Process -> Int] /\ counters \in SUBSET Process
              /\ fcount \in [File -> Int] /\ files \in SUBSET File
              /\ processes \in Process /\ mapped \in 0 .. MaxFile
              => k \in Heap
  BY DEF Heap

\* SET_create_process
LEMMA CreatedFields ==
    ASSUME NEW h \in Heap, h.processes < MaxProcess,
           NEW n \in Name, NEW t \in SUBSET {"OUTPUT", "USER_C", "LIBRARY", "MMAP"},
           NEW k, k = Created(h, n, t), NEW p, p = h.processes + 1
    PROVE  IsCreated(k, h, p)
<1> DEFINE new == New(p, n, t)
<1>1. p \in Process
  BY SETAssumption DEF Heap, Process
<1>2. new \in SETProcess
  <2>1. -1 \in -1 .. MAX_PROC_TABLE_SIZE - 1
    BY SETAssumption
  <2> QED
    BY <1>1, <2>1 DEF SETProcess, New
<1>3. /\ k.process = [h.process EXCEPT ![p] = new]
      /\ k.processes = p /\ k.mapped = h.mapped
      /\ k.counters = h.counters \cup {p} /\ k.files = h.files
      /\ k.count = h.count /\ k.fcount = h.fcount
  BY DEF Heap, Created
<1>4. k \in Heap
  <2>1. k = [process |-> [h.process EXCEPT ![p] = new], count |-> h.count,
             counters |-> h.counters \cup {p}, fcount |-> h.fcount, files |-> h.files,
             processes |-> p, mapped |-> h.mapped]
    BY DEF Heap, Created
  <2>2. /\ h.counters \in SUBSET Process /\ h.files \in SUBSET File
        /\ h.process \in [Process -> SETProcess]
        /\ h.count \in [Process -> Int] /\ h.fcount \in [File -> Int]
        /\ h.processes \in Process /\ h.mapped \in 0 .. MaxFile
    BY DEF Heap
  <2> HIDE DEF new
  <2>3. [h.process EXCEPT ![p] = new] \in [Process -> SETProcess]
    BY <1>2, <2>2
  <2>4. h.counters \cup {p} \in SUBSET Process
    BY <1>1, <2>2
  <2> QED
    BY ONLY <1>1, <2>1, <2>2, <2>3, <2>4, HeapRecord
<1>5. k.process[p] = new /\ \A q \in Process : q # p => k.process[q] = h.process[q]
  BY <1>1, <1>3 DEF Heap
<1> QED
  BY <1>1, <1>3, <1>4, <1>5 DEF IsCreated, Same, State, Kind, PidOf, Counter, Idx, HashPos, Files, New

\* SET_create_obj and SET_attach_obj
LEMMA MappedFields ==
    ASSUME NEW h \in Heap, h.mapped < MaxFile, NEW p \in Process,
           NEW k, k = Mapped(h, p), NEW f, f = h.mapped + 1
    PROVE  IsMapped(k, h, p, f)
<1> DEFINE new == [h.process[p] EXCEPT !.files = @ \cup {f}]
<1>1. f \in File
  BY SETAssumption DEF Heap, File
<1>2. h.process[p] \in SETProcess
  BY DEF Heap
<1>3. new \in SETProcess
  BY <1>1, <1>2 DEF SETProcess
<1>4. /\ k.process = [h.process EXCEPT ![p] = new]
      /\ k.processes = h.processes /\ k.mapped = f
      /\ k.counters = h.counters /\ k.files = h.files \cup {f}
      /\ k.count = h.count /\ k.fcount = [h.fcount EXCEPT ![f] = 1]
  BY DEF Heap, Mapped
<1>5. k \in Heap
  <2>1. k = [process |-> [h.process EXCEPT ![p] = new], count |-> h.count,
             counters |-> h.counters, fcount |-> [h.fcount EXCEPT ![f] = 1],
             files |-> h.files \cup {f}, processes |-> h.processes, mapped |-> f]
    BY DEF Heap, Mapped
  <2>2. [h.process EXCEPT ![p] = new] \in [Process -> SETProcess]
    BY <1>3 DEF Heap
  <2>3. [h.fcount EXCEPT ![f] = 1] \in [File -> Int]
    BY <1>1 DEF Heap
  <2>4. h.files \cup {f} \in SUBSET File /\ f \in 0 .. MaxFile
    BY <1>1, SETAssumption DEF Heap, File
  <2> QED
    BY <2>1, <2>2, <2>3, <2>4 DEF Heap
<1>6. k.process[p] = new /\ \A q \in Process : q # p => k.process[q] = h.process[q]
  BY <1>4 DEF Heap
<1>7. /\ new.state = h.process[p].state /\ new.type = h.process[p].type
      /\ new.pid = h.process[p].pid /\ new.tracing = h.process[p].tracing
      /\ new.idx = h.process[p].idx /\ new.hash_pos = h.process[p].hash_pos
      /\ new.files = h.process[p].files \cup {f}
  BY <1>2 DEF SETProcess
<1>8. k.fcount[f] = 1 /\ \A e \in File : e # f => k.fcount[e] = h.fcount[e]
  BY <1>1, <1>4 DEF Heap
<1> HIDE DEF new
<1> QED
  BY <1>1, <1>4, <1>5, <1>6, <1>7, <1>8
  DEF IsMapped, Same, State, Kind, PidOf, Counter, Idx, HashPos, Files, FileCount

\* SET_copy_process
LEMMA CopiedFields ==
    ASSUME NEW h \in Heap, h.processes < MaxProcess, NEW p \in Process, NEW c \in Pid,
           Counter(h, p) \in Process,
           NEW k, k = Copied(h, p, c), NEW n, n = h.processes + 1
    PROVE  IsCopied(k, h, p, c, n)
<1> DEFINE new == [h.process[p] EXCEPT !.pid = c]
<1>1. n \in Process
  BY SETAssumption DEF Heap, Process
<1>2. h.process[p] \in SETProcess
  BY DEF Heap
<1>3. new \in SETProcess
  BY <1>1, <1>2 DEF SETProcess
<1>4. /\ k.process = [h.process EXCEPT ![n] = new]
      /\ k.processes = n /\ k.mapped = h.mapped
      /\ k.counters = h.counters /\ k.files = h.files
      /\ k.count = [h.count EXCEPT ![h.process[p].tracing] = @ + 1]
      /\ k.fcount = h.fcount
  BY DEF Heap, Copied
<1>5. k \in Heap
  <2> DEFINE counts == [h.count EXCEPT ![h.process[p].tracing] = @ + 1]
  <2>1. k = [process |-> [h.process EXCEPT ![n] = new], count |-> counts,
             counters |-> h.counters, fcount |-> h.fcount, files |-> h.files,
             processes |-> n, mapped |-> h.mapped]
    BY DEF Heap, Copied
  <2>2. [h.process EXCEPT ![n] = new] \in [Process -> SETProcess]
    BY <1>3 DEF Heap
  <2>3. counts \in [Process -> Int]
    BY DEF Heap, Counter
  <2> HIDE DEF counts
  <2> QED
    BY <1>1, <2>1, <2>2, <2>3 DEF Heap
<1>6. k.process[n] = new /\ \A q \in Process : q # n => k.process[q] = h.process[q]
  BY <1>1, <1>4 DEF Heap
<1>7. /\ new.state = h.process[p].state /\ new.type = h.process[p].type
      /\ new.pid = c /\ new.tracing = h.process[p].tracing
      /\ new.idx = h.process[p].idx /\ new.hash_pos = h.process[p].hash_pos
      /\ new.files = h.process[p].files
  BY <1>2 DEF SETProcess
<1>8. /\ Count(k, Counter(h, p)) = Count(h, Counter(h, p)) + 1
      /\ \A g \in Process : g # Counter(h, p) => Count(k, g) = Count(h, g)
  BY <1>4 DEF Heap, Count, Counter
<1> HIDE DEF new
<1> QED
  BY <1>1, <1>4, <1>5, <1>6, <1>7, <1>8
  DEF IsCopied, Same, State, Kind, PidOf, Counter, Idx, HashPos, Files

\* SET_delete_process
LEMMA DeletedFields ==
    ASSUME NEW h \in Heap, NEW p \in Process, Counter(h, p) \in Process,
           NEW k, k = Deleted(h, p)
    PROVE  IsDeleted(k, h, p)
<1> DEFINE g == h.process[p].tracing
           c == h.count[g] - 1
           fs == IF c < 1 THEN h.process[p].files ELSE {}
           counts == [h.count EXCEPT ![g] = IF c < 1 THEN 0 ELSE c]
           counters == IF c < 1 THEN h.counters \ {g} ELSE h.counters
           fcounts == [f \in File |-> IF f \in fs THEN h.fcount[f] - 1 ELSE h.fcount[f]]
           files == h.files \ {f \in fs : h.fcount[f] <= 1}
<1>1. k = [process |-> [h.process EXCEPT ![p] = Freed], count |-> counts,
           counters |-> counters, fcount |-> fcounts, files |-> files,
           processes |-> h.processes, mapped |-> h.mapped]
  BY DEF Heap, Deleted
<1>2. Freed \in SETProcess /\ Freed.state = "freed"
  <2>1. -1 \in -1 .. MAX_PROC_TABLE_SIZE - 1
    BY SETAssumption
  <2>2. Freed = [state |-> "freed", name |-> NoName, type |-> {}, pid |-> -1,
                 tracing |-> NULL, idx |-> -1, hash_pos |-> NoSlot, files |-> {}]
    BY DEF Freed, Unused
  <2> QED
    BY <2>1, <2>2 DEF SETProcess
<1>3. [h.process EXCEPT ![p] = Freed] \in [Process -> SETProcess]
  BY <1>2 DEF Heap
<1>4. g \in Process /\ c \in Int /\ h.count[g] \in Int
  BY DEF Counter, Heap
<1>5. counts \in [Process -> Int]
  <2> HIDE DEF g, c
  <2> QED
    BY <1>4 DEF Heap
<1>6. fcounts \in [File -> Int]
  <2> HIDE DEF fs
  <2> QED
    BY DEF Heap
<1>7. counters \subseteq Process /\ files \subseteq File
  <2> HIDE DEF g, c, fs
  <2> QED
    BY DEF Heap
<1>8. IsLast(h, p) <=> c < 1
  BY DEF Counter, Count, IsLast
<1>9. k \in Heap
  <2> HIDE DEF counts, counters, fcounts, files
  <2> QED
    BY <1>1, <1>3, <1>5, <1>6, <1>7 DEF Heap
<1>10. /\ k.process = [h.process EXCEPT ![p] = Freed]
       /\ k.processes = h.processes /\ k.mapped = h.mapped
       /\ k.counters = counters /\ k.files = files
       /\ k.count = counts /\ k.fcount = fcounts
  <2> HIDE DEF counts, counters, fcounts, files
  <2> QED
    BY <1>1
<1>11. k.process[p] = Freed /\ \A q \in Process : q # p => k.process[q] = h.process[q]
  BY <1>10 DEF Heap
<1>12. /\ Count(k, Counter(h, p)) = IF IsLast(h, p) THEN 0 ELSE Count(h, Counter(h, p)) - 1
       /\ \A d \in Process : d # Counter(h, p) => Count(k, d) = Count(h, d)
  <2>1. counts[g] = IF c < 1 THEN 0 ELSE c
    <3> HIDE DEF g, c
    <3> QED
      BY <1>4 DEF Heap
  <2>2. \A d \in Process : d # g => counts[d] = h.count[d]
    <3> HIDE DEF g, c
    <3> QED
      BY <1>4 DEF Heap
  <2> HIDE DEF counts
  <2> QED
    BY <1>8, <1>10, <2>1, <2>2 DEF Count, Counter
<1>13. \A f \in File : FileCount(k, f) =
          IF IsLast(h, p) /\ f \in Files(h, p) THEN FileCount(h, f) - 1 ELSE FileCount(h, f)
  <2> HIDE DEF c
  <2> QED
    BY <1>8, <1>10 DEF FileCount, Files
<1>14. k.counters = IF IsLast(h, p) THEN h.counters \ {Counter(h, p)} ELSE h.counters
  <2> HIDE DEF c
  <2> QED
    BY <1>8, <1>10 DEF Counter
<1>15. k.files = h.files \ {f \in Files(h, p) : IsLast(h, p) /\ FileCount(h, f) <= 1}
  <2> HIDE DEF c
  <2> QED
    BY <1>8, <1>10 DEF Files, FileCount
<1>16. State(k, p) = "freed" /\ \A q \in Process : q # p => Same(k, h, q)
  BY <1>2, <1>11 DEF Same, State, Kind, PidOf, Counter, Idx, HashPos, Files
<1> HIDE DEF counts, counters, fcounts, files
<1> QED
  BY <1>9, <1>10, <1>12, <1>13, <1>14, <1>15, <1>16 DEF IsDeleted

\* SET_attach_process: the process learns its place in the table.
LEMMA IdxFields ==
    ASSUME NEW h \in Heap, NEW p \in Process, NEW x \in -1 .. MAX_PROC_TABLE_SIZE - 1,
           NEW k, k = [h EXCEPT !.process[p].idx = x]
    PROVE  IsIdx(k, h, p, x)
<1> DEFINE r == h.process[p]
           new == [r EXCEPT !.idx = x]
<1>1. k = [process |-> [h.process EXCEPT ![p] = new], count |-> h.count,
           counters |-> h.counters, fcount |-> h.fcount, files |-> h.files,
           processes |-> h.processes, mapped |-> h.mapped]
  BY DEF Heap
<1>2. r \in SETProcess
  BY DEF Heap
<1> HIDE DEF r
<1>3. new \in SETProcess /\ new.idx = x
  BY <1>2 DEF SETProcess
<1>4. /\ new.state = r.state /\ new.type = r.type /\ new.pid = r.pid
      /\ new.tracing = r.tracing /\ new.hash_pos = r.hash_pos /\ new.files = r.files
  BY <1>2 DEF SETProcess
<1> HIDE DEF new
<1>5. [h.process EXCEPT ![p] = new] \in [Process -> SETProcess]
  BY <1>3 DEF Heap
<1>6. k \in Heap
  BY <1>1, <1>5 DEF Heap
<1>7. Shares(k, h) /\ k.process = [h.process EXCEPT ![p] = new]
  BY <1>1 DEF Shares
<1>8. k.process[p] = new /\ \A q \in Process : q # p => k.process[q] = h.process[q]
  BY <1>7 DEF Heap
<1> QED
  BY <1>3, <1>4, <1>6, <1>7, <1>8
  DEF IsIdx, Same, State, Kind, PidOf, Counter, Idx, HashPos, Files, r

\* proc_insert: the process learns its place in the hash table.
LEMMA HashPosFields ==
    ASSUME NEW h \in Heap, NEW p \in Process, NEW x \in Slot,
           NEW k, k = [h EXCEPT !.process[p].hash_pos = x]
    PROVE  IsHashPos(k, h, p, x)
<1> DEFINE r == h.process[p]
           new == [r EXCEPT !.hash_pos = x]
<1>1. k = [process |-> [h.process EXCEPT ![p] = new], count |-> h.count,
           counters |-> h.counters, fcount |-> h.fcount, files |-> h.files,
           processes |-> h.processes, mapped |-> h.mapped]
  BY DEF Heap
<1>2. r \in SETProcess
  BY DEF Heap
<1> HIDE DEF r
<1>3. new \in SETProcess /\ new.hash_pos = x
  BY <1>2 DEF SETProcess
<1>4. /\ new.state = r.state /\ new.type = r.type /\ new.pid = r.pid
      /\ new.tracing = r.tracing /\ new.idx = r.idx /\ new.files = r.files
  BY <1>2 DEF SETProcess
<1> HIDE DEF new
<1>5. [h.process EXCEPT ![p] = new] \in [Process -> SETProcess]
  BY <1>3 DEF Heap
<1>6. k \in Heap
  BY <1>1, <1>5 DEF Heap
<1>7. Shares(k, h) /\ k.process = [h.process EXCEPT ![p] = new]
  BY <1>1 DEF Shares
<1>8. k.process[p] = new /\ \A q \in Process : q # p => k.process[q] = h.process[q]
  BY <1>7 DEF Heap
<1> QED
  BY <1>3, <1>4, <1>6, <1>7, <1>8
  DEF IsHashPos, Same, State, Kind, PidOf, Counter, Idx, HashPos, Files, r

\* SET_start_tracing: the process learns its pid, and its counter counts it.
LEMMA PidFields ==
    ASSUME NEW h \in Heap, NEW p \in Process, NEW x \in Pid, Counter(h, p) \in Process,
           NEW k, k = [h EXCEPT !.process[p].pid = x, !.count[h.process[p].tracing] = @ + 1]
    PROVE  IsStarted(k, h, p, x)
<1> DEFINE r == h.process[p]
           new == [r EXCEPT !.pid = x]
           counts == [h.count EXCEPT ![r.tracing] = @ + 1]
<1>1. k = [process |-> [h.process EXCEPT ![p] = new], count |-> counts,
           counters |-> h.counters, fcount |-> h.fcount, files |-> h.files,
           processes |-> h.processes, mapped |-> h.mapped]
  BY DEF Heap
<1>2. r \in SETProcess /\ r.tracing \in Process
  BY DEF Heap, Counter
<1>3. counts \in [Process -> Int]
  BY DEF Heap, Counter
<1>4. /\ counts[Counter(h, p)] = Count(h, Counter(h, p)) + 1
      /\ \A g \in Process : g # Counter(h, p) => counts[g] = Count(h, g)
  BY DEF Heap, Counter, Count
<1> HIDE DEF r, counts
<1>5. new \in SETProcess /\ new.pid = x
  BY <1>2 DEF SETProcess
<1>6. /\ new.state = r.state /\ new.type = r.type /\ new.tracing = r.tracing
      /\ new.idx = r.idx /\ new.hash_pos = r.hash_pos /\ new.files = r.files
  BY <1>2 DEF SETProcess
<1> HIDE DEF new
<1>7. [h.process EXCEPT ![p] = new] \in [Process -> SETProcess]
  BY <1>5 DEF Heap
<1>8. k \in Heap
  <2>1. /\ h.counters \in SUBSET Process /\ h.files \in SUBSET File
        /\ h.process \in [Process -> SETProcess]
        /\ h.count \in [Process -> Int] /\ h.fcount \in [File -> Int]
        /\ h.processes \in Process /\ h.mapped \in 0 .. MaxFile
    BY DEF Heap
  <2> QED
    BY ONLY <1>1, <1>3, <1>7, <2>1, HeapRecord
<1>9. /\ k.process = [h.process EXCEPT ![p] = new] /\ k.count = counts
      /\ k.processes = h.processes /\ k.mapped = h.mapped
      /\ k.counters = h.counters /\ k.files = h.files /\ k.fcount = h.fcount
  BY ONLY <1>1, HeapRecord, Zenon
<1>10. k.process[p] = new /\ \A q \in Process : q # p => k.process[q] = h.process[q]
  BY <1>9 DEF Heap
<1>11. /\ Count(k, Counter(h, p)) = Count(h, Counter(h, p)) + 1
       /\ \A g \in Process : g # Counter(h, p) => Count(k, g) = Count(h, g)
  BY <1>4, <1>9 DEF Count
<1>12. /\ State(k, p) = State(h, p) /\ Kind(k, p) = Kind(h, p)
       /\ Counter(k, p) = Counter(h, p) /\ Idx(k, p) = Idx(h, p)
       /\ HashPos(k, p) = HashPos(h, p) /\ Files(k, p) = Files(h, p)
       /\ PidOf(k, p) = x
       /\ \A q \in Process : q # p => Same(k, h, q)
  BY <1>5, <1>6, <1>10 DEF Same, State, Kind, PidOf, Counter, Idx, HashPos, Files, r
<1> QED
  BY <1>8, <1>9, <1>11, <1>12 DEF IsStarted

\* SET_event_start_dalvik: the application takes the files of z over.
LEMMA InheritedFields ==
    ASSUME NEW h \in Heap, NEW p \in Process, NEW z \in Process,
           NEW k, k = [h EXCEPT !.process[p].files = h.process[z].files,
                                !.fcount = [f \in File |->
                                    IF f \in h.process[z].files THEN @[f] + 1 ELSE @[f]]]
    PROVE  IsInherited(k, h, p, z)
<1> DEFINE r == h.process[p]
           fs == h.process[z].files
           new == [r EXCEPT !.files = fs]
           fcounts == [f \in File |-> IF f \in fs THEN h.fcount[f] + 1 ELSE h.fcount[f]]
<1>1. k = [process |-> [h.process EXCEPT ![p] = new], count |-> h.count,
           counters |-> h.counters, fcount |-> fcounts, files |-> h.files,
           processes |-> h.processes, mapped |-> h.mapped]
  BY DEF Heap
<1>2. r \in SETProcess /\ h.process[z] \in SETProcess
  BY DEF Heap
<1>3. fs \in SUBSET File
  BY <1>2 DEF SETProcess
<1>4. fcounts \in [File -> Int]
  <2> HIDE DEF fs
  <2> QED
    BY DEF Heap
<1>5. \A f \in File : fcounts[f] =
          IF f \in Files(h, z) THEN FileCount(h, f) + 1 ELSE FileCount(h, f)
  BY DEF Files, FileCount
<1> HIDE DEF r, fs, fcounts
<1>6. new \in SETProcess /\ new.files = fs
  BY <1>2, <1>3 DEF SETProcess
<1>7. /\ new.state = r.state /\ new.type = r.type /\ new.tracing = r.tracing
      /\ new.idx = r.idx /\ new.hash_pos = r.hash_pos /\ new.pid = r.pid
  BY <1>2 DEF SETProcess
<1> HIDE DEF new
<1>8. [h.process EXCEPT ![p] = new] \in [Process -> SETProcess]
  BY <1>6 DEF Heap
<1>9. k \in Heap
  <2>1. /\ h.counters \in SUBSET Process /\ h.files \in SUBSET File
        /\ h.count \in [Process -> Int]
        /\ h.processes \in Process /\ h.mapped \in 0 .. MaxFile
    BY DEF Heap
  <2> QED
    BY ONLY <1>1, <1>4, <1>8, <2>1, HeapRecord
<1>10. /\ k.process = [h.process EXCEPT ![p] = new] /\ k.fcount = fcounts
       /\ k.processes = h.processes /\ k.mapped = h.mapped
       /\ k.counters = h.counters /\ k.files = h.files /\ k.count = h.count
  BY ONLY <1>1, HeapRecord, Zenon
<1>11. k.process[p] = new /\ \A q \in Process : q # p => k.process[q] = h.process[q]
  BY <1>10 DEF Heap
<1>12. \A f \in File : FileCount(k, f) =
           IF f \in Files(h, z) THEN FileCount(h, f) + 1 ELSE FileCount(h, f)
  BY <1>5, <1>10 DEF FileCount
<1>13. /\ State(k, p) = State(h, p) /\ Kind(k, p) = Kind(h, p)
       /\ PidOf(k, p) = PidOf(h, p) /\ Counter(k, p) = Counter(h, p)
       /\ Idx(k, p) = Idx(h, p) /\ HashPos(k, p) = HashPos(h, p)
       /\ Files(k, p) = Files(h, z)
       /\ \A q \in Process : q # p => Same(k, h, q)
  BY <1>6, <1>7, <1>11 DEF Same, State, Kind, PidOf, Counter, Idx, HashPos, Files, r, fs
<1> QED
  BY <1>9, <1>10, <1>12, <1>13 DEF IsInherited
---------------------------------------------------------------------------
(* The inductive invariant. *)

IsLive(h, p) == State(h, p) = "live"
IsTraced(h, p) == IsLive(h, p) /\ PidOf(h, p) # -1

\* The traced processes that share the counter g, and the counters of the
\* processes that have mapped f.
Group(h, g) == {p \in Process : IsTraced(h, p) /\ Counter(h, p) = g}
Holders(h, f) == {g \in Process :
    \E p \in Process : IsLive(h, p) /\ Counter(h, p) = g /\ f \in Files(h, p)}

\* Objects are allocated in order.
AllocInv(h) ==
    /\ \A p \in Process : p > h.processes => State(h, p) = "unused"
    /\ h.files \subseteq 1 .. h.mapped

\* A process has a counter that is not freed; one that is not traced shares it
\* with nobody, and a counter counts its group.
CounterInv(h) ==
    /\ \A p \in Process : IsLive(h, p) =>
           Counter(h, p) \in h.counters /\ Counter(h, p) <= h.processes
    /\ \A p, q \in Process : IsLive(h, p) /\ IsLive(h, q) /\ PidOf(h, p) = -1 =>
           Counter(h, p) = p /\ (Counter(h, q) = p => q = p)
    /\ \A g \in Process : Count(h, g) = Cardinality(Group(h, g))

\* A file counts at least the groups that have mapped it.
FileInv(h) ==
    /\ \A p \in Process : IsLive(h, p) => Files(h, p) \subseteq h.files
    /\ \A f \in File : FileCount(h, f) >= Cardinality(Holders(h, f))

\* The invariant of the heap.
HeapInv(h) == AllocInv(h) /\ CounterInv(h) /\ FileInv(h)

\* The process p of the place i: it knows its place, or has been moved down to
\* it.
EntryInv(h, p, i) ==
    /\ p \in Process /\ IsLive(h, p)
    /\ p \notin moved => Idx(h, p) = i
    /\ p \in moved => Idx(h, p) > i

\* The table, with the entry that the control thread is about to count, holds
\* live processes, each once and every traced one among them.  The process that
\* the control thread is about to attach is not there yet.
TableInv ==
    /\ \A i \in 0 .. Used - 1 : EntryInv(heap, procTable[i], i)
    /\ \A i, j \in 0 .. Used - 1 : procTable[i] = procTable[j] => i = j
    /\ \A p \in Process : IsTraced(heap, p) => \E i \in 0 .. procTableSize - 1 : procTable[i] = p
    /\ \A p \in moved : p <= heap.processes
    /\ ctrl.pc = "attach" =>
           /\ IsLive(heap, ctrl.process) /\ ctrl.process \notin moved
           /\ \A i \in 0 .. Used - 1 : procTable[i] # ctrl.process
    /\ ctrl.pc = "size" => procTable[procTableSize] = ctrl.process

\* What the control thread relies on, also after SET_exit.
CtrlInv ==
    /\ ctrl.pc = "attach" => ctrl.process \in Process
    /\ ctrl.pc = "size" => procTableSize < MAX_PROC_TABLE_SIZE

\* The hash table holds traced processes that know their place.
HashInv ==
    \A s \in 0 .. PROC_HASH_TABLE_SIZE - 1 : procHashTable[s] # NULL =>
        IsTraced(heap, procHashTable[s]) /\ HashPos(heap, procHashTable[s]) = s

\* The process that is traced is the one that runs.
RunningInv ==
    tracing_process # NULL =>
        IsTraced(heap, tracing_process)
        /\ (now_pid # 0 => PidOf(heap, tracing_process) = now_pid)

\* The inductive invariant.  After SET_exit only the types matter, and only a
\* program that executes again damages more than the table.
Inv ==
    /\ TypeOK
    /\ damage = "none" => CtrlInv
    /\ is_start /\ damage # "again" => HeapInv(heap) /\ HashInv /\ RunningInv
    /\ is_start /\ damage = "none" => TableInv

\* No two pids have the same place in the hash table.
NoCollision ==
    \A a, b \in Pid : a % PROC_HASH_TABLE_SIZE = b % PROC_HASH_TABLE_SIZE => a = b

\* Without collisions every traced process is found where its pid says, its
\* pid is of a guest process that has not exited, and it is the one that is
\* traced when it runs.
FoundInv ==
    is_start /\ damage # "again" => \A p \in Process : IsTraced(heap, p) =>
        /\ HashPos(heap, p) = PidOf(heap, p) % PROC_HASH_TABLE_SIZE
        /\ procHashTable[HashPos(heap, p)] = p
        /\ PidOf(heap, p) \in alive
        /\ PidOf(heap, p) = now_pid => tracing_process = p
---------------------------------------------------------------------------
(* What the operators of the heap preserve. *)

\* Groups and holders can be counted.
LEMMA SetsAreFinite ==
    ASSUME NEW h
    PROVE  /\ \A g : IsFiniteSet(Group(h, g))
           /\ \A f : IsFiniteSet(Holders(h, f))
<1>1. IsFiniteSet(Process)
  BY FS_Interval, SETAssumption DEF Process
<1>2. (\A g : Group(h, g) \subseteq Process) /\ (\A f : Holders(h, f) \subseteq Process)
  BY DEF Group, Holders
<1> QED
  BY <1>1, <1>2, FS_Subset

\* A live process has a counter.
LEMMA CounterOfLive ==
    ASSUME NEW h \in Heap, CounterInv(h), NEW p \in Process, IsLive(h, p)
    PROVE  Counter(h, p) \in Process
  BY DEF CounterInv, Heap

\* A new process is counted nowhere and has no file.
LEMMA CreatedInv ==
    ASSUME NEW h \in Heap, HeapInv(h), NEW k, NEW p, IsCreated(k, h, p)
    PROVE  HeapInv(k)
<1>0. h.processes \in Nat /\ p \in Process /\ p > h.processes
  BY DEF Heap, Process, IsCreated
<1>1. ~IsLive(h, p)
  BY <1>0 DEF HeapInv, AllocInv, IsLive
<1>2. \A q \in Process : IsTraced(k, q) <=> IsTraced(h, q)
  BY <1>1 DEF IsCreated, IsTraced, IsLive, Same
<1>3. \A g : Group(k, g) = Group(h, g)
  BY <1>1, <1>2 DEF IsCreated, Group, Same, IsTraced
<1>4. \A f : Holders(k, f) = Holders(h, f)
  BY <1>1 DEF IsCreated, Holders, Same, IsLive
<1>5. AllocInv(k)
  BY <1>0 DEF IsCreated, HeapInv, AllocInv, Same, Process
<1>6. CounterInv(k)
  <2>1. \A q \in Process : IsLive(k, q) =>
            Counter(k, q) \in k.counters /\ Counter(k, q) <= k.processes
    BY <1>0, CounterOfLive DEF IsCreated, HeapInv, CounterInv, Same, IsLive, Process
  <2>2. \A a, b \in Process : IsLive(k, a) /\ IsLive(k, b) /\ PidOf(k, a) = -1 =>
            Counter(k, a) = a /\ (Counter(k, b) = a => b = a)
    BY <1>0, <1>1, CounterOfLive DEF IsCreated, HeapInv, CounterInv, Same, IsLive, Process
  <2>3. \A g \in Process : Count(k, g) = Cardinality(Group(k, g))
    BY <1>3 DEF IsCreated, HeapInv, CounterInv, Count
  <2> QED
    BY <2>1, <2>2, <2>3 DEF CounterInv
<1>7. FileInv(k)
  <2>1. \A q \in Process : IsLive(k, q) => Files(k, q) \subseteq k.files
    BY DEF IsCreated, HeapInv, FileInv, Same, IsLive
  <2>2. \A f \in File : FileCount(k, f) >= Cardinality(Holders(k, f))
    BY <1>4 DEF IsCreated, HeapInv, FileInv, FileCount
  <2> QED
    BY <2>1, <2>2 DEF FileInv
<1> QED
  BY <1>5, <1>6, <1>7 DEF HeapInv

\* A set with two elements counts them.
LEMMA TwoElements ==
    ASSUME NEW S, IsFiniteSet(S), NEW a \in S, NEW b \in S, a # b
    PROVE  Cardinality(S) >= 2
<1>1. IsFiniteSet(S \ {a}) /\ Cardinality(S \ {a}) = Cardinality(S) - 1
  BY FS_RemoveElement
<1>2. Cardinality(S \ {a}) # 0
  BY <1>1, FS_EmptySet
<1> QED
  BY <1>1, <1>2, FS_CardinalityType

\* A new file is held by one group.
LEMMA MappedInv ==
    ASSUME NEW h \in Heap, HeapInv(h), NEW p \in Process, IsLive(h, p),
           NEW k, NEW f, IsMapped(k, h, p, f)
    PROVE  HeapInv(k)
<1>0. h.mapped \in Nat /\ f \in File /\ f > h.mapped
  BY DEF Heap, IsMapped
<1>1. \A q \in Process : /\ IsTraced(k, q) <=> IsTraced(h, q)
                         /\ IsLive(k, q) <=> IsLive(h, q)
                         /\ Counter(k, q) = Counter(h, q)
                         /\ PidOf(k, q) = PidOf(h, q)
  BY DEF IsMapped, IsTraced, IsLive, Same
<1>2. \A g : Group(k, g) = Group(h, g)
  BY <1>1 DEF Group
<1>3. AllocInv(k)
  BY <1>0 DEF IsMapped, HeapInv, AllocInv, Same
<1>4. CounterInv(k)
  <2>1. \A g \in Process : Count(k, g) = Cardinality(Group(k, g))
    BY <1>2 DEF IsMapped, HeapInv, CounterInv, Count
  <2>2. k.counters = h.counters /\ k.processes = h.processes /\ CounterInv(h)
    BY DEF IsMapped, HeapInv
  <2> QED
    BY <1>1, <2>1, <2>2 DEF CounterInv
<1>5. \A q \in Process : IsLive(h, q) => f \notin Files(h, q)
  BY <1>0 DEF HeapInv, FileInv, AllocInv
<1>6. \A e \in File : e # f => Holders(k, e) = Holders(h, e)
  BY <1>1 DEF IsMapped, Holders, Same
<1>7. Holders(k, f) \subseteq {Counter(h, p)}
  BY <1>1, <1>5 DEF IsMapped, Holders, Same
<1>8. Cardinality(Holders(k, f)) <= 1
  <2>1. IsFiniteSet({Counter(h, p)}) /\ Cardinality({Counter(h, p)}) = 1
    BY FS_Singleton
  <2> QED
    BY <1>7, <2>1, FS_Subset
<1>9. FileInv(k)
  <2>1. \A q \in Process : IsLive(k, q) => Files(k, q) \subseteq k.files
    BY <1>1 DEF IsMapped, HeapInv, FileInv, Same
  <2>2. ASSUME NEW e \in File
        PROVE  FileCount(k, e) >= Cardinality(Holders(k, e))
    <3>1. CASE e = f
      BY <3>1, <1>8, SetsAreFinite, FS_CardinalityType DEF IsMapped
    <3>2. CASE e # f
      BY <3>2, <1>6 DEF IsMapped, HeapInv, FileInv
    <3> QED
      BY <3>1, <3>2
  <2> QED
    BY <2>1, <2>2 DEF FileInv
<1> QED
  BY <1>3, <1>4, <1>9 DEF HeapInv

\* A thread joins the group of its process and holds no file that the group
\* does not hold.
LEMMA CopiedInv ==
    ASSUME NEW h \in Heap, HeapInv(h), NEW p \in Process, IsTraced(h, p), NEW c \in Pid,
           NEW k, NEW n, IsCopied(k, h, p, c, n)
    PROVE  HeapInv(k)
<1> DEFINE g0 == Counter(h, p)
<1>0. h.processes \in Nat /\ n \in Process /\ n > h.processes /\ c # -1
  <2>1. h.processes \in Nat /\ n \in Process /\ n > h.processes
    BY DEF Heap, Process, IsCopied
  <2>2. Pid \subseteq Nat
    BY SETAssumption
  <2> QED
    BY <2>1, <2>2
<1>1. ~IsLive(h, n) /\ IsLive(h, p) /\ p # n /\ g0 \in Process
  BY <1>0, CounterOfLive DEF HeapInv, AllocInv, IsLive, IsTraced
<1>2. IsTraced(k, n) /\ Counter(k, n) = g0 /\ Files(k, n) = Files(h, p) /\ IsLive(k, n)
  BY <1>0, <1>1 DEF IsCopied, IsTraced, IsLive
<1>3. \A q \in Process : q # n => /\ IsTraced(k, q) <=> IsTraced(h, q)
                                  /\ IsLive(k, q) <=> IsLive(h, q)
                                  /\ Counter(k, q) = Counter(h, q)
                                  /\ PidOf(k, q) = PidOf(h, q)
                                  /\ Files(k, q) = Files(h, q)
  BY DEF IsCopied, IsTraced, IsLive, Same
<1>4. \A g : g # g0 => Group(k, g) = Group(h, g)
  BY <1>1, <1>2, <1>3 DEF Group, IsTraced
<1>5. Group(k, g0) = Group(h, g0) \cup {n} /\ n \notin Group(h, g0)
  BY <1>0, <1>1, <1>2, <1>3 DEF Group, IsTraced
<1>6. Cardinality(Group(k, g0)) = Cardinality(Group(h, g0)) + 1
  BY <1>5, SetsAreFinite, FS_AddElement
<1>7. \A f : Holders(k, f) = Holders(h, f)
  <2> SUFFICES ASSUME NEW f, NEW g \in Process PROVE g \in Holders(k, f) <=> g \in Holders(h, f)
    BY DEF Holders
  <2> QED
    BY <1>0, <1>1, <1>2, <1>3 DEF Holders
<1>8. AllocInv(k)
  BY <1>0 DEF IsCopied, HeapInv, AllocInv, Same, Process
<1>9. CounterInv(k)
  <2>0. k.counters = h.counters /\ k.processes = n /\ CounterInv(h)
    BY DEF IsCopied, HeapInv
  <2>1. \A q \in Process : IsLive(k, q) =>
            Counter(k, q) \in k.counters /\ Counter(k, q) <= k.processes
    BY <1>0, <1>1, <1>2, <1>3, <2>0, CounterOfLive DEF CounterInv, Process
  <2>2. \A a, b \in Process : IsLive(k, a) /\ IsLive(k, b) /\ PidOf(k, a) = -1 =>
            Counter(k, a) = a /\ (Counter(k, b) = a => b = a)
    BY <1>0, <1>1, <1>2, <1>3, <2>0 DEF CounterInv, IsTraced
  <2>3. \A g \in Process : Count(k, g) = Cardinality(Group(k, g))
    BY <1>1, <1>4, <1>6 DEF IsCopied, HeapInv, CounterInv
  <2> QED
    BY <2>1, <2>2, <2>3 DEF CounterInv
<1>10. FileInv(k)
  <2>1. \A q \in Process : IsLive(k, q) => Files(k, q) \subseteq k.files
    BY <1>1, <1>2, <1>3 DEF IsCopied, HeapInv, FileInv
  <2>2. \A f \in File : FileCount(k, f) >= Cardinality(Holders(k, f))
    BY <1>7 DEF IsCopied, HeapInv, FileInv, FileCount
  <2> QED
    BY <2>1, <2>2 DEF FileInv
<1> QED
  BY <1>8, <1>9, <1>10 DEF HeapInv

\* A process that starts joins its own group.
LEMMA StartedInv ==
    ASSUME NEW h \in Heap, HeapInv(h), NEW p \in Process, IsLive(h, p), PidOf(h, p) = -1,
           NEW x \in Pid, NEW k, IsStarted(k, h, p, x)
    PROVE  HeapInv(k)
<1> DEFINE g0 == Counter(h, p)
<1>0. x # -1 /\ g0 \in Process
  BY SETAssumption, CounterOfLive DEF HeapInv
<1>1. \A q \in Process : /\ IsLive(k, q) <=> IsLive(h, q)
                         /\ Counter(k, q) = Counter(h, q)
                         /\ Files(k, q) = Files(h, q)
                         /\ q # p => PidOf(k, q) = PidOf(h, q)
  BY DEF IsStarted, IsLive, Same
<1>2. PidOf(k, p) # -1
  BY <1>0 DEF IsStarted
<1>3. \A g : g # g0 => Group(k, g) = Group(h, g)
  BY <1>1 DEF Group, IsTraced
<1>4. Group(k, g0) = Group(h, g0) \cup {p} /\ p \notin Group(h, g0)
  BY <1>1, <1>2 DEF Group, IsTraced
<1>5. Cardinality(Group(k, g0)) = Cardinality(Group(h, g0)) + 1
  BY <1>4, SetsAreFinite, FS_AddElement
<1>6. \A f : Holders(k, f) = Holders(h, f)
  BY <1>1 DEF Holders
<1>7. AllocInv(k)
  BY DEF IsStarted, HeapInv, AllocInv, Same, IsLive
<1>8. CounterInv(k)
  <2>0. k.counters = h.counters /\ k.processes = h.processes /\ CounterInv(h)
    BY DEF IsStarted, HeapInv
  <2>1. \A g \in Process : Count(k, g) = Cardinality(Group(k, g))
    BY <1>0, <1>3, <1>5 DEF IsStarted, HeapInv, CounterInv
  <2> QED
    BY <1>1, <1>2, <2>0, <2>1 DEF CounterInv
<1>9. FileInv(k)
  <2>1. \A q \in Process : IsLive(k, q) => Files(k, q) \subseteq k.files
    BY <1>1 DEF IsStarted, HeapInv, FileInv
  <2>2. \A f \in File : FileCount(k, f) >= Cardinality(Holders(k, f))
    BY <1>6 DEF IsStarted, HeapInv, FileInv, FileCount
  <2> QED
    BY <2>1, <2>2 DEF FileInv
<1> QED
  BY <1>7, <1>8, <1>9 DEF HeapInv

\* The last process that its counter counts shares it with no live process.
LEMMA LastIsAlone ==
    ASSUME NEW h \in Heap, CounterInv(h), NEW p \in Process, IsLive(h, p), IsLast(h, p),
           NEW q \in Process, IsLive(h, q), Counter(h, q) = Counter(h, p)
    PROVE  q = p
<1> SUFFICES ASSUME q # p PROVE FALSE
  OBVIOUS
<1>1. PidOf(h, p) # -1 /\ PidOf(h, q) # -1
  BY DEF CounterInv
<1>2. p \in Group(h, Counter(h, p)) /\ q \in Group(h, Counter(h, p))
  BY <1>1 DEF Group, IsTraced
<1>3. Cardinality(Group(h, Counter(h, p))) >= 2
  BY <1>2, SetsAreFinite, TwoElements
<1>4. Count(h, Counter(h, p)) = Cardinality(Group(h, Counter(h, p)))
  BY CounterOfLive DEF CounterInv
<1>5. Cardinality(Group(h, Counter(h, p))) \in Nat
  BY SetsAreFinite, FS_CardinalityType
<1> QED
  BY <1>3, <1>4, <1>5 DEF IsLast

\* A process that ends leaves its group; the last one frees what no other
\* group holds.
LEMMA DeletedInv ==
    ASSUME NEW h \in Heap, HeapInv(h), NEW p \in Process, IsLive(h, p),
           NEW k, IsDeleted(k, h, p)
    PROVE  HeapInv(k)
<1> DEFINE g0 == Counter(h, p)
<1>0. g0 \in Process /\ AllocInv(h) /\ CounterInv(h) /\ FileInv(h)
  BY CounterOfLive DEF HeapInv
<1>1. ~IsLive(k, p)
  BY DEF IsDeleted, IsLive
<1>2. \A q \in Process : q # p => /\ IsTraced(k, q) <=> IsTraced(h, q)
                                  /\ IsLive(k, q) <=> IsLive(h, q)
                                  /\ Counter(k, q) = Counter(h, q)
                                  /\ PidOf(k, q) = PidOf(h, q)
                                  /\ Files(k, q) = Files(h, q)
  BY DEF IsDeleted, IsTraced, IsLive, Same
<1>3. IsLast(h, p) => \A q \in Process : IsLive(k, q) => Counter(k, q) # g0
  BY <1>0, <1>1, <1>2, LastIsAlone
<1>4. AllocInv(k)
  BY <1>0 DEF IsDeleted, AllocInv, Same, IsLive
<1>5. \A g : g # g0 => Group(k, g) = Group(h, g)
  BY <1>1, <1>2 DEF Group, IsTraced
<1>6. Group(k, g0) = Group(h, g0) \ {p}
  BY <1>1, <1>2 DEF Group, IsTraced
<1>7. Count(k, g0) = Cardinality(Group(k, g0))
  <2>1. CASE IsLast(h, p)
    <3>1. Group(k, g0) = {}
      BY <1>3, <2>1 DEF Group, IsTraced
    <3> QED
      BY <2>1, <3>1, FS_EmptySet DEF IsDeleted
  <2>2. CASE ~IsLast(h, p)
    <3>1. Count(h, g0) = Cardinality(Group(h, g0))
      BY <1>0 DEF CounterInv
    <3>2. p \in Group(h, g0)
      <4>1. CASE PidOf(h, p) = -1
        <5>1. Group(h, g0) = {}
          BY <1>0, <4>1 DEF Group, IsTraced, CounterInv
        <5> QED
          BY <2>2, <3>1, <5>1, FS_EmptySet DEF IsLast
      <4>2. CASE PidOf(h, p) # -1
        BY <4>2 DEF Group, IsTraced
      <4> QED
        BY <4>1, <4>2
    <3>3. Cardinality(Group(h, g0) \ {p}) = Cardinality(Group(h, g0)) - 1
      BY <3>2, SetsAreFinite, FS_RemoveElement
    <3> QED
      BY <1>6, <2>2, <3>1, <3>3 DEF IsDeleted
  <2> QED
    BY <2>1, <2>2
<1>8. CounterInv(k)
  <2>1. \A q \in Process : IsLive(k, q) =>
            Counter(k, q) \in k.counters /\ Counter(k, q) <= k.processes
    BY <1>0, <1>1, <1>2, <1>3 DEF IsDeleted, CounterInv
  <2>2. \A a, b \in Process : IsLive(k, a) /\ IsLive(k, b) /\ PidOf(k, a) = -1 =>
            Counter(k, a) = a /\ (Counter(k, b) = a => b = a)
    BY <1>0, <1>1, <1>2 DEF CounterInv
  <2>3. \A g \in Process : Count(k, g) = Cardinality(Group(k, g))
    BY <1>0, <1>5, <1>7 DEF IsDeleted, CounterInv
  <2> QED
    BY <2>1, <2>2, <2>3 DEF CounterInv
<1>9. \A f : Holders(k, f) \subseteq Holders(h, f)
  BY <1>1, <1>2 DEF Holders
<1>10. ASSUME NEW f \in File, f \in Files(h, p), IsLast(h, p)
       PROVE  g0 \in Holders(h, f) /\ Holders(k, f) \subseteq Holders(h, f) \ {g0}
  <2>1. g0 \in Holders(h, f)
    BY <1>0, <1>10 DEF Holders
  <2>2. g0 \notin Holders(k, f)
    BY <1>3, <1>10 DEF Holders
  <2> QED
    BY <1>9, <2>1, <2>2
<1>11. \A f \in File : FileCount(k, f) >= Cardinality(Holders(k, f))
  <2> SUFFICES ASSUME NEW f \in File PROVE FileCount(k, f) >= Cardinality(Holders(k, f))
    OBVIOUS
  <2>0. /\ FileCount(h, f) >= Cardinality(Holders(h, f))
        /\ FileCount(h, f) \in Int
    BY <1>0 DEF FileInv, FileCount, Heap
  <2>1. CASE f \in Files(h, p) /\ IsLast(h, p)
    <3>1. /\ IsFiniteSet(Holders(h, f) \ {g0})
          /\ Cardinality(Holders(h, f) \ {g0}) = Cardinality(Holders(h, f)) - 1
      BY <1>10, <2>1, SetsAreFinite, FS_RemoveElement
    <3>2. Cardinality(Holders(k, f)) <= Cardinality(Holders(h, f) \ {g0})
      BY <1>10, <2>1, <3>1, FS_Subset
    <3>3. Cardinality(Holders(k, f)) \in Nat /\ Cardinality(Holders(h, f)) \in Nat
      BY SetsAreFinite, FS_CardinalityType
    <3>4. FileCount(k, f) = FileCount(h, f) - 1
      BY <2>1 DEF IsDeleted
    <3> QED
      BY <2>0, <3>1, <3>2, <3>3, <3>4
  <2>2. CASE ~(f \in Files(h, p) /\ IsLast(h, p))
    <3>1. Cardinality(Holders(k, f)) <= Cardinality(Holders(h, f))
      BY <1>9, SetsAreFinite, FS_Subset
    <3>2. Cardinality(Holders(k, f)) \in Nat /\ Cardinality(Holders(h, f)) \in Nat
      BY SetsAreFinite, FS_CardinalityType
    <3>3. FileCount(k, f) = FileCount(h, f)
      BY <2>2 DEF IsDeleted
    <3> QED
      BY <2>0, <3>1, <3>2, <3>3
  <2> QED
    BY <2>1, <2>2
<1>12. \A q \in Process : IsLive(k, q) => Files(k, q) \subseteq k.files
  <2> SUFFICES ASSUME NEW q \in Process, IsLive(k, q), NEW f \in Files(k, q)
               PROVE  f \in k.files
    OBVIOUS
  <2>1. q # p /\ IsLive(h, q) /\ f \in Files(h, q) /\ f \in h.files /\ f \in File
    BY <1>0, <1>1, <1>2 DEF FileInv, Heap
  <2>2. SUFFICES ASSUME f \in Files(h, p), IsLast(h, p), FileCount(h, f) <= 1 PROVE FALSE
    BY <2>1 DEF IsDeleted
  <2>3. g0 \in Holders(h, f)
    BY <1>10, <2>1, <2>2
  <2>4. Counter(h, q) \in Holders(h, f) /\ Counter(h, q) # g0
    BY <1>0, <1>2, <1>3, <2>1, <2>2, CounterOfLive DEF Holders
  <2>5. Cardinality(Holders(h, f)) >= 2
    BY <2>3, <2>4, SetsAreFinite, TwoElements
  <2>6. FileCount(h, f) >= Cardinality(Holders(h, f)) /\ FileCount(h, f) \in Int
    BY <1>0, <2>1 DEF FileInv, FileCount, Heap
  <2>7. Cardinality(Holders(h, f)) \in Nat
    BY SetsAreFinite, FS_CardinalityType
  <2> QED
    BY <2>2, <2>5, <2>6, <2>7
<1> QED
  BY <1>4, <1>8, <1>11, <1>12 DEF HeapInv, FileInv

\* An application counts the files that it takes over, and forgets its own.
LEMMA InheritedInv ==
    ASSUME NEW h \in Heap, HeapInv(h), NEW p \in Process, IsLive(h, p),
           NEW z \in Process, IsLive(h, z), NEW k, IsInherited(k, h, p, z)
    PROVE  HeapInv(k)
<1> DEFINE g0 == Counter(h, p)
<1>0. g0 \in Process /\ AllocInv(h) /\ CounterInv(h) /\ FileInv(h)
  BY CounterOfLive DEF HeapInv
<1>1. \A q \in Process : /\ IsTraced(k, q) <=> IsTraced(h, q)
                         /\ IsLive(k, q) <=> IsLive(h, q)
                         /\ Counter(k, q) = Counter(h, q)
                         /\ PidOf(k, q) = PidOf(h, q)
                         /\ q # p => Files(k, q) = Files(h, q)
  BY DEF IsInherited, IsTraced, IsLive, Same
<1>2. Files(k, p) = Files(h, z) /\ k.files = h.files
  BY DEF IsInherited
<1>3. \A g : Group(k, g) = Group(h, g)
  BY <1>1 DEF Group
<1>4. AllocInv(k)
  BY <1>0 DEF IsInherited, AllocInv, Same, IsLive
<1>5. CounterInv(k)
  <2>1. \A g \in Process : Count(k, g) = Cardinality(Group(k, g))
    BY <1>0, <1>3 DEF IsInherited, CounterInv, Count
  <2>2. k.counters = h.counters /\ k.processes = h.processes
    BY DEF IsInherited
  <2> QED
    BY <1>0, <1>1, <2>1, <2>2 DEF CounterInv
<1>6. \A f \in File : FileCount(k, f) >= Cardinality(Holders(k, f))
  <2> SUFFICES ASSUME NEW f \in File PROVE FileCount(k, f) >= Cardinality(Holders(k, f))
    OBVIOUS
  <2>0. /\ FileCount(h, f) >= Cardinality(Holders(h, f))
        /\ FileCount(h, f) \in Int
    BY <1>0 DEF FileInv, FileCount, Heap
  <2>1. Cardinality(Holders(k, f)) \in Nat /\ Cardinality(Holders(h, f)) \in Nat
    BY SetsAreFinite, FS_CardinalityType
  <2>2. CASE f \in Files(h, z)
    <3>1. Holders(k, f) \subseteq Holders(h, f) \cup {g0}
      BY <1>1 DEF Holders
    <3>2. /\ IsFiniteSet(Holders(h, f) \cup {g0})
          /\ Cardinality(Holders(h, f) \cup {g0}) <= Cardinality(Holders(h, f)) + 1
      <4> DEFINE S == Holders(h, f)
      <4>1. IsFiniteSet(S) /\ Cardinality(S) \in Nat
        BY <2>1, SetsAreFinite
      <4> HIDE DEF S
      <4>2. /\ IsFiniteSet(S \cup {g0})
            /\ \/ Cardinality(S \cup {g0}) = Cardinality(S)
               \/ Cardinality(S \cup {g0}) = Cardinality(S) + 1
        BY <4>1, FS_AddElement
      <4> QED
        BY <4>1, <4>2 DEF S
    <3>3. Cardinality(Holders(k, f)) <= Cardinality(Holders(h, f) \cup {g0})
      BY <3>1, <3>2, FS_Subset
    <3>4. FileCount(k, f) = FileCount(h, f) + 1
      BY <2>2 DEF IsInherited
    <3>5. Cardinality(Holders(h, f) \cup {g0}) \in Nat
      BY <3>2, FS_CardinalityType
    <3> QED
      BY <2>0, <2>1, <3>2, <3>3, <3>4, <3>5
  <2>3. CASE f \notin Files(h, z)
    <3>1. Holders(k, f) \subseteq Holders(h, f)
      BY <1>1, <1>2, <2>3 DEF Holders
    <3>2. Cardinality(Holders(k, f)) <= Cardinality(Holders(h, f))
      BY <3>1, SetsAreFinite, FS_Subset
    <3>3. FileCount(k, f) = FileCount(h, f)
      BY <2>3 DEF IsInherited
    <3> QED
      BY <2>0, <2>1, <3>2, <3>3
  <2> QED
    BY <2>2, <2>3
<1>7. \A q \in Process : IsLive(k, q) => Files(k, q) \subseteq k.files
  BY <1>0, <1>1, <1>2 DEF FileInv
<1> QED
  BY <1>4, <1>5, <1>6, <1>7 DEF HeapInv, FileInv

\* A place in a table is nothing to the counters and files.
LEMMA PlacedInv ==
    ASSUME NEW h \in Heap, HeapInv(h), NEW p \in Process, NEW k, NEW x,
           IsIdx(k, h, p, x) \/ IsHashPos(k, h, p, x)
    PROVE  HeapInv(k)
<1>0. AllocInv(h) /\ CounterInv(h) /\ FileInv(h) /\ Shares(k, h)
  BY DEF HeapInv, IsIdx, IsHashPos
<1>1. \A q \in Process : /\ State(k, q) = State(h, q)
                         /\ Counter(k, q) = Counter(h, q)
                         /\ PidOf(k, q) = PidOf(h, q)
                         /\ Files(k, q) = Files(h, q)
  BY DEF IsIdx, IsHashPos, Same
<1>2. (\A g : Group(k, g) = Group(h, g)) /\ (\A f : Holders(k, f) = Holders(h, f))
  BY <1>1 DEF Group, Holders, IsTraced, IsLive
<1>3. AllocInv(k)
  BY <1>0, <1>1 DEF AllocInv, Shares
<1>4. CounterInv(k)
  BY <1>0, <1>1, <1>2 DEF CounterInv, Shares, Count, IsLive
<1>5. FileInv(k)
  BY <1>0, <1>1, <1>2 DEF FileInv, Shares, FileCount, IsLive
<1> QED
  BY <1>3, <1>4, <1>5 DEF HeapInv
---------------------------------------------------------------------------
(* The tables. *)

\* The search by name ends in the table.
LEMMA FindsEntry ==
    ASSUME procTableSize \in Nat, NEW n, Find(n) # NULL
    PROVE  \E i \in 0 .. procTableSize - 1 : Find(n) = procTable[i]
<1> DEFINE at == {i \in 0 .. procTableSize - 1 : heap.process[procTable[i]].name = n}
<1>1. at # {} /\ Find(n) = procTable[Min(at)]
  BY DEF Find
<1>2. at \in SUBSET Nat /\ at \subseteq 0 .. procTableSize - 1
  OBVIOUS
<1> HIDE DEF at
<1>3. \E i \in at : \A j \in at : i <= j
  BY <1>1, <1>2, LeastNatural
<1>4. Min(at) \in at
  BY <1>3 DEF Min
<1> QED
  BY <1>1, <1>2, <1>4

\* Linear probing gets to every place.
LEMMA ProbesEverywhere ==
    ASSUME NEW N \in Nat, N > 0, NEW a \in Nat, NEW s \in 0 .. N - 1
    PROVE  \E k \in 0 .. N - 1 : (a + k) % N = s
<1> DEFINE m == a % N
           d == a \div N
<1>1. m \in 0 .. N - 1 /\ d \in Nat /\ a = N * d + m
  OBVIOUS
<1> HIDE DEF m, d
<1>2. CASE s >= m
  <2>1. s - m \in 0 .. N - 1 /\ a + (s - m) = N * d + s
    BY <1>1, <1>2
  <2>2. (N * d + s) % N = s
    BY <1>1
  <2> QED
    BY <2>1, <2>2
<1>3. CASE s < m
  <2>1. s - m + N \in 0 .. N - 1 /\ a + (s - m + N) = N * (d + 1) + s
    BY <1>1, <1>3
  <2>2. (N * (d + 1) + s) % N = s
    BY <1>1
  <2> QED
    BY <2>1, <2>2
<1> QED
  BY <1>1, <1>2, <1>3

\* The places in use are those of the table, or one more.
LEMMA UsedPlaces ==
    ASSUME TypeOK, CtrlInv
    PROVE  /\ procTableSize \in 0 .. MAX_PROC_TABLE_SIZE /\ MAX_PROC_TABLE_SIZE \in Nat
           /\ Used \in 0 .. MAX_PROC_TABLE_SIZE
           /\ ctrl.pc = "size" => Used = procTableSize + 1
           /\ ctrl.pc # "size" => Used = procTableSize
           /\ procTable \in [0 .. MAX_PROC_TABLE_SIZE -> {NULL} \cup Process]
  BY SETAssumption DEF TypeOK, CtrlInv, Used

\* Every traced process is in the table, which is smaller than the hash table.
LEMMA FreePlace ==
    ASSUME TypeOK, TableInv, HashInv
    PROVE  \E s \in 0 .. PROC_HASH_TABLE_SIZE - 1 : procHashTable[s] = NULL
<1> SUFFICES ASSUME \A s \in 0 .. PROC_HASH_TABLE_SIZE - 1 : procHashTable[s] # NULL
             PROVE  FALSE
  OBVIOUS
<1> DEFINE S == 0 .. PROC_HASH_TABLE_SIZE - 1
           T == 0 .. MAX_PROC_TABLE_SIZE - 1
           At(s) == CHOOSE i \in T : procTable[i] = procHashTable[s]
           F == [s \in S |-> At(s)]
<1>1. \A s \in S : procHashTable[s] \in Process
  BY SETAssumption DEF TypeOK, Slot
<1>2. ASSUME NEW s \in S
      PROVE  At(s) \in T /\ procTable[At(s)] = procHashTable[s] /\ HashPos(heap, procHashTable[s]) = s
  <2>1. IsTraced(heap, procHashTable[s]) /\ HashPos(heap, procHashTable[s]) = s
    BY DEF HashInv
  <2>2. PICK i \in 0 .. procTableSize - 1 : procTable[i] = procHashTable[s]
    BY <1>1, <2>1 DEF TableInv
  <2>3. i \in T
    BY <2>2, SETAssumption DEF TypeOK
  <2> QED
    BY <2>1, <2>2, <2>3
<1>3. F \in [S -> T] /\ \A s \in S : F[s] = At(s)
  BY <1>2
<1> HIDE DEF At
<1>4. /\ IsFiniteSet(S) /\ Cardinality(S) = PROC_HASH_TABLE_SIZE
      /\ IsFiniteSet(T) /\ Cardinality(T) = MAX_PROC_TABLE_SIZE
  <2>1. \A m \in Nat : m > 0 => IsFiniteSet(0 .. m - 1) /\ Cardinality(0 .. m - 1) = m
    <3> SUFFICES ASSUME NEW m \in Nat, m > 0
                 PROVE  IsFiniteSet(0 .. m - 1) /\ Cardinality(0 .. m - 1) = m
      OBVIOUS
    <3>1. 0 \in Int /\ m - 1 \in Int /\ ~(0 > m - 1) /\ (m - 1) - 0 + 1 = m
      OBVIOUS
    <3> QED
      BY <3>1, FS_Interval
  <2>2. /\ PROC_HASH_TABLE_SIZE \in Nat /\ PROC_HASH_TABLE_SIZE > 0
        /\ MAX_PROC_TABLE_SIZE \in Nat /\ MAX_PROC_TABLE_SIZE > 0
    BY SETAssumption
  <2> QED
    BY <2>1, <2>2
<1>5. Cardinality(T) < Cardinality(S)
  BY <1>4, SETAssumption
<1> HIDE DEF S, T
<1>6. \E x, y \in S : x # y /\ F[x] = F[y]
  <2> HIDE DEF F
  <2> QED
    BY <1>3, <1>4, <1>5, FS_PigeonHole
<1> QED
  BY <1>2, <1>3, <1>6

\* Where the search for a pid ends: at a free place or at this pid, and at the
\* first place it looks at if that is one of these.
LEMMA ProbeStops ==
    ASSUME NEW h, NEW pid \in Nat,
           \/ \E s \in 0 .. PROC_HASH_TABLE_SIZE - 1 : procHashTable[s] = NULL
           \/ PidOf(h, procHashTable[pid % PROC_HASH_TABLE_SIZE]) = pid
    PROVE  /\ Probe(h, pid) \in 0 .. PROC_HASH_TABLE_SIZE - 1
           /\ \/ procHashTable[Probe(h, pid)] = NULL
              \/ PidOf(h, procHashTable[Probe(h, pid)]) = pid
           /\ \/ procHashTable[pid % PROC_HASH_TABLE_SIZE] = NULL
              \/ PidOf(h, procHashTable[pid % PROC_HASH_TABLE_SIZE]) = pid
              => Probe(h, pid) = pid % PROC_HASH_TABLE_SIZE
<1> DEFINE N == PROC_HASH_TABLE_SIZE
           At(k) == (pid + k) % N
           Stop(k) == procHashTable[At(k)] = NULL \/ h.process[procHashTable[At(k)]].pid = pid
           W == {k \in 0 .. N - 1 : Stop(k)}
           Is(k) == Stop(k) /\ \A j \in 0 .. k - 1 : ~Stop(j)
           K == CHOOSE k \in 0 .. N - 1 : Is(k)
<1>0. N \in Nat /\ N > 0
  BY SETAssumption
<1>1. Probe(h, pid) = At(K)
  BY DEF Probe
<1>2. \A k \in 0 .. N - 1 : At(k) \in 0 .. N - 1
  BY <1>0
<1>3. At(0) = pid % N
  BY <1>0
<1>4. Stop(0) <=> \/ procHashTable[pid % N] = NULL
                  \/ PidOf(h, procHashTable[pid % N]) = pid
  BY <1>3 DEF PidOf
<1>5. W # {}
  <2>1. CASE \E s \in 0 .. N - 1 : procHashTable[s] = NULL
    <3>1. PICK s \in 0 .. N - 1 : procHashTable[s] = NULL
      BY <2>1
    <3>2. PICK k \in 0 .. N - 1 : At(k) = s
      BY <1>0, ProbesEverywhere
    <3> QED
      BY <3>1, <3>2
  <2>2. CASE Stop(0)
    BY <1>0, <2>2
  <2> QED
    BY <1>4, <2>1, <2>2
<1>6. \A k : Stop(k) => procHashTable[At(k)] = NULL \/ PidOf(h, procHashTable[At(k)]) = pid
  BY DEF PidOf
<1> HIDE DEF N, At, Stop
<1>7. W \in SUBSET Nat
  BY <1>0
<1>8. PICK k \in W : \A j \in W : k <= j
  BY <1>5, <1>7, LeastNatural
<1>9. k \in 0 .. N - 1 /\ Is(k)
  BY <1>0, <1>8
<1> HIDE DEF Is
<1>10. K \in 0 .. N - 1 /\ Is(K)
  BY <1>9
<1> HIDE DEF K
<1>11. Stop(K) /\ (Stop(0) => K = 0)
  BY <1>0, <1>10 DEF Is
<1> QED
  BY <1>1, <1>2, <1>3, <1>4, <1>6, <1>10, <1>11 DEF N
---------------------------------------------------------------------------
(* The first state. *)

\* SET_init
LEMMA InitFields ==
    ASSUME Init
    PROVE  /\ heap \in Heap
           /\ 1 \in Process /\ State(heap, 1) = "live" /\ Counter(heap, 1) = 1
           /\ Idx(heap, 1) = 0
           /\ \A p \in Process : PidOf(heap, p) = -1 /\ Files(heap, p) = {}
           /\ \A p \in Process : p # 1 => State(heap, p) = "unused"
           /\ \A p \in Process : Count(heap, p) = 0
           /\ \A f \in File : FileCount(heap, f) = 0
           /\ heap.counters = {1} /\ heap.files = {}
           /\ heap.processes = 1 /\ heap.mapped = 0
<1> DEFINE first == [New(1, "app_process", {"MMAP"}) EXCEPT !.idx = 0]
           processes == [p \in Process |-> IF p = 1 THEN first ELSE Unused]
<1>1. 1 \in Process /\ 0 \in 0 .. MaxFile
  BY SETAssumption DEF Process
<1>2. heap = [process |-> processes, count |-> [p \in Process |-> 0], counters |-> {1},
              fcount |-> [f \in File |-> 0], files |-> {}, processes |-> 1, mapped |-> 0]
  BY DEF Init
<1>3. -1 \in -1 .. MAX_PROC_TABLE_SIZE - 1 /\ 0 \in -1 .. MAX_PROC_TABLE_SIZE - 1
  BY SETAssumption
<1>4. first = [state |-> "live", name |-> "app_process", type |-> {"MMAP"}, pid |-> -1,
               tracing |-> 1, idx |-> 0, hash_pos |-> NoSlot, files |-> {}]
  BY DEF New
<1> HIDE DEF first
<1>5. first \in SETProcess
  BY <1>1, <1>3, <1>4, SETAssumption DEF SETProcess
<1>6. Unused \in SETProcess
  BY <1>3 DEF SETProcess, Unused
<1>7. processes \in [Process -> SETProcess]
  BY <1>5, <1>6
<1>8. processes[1] = first /\ \A p \in Process : p # 1 => processes[p] = Unused
  BY <1>1
<1> HIDE DEF processes
<1>9. /\ [p \in Process |-> 0] \in [Process -> Int] /\ [f \in File |-> 0] \in [File -> Int]
      /\ {1} \in SUBSET Process /\ {} \in SUBSET File
  BY <1>1
<1>10. /\ heap \in Heap /\ heap.process = processes
       /\ heap.count = [p \in Process |-> 0] /\ heap.fcount = [f \in File |-> 0]
       /\ heap.counters = {1} /\ heap.files = {}
       /\ heap.processes = 1 /\ heap.mapped = 0
  BY ONLY <1>1, <1>2, <1>7, <1>9, HeapRecord
<1>11. /\ State(heap, 1) = "live" /\ Counter(heap, 1) = 1
       /\ Idx(heap, 1) = 0 /\ PidOf(heap, 1) = -1 /\ Files(heap, 1) = {}
  BY <1>4, <1>8, <1>10 DEF State, Counter, Idx, PidOf, Files
<1>12. \A p \in Process : p # 1 =>
           State(heap, p) = "unused" /\ PidOf(heap, p) = -1 /\ Files(heap, p) = {}
  BY <1>8, <1>10 DEF State, PidOf, Files, Unused
<1>13. \A p \in Process : Count(heap, p) = 0
  BY <1>10 DEF Count
<1>14. \A f \in File : FileCount(heap, f) = 0
  BY <1>10 DEF FileCount
<1> QED
  BY <1>1, <1>10, <1>11, <1>12, <1>13, <1>14

\* SET_init leaves one process in the table, which is not traced.
LEMMA InitInv ==
    ASSUME Init
    PROVE  Inv
<1> USE InitFields
<1>0. 1 <= MAX_PROC_TABLE_SIZE /\ MAX_PROC_TABLE_SIZE \in Nat /\ PROC_HASH_TABLE_SIZE \in Nat
  BY SETAssumption
<1>1. TypeOK
  <2>1. ctrl \in [pc : {"accept", "attach", "size", "read"}, process : {NULL} \cup Process]
    BY DEF Init
  <2>2. procTable \in [0 .. MAX_PROC_TABLE_SIZE -> {NULL} \cup Process]
    BY <1>0 DEF Init
  <2>3. procHashTable \in [Slot -> {NULL} \cup Process]
    BY DEF Init
  <2>4. connects \in 0 .. MaxConnect
    BY SETAssumption DEF Init
  <2>5. is_start \in BOOLEAN /\ VPMU_enabled \in BOOLEAN /\ idled \in BOOLEAN
    BY DEF Init
  <2>6. /\ procTableSize \in 0 .. MAX_PROC_TABLE_SIZE
        /\ tracing_process \in {NULL} \cup Process
        /\ now_pid \in Pid \cup {0} /\ alive \subseteq Pid
    <3>1. procTableSize = 1 /\ tracing_process = NULL /\ now_pid = 0 /\ alive = {}
      BY DEF Init
    <3> QED
      BY <1>0, <3>1
  <2>7. model \in Model
    BY DEF Init, Model
  <2>8. moved \subseteq Process /\ damage \in Damage \cup {"none"}
    BY DEF Init
  <2> QED
    BY <2>1, <2>2, <2>3, <2>4, <2>5, <2>6, <2>7, <2>8 DEF TypeOK
<1>2. (\A g : Group(heap, g) = {}) /\ (\A f : Holders(heap, f) = {})
  BY DEF Group, Holders, IsTraced
<1>3. AllocInv(heap)
  BY DEF AllocInv, Process
<1>4. CounterInv(heap)
  BY <1>2, FS_EmptySet DEF CounterInv, IsLive
<1>5. FileInv(heap)
  BY <1>2, FS_EmptySet DEF FileInv, IsLive
<1>6. TableInv
  <2>1. /\ procTableSize = 1 /\ ctrl.pc = "accept" /\ moved = {}
        /\ procTable = [i \in 0 .. MAX_PROC_TABLE_SIZE |-> IF i = 0 THEN 1 ELSE NULL]
    BY DEF Init
  <2>2. procTable[0] = 1
    BY <1>0, <2>1
  <2> QED
    BY <2>1, <2>2 DEF TableInv, EntryInv, Used, IsTraced, IsLive
<1>7. HashInv
  <2>1. procHashTable = [i \in Slot |-> NULL]
    BY DEF Init
  <2> QED
    BY <1>0, <2>1 DEF HashInv, Slot
<1>8. RunningInv
  BY DEF Init, RunningInv
<1>9. CtrlInv
  BY DEF Init, CtrlInv
<1> QED
  BY <1>1, <1>3, <1>4, <1>5, <1>6, <1>7, <1>8, <1>9 DEF Inv, HeapInv
---------------------------------------------------------------------------
(* What keeps the table right. *)

\* The table stays right when it is not written, no process leaves the heap and
\* only a process of the table is traced.  The control thread may take up a new
\* process.
LEMMA TableKept ==
    ASSUME TypeOK, TableInv, heap' \in Heap, UNCHANGED table, moved' = moved,
           \/ ctrl' = ctrl
           \/ ctrl.pc # "size" /\ ctrl'.pc \in {"accept", "read"}
           \/ /\ ctrl.pc # "size" /\ ctrl'.pc = "attach"
              /\ IsLive(heap', ctrl'.process) /\ ctrl'.process \notin moved
              /\ \A i \in 0 .. procTableSize - 1 : procTable[i] # ctrl'.process,
           heap.processes <= heap'.processes,
           \A q \in Process : IsLive(heap, q) => IsLive(heap', q) /\ Idx(heap', q) = Idx(heap, q),
           \A q \in Process : IsTraced(heap', q) =>
               \E i \in 0 .. procTableSize - 1 : procTable[i] = q,
           ctrl'.pc = "attach" /\ ctrl' = ctrl => ctrl.process \in Process
    PROVE  TableInv'
<1>1. procTable' = procTable /\ procTableSize' = procTableSize
  BY DEF table
<1>2. Used' = Used
  BY <1>1 DEF Used
<1> DEFINE u == Used
<1>3. \A i \in 0 .. u - 1 : EntryInv(heap', procTable[i], i)
  BY DEF TableInv, EntryInv
<1>4. \A i \in 0 .. Used' - 1 : EntryInv(heap, procTable[i], i)'
  BY <1>1, <1>2, <1>3 DEF EntryInv
<1>5. \A i, j \in 0 .. Used' - 1 : procTable'[i] = procTable'[j] => i = j
  BY <1>1, <1>2 DEF TableInv
<1>6. \A p \in moved' : p <= heap'.processes
  <2>1. heap.processes \in Int /\ heap'.processes \in Int /\ moved \subseteq Int
    BY DEF TypeOK, Heap, Process
  <2> QED
    BY <2>1 DEF TableInv
<1>7. ctrl'.pc = "attach" =>
          /\ IsLive(heap', ctrl'.process) /\ ctrl'.process \notin moved'
          /\ \A i \in 0 .. Used' - 1 : procTable'[i] # ctrl'.process
  <2>1. CASE ctrl' = ctrl
    BY <1>1, <1>2, <2>1 DEF TableInv
  <2>2. CASE ctrl.pc # "size" /\ ctrl'.pc = "attach"
             /\ IsLive(heap', ctrl'.process) /\ ctrl'.process \notin moved
             /\ \A i \in 0 .. procTableSize - 1 : procTable[i] # ctrl'.process
    <3>1. Used = procTableSize
      BY <2>2 DEF Used
    <3> QED
      BY <1>1, <1>2, <2>2, <3>1
  <2> QED
    BY <2>1, <2>2
<1>8. ctrl'.pc = "size" => procTable'[procTableSize'] = ctrl'.process
  BY <1>1 DEF TableInv
<1> QED
  BY <1>1, <1>4, <1>5, <1>6, <1>7, <1>8 DEF TableInv

\* The table stays right when n comes behind its last entry, counted at once or
\* about to be counted by the control thread.
LEMMA Appended ==
    ASSUME TypeOK, TableInv, heap' \in Heap, moved' = moved, ctrl.pc # "size",
           NEW n \in Process, n \notin moved,
           IsLive(heap', n), Idx(heap', n) = procTableSize,
           procTable'[procTableSize] = n,
           \A i \in 0 .. procTableSize - 1 : procTable'[i] = procTable[i] /\ procTable[i] # n,
           \/ procTableSize' = procTableSize + 1 /\ ctrl' = ctrl
              /\ (ctrl.pc = "attach" => ctrl.process \in Process /\ ctrl.process # n)
           \/ procTableSize' = procTableSize /\ ctrl'.pc = "size" /\ ctrl'.process = n
              /\ ~IsTraced(heap', n),
           heap.processes <= heap'.processes,
           \A q \in Process : IsLive(heap, q) /\ q # n =>
               IsLive(heap', q) /\ Idx(heap', q) = Idx(heap, q),
           \A q \in Process : IsTraced(heap', q) => q = n \/ IsTraced(heap, q)
    PROVE  TableInv'
<1>0. procTableSize \in Nat /\ Used = procTableSize /\ Used' = procTableSize + 1
      /\ procTableSize' \in {procTableSize, procTableSize + 1}
  BY SETAssumption DEF TypeOK, Used
<1>1. \A i \in 0 .. procTableSize - 1 : EntryInv(heap', procTable[i], i)
  BY <1>0 DEF TableInv, EntryInv
<1>2. EntryInv(heap', n, procTableSize)
  BY DEF EntryInv
<1>3. \A i \in 0 .. procTableSize : i = procTableSize \/ i \in 0 .. procTableSize - 1
  BY <1>0
<1>4. \A i \in 0 .. procTableSize : EntryInv(heap', procTable'[i], i)
  BY <1>1, <1>2, <1>3
<1>5. \A i \in 0 .. Used' - 1 : EntryInv(heap, procTable[i], i)'
  BY <1>0, <1>4 DEF EntryInv
<1>6. \A i, j \in 0 .. Used' - 1 : procTable'[i] = procTable'[j] => i = j
  BY <1>0, <1>3 DEF TableInv
<1>7. \A p \in moved' : p <= heap'.processes
  <2>1. heap.processes \in Int /\ heap'.processes \in Int /\ moved \subseteq Int
    BY DEF TypeOK, Heap, Process
  <2> QED
    BY <2>1 DEF TableInv
<1>11. \A i \in 0 .. procTableSize - 1 : i \in 0 .. procTableSize' - 1
  <2>1. procTableSize' = procTableSize \/ procTableSize' = procTableSize + 1
    BY <1>0
  <2>2. procTableSize \in Nat
    BY <1>0
  <2> QED
    BY ONLY <2>1, <2>2
<1>8. ASSUME NEW q \in Process, IsTraced(heap', q)
      PROVE  \E i \in 0 .. procTableSize' - 1 : procTable'[i] = q
  <2>1. CASE q = n
    BY <1>0, <1>8, <2>1
  <2>2. CASE q # n
    <3>1. PICK i \in 0 .. procTableSize - 1 : procTable[i] = q
      BY <1>8, <2>2 DEF TableInv
    <3>2. procTable'[i] = q
      BY <3>1
    <3> QED
      BY <1>11, <3>2
  <2> QED
    BY <2>1, <2>2
<1>9. ctrl'.pc = "attach" =>
          /\ IsLive(heap', ctrl'.process) /\ ctrl'.process \notin moved'
          /\ \A i \in 0 .. Used' - 1 : procTable'[i] # ctrl'.process
  BY <1>0, <1>3 DEF TableInv
<1>10. ctrl'.pc = "size" => procTable'[procTableSize'] = ctrl'.process
  OBVIOUS
<1> QED
  BY <1>5, <1>6, <1>7, <1>8, <1>9, <1>10 DEF TableInv
---------------------------------------------------------------------------
(* Steps that leave the heap alone. *)

\* The search for the pid that runs ends at a process with this pid, if at any.
LEMMA SwitchStep ==
    ASSUME Inv, damage = "none", NEW p \in Pid \cup {0}, Switch(p)
    PROVE  Inv'
<1> DEFINE s == Probe(heap, p)
<1>0. is_start /\ TypeOK /\ HeapInv(heap) /\ TableInv /\ HashInv /\ RunningInv /\ CtrlInv
  BY DEF Inv, Switch
<1>1. /\ is_start' = is_start /\ heap' = heap /\ procTable' = procTable
      /\ procTableSize' = procTableSize /\ procHashTable' = procHashTable
      /\ model' = model /\ VPMU_enabled' = VPMU_enabled /\ ctrl' = ctrl
      /\ connects' = connects /\ now_pid' = p
      /\ alive' = alive \cup ({p} \ {0}) /\ idled' = (idled \/ p = 0)
      /\ moved' = moved /\ damage' = damage
      /\ \/ p = 0 /\ tracing_process' = tracing_process
         \/ tracing_process' = procHashTable[s]
  BY DEF Switch, table, profile, user, history
<1>2. /\ s \in 0 .. PROC_HASH_TABLE_SIZE - 1
      /\ procHashTable[s] = NULL \/ PidOf(heap, procHashTable[s]) = p
  BY <1>0, FreePlace, ProbeStops, SETAssumption
<1> HIDE DEF s
<1>3. procHashTable[s] \in {NULL} \cup Process
  BY <1>0, <1>2, SETAssumption DEF TypeOK, Slot
<1>4. TypeOK'
  <2>1. tracing_process' \in {NULL} \cup Process /\ now_pid' \in Pid \cup {0}
    BY <1>0, <1>1, <1>3 DEF TypeOK
  <2>2. alive' \subseteq Pid
    BY <1>0, <1>1 DEF TypeOK
  <2>3. idled' \in BOOLEAN
    BY <1>1
  <2> QED
    BY <1>0, <1>1, <2>1, <2>2, <2>3 DEF TypeOK
<1>5. TableInv' /\ CtrlInv'
  BY <1>0, <1>1 DEF TableInv, EntryInv, Used, CtrlInv
<1>6. HashInv'
  BY <1>0, <1>1 DEF HashInv
<1>7. RunningInv'
  BY <1>0, <1>1, <1>2 DEF RunningInv, HashInv
<1> QED
  BY <1>0, <1>1, <1>4, <1>5, <1>6, <1>7 DEF Inv

\* Steps that change neither a table nor what is traced.
LEMMA QuietStep ==
    ASSUME Inv, damage = "none", TypeOK',
           UNCHANGED <<is_start, heap, table, tracing, now_pid, history>>,
           ctrl' = ctrl \/ (ctrl.pc # "size" /\ ctrl'.pc \in {"accept", "read"})
    PROVE  Inv'
<1>0. TypeOK /\ CtrlInv
      /\ (is_start => HeapInv(heap) /\ TableInv /\ HashInv /\ RunningInv)
  BY DEF Inv
<1>1. /\ is_start' = is_start /\ heap' = heap /\ procTable' = procTable
      /\ procTableSize' = procTableSize /\ procHashTable' = procHashTable
      /\ tracing_process' = tracing_process /\ now_pid' = now_pid
      /\ moved' = moved /\ damage' = damage
  BY DEF table, tracing, history
<1>2. CtrlInv'
  BY <1>0, <1>1 DEF CtrlInv
<1>3. is_start => TableInv'
  <2> SUFFICES ASSUME is_start PROVE TableInv'
    OBVIOUS
  <2>1. heap.processes <= heap'.processes /\ heap' \in Heap
    BY <1>0, <1>1 DEF TypeOK, Heap, Process
  <2> QED
    BY <1>0, <1>1, <2>1, TableKept DEF TableInv, CtrlInv, table
<1>4. is_start => HashInv' /\ RunningInv'
  BY <1>0, <1>1 DEF HashInv, RunningInv
<1> QED
  BY <1>0, <1>1, <1>2, <1>3, <1>4 DEF Inv

\* The device register of the timing model changes no table.
LEMMA DeviceModelStep ==
    ASSUME Inv, damage = "none", NEW m \in TimingModel, DeviceModel(m)
    PROVE  Inv'
<1>1. /\ TypeOK
      /\ is_start' = is_start /\ heap' = heap /\ procTable' = procTable
      /\ procTableSize' = procTableSize /\ procHashTable' = procHashTable
      /\ tracing_process' = tracing_process
      /\ model' = m /\ VPMU_enabled' = VPMU_enabled /\ ctrl' = ctrl
      /\ connects' = connects /\ now_pid' = now_pid /\ alive' = alive /\ idled' = idled
      /\ moved' = moved /\ damage' = damage
  BY DEF Inv, DeviceModel, table, tracing, kernel, user, history
<1>2. model' \in Model
  BY <1>1, SETAssumption DEF Model
<1>3. TypeOK'
  BY <1>1, <1>2 DEF TypeOK
<1> QED
  BY <1>1, <1>3, QuietStep DEF table, tracing, history

\* The exit of a process that is not traced changes no table.
LEMMA ExitUntracedStep ==
    ASSUME Inv, damage = "none", ExitUntraced
    PROVE  Inv'
<1>1. /\ TypeOK
      /\ is_start' = is_start /\ heap' = heap /\ procTable' = procTable
      /\ procTableSize' = procTableSize /\ procHashTable' = procHashTable
      /\ tracing_process' = tracing_process
      /\ model' = model /\ VPMU_enabled' = VPMU_enabled /\ ctrl' = ctrl
      /\ connects' = connects /\ now_pid' = now_pid /\ alive' = alive \ {now_pid}
      /\ idled' = idled /\ moved' = moved /\ damage' = damage
  BY DEF Inv, ExitUntraced, table, tracing, profile, user, history
<1>2. TypeOK'
  BY <1>1 DEF TypeOK
<1> QED
  BY <1>1, <1>2, QuietStep DEF table, tracing, history

\* The end of a connection changes no table.
LEMMA CtrlStopStep ==
    ASSUME Inv, damage = "none", NEW stop \in BOOLEAN, CtrlStop(stop)
    PROVE  Inv'
<1>1. /\ TypeOK
      /\ is_start' = is_start /\ heap' = heap /\ procTable' = procTable
      /\ procTableSize' = procTableSize /\ procHashTable' = procHashTable
      /\ tracing_process' = tracing_process
      /\ model' = model /\ VPMU_enabled' = (VPMU_enabled /\ ~stop)
      /\ ctrl.pc = "read" /\ ctrl' = [pc |-> "accept", process |-> NULL]
      /\ connects' = connects /\ now_pid' = now_pid /\ alive' = alive
      /\ idled' = idled /\ moved' = moved /\ damage' = damage
  BY DEF Inv, CtrlStop, table, tracing, kernel, history
<1>2. VPMU_enabled' \in BOOLEAN
  BY <1>1
<1>3. /\ ctrl' \in [pc : {"accept", "attach", "size", "read"}, process : {NULL} \cup Process]
      /\ ctrl'.pc = "accept"
  BY <1>1
<1>4. TypeOK'
  BY <1>1, <1>2, <1>3 DEF TypeOK
<1> QED
  BY <1>1, <1>3, <1>4, QuietStep DEF table, tracing, history

\* The table grows by the process that is already in its place.
LEMMA CtrlSizeStep ==
    ASSUME Inv, damage = "none", CtrlSize
    PROVE  Inv'
<1>0. TypeOK /\ CtrlInv
      /\ (is_start => HeapInv(heap) /\ TableInv /\ HashInv /\ RunningInv)
  BY DEF Inv
<1>1. /\ is_start' = is_start /\ heap' = heap /\ procTable' = procTable
      /\ procTableSize' = procTableSize + 1 /\ procHashTable' = procHashTable
      /\ tracing_process' = tracing_process
      /\ model' = model /\ VPMU_enabled' = VPMU_enabled
      /\ ctrl.pc = "size" /\ ctrl' = [ctrl EXCEPT !.pc = "read"]
      /\ connects' = connects /\ now_pid' = now_pid /\ alive' = alive
      /\ idled' = idled /\ moved' = moved /\ damage' = damage
  BY DEF CtrlSize, tracing, kernel, profile, history
<1>2. ctrl \in [pc : {"accept", "attach", "size", "read"}, process : {NULL} \cup Process]
  BY <1>0 DEF TypeOK
<1>3. /\ ctrl' \in [pc : {"accept", "attach", "size", "read"}, process : {NULL} \cup Process]
      /\ ctrl'.pc = "read"
  BY <1>1, <1>2
<1>4. procTableSize \in Nat /\ procTableSize < MAX_PROC_TABLE_SIZE
  BY <1>0, <1>1, SETAssumption DEF TypeOK, CtrlInv
<1>5. TypeOK'
  <2>1. procTableSize' \in 0 .. MAX_PROC_TABLE_SIZE
    BY <1>1, <1>4, SETAssumption
  <2> QED
    BY <1>0, <1>1, <1>3, <2>1 DEF TypeOK
<1>6. CtrlInv'
  BY <1>3 DEF CtrlInv
<1>7. is_start => TableInv'
  <2>1. Used = procTableSize + 1 /\ Used' = Used
    BY <1>1, <1>3 DEF Used
  <2>2. \A i \in 0 .. procTableSize - 1 : i \in 0 .. procTableSize' - 1
    BY <1>1, <1>4
  <2> QED
    BY <1>0, <1>1, <1>3, <2>1, <2>2 DEF TableInv, EntryInv
<1>8. is_start => HashInv' /\ RunningInv'
  BY <1>0, <1>1 DEF HashInv, RunningInv
<1> QED
  BY <1>0, <1>1, <1>5, <1>6, <1>7, <1>8 DEF Inv
---------------------------------------------------------------------------
(* Steps that trace no other process than before. *)


\* The processes of h are what they were, as far as the tables go.
Keeps(k, h) ==
    \A q \in Process :
        /\ IsLive(h, q) => /\ State(k, q) = State(h, q)
                           /\ Kind(k, q) = Kind(h, q)
                           /\ PidOf(k, q) = PidOf(h, q)
                           /\ HashPos(k, q) = HashPos(h, q)
        /\ IsTraced(k, q) => IsTraced(h, q)

\* What the hash table and set.tracing_process say stays true of processes that
\* are what they were.
LEMMA KeptTracing ==
    ASSUME TypeOK, HashInv, RunningInv, Keeps(heap', heap), UNCHANGED <<tracing, now_pid>>
    PROVE  HashInv' /\ RunningInv'
<1>1. procHashTable' = procHashTable /\ tracing_process' = tracing_process /\ now_pid' = now_pid
  BY DEF tracing
<1>2. \A q \in Process : IsTraced(heap, q) =>
          /\ IsTraced(heap', q)
          /\ HashPos(heap', q) = HashPos(heap, q)
          /\ PidOf(heap', q) = PidOf(heap, q)
  BY DEF Keeps, IsTraced, IsLive
<1>3. HashInv'
  <2> SUFFICES ASSUME NEW s \in 0 .. PROC_HASH_TABLE_SIZE - 1, procHashTable[s] # NULL
               PROVE  IsTraced(heap', procHashTable[s]) /\ HashPos(heap', procHashTable[s]) = s
    BY <1>1 DEF HashInv
  <2>1. procHashTable[s] \in Process
    BY SETAssumption DEF TypeOK, Slot
  <2> QED
    BY <1>2, <2>1 DEF HashInv
<1>4. RunningInv'
  <2>1. tracing_process \in {NULL} \cup Process
    BY DEF TypeOK
  <2> QED
    BY <1>1, <1>2, <2>1 DEF RunningInv
<1> QED
  BY <1>3, <1>4

\* The running process maps a file: SET_event_mmap
LEMMA MmapStep ==
    ASSUME Inv, damage = "none", Mmap
    PROVE  Inv' /\ Keeps(heap', heap)
<1> DEFINE p == tracing_process
           k == Mapped(heap, p)
           f == heap.mapped + 1
<1>0. is_start /\ TypeOK /\ HeapInv(heap) /\ TableInv /\ HashInv /\ RunningInv /\ CtrlInv
  BY DEF Inv, Mmap, Runs
<1>1. /\ is_start' = is_start /\ heap' = k /\ procTable' = procTable
      /\ procTableSize' = procTableSize /\ procHashTable' = procHashTable
      /\ tracing_process' = tracing_process
      /\ model' = model /\ VPMU_enabled' = VPMU_enabled /\ ctrl' = ctrl
      /\ connects' = connects /\ now_pid' = now_pid /\ alive' = alive /\ idled' = idled
      /\ moved' = moved /\ damage' = damage
  BY DEF Mmap, table, tracing, profile, kernel, user, history
<1>2. heap \in Heap /\ heap.mapped < MaxFile /\ p \in Process /\ IsTraced(heap, p)
  BY <1>0 DEF TypeOK, Mmap, CanMap, RunningInv
<1>3. IsMapped(k, heap, p, f)
  <2> HIDE DEF p
  <2> QED
    BY <1>2, MappedFields
<1> HIDE DEF k, f, p
<1>4. k \in Heap /\ HeapInv(k)
  BY <1>0, <1>2, <1>3, MappedInv DEF IsMapped, IsTraced
<1>5. \A q \in Process : /\ State(k, q) = State(heap, q) /\ PidOf(k, q) = PidOf(heap, q)
                         /\ Idx(k, q) = Idx(heap, q) /\ HashPos(k, q) = HashPos(heap, q)
                         /\ Kind(k, q) = Kind(heap, q)
  BY <1>3 DEF IsMapped, Same
<1>6. Keeps(heap', heap)
  BY <1>1, <1>5 DEF Keeps, IsTraced, IsLive
<1>7. TypeOK'
  BY <1>0, <1>1, <1>4 DEF TypeOK
<1>8. TableInv' /\ CtrlInv'
  <2>1. heap.processes <= heap'.processes /\ heap' \in Heap
    BY <1>0, <1>1, <1>3, <1>4 DEF IsMapped, TypeOK, Heap, Process
  <2>2. \A q \in Process : IsLive(heap, q) => IsLive(heap', q) /\ Idx(heap', q) = Idx(heap, q)
    BY <1>1, <1>5 DEF IsLive
  <2>3. \A q \in Process : IsTraced(heap', q) =>
            \E i \in 0 .. procTableSize - 1 : procTable[i] = q
    BY <1>0, <1>6 DEF TableInv, Keeps
  <2>4. TableInv'
    BY <1>0, <1>1, <2>1, <2>2, <2>3, TableKept DEF CtrlInv, table
  <2> QED
    BY <1>0, <1>1, <2>4 DEF CtrlInv
<1>9. HashInv' /\ RunningInv'
  BY <1>0, <1>1, <1>6, KeptTracing DEF tracing
<1> QED
  BY <1>0, <1>1, <1>4, <1>6, <1>7, <1>8, <1>9 DEF Inv

\* The control thread writes its process behind the last entry.
LEMMA CtrlAttachStep ==
    ASSUME Inv, damage = "none", CtrlAttach
    PROVE  Inv' /\ (is_start => Keeps(heap', heap))
<1> DEFINE p == ctrl.process
<1>0. TypeOK /\ CtrlInv
      /\ (is_start => HeapInv(heap) /\ TableInv /\ HashInv /\ RunningInv)
  BY DEF Inv
<1>1. /\ is_start' = is_start /\ heap' = Attached(heap, p)
      /\ procTable' = IF Full THEN procTable ELSE [procTable EXCEPT ![procTableSize] = p]
      /\ procTableSize' = procTableSize /\ procHashTable' = procHashTable
      /\ tracing_process' = tracing_process
      /\ model' = model /\ VPMU_enabled' = VPMU_enabled
      /\ ctrl.pc = "attach"
      /\ ctrl' = [ctrl EXCEPT !.pc = IF Full THEN "read" ELSE "size"]
      /\ connects' = connects /\ now_pid' = now_pid /\ alive' = alive /\ idled' = idled
      /\ moved' = moved /\ damage' = damage
  BY DEF CtrlAttach, tracing, profile, kernel, history
<1>2. ctrl \in [pc : {"accept", "attach", "size", "read"}, process : {NULL} \cup Process]
  BY <1>0 DEF TypeOK
<1>3. /\ ctrl' \in [pc : {"accept", "attach", "size", "read"}, process : {NULL} \cup Process]
      /\ ctrl'.pc = IF Full THEN "read" ELSE "size"
      /\ ctrl'.process = p
  BY <1>1, <1>2
<1>4. p \in Process
  BY <1>0, <1>1 DEF CtrlInv
<1>5. /\ heap \in Heap /\ procTableSize \in 0 .. MAX_PROC_TABLE_SIZE
      /\ procTable \in [0 .. MAX_PROC_TABLE_SIZE -> {NULL} \cup Process]
      /\ MAX_PROC_TABLE_SIZE \in Nat
  BY <1>0, SETAssumption DEF TypeOK
<1> HIDE DEF p
<1>6. CASE Full
  <2>1. heap' = heap /\ procTable' = procTable /\ ctrl'.pc = "read"
    BY <1>1, <1>3, <1>6 DEF Attached
  <2>2. TypeOK'
    BY <1>0, <1>1, <1>3, <2>1 DEF TypeOK
  <2>3. Inv'
    BY <1>1, <2>1, <2>2, QuietStep DEF table, tracing, history
  <2> QED
    BY <2>1, <2>3 DEF Keeps
<1>7. CASE ~Full
  <2>1. procTableSize \in 0 .. MAX_PROC_TABLE_SIZE - 1
    BY <1>5, <1>7 DEF Full
  <2>2. heap' = [heap EXCEPT !.process[p].idx = procTableSize]
    BY <1>1, <1>7 DEF Attached
  <2>3. IsIdx(heap', heap, p, procTableSize)
    BY <1>4, <1>5, <2>1, <2>2, IdxFields
  <2>4. heap' \in Heap
    BY <2>3 DEF IsIdx
  <2>5. \A q \in Process : /\ State(heap', q) = State(heap, q) /\ PidOf(heap', q) = PidOf(heap, q)
                           /\ HashPos(heap', q) = HashPos(heap, q)
                           /\ Kind(heap', q) = Kind(heap, q)
                           /\ q # p => Idx(heap', q) = Idx(heap, q)
    BY <2>3 DEF IsIdx, Same
  <2>6. Idx(heap', p) = procTableSize /\ heap'.processes = heap.processes
    BY <2>3 DEF IsIdx, Shares
  <2>7. /\ procTable' \in [0 .. MAX_PROC_TABLE_SIZE -> {NULL} \cup Process]
        /\ procTable'[procTableSize] = p
        /\ \A i \in 0 .. procTableSize - 1 : procTable'[i] = procTable[i]
    BY <1>1, <1>4, <1>5, <1>7, <2>1
  <2>8. TypeOK'
    BY <1>0, <1>1, <1>3, <2>4, <2>7 DEF TypeOK
  <2>9. CtrlInv'
    BY <1>1, <1>3, <1>5, <1>7, <2>1 DEF CtrlInv
  <2>10. Keeps(heap', heap)
    BY <2>5 DEF Keeps, IsTraced, IsLive
  <2>11. CASE ~is_start
    BY <1>1, <2>8, <2>9, <2>10, <2>11 DEF Inv
  <2>12. CASE is_start
    <3>0. HeapInv(heap) /\ TableInv /\ HashInv /\ RunningInv
      BY <1>0, <2>12
    <3>1. HeapInv(heap')
      BY <1>4, <1>5, <2>3, <3>0, PlacedInv
    <3>2. /\ IsLive(heap, p) /\ p \notin moved
          /\ \A i \in 0 .. procTableSize - 1 : procTable[i] # p
      BY <1>1, <3>0 DEF TableInv, Used, p
    <3>3. ~IsTraced(heap', p)
      BY <1>4, <2>10, <3>0, <3>2 DEF TableInv, Keeps
    <3>4. heap.processes <= heap'.processes
      BY <1>5, <2>6 DEF Heap, Process
    <3>5. TableInv'
      <4>1. /\ ctrl.pc # "size" /\ procTableSize' = procTableSize /\ ctrl'.pc = "size"
            /\ ctrl'.process = p
        BY <1>1, <1>3, <1>7
      <4>2. IsLive(heap', p)
        BY <1>4, <2>5, <3>2 DEF IsLive
      <4>3. \A q \in Process : IsLive(heap, q) /\ q # p =>
                IsLive(heap', q) /\ Idx(heap', q) = Idx(heap, q)
        BY <2>5 DEF IsLive
      <4>4. \A q \in Process : IsTraced(heap', q) => q = p \/ IsTraced(heap, q)
        BY <2>10 DEF Keeps
      <4> QED
        BY <1>0, <1>1, <1>4, <2>4, <2>6, <2>7, <3>0, <3>2, <3>3, <3>4,
           <4>1, <4>2, <4>3, <4>4, Appended
    <3>6. HashInv' /\ RunningInv'
      BY <1>0, <1>1, <2>10, <3>0, KeptTracing DEF tracing
    <3> QED
      BY <1>1, <2>8, <2>9, <2>10, <3>1, <3>5, <3>6 DEF Inv
  <2> QED
    BY <2>11, <2>12
<1> QED
  BY <1>6, <1>7

\* SET_start_vpmu
LEMMA StartVPMUType ==
    ASSUME NEW m \in Model, StartVPMU(m)
    PROVE  model' \in Model /\ VPMU_enabled' \in BOOLEAN
<1>1. model' = m \/ model' = "none"
  BY DEF StartVPMU
<1>2. model' \in Model
  BY <1>1 DEF Model
<1>3. VPMU_enabled' \in BOOLEAN
  BY DEF StartVPMU
<1> QED
  BY <1>2, <1>3

\* SET_attach_process in a table that is not full
LEMMA AttachFields ==
    ASSUME TypeOK, NEW p \in Process, ~Full, Attach(p)
    PROVE  /\ procTableSize \in 0 .. MAX_PROC_TABLE_SIZE - 1
           /\ procTableSize' = procTableSize + 1
           /\ procTableSize' \in 0 .. MAX_PROC_TABLE_SIZE
           /\ procTable' \in [0 .. MAX_PROC_TABLE_SIZE -> {NULL} \cup Process]
           /\ procTable'[procTableSize] = p
           /\ \A i \in 0 .. procTableSize - 1 : procTable'[i] = procTable[i]
<1>1. /\ procTableSize \in 0 .. MAX_PROC_TABLE_SIZE
      /\ procTable \in [0 .. MAX_PROC_TABLE_SIZE -> {NULL} \cup Process]
      /\ MAX_PROC_TABLE_SIZE \in Nat
  BY SETAssumption DEF TypeOK
<1>2. procTableSize \in 0 .. MAX_PROC_TABLE_SIZE - 1
  BY <1>1 DEF Full
<1>3. /\ procTableSize' = procTableSize + 1
      /\ procTable' = [procTable EXCEPT ![procTableSize] = p]
  BY DEF Attach
<1> QED
  BY <1>1, <1>2, <1>3

\* The processes that were there are what they were when p is created.
LEMMA CreatedKeeps ==
    ASSUME NEW h \in Heap, HeapInv(h), NEW k, NEW p, IsCreated(k, h, p)
    PROVE  /\ Keeps(k, h)
           /\ ~IsLive(h, p)
           /\ \A q \in Process : IsLive(h, q) => q # p /\ Idx(k, q) = Idx(h, q)
<1>1. h.processes \in Nat /\ p > h.processes /\ p \in Process
  BY DEF Heap, Process, IsCreated
<1>2. ~IsLive(h, p)
  BY <1>1 DEF HeapInv, AllocInv, IsLive
<1>3. ~IsTraced(k, p) /\ \A q \in Process : q # p => Same(k, h, q)
  BY DEF IsCreated, IsTraced
<1> QED
  BY <1>2, <1>3 DEF Keeps, Same, IsTraced, IsLive

\* A process that has not been allocated has not been moved and is in no table.
LEMMA NewIsNowhere ==
    ASSUME TypeOK, CtrlInv, TableInv, NEW k, NEW p, k = heap, ~IsLive(k, p), p = heap.processes + 1
    PROVE  /\ p \notin moved
           /\ \A i \in 0 .. procTableSize - 1 : procTable[i] # p
           /\ ctrl.pc = "attach" => ctrl.process \in Process /\ ctrl.process # p
<1>1. heap.processes \in Int
  BY DEF TypeOK, Heap, Process
<1>2. p \notin moved
  BY <1>1 DEF TableInv
<1>3. \A i \in 0 .. procTableSize - 1 : i \in 0 .. Used - 1
  BY SETAssumption DEF TypeOK, Used
<1> QED
  BY <1>2, <1>3 DEF TableInv, EntryInv, CtrlInv

\* A program is registered behind the last entry, or not at all when the table
\* is full.
LEMMA DeviceNameStep ==
    ASSUME Inv, damage = "none", NEW n \in Name, NEW t \in Type, DeviceName(n, t)
    PROVE  Inv' /\ Keeps(heap', heap)
<1> DEFINE p == heap.processes + 1
           k == Created(heap, n, t)
<1>0. is_start /\ TypeOK /\ HeapInv(heap) /\ TableInv /\ HashInv /\ RunningInv /\ CtrlInv
  BY DEF Inv, DeviceName, Runs
<1>1. /\ is_start' = is_start /\ heap' = Attached(k, p) /\ Attach(p)
      /\ procHashTable' = procHashTable /\ tracing_process' = tracing_process
      /\ model' = model /\ VPMU_enabled' = VPMU_enabled /\ ctrl' = ctrl
      /\ connects' = connects /\ now_pid' = now_pid /\ alive' = alive /\ idled' = idled
      /\ moved' = moved /\ damage' = IF ctrl.pc = "size" THEN "race" ELSE "none"
  BY DEF DeviceName, NewProcess, tracing, profile, kernel, user
<1>2. /\ heap \in Heap /\ heap.processes < MaxProcess
      /\ t \in SUBSET {"OUTPUT", "USER_C", "LIBRARY", "MMAP"}
      /\ damage' \in Damage \cup {"none"} /\ damage' # "again"
  BY <1>0, <1>1, SETAssumption DEF TypeOK, DeviceName, CanCreate, Damage
<1>3. IsCreated(k, heap, p)
  BY <1>2, CreatedFields
<1>p. p = heap.processes + 1
  OBVIOUS
<1> HIDE DEF k, p
<1>4. k \in Heap /\ HeapInv(k) /\ p \in Process
  BY <1>0, <1>2, <1>3, CreatedInv DEF IsCreated
<1>5. /\ State(k, p) = "live" /\ PidOf(k, p) = -1 /\ k.processes = p
      /\ Keeps(k, heap) /\ ~IsLive(heap, p)
      /\ \A q \in Process : IsLive(heap, q) => q # p /\ Idx(k, q) = Idx(heap, q)
  BY <1>0, <1>2, <1>3, CreatedKeeps DEF IsCreated
<1>6. CASE Full
  <2>1. heap' = k /\ procTable' = procTable /\ procTableSize' = procTableSize
    BY <1>1, <1>6 DEF Attach, Attached, table
  <2>2. TypeOK'
    BY <1>0, <1>1, <1>2, <1>4, <2>1 DEF TypeOK
  <2>3. CtrlInv'
    BY <1>0, <1>1, <2>1 DEF CtrlInv
  <2>4. TableInv'
    <3>1. heap.processes <= heap'.processes
      BY <1>2, <1>5, <1>p, <2>1 DEF Heap, Process
    <3>2. \A q \in Process : IsLive(heap, q) => IsLive(heap', q) /\ Idx(heap', q) = Idx(heap, q)
      BY <1>5, <2>1 DEF Keeps, IsLive
    <3>3. \A q \in Process : IsTraced(heap', q) =>
              \E i \in 0 .. procTableSize - 1 : procTable[i] = q
      BY <1>0, <1>5, <2>1 DEF TableInv, Keeps
    <3> QED
      BY <1>0, <1>1, <1>4, <2>1, <3>1, <3>2, <3>3, TableKept DEF CtrlInv, table
  <2>5. HashInv' /\ RunningInv'
    BY <1>0, <1>1, <1>5, <2>1, KeptTracing DEF tracing
  <2> QED
    BY <1>0, <1>1, <1>4, <1>5, <2>1, <2>2, <2>3, <2>4, <2>5 DEF Inv
<1>7. CASE ~Full
  <2>1. /\ procTableSize \in 0 .. MAX_PROC_TABLE_SIZE - 1
        /\ procTableSize' = procTableSize + 1
        /\ procTableSize' \in 0 .. MAX_PROC_TABLE_SIZE
        /\ procTable' \in [0 .. MAX_PROC_TABLE_SIZE -> {NULL} \cup Process]
        /\ procTable'[procTableSize] = p
        /\ \A i \in 0 .. procTableSize - 1 : procTable'[i] = procTable[i]
    BY <1>0, <1>1, <1>4, <1>7, AttachFields
  <2>2. heap' = [k EXCEPT !.process[p].idx = procTableSize]
    BY <1>1, <1>7 DEF Attached
  <2>3. MAX_PROC_TABLE_SIZE \in Nat /\ procTableSize \in -1 .. MAX_PROC_TABLE_SIZE - 1
    BY <2>1, SETAssumption
  <2>4. IsIdx(heap', k, p, procTableSize)
    BY <1>4, <2>2, <2>3, IdxFields
  <2>5. heap' \in Heap /\ HeapInv(heap')
    BY <1>4, <2>4, PlacedInv DEF IsIdx
  <2>6. \A q \in Process : /\ State(heap', q) = State(k, q) /\ PidOf(heap', q) = PidOf(k, q)
                           /\ HashPos(heap', q) = HashPos(k, q)
                           /\ Kind(heap', q) = Kind(k, q)
                           /\ q # p => Idx(heap', q) = Idx(k, q)
    BY <2>4 DEF IsIdx, Same
  <2>7. Idx(heap', p) = procTableSize /\ heap'.processes = p
    BY <1>5, <2>4 DEF IsIdx, Shares
  <2>8. Keeps(heap', heap)
    BY <1>5, <2>6 DEF Keeps, IsTraced, IsLive
  <2>9. TypeOK'
    BY <1>0, <1>1, <1>2, <2>1, <2>5 DEF TypeOK
  <2>10. HashInv' /\ RunningInv'
    BY <1>0, <1>1, <2>8, KeptTracing DEF tracing
  <2>11. CASE ctrl.pc = "size"
    BY <1>0, <1>1, <2>5, <2>8, <2>9, <2>10, <2>11 DEF Inv
  <2>12. CASE ctrl.pc # "size"
    <3>1. CtrlInv'
      BY <1>0, <1>1, <2>12 DEF CtrlInv
    <3>2. /\ p \notin moved /\ \A i \in 0 .. procTableSize - 1 : procTable[i] # p
          /\ ctrl.pc = "attach" => ctrl.process \in Process /\ ctrl.process # p
      BY <1>0, <1>5, <1>p, NewIsNowhere
    <3>3. heap.processes <= heap'.processes
      BY <1>2, <1>p, <2>7 DEF Heap, Process
    <3>4. IsLive(heap', p)
      BY <1>4, <1>5, <2>6 DEF IsLive
    <3>5. \A q \in Process : IsLive(heap, q) /\ q # p =>
              IsLive(heap', q) /\ Idx(heap', q) = Idx(heap, q)
      BY <1>5, <2>6 DEF Keeps, IsLive
    <3>6. \A q \in Process : IsTraced(heap', q) => q = p \/ IsTraced(heap, q)
      BY <2>8 DEF Keeps
    <3>7. TableInv'
      BY <1>0, <1>1, <1>4, <2>1, <2>5, <2>7, <2>12, <3>2, <3>3, <3>4, <3>5, <3>6, Appended
    <3> QED
      BY <1>0, <1>1, <2>5, <2>8, <2>9, <2>10, <3>1, <3>7 DEF Inv
  <2> QED
    BY <2>11, <2>12
<1> QED
  BY <1>6, <1>7

\* The process that the control thread creates is in no table yet.
LEMMA CtrlConnectStep ==
    ASSUME Inv, damage = "none", NEW m \in TimingModel, NEW n \in Name, NEW t \in Type,
           CtrlConnect(m, n, t)
    PROVE  Inv' /\ (is_start => Keeps(heap', heap))
<1> DEFINE p == heap.processes + 1
           k == Created(heap, n, t)
           C == [pc : {"accept", "attach", "size", "read"}, process : {NULL} \cup Process]
<1>0. TypeOK /\ CtrlInv
      /\ (is_start => HeapInv(heap) /\ TableInv /\ HashInv /\ RunningInv)
  BY DEF Inv
<1>1. /\ is_start' = is_start /\ procTable' = procTable /\ procTableSize' = procTableSize
      /\ procHashTable' = procHashTable /\ tracing_process' = tracing_process
      /\ now_pid' = now_pid /\ alive' = alive /\ idled' = idled
      /\ moved' = moved /\ damage' = damage /\ ctrl.pc = "accept"
  BY DEF CtrlConnect, table, tracing, kernel, history
<1>2. connects' \in 0 .. MaxConnect
  BY <1>0, SETAssumption DEF CtrlConnect, TypeOK
<1>3. model' \in Model /\ VPMU_enabled' \in BOOLEAN
  <2>1. m \in Model
    BY SETAssumption DEF Model
  <2> QED
    BY <2>1, StartVPMUType DEF CtrlConnect
<1>4. CASE Find(n) # NULL
  <2>1. heap' = heap /\ ctrl' = [pc |-> "read", process |-> NULL]
    BY <1>4 DEF CtrlConnect
  <2>2. ctrl' \in C /\ ctrl'.pc = "read"
    BY <2>1
  <2>3. TypeOK'
    BY <1>0, <1>1, <1>2, <1>3, <2>1, <2>2 DEF TypeOK
  <2>4. Inv'
    BY <1>1, <2>1, <2>2, <2>3, QuietStep DEF table, tracing, history
  <2> QED
    BY <2>1, <2>4 DEF Keeps
<1>5. CASE Find(n) = NULL
  <2>1. heap' = k /\ ctrl' = [pc |-> "attach", process |-> p] /\ heap.processes < MaxProcess
    BY <1>5 DEF CtrlConnect, CanCreate, NewProcess
  <2>2. heap \in Heap /\ t \in SUBSET {"OUTPUT", "USER_C", "LIBRARY", "MMAP"}
    BY <1>0, SETAssumption DEF TypeOK
  <2>3. IsCreated(k, heap, p)
    BY <2>1, <2>2, CreatedFields
  <2>p. p = heap.processes + 1
    OBVIOUS
  <2> HIDE DEF k, p
  <2>4. k \in Heap /\ p \in Process
    BY <2>3 DEF IsCreated
  <2>5. ctrl' \in C /\ ctrl'.pc = "attach" /\ ctrl'.process = p
    BY <2>1, <2>4
  <2>6. TypeOK'
    BY <1>0, <1>1, <1>2, <1>3, <2>1, <2>4, <2>5 DEF TypeOK
  <2>7. CtrlInv'
    BY <2>4, <2>5 DEF CtrlInv
  <2>8. CASE ~is_start
    BY <1>1, <2>6, <2>7, <2>8 DEF Inv
  <2>9. CASE is_start
    <3>0. HeapInv(heap) /\ TableInv /\ HashInv /\ RunningInv
      BY <1>0, <2>9
    <3>1. HeapInv(k)
      BY <2>2, <2>3, <3>0, CreatedInv
    <3>2. /\ State(k, p) = "live" /\ PidOf(k, p) = -1 /\ k.processes = p
          /\ Keeps(k, heap) /\ ~IsLive(heap, p)
          /\ \A q \in Process : IsLive(heap, q) => q # p /\ Idx(k, q) = Idx(heap, q)
      BY <2>2, <2>3, <3>0, CreatedKeeps DEF IsCreated
    <3>3. p \notin moved /\ \A i \in 0 .. procTableSize - 1 : procTable[i] # p
      BY <1>0, <2>p, <3>0, <3>2, NewIsNowhere
    <3>4. TableInv'
      <4>1. heap.processes <= heap'.processes
        BY <2>1, <2>2, <2>p, <3>2 DEF Heap, Process
      <4>2. \A q \in Process : IsLive(heap, q) => IsLive(heap', q) /\ Idx(heap', q) = Idx(heap, q)
        BY <2>1, <3>2 DEF Keeps, IsLive
      <4>3. \A q \in Process : IsTraced(heap', q) =>
                \E i \in 0 .. procTableSize - 1 : procTable[i] = q
        BY <2>1, <3>0, <3>2 DEF TableInv, Keeps
      <4>4. IsLive(heap', ctrl'.process) /\ ctrl.pc # "size"
        BY <1>1, <2>1, <2>5, <3>2 DEF IsLive
      <4> QED
        BY <1>0, <1>1, <2>1, <2>4, <2>5, <3>0, <3>3, <4>1, <4>2, <4>3, <4>4, TableKept DEF CtrlInv, table
    <3>5. HashInv' /\ RunningInv'
      BY <1>0, <1>1, <2>1, <3>0, <3>2, KeptTracing DEF tracing
    <3> QED
      BY <1>1, <2>1, <2>6, <2>7, <3>1, <3>2, <3>4, <3>5 DEF Inv
  <2> QED
    BY <2>8, <2>9
<1> QED
  BY <1>4, <1>5
---------------------------------------------------------------------------
(* Steps that end a process. *)

\* SET_delete_process leaves a heap, whatever is deleted.
LEMMA DeletedType ==
    ASSUME NEW h \in Heap, NEW p \in Process
    PROVE  Deleted(h, p) \in Heap
<1>1. CASE Counter(h, p) \in Process
  BY <1>1, DeletedFields DEF IsDeleted
<1>2. CASE Counter(h, p) \notin Process
  <2> SUFFICES ASSUME NEW k, k = Deleted(h, p)
               PROVE  k \in Heap
    OBVIOUS
  <2> DEFINE g == h.process[p].tracing
             c == h.count[g] - 1
             fs == IF c < 1 THEN h.process[p].files ELSE {}
             counts == [h.count EXCEPT ![g] = IF c < 1 THEN 0 ELSE c]
             counters == IF c < 1 THEN h.counters \ {g} ELSE h.counters
             fcounts == [f \in File |-> IF f \in fs THEN h.fcount[f] - 1 ELSE h.fcount[f]]
             files == h.files \ {f \in fs : h.fcount[f] <= 1}
  <2>1. k = [process |-> [h.process EXCEPT ![p] = Freed], count |-> counts,
             counters |-> counters, fcount |-> fcounts, files |-> files,
             processes |-> h.processes, mapped |-> h.mapped]
    BY DEF Heap, Deleted
  <2>2. Freed \in SETProcess
    <3>1. -1 \in -1 .. MAX_PROC_TABLE_SIZE - 1
      BY SETAssumption
    <3>2. Freed = [state |-> "freed", name |-> NoName, type |-> {}, pid |-> -1,
                   tracing |-> NULL, idx |-> -1, hash_pos |-> NoSlot, files |-> {}]
      BY DEF Freed, Unused
    <3> QED
      BY <3>1, <3>2 DEF SETProcess
  <2>3. [h.process EXCEPT ![p] = Freed] \in [Process -> SETProcess]
    BY <2>2 DEF Heap
  <2>4. counts \in [Process -> Int]
    <3>1. g \notin Process /\ h.count \in [Process -> Int]
      BY <1>2 DEF Counter, Heap
    <3> HIDE DEF g, c
    <3> QED
      BY <3>1
  <2>5. fcounts \in [File -> Int]
    <3> HIDE DEF fs
    <3> QED
      BY DEF Heap
  <2>6. counters \in SUBSET Process /\ files \in SUBSET File
    <3> HIDE DEF g, c, fs
    <3> QED
      BY DEF Heap
  <2>7. h.processes \in Process /\ h.mapped \in 0 .. MaxFile
    BY DEF Heap
  <2> HIDE DEF counts, counters, fcounts, files
  <2> QED
    BY ONLY <2>1, <2>3, <2>4, <2>5, <2>6, <2>7, HeapRecord
<1> QED
  BY <1>1, <1>2
\* SET_detach_process leaves a table, whatever is detached.
LEMMA DetachType ==
    ASSUME TypeOK, NEW p \in Process, Detach(p)
    PROVE  /\ procTableSize' \in 0 .. MAX_PROC_TABLE_SIZE
           /\ procTable' \in [0 .. MAX_PROC_TABLE_SIZE -> {NULL} \cup Process]
<1> DEFINE x == heap.process[p].idx
<1>1. /\ procTableSize \in 0 .. MAX_PROC_TABLE_SIZE
      /\ procTable \in [0 .. MAX_PROC_TABLE_SIZE -> {NULL} \cup Process]
      /\ MAX_PROC_TABLE_SIZE \in Nat
  BY SETAssumption DEF TypeOK
<1>2. CASE ~Detached(p)
  BY <1>1, <1>2 DEF Detach, table
<1>3. CASE Detached(p)
  <2>1. x \in Int /\ x > 0 /\ procTableSize > 0
    BY <1>3, SETAssumption DEF Detached, TypeOK, Heap, SETProcess
  <2>2. /\ procTable' = [i \in DOMAIN procTable |->
              IF i \in x .. procTableSize - 1 THEN procTable[i + 1] ELSE procTable[i]]
        /\ procTableSize' = procTableSize - 1
    BY <1>3 DEF Detach
  <2> HIDE DEF x
  <2> QED
    BY <1>1, <2>1, <2>2
<1> QED
  BY <1>2, <1>3

\* The process p of the place i is detached and no damage comes: the processes
\* behind it move down by one, and no others.
LEMMA DetachedTable ==
    ASSUME TypeOK, CtrlInv, TableInv, ctrl' = ctrl,
           NEW i \in 0 .. procTableSize - 1, NEW p, p = procTable[i],
           Detach(p), Ends(p), damage' = "none"
    PROVE  /\ procTableSize' = procTableSize - 1 /\ Used' = Used - 1
           /\ \A a \in 0 .. Used - 2 : procTable'[a] =
                  IF a >= i THEN procTable[a + 1] ELSE procTable[a]
           /\ moved' = moved \cup {procTable[j] : j \in i + 1 .. Used - 1}
<1> DEFINE x == Idx(heap, p)
           u == Used
<1>1. /\ procTableSize \in 0 .. MAX_PROC_TABLE_SIZE /\ MAX_PROC_TABLE_SIZE \in Nat
      /\ u \in 0 .. MAX_PROC_TABLE_SIZE /\ u \in {procTableSize, procTableSize + 1}
      /\ procTable \in [0 .. MAX_PROC_TABLE_SIZE -> {NULL} \cup Process]
  BY UsedPlaces
<1>2. ctrl.pc = "size" <=> u # procTableSize
  BY <1>1 DEF Used
<1>3. EntryInv(heap, p, i) /\ i \in 0 .. u - 1 /\ i \in Nat
  BY <1>1 DEF TableInv
<1>4. /\ i # 0
      /\ p \notin moved \/ p = procTable[u - 1]
  BY DEF Ends, EndDamage
<1>5. u - 1 \in 0 .. u - 1
  BY <1>1, <1>3
<1>6. x \in Int /\ (x = i \/ (x > i /\ i = u - 1))
  <2>1. x \in Int
    <3>1. p \in Process /\ heap \in Heap
      BY <1>3 DEF EntryInv, TypeOK
    <3> QED
      BY <3>1, SETAssumption DEF Heap, SETProcess, Idx
  <2>2. CASE p \notin moved
    BY <1>3, <2>1, <2>2 DEF EntryInv
  <2>3. CASE p \in moved
    <3>1. procTable[i] = procTable[u - 1]
      BY <1>4, <2>3
    <3>2. i = u - 1
      BY <1>3, <1>5, <3>1 DEF TableInv
    <3> QED
      BY <1>3, <2>1, <2>3, <3>2 DEF EntryInv
  <2> QED
    BY <2>2, <2>3
<1>7. Detached(p)
  <2>1. procTableSize > 0 /\ x > 0
    BY <1>1, <1>3, <1>4, <1>6
  <2> QED
    BY <2>1 DEF Detached, Idx
<1>8. /\ procTable' = [a \in DOMAIN procTable |->
             IF a \in x .. procTableSize - 1 THEN procTable[a + 1] ELSE procTable[a]]
      /\ procTableSize' = procTableSize - 1
  BY <1>7 DEF Detach, Idx
<1>9. moved' = moved \cup {procTable[j] : j \in x + 1 .. u - 1}
  BY DEF Ends, Idx
<1>10. Used' = u - 1
  BY <1>1, <1>8 DEF Used
<1>u. u = Used
  OBVIOUS
<1> HIDE DEF x, u
<1>11. ASSUME NEW a \in 0 .. u - 2
       PROVE  procTable'[a] = IF a >= i THEN procTable[a + 1] ELSE procTable[a]
  <2>1. a \in 0 .. MAX_PROC_TABLE_SIZE /\ a \in Nat
    BY <1>1
  <2>2. procTable'[a] = IF a \in x .. procTableSize - 1 THEN procTable[a + 1] ELSE procTable[a]
    BY <1>1, <1>8, <2>1
  <2>3. a >= i <=> a \in x .. procTableSize - 1
    BY ONLY <1>1, <1>3, <1>6, <2>1, a \in 0 .. u - 2
  <2> QED
    BY <2>2, <2>3
<1>12. x + 1 .. u - 1 = i + 1 .. u - 1
  BY ONLY <1>1, <1>3, <1>6
<1> QED
  BY <1>8, <1>9, <1>10, <1>11, <1>12, <1>u

\* A process of the table is detached and deleted: no other process is touched,
\* and the table is right unless it was the first or a moved one.
LEMMA DeleteStep ==
    ASSUME TypeOK, CtrlInv, HeapInv(heap), TableInv, ctrl' = ctrl,
           NEW i \in 0 .. procTableSize - 1, NEW p, p = procTable[i],
           Detach(p), heap' = Deleted(heap, p), Ends(p)
    PROVE  /\ heap' \in Heap /\ HeapInv(heap')
           /\ procTableSize' \in 0 .. MAX_PROC_TABLE_SIZE
           /\ procTable' \in [0 .. MAX_PROC_TABLE_SIZE -> {NULL} \cup Process]
           /\ moved' \subseteq Process
           /\ damage' \in {"none", "first", "moved"}
           /\ damage' = "none" => TableInv' /\ CtrlInv'
           /\ IsDeleted(heap', heap, p)
<1> DEFINE u == Used
<1>1. /\ procTableSize \in 0 .. MAX_PROC_TABLE_SIZE /\ MAX_PROC_TABLE_SIZE \in Nat
      /\ u \in 0 .. MAX_PROC_TABLE_SIZE /\ u \in {procTableSize, procTableSize + 1}
      /\ procTable \in [0 .. MAX_PROC_TABLE_SIZE -> {NULL} \cup Process]
      /\ heap \in Heap
      /\ ctrl.pc = "size" => u = procTableSize + 1
  BY UsedPlaces DEF TypeOK
<1>2. i \in 0 .. u - 1 /\ i \in Nat /\ i < procTableSize
  BY <1>1
<1>3. p \in Process /\ IsLive(heap, p)
  BY <1>2 DEF TableInv, EntryInv
<1>4. IsDeleted(heap', heap, p)
  BY <1>1, <1>3, CounterOfLive, DeletedFields DEF HeapInv
<1>5. heap' \in Heap /\ HeapInv(heap')
  BY <1>1, <1>3, <1>4, DeletedInv DEF IsDeleted
<1>6. /\ procTableSize' \in 0 .. MAX_PROC_TABLE_SIZE
      /\ procTable' \in [0 .. MAX_PROC_TABLE_SIZE -> {NULL} \cup Process]
  BY <1>3, DetachType
<1>7. \A j \in 0 .. u - 1 : procTable[j] \in Process /\ IsLive(heap, procTable[j])
  BY DEF TableInv, EntryInv
<1>8. moved' \subseteq Process
  <2>1. Idx(heap, p) \in Int /\ Idx(heap, p) >= -1
    BY <1>1, <1>3, SETAssumption DEF Heap, SETProcess, Idx
  <2>2. \A j \in Idx(heap, p) + 1 .. u - 1 : j \in 0 .. u - 1
    BY <1>1, <2>1
  <2> QED
    BY <1>7, <2>2 DEF Ends, TypeOK, Idx
<1>9. damage' \in {"none", "first", "moved"}
  BY DEF Ends, EndDamage
<1>10. ASSUME damage' = "none"
       PROVE  TableInv' /\ CtrlInv'
  <2>1. /\ procTableSize' = procTableSize - 1 /\ Used' = u - 1
        /\ \A a \in 0 .. u - 2 : procTable'[a] =
               IF a >= i THEN procTable[a + 1] ELSE procTable[a]
        /\ moved' = moved \cup {procTable[j] : j \in i + 1 .. u - 1}
    BY <1>10, DetachedTable
  <2>2. \A j, k \in 0 .. u - 1 : procTable[j] = procTable[k] => j = k
    BY DEF TableInv
  <2>3. \A j \in 0 .. u - 1 : EntryInv(heap, procTable[j], j)
    BY DEF TableInv
  <2> HIDE DEF u
  <2> DEFINE B(a) == IF a >= i THEN a + 1 ELSE a
  <2>4. ASSUME NEW a \in 0 .. u - 2
        PROVE  /\ a \in Nat /\ B(a) \in 0 .. u - 1 /\ B(a) \in Nat /\ B(a) # i
               /\ a <= B(a) /\ (B(a) > i <=> B(a) = a + 1) /\ (B(a) < i <=> B(a) = a)
               /\ procTable'[a] = procTable[B(a)]
    <3>1. a \in Nat /\ u \in Nat
      BY <1>1
    <3> QED
      BY <1>1, <1>2, <2>1, <3>1
  <2>5. \A a, b \in 0 .. u - 2 : B(a) = B(b) => a = b
    BY <1>1, <1>2
  <2> HIDE DEF B
  <2>6. \A q \in Process : q # p => /\ State(heap', q) = State(heap, q)
                                    /\ PidOf(heap', q) = PidOf(heap, q)
                                    /\ Idx(heap', q) = Idx(heap, q)
    BY <1>4 DEF IsDeleted, Same
  <2>7. ASSUME NEW a \in 0 .. u - 2
        PROVE  EntryInv(heap, procTable[a], a)'
    <3> DEFINE q == procTable[B(a)]
    <3>1. EntryInv(heap, q, B(a)) /\ q # p
      BY <1>2, <2>2, <2>3, <2>4
    <3>2. q \in Process /\ IsLive(heap', q) /\ Idx(heap', q) = Idx(heap, q) /\ Idx(heap, q) \in Int
      <4>1. q \in Process /\ IsLive(heap, q)
        BY <3>1 DEF EntryInv
      <4>2. Idx(heap, q) \in Int
        BY <1>1, <4>1, SETAssumption DEF Heap, SETProcess, Idx
      <4> QED
        BY <2>6, <3>1, <4>1, <4>2 DEF IsLive
    <3>3. q \notin moved' => Idx(heap', q) = a
      <4> SUFFICES ASSUME q \notin moved'
                   PROVE  Idx(heap', q) = a
        OBVIOUS
      <4>1. q \notin moved /\ B(a) \notin i + 1 .. u - 1
        BY <2>1
      <4>2. B(a) = a
        BY <1>1, <1>2, <2>4, <4>1
      <4> QED
        BY <3>1, <3>2, <4>1, <4>2 DEF EntryInv
    <3>4. q \in moved' => Idx(heap', q) > a
      <4>1. CASE q \in moved
        <5>1. Idx(heap, q) > B(a)
          BY <3>1, <4>1 DEF EntryInv
        <5> QED
          BY <2>4, <3>2, <5>1
      <4>2. CASE q \notin moved /\ q \in moved'
        <5>1. PICK j \in i + 1 .. u - 1 : q = procTable[j]
          BY <2>1, <4>2
        <5>2. j \in 0 .. u - 1 /\ j > i
          BY <1>1, <1>2
        <5>3. B(a) = j
          BY <2>2, <2>4, <5>1, <5>2
        <5>4. B(a) = a + 1
          BY <2>4, <5>2, <5>3
        <5>5. Idx(heap, q) = B(a)
          BY <3>1, <4>2 DEF EntryInv
        <5> QED
          BY <2>4, <3>2, <5>4, <5>5
      <4> QED
        BY <4>1, <4>2
    <3>5. procTable'[a] = q
      BY <2>4
    <3> QED
      BY <3>2, <3>3, <3>4, <3>5 DEF EntryInv
  <2>8. \A a, b \in 0 .. u - 2 : procTable'[a] = procTable'[b] => a = b
    BY <2>2, <2>4, <2>5
  <2>9. ASSUME NEW q \in Process, IsTraced(heap', q)
        PROVE  \E a \in 0 .. procTableSize' - 1 : procTable'[a] = q
    <3>1. q # p
      BY <1>4, <2>9 DEF IsDeleted, IsTraced, IsLive
    <3>2. IsTraced(heap, q)
      BY <2>6, <2>9, <3>1 DEF IsTraced, IsLive
    <3>3. PICK j \in 0 .. procTableSize - 1 : procTable[j] = q
      BY <3>2 DEF TableInv
    <3>4. j # i /\ j \in Nat /\ j < procTableSize
      BY <1>1, <3>1, <3>3
    <3>5. CASE j < i
      <4>1. j \in 0 .. u - 2 /\ j \in 0 .. procTableSize' - 1 /\ ~(j >= i)
        BY <1>1, <1>2, <2>1, <3>4, <3>5
      <4> QED
        BY <2>1, <3>3, <4>1
    <3>6. CASE j > i
      <4>1. /\ j - 1 \in 0 .. u - 2 /\ j - 1 \in 0 .. procTableSize' - 1
            /\ j - 1 >= i /\ (j - 1) + 1 = j
        BY <1>1, <1>2, <2>1, <3>4, <3>6
      <4>2. procTable'[j - 1] = q
        BY <2>1, <3>3, <4>1
      <4> QED
        BY <4>1, <4>2
    <3> QED
      BY <1>2, <3>4, <3>5, <3>6
  <2>10. \A q \in moved' : q <= heap'.processes
    <3>1. heap'.processes = heap.processes
      BY <1>4 DEF IsDeleted
    <3>2. \A j \in i + 1 .. u - 1 : procTable[j] \in Process /\ IsLive(heap, procTable[j])
      BY <1>1, <1>2, <1>7 DEF u
    <3>3. \A q \in Process : IsLive(heap, q) => q <= heap.processes
      BY <1>1 DEF HeapInv, AllocInv, IsLive, Heap, Process
    <3>4. \A q \in moved : q <= heap.processes
      BY DEF TableInv
    <3> QED
      BY <2>1, <3>1, <3>2, <3>3, <3>4
  <2>11. ctrl'.pc = "attach" =>
             /\ IsLive(heap', ctrl'.process) /\ ctrl'.process \notin moved'
             /\ \A a \in 0 .. u - 2 : procTable'[a] # ctrl'.process
    <3> SUFFICES ASSUME ctrl.pc = "attach"
                 PROVE  /\ IsLive(heap', ctrl.process) /\ ctrl.process \notin moved'
                        /\ \A a \in 0 .. u - 2 : procTable'[a] # ctrl.process
      OBVIOUS
    <3>1. /\ ctrl.process \in Process /\ IsLive(heap, ctrl.process) /\ ctrl.process \notin moved
          /\ \A j \in 0 .. u - 1 : procTable[j] # ctrl.process
      BY DEF TableInv, CtrlInv, u
    <3>2. ctrl.process # p
      BY <1>2, <3>1
    <3>3. \A j \in i + 1 .. u - 1 : j \in 0 .. u - 1
      BY <1>1, <1>2
    <3>4. IsLive(heap', ctrl.process)
      BY <2>6, <3>1, <3>2 DEF IsLive
    <3> QED
      BY <2>1, <2>4, <3>1, <3>3, <3>4
  <2>12. ctrl'.pc = "size" => procTable'[procTableSize'] = ctrl'.process
    <3> SUFFICES ASSUME ctrl.pc = "size"
                 PROVE  procTable'[procTableSize - 1] = ctrl.process
      BY <2>1
    <3>1. /\ procTableSize - 1 \in 0 .. u - 2 /\ procTableSize - 1 >= i
          /\ (procTableSize - 1) + 1 = procTableSize
      BY <1>1, <1>2
    <3>2. procTable'[procTableSize - 1] = procTable[procTableSize]
      BY <2>1, <3>1
    <3> QED
      BY <3>2 DEF TableInv
  <2>13. 0 .. Used' - 1 = 0 .. u - 2
    BY <1>1, <2>1
  <2>14. TableInv'
    BY <2>7, <2>8, <2>9, <2>10, <2>11, <2>12, <2>13 DEF TableInv
  <2>15. CtrlInv'
    BY <1>1, <2>1 DEF CtrlInv
  <2> QED
    BY <2>14, <2>15
<1> QED
  BY <1>4, <1>5, <1>6, <1>8, <1>9, <1>10

\* The process that ends clears its own place in the hash table.
LEMMA ExitStep ==
    ASSUME Inv, damage = "none", Exit
    PROVE  /\ Inv' /\ IsDeleted(heap', heap, tracing_process)
           /\ damage' \in {"none", "first", "moved"}
<1> DEFINE p == tracing_process
<1>0. is_start /\ TypeOK /\ HeapInv(heap) /\ TableInv /\ HashInv /\ RunningInv /\ CtrlInv
  BY DEF Inv, Exit, Runs
<1>1. /\ is_start' = is_start /\ heap' = Deleted(heap, p) /\ Detach(p) /\ Ends(p)
      /\ procHashTable' = [procHashTable EXCEPT ![HashPos(heap, p)] = NULL]
      /\ tracing_process' = NULL /\ model' = model
      /\ ctrl' = ctrl /\ connects' = connects
      /\ now_pid' = now_pid /\ alive' = alive \ {now_pid} /\ idled' = idled
  BY DEF Exit, EndTracing, user, Current, HashPos
<1>2. VPMU_enabled' \in BOOLEAN
  BY <1>0 DEF Exit, EndTracing, TypeOK
<1>3. p \in Process /\ IsTraced(heap, p)
  BY <1>0 DEF Exit, RunningInv, TypeOK
<1> HIDE DEF p
<1>4. PICK i \in 0 .. procTableSize - 1 : p = procTable[i]
  BY <1>0, <1>3 DEF TableInv
<1>5. /\ heap' \in Heap /\ HeapInv(heap')
      /\ procTableSize' \in 0 .. MAX_PROC_TABLE_SIZE
      /\ procTable' \in [0 .. MAX_PROC_TABLE_SIZE -> {NULL} \cup Process]
      /\ moved' \subseteq Process /\ damage' \in {"none", "first", "moved"}
      /\ damage' = "none" => TableInv' /\ CtrlInv'
      /\ IsDeleted(heap', heap, p)
  BY <1>0, <1>1, <1>4, DeleteStep
<1>6. procHashTable \in [Slot -> {NULL} \cup Process]
  BY <1>0 DEF TypeOK
<1>7. /\ procHashTable' \in [Slot -> {NULL} \cup Process]
      /\ \A s \in Slot : procHashTable'[s] =
             IF s = HashPos(heap, p) THEN NULL ELSE procHashTable[s]
  BY <1>1, <1>6
<1>8. TypeOK'
  <2>1. alive' \subseteq Pid /\ tracing_process' \in {NULL} \cup Process
        /\ damage' \in Damage \cup {"none"}
    BY <1>0, <1>1, <1>5 DEF TypeOK, Damage
  <2> QED
    BY <1>0, <1>1, <1>2, <1>5, <1>7, <2>1 DEF TypeOK
<1>9. HashInv'
  <2> SUFFICES ASSUME NEW s \in 0 .. PROC_HASH_TABLE_SIZE - 1, procHashTable'[s] # NULL
               PROVE  /\ IsTraced(heap', procHashTable'[s])
                      /\ HashPos(heap', procHashTable'[s]) = s
    BY DEF HashInv
  <2>1. s \in Slot
    BY SETAssumption DEF Slot
  <2>2. procHashTable'[s] = procHashTable[s] /\ s # HashPos(heap, p)
    BY <1>7, <2>1
  <2>3. /\ procHashTable[s] \in Process /\ IsTraced(heap, procHashTable[s])
        /\ HashPos(heap, procHashTable[s]) = s
    BY <1>0, <1>6, <2>1, <2>2 DEF HashInv
  <2>4. Same(heap', heap, procHashTable[s])
    BY <1>5, <2>2, <2>3 DEF IsDeleted
  <2> QED
    BY <2>2, <2>3, <2>4 DEF Same, IsTraced, IsLive
<1>10. RunningInv'
  BY <1>1 DEF RunningInv
<1>11. Inv'
  BY <1>5, <1>8, <1>9, <1>10 DEF Inv
<1> QED
  BY <1>5, <1>11 DEF p

\* A process whose start fails, and that is not traced, is in no hash table.
LEMMA ExecveFailsStep ==
    ASSUME Inv, damage = "none", NEW n \in Name, ExecveFails(n)
    PROVE  /\ Inv'
           /\ damage' # "again" => IsDeleted(heap', heap, Find(n)) /\ PidOf(heap, Find(n)) = -1
<1> DEFINE p == Find(n)
           s0 == IF heap.process[p].pid = -1 THEN -1 ELSE Probe(heap, heap.process[p].pid)
<1>0. is_start /\ TypeOK /\ HeapInv(heap) /\ TableInv /\ HashInv /\ RunningInv /\ CtrlInv
  BY DEF Inv, ExecveFails, Runs
<1>1. /\ is_start' = is_start /\ heap' = Deleted(heap, p) /\ Detach(p)
      /\ procHashTable' = IF procHashTable[s0] = NULL THEN [procHashTable EXCEPT ![s0] = p]
                          ELSE procHashTable
      /\ tracing_process' = tracing_process /\ model' = model
      /\ VPMU_enabled' = VPMU_enabled /\ ctrl' = ctrl /\ connects' = connects
      /\ now_pid' = now_pid /\ alive' = alive /\ idled' = idled
  BY DEF ExecveFails, kernel, user, profile
<1>2. IF PidOf(heap, p) = -1 THEN Ends(p) ELSE damage' = "again" /\ moved' = moved
  BY DEF ExecveFails, PidOf
<1>3. PidOf(heap, p) = -1 => s0 = -1
  BY DEF PidOf
<1>4. PICK i \in 0 .. procTableSize - 1 : p = procTable[i]
  BY <1>0, FindsEntry DEF TypeOK, ExecveFails, MayStart
<1> HIDE DEF p, s0
<1>5. p \in Process
  <2>1. i \in 0 .. Used - 1
    BY <1>0, UsedPlaces
  <2> QED
    BY <1>0, <1>4, <2>1 DEF TableInv, EntryInv
<1>6. procHashTable \in [Slot -> {NULL} \cup Process]
  BY <1>0 DEF TypeOK
<1>7. /\ procHashTable' \in [Slot -> {NULL} \cup Process]
      /\ \A s \in Slot : s # s0 => procHashTable'[s] = procHashTable[s]
  BY <1>1, <1>5, <1>6
<1>8. CASE PidOf(heap, p) # -1
  <2>1. /\ heap' \in Heap
        /\ procTableSize' \in 0 .. MAX_PROC_TABLE_SIZE
        /\ procTable' \in [0 .. MAX_PROC_TABLE_SIZE -> {NULL} \cup Process]
    BY <1>0, <1>1, <1>5, DeletedType, DetachType DEF TypeOK
  <2>2. moved' = moved /\ damage' = "again"
    BY <1>2, <1>8
  <2>3. damage' \in Damage
    BY <2>2 DEF Damage
  <2>4. TypeOK'
    BY <1>0, <1>1, <1>7, <2>1, <2>2, <2>3 DEF TypeOK
  <2> QED
    BY <2>2, <2>4 DEF Inv
<1>9. CASE PidOf(heap, p) = -1
  <2>1. /\ heap' \in Heap /\ HeapInv(heap')
        /\ procTableSize' \in 0 .. MAX_PROC_TABLE_SIZE
        /\ procTable' \in [0 .. MAX_PROC_TABLE_SIZE -> {NULL} \cup Process]
        /\ moved' \subseteq Process /\ damage' \in {"none", "first", "moved"}
        /\ damage' = "none" => TableInv' /\ CtrlInv'
        /\ IsDeleted(heap', heap, p)
    BY <1>0, <1>1, <1>2, <1>4, <1>9, DeleteStep
  <2>2. TypeOK'
    <3>1. damage' \in Damage \cup {"none"}
      BY <2>1 DEF Damage
    <3> QED
      BY <1>0, <1>1, <1>7, <2>1, <3>1 DEF TypeOK
  <2>3. \A q \in Process : IsTraced(heap, q) =>
            /\ IsTraced(heap', q) /\ HashPos(heap', q) = HashPos(heap, q)
            /\ PidOf(heap', q) = PidOf(heap, q)
    BY <1>9, <2>1 DEF IsDeleted, Same, IsTraced, IsLive
  <2>4. HashInv'
    <3> SUFFICES ASSUME NEW s \in 0 .. PROC_HASH_TABLE_SIZE - 1, procHashTable'[s] # NULL
                 PROVE  /\ IsTraced(heap', procHashTable'[s])
                        /\ HashPos(heap', procHashTable'[s]) = s
      BY DEF HashInv
    <3>1. s \in Slot /\ s # -1
      BY SETAssumption DEF Slot
    <3>2. procHashTable'[s] = procHashTable[s] /\ procHashTable[s] \in Process
      BY <1>3, <1>6, <1>7, <1>9, <3>1
    <3> QED
      BY <1>0, <2>3, <3>2 DEF HashInv
  <2>5. RunningInv'
    <3>1. tracing_process \in {NULL} \cup Process
      BY <1>0 DEF TypeOK
    <3> QED
      BY <1>0, <1>1, <2>3, <3>1 DEF RunningInv
  <2>6. Inv'
    BY <2>1, <2>2, <2>4, <2>5 DEF Inv
  <2> QED
    BY <1>9, <2>1, <2>6 DEF p
<1> QED
  BY <1>8, <1>9
---------------------------------------------------------------------------
(* Steps that trace a process more. *)

\* proc_insert: the process is put at a free place, or one with its pid is there.
LEMMA InsertFields ==
    ASSUME TypeOK, TableInv, HashInv, NEW k \in Heap, NEW p \in Process,
           PidOf(k, p) \in Pid, Insert(k, p), NEW s, s = Probe(k, PidOf(k, p))
    PROVE  /\ s \in 0 .. PROC_HASH_TABLE_SIZE - 1
           /\ \/ /\ procHashTable[s] # NULL /\ PidOf(k, procHashTable[s]) = PidOf(k, p)
                 /\ heap' = k /\ procHashTable' = procHashTable
              \/ /\ procHashTable[s] = NULL /\ IsHashPos(heap', k, p, s)
                 /\ procHashTable' = [procHashTable EXCEPT ![s] = p]
<1>1. PidOf(k, p) \in Nat
  BY SETAssumption
<1>2. /\ s \in 0 .. PROC_HASH_TABLE_SIZE - 1
      /\ procHashTable[s] = NULL \/ PidOf(k, procHashTable[s]) = PidOf(k, p)
  BY <1>1, FreePlace, ProbeStops
<1>3. IF procHashTable[s] # NULL
      THEN heap' = k /\ procHashTable' = procHashTable
      ELSE /\ procHashTable' = [procHashTable EXCEPT ![s] = p]
           /\ heap' = [k EXCEPT !.process[p].hash_pos = s]
  BY DEF Insert, PidOf
<1>4. CASE procHashTable[s] # NULL
  BY <1>2, <1>3, <1>4
<1>5. CASE procHashTable[s] = NULL
  <2>1. s \in Slot
    BY <1>2, SETAssumption DEF Slot
  <2>2. IsHashPos(heap', k, p, s)
    BY <1>3, <1>5, <2>1, HashPosFields
  <2> QED
    BY <1>2, <1>3, <1>5, <2>2
<1> QED
  BY <1>4, <1>5

\* All but the place in the hash table is what it was.
AllButHashPos(k, h, q) ==
    /\ State(k, q) = State(h, q)
    /\ Kind(k, q) = Kind(h, q)
    /\ PidOf(k, q) = PidOf(h, q)
    /\ Idx(k, q) = Idx(h, q)

\* A process that was not traced before is inserted: the others keep their
\* places.
LEMMA InsertInv ==
    ASSUME TypeOK, TableInv, HashInv, NEW k \in Heap, HeapInv(k), NEW p \in Process,
           ~IsTraced(heap, p), IsTraced(k, p), PidOf(k, p) \in Pid,
           \A q \in Process : q # p => Same(k, heap, q),
           Insert(k, p)
    PROVE  /\ heap' \in Heap /\ HeapInv(heap') /\ HashInv'
           /\ procHashTable' \in [Slot -> {NULL} \cup Process]
           /\ heap'.processes = k.processes
           /\ \A q \in Process : AllButHashPos(heap', k, q)
           /\ \A q \in Process : q # p => HashPos(heap', q) = HashPos(heap, q)
<1> DEFINE s == Probe(k, PidOf(k, p))
           N == PROC_HASH_TABLE_SIZE
<1>1. /\ s \in 0 .. N - 1
      /\ \/ /\ procHashTable[s] # NULL /\ PidOf(k, procHashTable[s]) = PidOf(k, p)
            /\ heap' = k /\ procHashTable' = procHashTable
         \/ /\ procHashTable[s] = NULL /\ IsHashPos(heap', k, p, s)
            /\ procHashTable' = [procHashTable EXCEPT ![s] = p]
  BY InsertFields
<1> HIDE DEF s
<1>2. procHashTable \in [Slot -> {NULL} \cup Process]
  BY DEF TypeOK
<1>3. \A a \in 0 .. N - 1 : a \in Slot
  BY SETAssumption DEF Slot
<1>4. heap' \in Heap /\ HeapInv(heap') /\ heap'.processes = k.processes
  BY <1>1, PlacedInv DEF IsHashPos, Shares
<1>5. procHashTable' \in [Slot -> {NULL} \cup Process]
  BY <1>1, <1>2, <1>3
<1>6. \A q \in Process : AllButHashPos(heap', k, q) /\ (q # p => HashPos(heap', q) = HashPos(k, q))
  BY <1>1 DEF IsHashPos, Same, AllButHashPos
<1>7. \A q \in Process : q # p => HashPos(heap', q) = HashPos(heap, q)
  BY <1>6 DEF Same
<1>8. ASSUME NEW a \in 0 .. N - 1, procHashTable[a] # NULL
      PROVE  /\ procHashTable[a] \in Process /\ procHashTable[a] # p
             /\ IsTraced(heap', procHashTable[a])
             /\ HashPos(heap', procHashTable[a]) = a
  <2>1. procHashTable[a] \in Process /\ procHashTable[a] # p
    BY <1>2, <1>3, <1>8 DEF HashInv
  <2>2. IsTraced(heap, procHashTable[a]) /\ HashPos(heap, procHashTable[a]) = a
    BY <1>8 DEF HashInv
  <2>3. Same(k, heap, procHashTable[a]) /\ AllButHashPos(heap', k, procHashTable[a])
    BY <1>6, <2>1
  <2> QED
    BY <1>7, <2>1, <2>2, <2>3 DEF Same, AllButHashPos, IsTraced, IsLive
<1>9. HashInv'
  <2> SUFFICES ASSUME NEW a \in 0 .. N - 1, procHashTable'[a] # NULL
               PROVE  /\ IsTraced(heap', procHashTable'[a])
                      /\ HashPos(heap', procHashTable'[a]) = a
    BY DEF HashInv
  <2>1. CASE procHashTable' = procHashTable
    BY <1>8, <2>1
  <2>2. CASE /\ procHashTable[s] = NULL /\ IsHashPos(heap', k, p, s)
             /\ procHashTable' = [procHashTable EXCEPT ![s] = p]
    <3>1. CASE a = s
      <4>1. procHashTable'[a] = p
        BY <1>2, <1>3, <2>2, <3>1
      <4>2. HashPos(heap', p) = s /\ IsTraced(heap', p)
        BY <2>2 DEF IsHashPos, IsTraced, IsLive
      <4> QED
        BY <3>1, <4>1, <4>2
    <3>2. CASE a # s
      <4>1. procHashTable'[a] = procHashTable[a]
        BY <1>2, <1>3, <2>2, <3>2
      <4> QED
        BY <1>8, <4>1
    <3> QED
      BY <3>1, <3>2
  <2> QED
    BY <1>1, <2>1, <2>2
<1> QED
  BY <1>4, <1>5, <1>6, <1>7, <1>9

\* SET_start_tracing has given the process p, in the heap k, the pid x.
Begun(k, h, p, x) ==
    /\ k \in Heap /\ (PidOf(h, p) = -1 => HeapInv(k))
    /\ \A q \in Process : q # p => Same(k, h, q)
    /\ State(k, p) = State(h, p) /\ Kind(k, p) = Kind(h, p)
    /\ Idx(k, p) = Idx(h, p) /\ PidOf(k, p) = x
    /\ k.processes = h.processes

\* SET_start_tracing counts the process and maps its binary.
LEMMA StartedBegun ==
    ASSUME NEW h \in Heap, HeapInv(h), NEW p \in Process, IsLive(h, p),
           now_pid \in Pid, "USER_C" \in Kind(h, p) => h.mapped < MaxFile
    PROVE  Begun(Started(h, p), h, p, now_pid)
<1> DEFINE b == [h EXCEPT !.process[p].pid = now_pid, !.count[h.process[p].tracing] = @ + 1]
<1>1. Started(h, p) = IF "USER_C" \in Kind(h, p) THEN Mapped(b, p) ELSE b
  BY DEF Started, Kind
<1>2. Counter(h, p) \in Process
  BY CounterOfLive DEF HeapInv
<1>3. IsStarted(b, h, p, now_pid)
  BY <1>2, PidFields
<1> HIDE DEF b
<1>4. b \in Heap /\ IsLive(b, p) /\ b.mapped = h.mapped /\ b.processes = h.processes
  BY <1>3 DEF IsStarted, IsLive
<1>5. PidOf(h, p) = -1 => HeapInv(b)
  BY <1>3, <1>4, StartedInv
<1>6. Begun(b, h, p, now_pid)
  BY <1>3, <1>4, <1>5 DEF Begun, IsStarted
<1>7. CASE "USER_C" \in Kind(h, p)
  <2> DEFINE k == Mapped(b, p)
             f == b.mapped + 1
  <2>1. b.mapped < MaxFile
    BY <1>4, <1>7
  <2>2. IsMapped(k, b, p, f)
    BY <1>4, <2>1, MappedFields
  <2> HIDE DEF k, f
  <2>3. PidOf(h, p) = -1 => HeapInv(k)
    BY <1>4, <1>5, <2>2, MappedInv
  <2>4. Begun(k, h, p, now_pid)
    BY <1>6, <2>2, <2>3 DEF Begun, IsMapped, Same
  <2> QED
    BY <1>1, <1>7, <2>4 DEF k
<1>8. CASE "USER_C" \notin Kind(h, p)
  BY <1>1, <1>6, <1>8
<1> QED
  BY <1>7, <1>8

\* The files that an application takes over change nothing else of it.
LEMMA InheritBegun ==
    ASSUME TypeOK, CtrlInv, TableInv, NEW p \in Process, IsLive(heap, p), NEW k, NEW x,
           Begun(k, heap, p, x)
    PROVE  Begun(Inherit(k, p), heap, p, x)
<1> DEFINE z == Find("app_process")
<1>1. CASE z = NULL \/ "LIBRARY" \notin k.process[p].type
  BY <1>1 DEF Inherit
<1>2. CASE ~(z = NULL \/ "LIBRARY" \notin k.process[p].type)
  <2> DEFINE j == [k EXCEPT !.process[p].files = k.process[z].files,
                            !.fcount = [f \in File |->
                                IF f \in k.process[z].files THEN @[f] + 1 ELSE @[f]]]
  <2>1. Inherit(k, p) = j
    BY <1>2 DEF Inherit
  <2>2. z \in Process /\ IsLive(heap, z)
    <3>1. PICK i \in 0 .. procTableSize - 1 : z = procTable[i]
      BY <1>2, FindsEntry DEF TypeOK
    <3>2. i \in 0 .. Used - 1
      BY UsedPlaces
    <3> QED
      BY <3>1, <3>2 DEF TableInv, EntryInv
  <2> HIDE DEF z
  <2>3. k \in Heap /\ IsLive(k, z) /\ IsLive(k, p)
    BY <2>2 DEF Begun, Same, IsLive
  <2>4. IsInherited(j, k, p, z)
    BY <2>2, <2>3, InheritedFields
  <2> HIDE DEF j
  <2>5. PidOf(heap, p) = -1 => HeapInv(j)
    BY <2>2, <2>3, <2>4, InheritedInv DEF Begun
  <2>6. Begun(j, heap, p, x)
    BY <2>4, <2>5 DEF Begun, IsInherited, Same
  <2> QED
    BY <2>1, <2>6
<1> QED
  BY <1>1, <1>2

\* The process p of the table, which was not traced, is traced from now on.
LEMMA TraceStep ==
    ASSUME Inv, damage = "none", is_start, now_pid \in Pid,
           NEW i \in 0 .. procTableSize - 1, NEW p, p = procTable[i],
           NEW k, Begun(k, heap, p, now_pid), Trace(k, p),
           UNCHANGED <<is_start, table, kernel, user, moved>>
    PROVE  Inv'
<1>0. TypeOK /\ HeapInv(heap) /\ TableInv /\ HashInv /\ RunningInv /\ CtrlInv
  BY DEF Inv
<1>1. /\ is_start' = is_start /\ procTable' = procTable /\ procTableSize' = procTableSize
      /\ tracing_process' = p /\ ctrl' = ctrl /\ connects' = connects
      /\ now_pid' = now_pid /\ alive' = alive /\ idled' = idled /\ moved' = moved
      /\ damage' = IF Again(p) THEN "again" ELSE "none"
  BY DEF Trace, table, kernel, user
<1>2. i \in 0 .. Used - 1
  BY <1>0, UsedPlaces
<1>3. p \in Process /\ IsLive(heap, p)
  BY <1>0, <1>2 DEF TableInv, EntryInv
<1>4. /\ k \in Heap /\ PidOf(k, p) = now_pid
      /\ \A q \in Process : q # p => Same(k, heap, q)
      /\ IsTraced(k, p)
  BY <1>3, SETAssumption DEF Begun, IsTraced, IsLive
<1>5. model' \in Model /\ VPMU_enabled' \in BOOLEAN
  <2>1. model \in Model /\ VPMU_enabled \in BOOLEAN
    BY <1>0 DEF TypeOK
  <2>2. StartVPMU(model) \/ (model' = model /\ VPMU_enabled' = VPMU_enabled)
    BY DEF Trace, profile
  <2> QED
    BY <2>1, <2>2, StartVPMUType
<1>6. heap' \in Heap /\ procHashTable' \in [Slot -> {NULL} \cup Process]
  <2> DEFINE s == Probe(k, PidOf(k, p))
  <2>1. /\ s \in 0 .. PROC_HASH_TABLE_SIZE - 1
        /\ \/ heap' = k /\ procHashTable' = procHashTable
           \/ /\ IsHashPos(heap', k, p, s)
              /\ procHashTable' = [procHashTable EXCEPT ![s] = p]
    BY <1>0, <1>3, <1>4, InsertFields DEF Trace
  <2> HIDE DEF s
  <2>2. procHashTable \in [Slot -> {NULL} \cup Process]
    BY <1>0 DEF TypeOK
  <2> QED
    BY <1>3, <1>4, <2>1, <2>2 DEF IsHashPos
<1>7. TypeOK'
  <2>1. tracing_process' \in {NULL} \cup Process /\ damage' \in Damage \cup {"none"}
    BY <1>1, <1>3 DEF Damage
  <2> QED
    BY <1>0, <1>1, <1>5, <1>6, <2>1 DEF TypeOK
<1>8. CASE Again(p)
  BY <1>1, <1>7, <1>8 DEF Inv
<1>9. CASE ~Again(p)
  <2>1. PidOf(heap, p) = -1 /\ ~IsTraced(heap, p)
    BY <1>9 DEF Again, PidOf, IsTraced
  <2>2. /\ HeapInv(heap') /\ HashInv' /\ heap'.processes = k.processes
        /\ \A q \in Process : AllButHashPos(heap', k, q)
    BY <1>0, <1>3, <1>4, <2>1, InsertInv DEF Trace, Begun
  <2>3. \A q \in Process : /\ State(heap', q) = State(heap, q) /\ Idx(heap', q) = Idx(heap, q)
                           /\ q # p => PidOf(heap', q) = PidOf(heap, q)
    <3>1. State(k, p) = State(heap, p) /\ Idx(k, p) = Idx(heap, p)
      BY DEF Begun
    <3> QED
      BY <1>4, <2>2, <3>1 DEF AllButHashPos, Same
  <2>4. PidOf(heap', p) = now_pid /\ IsTraced(heap', p)
    BY <1>3, <1>4, <2>2 DEF AllButHashPos, IsTraced, IsLive
  <2>5. TableInv'
    <3>1. heap.processes <= heap'.processes
      BY <1>0, <2>2 DEF Begun, TypeOK, Heap, Process
    <3>2. \A q \in Process : IsLive(heap, q) => IsLive(heap', q) /\ Idx(heap', q) = Idx(heap, q)
      BY <2>3 DEF IsLive
    <3>3. \A q \in Process : IsTraced(heap', q) =>
              \E a \in 0 .. procTableSize - 1 : procTable[a] = q
      BY <1>0, <2>3 DEF TableInv, IsTraced, IsLive
    <3> QED
      BY <1>0, <1>1, <1>6, <3>1, <3>2, <3>3, TableKept DEF CtrlInv, table
  <2>6. CtrlInv'
    BY <1>0, <1>1 DEF CtrlInv
  <2>7. RunningInv'
    BY <1>1, <2>4 DEF RunningInv
  <2> QED
    BY <1>7, <2>2, <2>5, <2>6, <2>7 DEF Inv
<1> QED
  BY <1>8, <1>9

\* Both events of a program that starts trace an entry of the table, with the
\* pid that runs.
LEMMA ExecveTraces ==
    ASSUME Inv, damage = "none", NEW n \in Name, Execve(n) \/ StartDalvik(n)
    PROVE  /\ is_start /\ now_pid \in alive /\ now_pid \in Pid
           /\ UNCHANGED <<is_start, table, kernel, user, moved>>
           /\ \E i \in 0 .. procTableSize - 1 : \E k :
                  Begun(k, heap, procTable[i], now_pid) /\ Trace(k, procTable[i])
<1> DEFINE p == Find(n)
           b == Started(heap, p)
<1>0. /\ is_start /\ TypeOK /\ HeapInv(heap) /\ TableInv /\ CtrlInv
      /\ now_pid \in alive /\ MayStart(p)
  BY DEF Inv, Execve, StartDalvik, Runs
<1>1. now_pid \in Pid /\ heap \in Heap
  BY <1>0 DEF TypeOK
<1>2. /\ p # NULL
      /\ "USER_C" \in Kind(heap, p) => heap.mapped < MaxFile
  BY <1>0 DEF MayStart, Kind, CanMap
<1>3. PICK i \in 0 .. procTableSize - 1 : p = procTable[i]
  BY <1>0, <1>2, FindsEntry DEF TypeOK
<1>4. Trace(b, p) \/ Trace(Inherit(b, p), p)
  BY DEF Execve, StartDalvik
<1>5. UNCHANGED <<is_start, table, kernel, user, moved>>
  BY DEF Execve, StartDalvik
<1> HIDE DEF p
<1>6. p \in Process /\ IsLive(heap, p)
  <2>1. i \in 0 .. Used - 1
    BY <1>0, UsedPlaces
  <2> QED
    BY <1>0, <1>3, <2>1 DEF TableInv, EntryInv
<1>7. Begun(b, heap, p, now_pid)
  BY <1>0, <1>1, <1>2, <1>6, StartedBegun
<1>8. Begun(Inherit(b, p), heap, p, now_pid)
  BY <1>0, <1>6, <1>7, InheritBegun
<1> HIDE DEF b
<1> QED
  BY <1>0, <1>1, <1>3, <1>4, <1>5, <1>7, <1>8

\* A program, or an application, starts.
LEMMA ExecveStep ==
    ASSUME Inv, damage = "none", NEW n \in Name, Execve(n) \/ StartDalvik(n)
    PROVE  Inv'
  BY ExecveTraces, TraceStep

\* The thread n is counted, and in the table if there is room, before it is
\* looked for.
LEMMA ThreadCreated ==
    ASSUME Inv, damage = "none", NEW c \in Pid, ThreadCreate(c)
    PROVE  \E n \in Process, k \in Heap :
               /\ ~IsLive(heap, n) /\ n = heap.processes + 1 /\ HeapInv(k)
               /\ Attach(n) /\ Insert(k, n) /\ k.processes = n
               /\ IsTraced(k, n) /\ PidOf(k, n) = c /\ (~Full => Idx(k, n) = procTableSize)
               /\ \A q \in Process : q # n => Same(k, heap, q)
<1> DEFINE p == tracing_process
           n == heap.processes + 1
           h == Copied(heap, p, c)
           k == Attached(h, n)
<1>0. is_start /\ TypeOK /\ HeapInv(heap) /\ TableInv /\ HashInv /\ RunningInv
  BY DEF Inv, ThreadCreate, Runs
<1>1. Attach(n) /\ Insert(k, n)
  BY DEF ThreadCreate, NewProcess
<1>2. /\ heap \in Heap /\ heap.processes < MaxProcess
      /\ p \in Process /\ IsTraced(heap, p) /\ c # -1
  BY <1>0, SETAssumption DEF TypeOK, ThreadCreate, CanCreate, RunningInv
<1>3. Counter(heap, p) \in Process
  BY <1>0, <1>2, CounterOfLive DEF HeapInv, IsTraced
<1>4. IsCopied(h, heap, p, c, n)
  <2> HIDE DEF p
  <2> QED
    BY <1>2, <1>3, CopiedFields
<1>5. k = IF Full THEN h ELSE [h EXCEPT !.process[n].idx = procTableSize]
  BY DEF Attached
<1>6. heap.processes \in Nat /\ n > heap.processes /\ n = heap.processes + 1
  BY <1>2 DEF Heap, Process
<1> HIDE DEF h, k, n, p
<1>7. h \in Heap /\ HeapInv(h) /\ n \in Process
  BY <1>0, <1>2, <1>4, CopiedInv DEF IsCopied
<1>8. ~IsLive(heap, n)
  BY <1>0, <1>6, <1>7 DEF HeapInv, AllocInv, IsLive
<1>9. /\ IsTraced(h, n) /\ PidOf(h, n) = c /\ h.processes = n
      /\ \A q \in Process : q # n => Same(h, heap, q)
  BY <1>2, <1>4 DEF IsCopied, IsTraced, IsLive
<1>10. CASE Full
  BY <1>1, <1>5, <1>6, <1>7, <1>8, <1>9, <1>10
<1>11. CASE ~Full
  <2>1. IsIdx(k, h, n, procTableSize)
    <3>1. procTableSize \in -1 .. MAX_PROC_TABLE_SIZE - 1
      BY <1>0, <1>11, SETAssumption DEF TypeOK, Full
    <3> QED
      BY <1>5, <1>7, <1>11, <3>1, IdxFields
  <2>2. k \in Heap /\ HeapInv(k)
    BY <1>7, <2>1, PlacedInv DEF IsIdx
  <2>3. /\ IsTraced(k, n) /\ PidOf(k, n) = c /\ Idx(k, n) = procTableSize /\ k.processes = n
        /\ \A q \in Process : q # n => Same(k, heap, q)
    BY <1>9, <2>1 DEF IsIdx, Shares, Same, IsTraced, IsLive
  <2> QED
    BY <1>1, <1>6, <1>7, <1>8, <2>2, <2>3
<1> QED
  BY <1>10, <1>11

\* A thread is created: it is traced, and the last of the table.
LEMMA ThreadCreateStep ==
    ASSUME Inv, damage = "none", NEW c \in Pid, ThreadCreate(c)
    PROVE  Inv'
<1>0. is_start /\ TypeOK /\ HeapInv(heap) /\ TableInv /\ HashInv /\ RunningInv /\ CtrlInv
  BY DEF Inv, ThreadCreate, Runs
<1>1. /\ is_start' = is_start /\ tracing_process' = tracing_process /\ model' = model
      /\ VPMU_enabled' = VPMU_enabled /\ ctrl' = ctrl /\ connects' = connects
      /\ now_pid' = now_pid /\ alive' = alive \cup {c} /\ idled' = idled /\ moved' = moved
      /\ damage' = IF Full THEN "full" ELSE IF ctrl.pc = "size" THEN "race" ELSE "none"
  BY DEF ThreadCreate, profile, user
<1>2. PICK n \in Process, k \in Heap :
          /\ ~IsLive(heap, n) /\ n = heap.processes + 1 /\ HeapInv(k)
          /\ Attach(n) /\ Insert(k, n) /\ k.processes = n
          /\ IsTraced(k, n) /\ PidOf(k, n) = c /\ (~Full => Idx(k, n) = procTableSize)
          /\ \A q \in Process : q # n => Same(k, heap, q)
  BY ThreadCreated
<1>3. /\ heap' \in Heap /\ HeapInv(heap') /\ HashInv'
      /\ procHashTable' \in [Slot -> {NULL} \cup Process]
      /\ heap'.processes = n
      /\ \A q \in Process : AllButHashPos(heap', k, q)
  BY <1>0, <1>2, InsertInv DEF IsTraced
<1>4. /\ procTableSize' \in 0 .. MAX_PROC_TABLE_SIZE
      /\ procTable' \in [0 .. MAX_PROC_TABLE_SIZE -> {NULL} \cup Process]
  <2>1. CASE Full
    BY <1>0, <1>2, <2>1 DEF Attach, table, TypeOK
  <2>2. CASE ~Full
    BY <1>0, <1>2, <2>2, AttachFields
  <2> QED
    BY <2>1, <2>2
<1>5. TypeOK'
  <2>1. alive' \subseteq Pid /\ damage' \in Damage \cup {"none"}
    BY <1>0, <1>1 DEF TypeOK, Damage
  <2> QED
    BY <1>0, <1>1, <1>3, <1>4, <2>1 DEF TypeOK
<1>6. \A q \in Process : q # n => /\ State(heap', q) = State(heap, q)
                                   /\ Idx(heap', q) = Idx(heap, q)
                                   /\ PidOf(heap', q) = PidOf(heap, q)
  BY <1>2, <1>3 DEF AllButHashPos, Same
<1>7. IsTraced(heap', n) /\ Idx(heap', n) = Idx(k, n)
  BY <1>2, <1>3 DEF AllButHashPos, IsTraced, IsLive
<1>8. ASSUME damage' = "none"
      PROVE  TableInv' /\ CtrlInv'
  <2>1. ~Full /\ ctrl.pc # "size"
    BY <1>1, <1>8
  <2>2. /\ procTableSize' = procTableSize + 1
        /\ procTable'[procTableSize] = n
        /\ \A i \in 0 .. procTableSize - 1 : procTable'[i] = procTable[i]
    BY <1>0, <1>2, <2>1, AttachFields
  <2>3. /\ n \notin moved /\ \A i \in 0 .. procTableSize - 1 : procTable[i] # n
        /\ ctrl.pc = "attach" => ctrl.process \in Process /\ ctrl.process # n
    BY <1>0, <1>2, NewIsNowhere
  <2>4. heap.processes <= heap'.processes
    BY <1>0, <1>2, <1>3 DEF TypeOK, Heap, Process
  <2>5. IsLive(heap', n) /\ Idx(heap', n) = procTableSize
    BY <1>2, <1>7, <2>1 DEF IsTraced
  <2>6. \A q \in Process : IsLive(heap, q) /\ q # n =>
            IsLive(heap', q) /\ Idx(heap', q) = Idx(heap, q)
    BY <1>6 DEF IsLive
  <2>7. \A q \in Process : IsTraced(heap', q) => q = n \/ IsTraced(heap, q)
    BY <1>6 DEF IsTraced, IsLive
  <2>8. TableInv'
    BY <1>0, <1>1, <1>3, <2>1, <2>2, <2>3, <2>4, <2>5, <2>6, <2>7, Appended
  <2> QED
    BY <1>0, <1>1, <2>1, <2>8 DEF CtrlInv
<1>9. RunningInv'
  BY <1>0, <1>1, <1>2, <1>6 DEF RunningInv, TypeOK, IsTraced, IsLive
<1> QED
  BY <1>3, <1>5, <1>8, <1>9 DEF Inv
---------------------------------------------------------------------------
(* The end of the emulator. *)

\* SET_exit deletes the entries one after the other.
LEMMA SETExitStep ==
    ASSUME Inv, damage = "none", SETExit
    PROVE  Inv'
<1> DEFINE n == procTableSize
           G(f) == [k \in 0 .. n |-> IF k = 0 THEN heap ELSE Deleted(f[k - 1], procTable[k - 1])]
           after == CHOOSE f : f = G(f)
<1>0. is_start /\ TypeOK /\ TableInv
  BY DEF Inv, SETExit
<1>1. heap' = after[n]
  BY DEF SETExit
<1>2. n \in Nat /\ heap \in Heap /\ \A k \in 1 .. n : procTable[k - 1] \in Process
  <2>1. n \in Nat /\ heap \in Heap
    BY <1>0, SETAssumption DEF TypeOK
  <2>2. \A k \in 1 .. n : k - 1 \in 0 .. Used - 1
    BY <2>1 DEF Used
  <2> QED
    BY <1>0, <2>1, <2>2 DEF TableInv, EntryInv
<1>3. \E f : f = G(f)
  <2> DEFINE E(m, f) == f = [k \in 0 .. m |->
                 IF k = 0 THEN heap ELSE Deleted(f[k - 1], procTable[k - 1])]
             S == {m \in Nat : \E f : E(m, f)}
  <2>1. 0 \in S
    <3> DEFINE f == [k \in 0 .. 0 |-> heap]
    <3>1. E(0, f)
      OBVIOUS
    <3> QED
      BY <3>1
  <2>2. ASSUME NEW m \in 0 .. n - 1, m \in S
        PROVE  m + 1 \in S
    <3>1. PICK f : E(m, f)
      BY <2>2
    <3> DEFINE g == [k \in 0 .. m + 1 |-> IF k <= m THEN f[k] ELSE Deleted(f[m], procTable[m])]
    <3>2. m \in Nat
      BY <1>2
    <3>3. \A k \in 0 .. m : g[k] = f[k]
      BY <3>2
    <3>4. \A k \in 0 .. m + 1 :
              g[k] = IF k = 0 THEN heap ELSE Deleted(g[k - 1], procTable[k - 1])
      <4> SUFFICES ASSUME NEW k \in 0 .. m + 1
                   PROVE  g[k] = IF k = 0 THEN heap ELSE Deleted(g[k - 1], procTable[k - 1])
        OBVIOUS
      <4>1. CASE k <= m
        <5>1. k \in 0 .. m /\ g[k] = f[k]
          BY <3>2, <3>3, <4>1
        <5>2. f[k] = IF k = 0 THEN heap ELSE Deleted(f[k - 1], procTable[k - 1])
          <6> HIDE DEF g
          <6> QED
            BY <3>1, <5>1
        <5>3. CASE k = 0
          BY <5>1, <5>2, <5>3
        <5>4. CASE k # 0
          <6>1. k - 1 \in 0 .. m
            BY <3>2, <4>1, <5>4
          <6>2. g[k - 1] = f[k - 1]
            BY <3>3, <6>1
          <6> HIDE DEF g
          <6> QED
            BY <5>1, <5>2, <5>4, <6>2
        <5> QED
          BY <5>3, <5>4
      <4>2. CASE ~(k <= m)
        <5>1. k = m + 1 /\ k # 0 /\ k - 1 = m
          BY <3>2, <4>2
        <5>2. g[k] = Deleted(f[m], procTable[m])
          BY <4>2
        <5>3. g[m] = f[m]
          BY <3>2, <3>3
        <5> HIDE DEF g
        <5> QED
          BY <5>1, <5>2, <5>3
      <4> QED
        BY <4>1, <4>2
    <3>5. g = [k \in 0 .. m + 1 |-> g[k]]
      OBVIOUS
    <3> HIDE DEF g
    <3>6. E(m + 1, g)
      BY <3>4, <3>5
    <3> QED
      BY <3>2, <3>6
  <2>3. n \in S
    <3> HIDE DEF S
    <3>1. 0 .. n \subseteq S
      BY <1>2, <2>1, <2>2, Induction
    <3> QED
      BY <1>2, <3>1
  <2> QED
    BY <2>3
<1>4. after = G(after)
  <2> HIDE DEF G
  <2> QED
    BY <1>3
<1> HIDE DEF after
<1>5. after[0] = heap /\ \A k \in 1 .. n : after[k] = Deleted(after[k - 1], procTable[k - 1])
  BY <1>2, <1>4
<1>6. heap' \in Heap
  <2> DEFINE S == {k \in 0 .. n : after[k] \in Heap}
  <2>1. 0 \in S
    BY <1>2, <1>5
  <2>2. ASSUME NEW k \in 0 .. n - 1, k \in S
        PROVE  k + 1 \in S
    <3>1. k + 1 \in 1 .. n /\ (k + 1) - 1 = k
      BY <1>2
    <3>2. after[k + 1] = Deleted(after[k], procTable[k]) /\ procTable[k] \in Process
      BY <1>2, <1>5, <3>1
    <3>3. Deleted(after[k], procTable[k]) \in Heap
      BY <2>2, <3>2, DeletedType
    <3> QED
      BY <1>2, <3>1, <3>2, <3>3
  <2>3. n \in 0 .. n
    BY <1>2
  <2>4. 0 .. n \subseteq S
    <3> HIDE DEF S
    <3> QED
      BY <1>2, <2>1, <2>2, Induction
  <2> QED
    BY <1>1, <2>3, <2>4
<1>7. /\ is_start' = FALSE /\ procTableSize' = 0 /\ VPMU_enabled' = FALSE
      /\ procTable' = procTable /\ procHashTable' = procHashTable
      /\ tracing_process' = tracing_process /\ model' = model
      /\ ctrl' = ctrl /\ connects' = connects
      /\ now_pid' = now_pid /\ alive' = alive /\ idled' = idled
      /\ moved' = moved /\ damage' = damage
  BY DEF SETExit, tracing, kernel, user, history
<1>8. is_start' \in BOOLEAN /\ VPMU_enabled' \in BOOLEAN
  BY <1>7
<1>9. procTableSize' \in 0 .. MAX_PROC_TABLE_SIZE
  BY <1>7, SETAssumption
<1>10. TypeOK'
  BY <1>0, <1>6, <1>7, <1>8, <1>9 DEF TypeOK
<1>11. CtrlInv'
  BY <1>7, SETAssumption DEF Inv, CtrlInv
<1> QED
  BY <1>7, <1>10, <1>11 DEF Inv
---------------------------------------------------------------------------
(* The theorems. *)

\* Every step keeps the invariant.
LEMMA NextInv ==
    ASSUME Inv, [Next]_vars
    PROVE  Inv'
<1>1. CASE Next
  <2>0. damage = "none"
    BY <1>1 DEF Next
  <2>1. ASSUME NEW n \in Name, Execve(n) \/ ExecveFails(n) \/ StartDalvik(n) PROVE Inv'
    BY <2>0, <2>1, ExecveStep, ExecveFailsStep
  <2>2. CASE Mmap
    BY <2>0, <2>2, MmapStep
  <2>3. CASE Exit
    BY <2>0, <2>3, ExitStep
  <2>4. CASE ExitUntraced
    BY <2>0, <2>4, ExitUntracedStep
  <2>5. ASSUME NEW c \in Pid, ThreadCreate(c) PROVE Inv'
    BY <2>0, <2>5, ThreadCreateStep
  <2>6. ASSUME NEW p \in Pid \cup {0}, Switch(p) PROVE Inv'
    BY <2>0, <2>6, SwitchStep
  <2>7. ASSUME NEW m \in TimingModel, DeviceModel(m) PROVE Inv'
    BY <2>0, <2>7, DeviceModelStep
  <2>8. ASSUME NEW n \in Name, NEW t \in Type, DeviceName(n, t) PROVE Inv'
    BY <2>0, <2>8, DeviceNameStep
  <2>9. CASE SETExit
    BY <2>0, <2>9, SETExitStep
  <2>10. ASSUME NEW m \in TimingModel, NEW n \in Name, NEW t \in Type, CtrlConnect(m, n, t)
         PROVE  Inv'
    BY <2>0, <2>10, CtrlConnectStep
  <2>11. CASE CtrlAttach
    BY <2>0, <2>11, CtrlAttachStep
  <2>12. CASE CtrlSize
    BY <2>0, <2>12, CtrlSizeStep
  <2>13. ASSUME NEW stop \in BOOLEAN, CtrlStop(stop) PROVE Inv'
    BY <2>0, <2>13, CtrlStopStep
  <2> QED
    BY <1>1, <2>1, <2>2, <2>3, <2>4, <2>5, <2>6, <2>7, <2>8, <2>9, <2>10, <2>11, <2>12, <2>13
    DEF Next, Guest, Ctrl
<1>2. CASE UNCHANGED vars
  <2>1. /\ is_start' = is_start /\ heap' = heap /\ procTable' = procTable
        /\ procTableSize' = procTableSize /\ procHashTable' = procHashTable
        /\ tracing_process' = tracing_process /\ model' = model
        /\ VPMU_enabled' = VPMU_enabled /\ ctrl' = ctrl /\ connects' = connects
        /\ now_pid' = now_pid /\ alive' = alive /\ idled' = idled
        /\ moved' = moved /\ damage' = damage
    BY <1>2 DEF vars, table, tracing, profile, kernel, user, history
  <2> QED
    BY <2>1 DEF Inv, TypeOK, TableInv, EntryInv, Used, CtrlInv, HashInv, RunningInv
<1> QED
  BY <1>1, <1>2

\* The invariant holds from the start.
LEMMA InvHolds ==
    Spec => []Inv
<1>1. Init => Inv
  BY InitInv
<1>2. Inv /\ [Next]_vars => Inv'
  BY NextInv
<1> QED
  BY <1>1, <1>2, PTL DEF Spec

\* Every variable of the tracer keeps its type: SET_attach_process, proc_insert
\* and SET_detach_process never leave the table or the hash table, whatever
\* their sizes (SET.c:354-380, SET_event.c:37-51), also in the steps that damage
\* them and in those of the control thread after SET_exit.
THEOREM TypeCorrect ==
    Spec => []TypeOK
<1>1. Inv => TypeOK
  BY DEF Inv
<1> QED
  BY <1>1, InvHolds, PTL

\* The table lists every traced process and none that is freed, in whatever
\* order processes are registered, cloned and ended, from the middle of the
\* table too and also between the two stores of the control thread, although
\* SET_detach_process shifts it and tells no entry its new place (SET.c:355-380):
\* an entry that has not been moved knows its place, and one that has been moved
\* has an idx beyond it.  This holds until the first process ends, or a moved
\* one that is not the last, or a thread comes to a full table, or two threads
\* attach at a time, or a traced program executes again.
THEOREM TableLists ==
    Spec => []TableIsLive
<1>1. Inv => TableIsLive
  <2> SUFFICES ASSUME Inv, is_start, damage = "none"
               PROVE  Entries \subseteq Live /\ Traced \subseteq Entries
    BY DEF TableIsLive, ListsLive
  <2>1. TypeOK /\ CtrlInv /\ TableInv
    BY DEF Inv
  <2>2. \A i \in 0 .. procTableSize - 1 : i \in 0 .. Used - 1
    BY <2>1, UsedPlaces
  <2>3. Entries \subseteq Live
    BY <2>1, <2>2 DEF TableInv, EntryInv, Entries, Live, IsLive, State
  <2>4. Traced \subseteq Entries
    BY <2>1 DEF TableInv, Entries, Traced, Live, IsTraced, IsLive, State, PidOf
  <2> QED
    BY <2>3, <2>4
<1> QED
  BY <1>1, InvHolds, PTL

\* A counter counts the traced threads that share it and is not freed before
\* the last of them is deleted (SET.c:261 and 297-352).
THEOREM CountersCount ==
    Spec => []CountsItsThreads
<1>1. Inv => CountsItsThreads
  <2> SUFFICES ASSUME Inv, is_start, damage # "again", NEW p \in Live
               PROVE  /\ heap.process[p].tracing \in heap.counters
                      /\ heap.count[heap.process[p].tracing] = Cardinality(
                             {q \in Traced : heap.process[q].tracing = heap.process[p].tracing})
    BY DEF CountsItsThreads
  <2>1. heap \in Heap /\ CounterInv(heap) /\ p \in Process /\ IsLive(heap, p)
    BY DEF Inv, TypeOK, HeapInv, Live, IsLive, State
  <2>2. {q \in Traced : heap.process[q].tracing = heap.process[p].tracing}
           = Group(heap, Counter(heap, p))
    BY DEF Traced, Live, Group, Counter, IsTraced, IsLive, State, PidOf
  <2>3. /\ Counter(heap, p) \in heap.counters
        /\ Count(heap, Counter(heap, p)) = Cardinality(Group(heap, Counter(heap, p)))
    BY <2>1, CounterOfLive DEF CounterInv
  <2> QED
    BY <2>2, <2>3 DEF Counter, Count
<1> QED
  BY <1>1, InvHolds, PTL

\* No process refers to a file that has been freed: only the last of the threads
\* that share a counter frees files, and an application counts the files it
\* takes over (SET.c:317-341, SET_event.c:325-355).
THEOREM FilesAreLoaded ==
    Spec => []FilesStayLoaded
<1>1. Inv => FilesStayLoaded
  BY DEF Inv, HeapInv, FileInv, FilesStayLoaded, Live, IsLive, State, Files
<1> QED
  BY <1>1, InvHolds, PTL

\* set.tracing_process is the process that runs, and is never a freed one
\* (SET_event.c:222-225), also when pids collide.
THEOREM RunningIsTraced ==
    Spec => []TracesTheRunning
<1>1. Inv => TracesTheRunning
  BY DEF Inv, TypeOK, RunningInv, TracesTheRunning, Traced, Live, Current, IsTraced, IsLive,
         State, PidOf
<1> QED
  BY <1>1, InvHolds, PTL
---------------------------------------------------------------------------
(* The hash table without collisions. *)

\* The place of a pid is in the hash table.
LEMMA PlaceOfPid ==
    ASSUME NEW h \in Heap, NEW p \in Process, IsTraced(h, p)
    PROVE  /\ PidOf(h, p) \in Pid
           /\ PidOf(h, p) % PROC_HASH_TABLE_SIZE \in 0 .. PROC_HASH_TABLE_SIZE - 1
           /\ PidOf(h, p) % PROC_HASH_TABLE_SIZE \in Slot
<1>1. PidOf(h, p) \in Pid
  BY ProcessTypes DEF IsTraced
<1>2. PidOf(h, p) \in Nat /\ PROC_HASH_TABLE_SIZE \in Nat /\ PROC_HASH_TABLE_SIZE > 0
  <2>1. PidOf(h, p) \in Nat
    <3>1. Pid \subseteq Nat
      BY SETAssumption
    <3> QED
      BY <1>1, <3>1
  <2> QED
    BY <2>1, SETAssumption
<1>3. PidOf(h, p) % PROC_HASH_TABLE_SIZE \in 0 .. PROC_HASH_TABLE_SIZE - 1
  BY <1>2
<1> QED
  BY <1>1, <1>2, <1>3 DEF Slot

\* A pid that no traced process has is inserted at its own place.
LEMMA InsertFound ==
    ASSUME TypeOK, TableInv, HashInv, is_start, damage = "none", FoundInv, NoCollision,
           NEW k \in Heap, HeapInv(k), NEW p \in Process,
           ~IsTraced(heap, p), IsTraced(k, p), PidOf(k, p) \in Pid,
           \A q \in Process : q # p => Same(k, heap, q),
           \A q \in Process : IsTraced(heap, q) => PidOf(heap, q) # PidOf(k, p),
           Insert(k, p)
    PROVE  \A q \in Process : IsTraced(heap', q) =>
               /\ HashPos(heap', q) = PidOf(heap', q) % PROC_HASH_TABLE_SIZE
               /\ procHashTable'[HashPos(heap', q)] = q
               /\ q # p => IsTraced(heap, q) /\ PidOf(heap', q) = PidOf(heap, q)
               /\ q = p => PidOf(heap', q) = PidOf(k, p)
<1> DEFINE N == PROC_HASH_TABLE_SIZE
           x == PidOf(k, p)
           s == Probe(k, x)
<1>1. x \in Nat /\ x % N \in 0 .. N - 1 /\ x % N \in Slot
  BY PlaceOfPid, SETAssumption
<1>2. procHashTable \in [Slot -> {NULL} \cup Process] /\ heap \in Heap
  BY DEF TypeOK
<1>3. procHashTable[x % N] = NULL
  <2> SUFFICES ASSUME procHashTable[x % N] # NULL PROVE FALSE
    OBVIOUS
  <2> DEFINE q == procHashTable[x % N]
  <2>1. q \in Process /\ IsTraced(heap, q) /\ HashPos(heap, q) = x % N
    BY <1>1, <1>2 DEF HashInv
  <2>2. PidOf(heap, q) % N = x % N
    BY <2>1 DEF FoundInv
  <2>3. PidOf(heap, q) \in Pid
    BY <1>2, <2>1, PlaceOfPid
  <2>4. PidOf(heap, q) = x
    BY <2>2, <2>3 DEF NoCollision
  <2> QED
    BY <2>1, <2>4
<1>4. s = x % N
  BY <1>1, <1>3, FreePlace, ProbeStops
<1>5. IsHashPos(heap', k, p, s) /\ procHashTable' = [procHashTable EXCEPT ![s] = p]
  BY <1>3, <1>4, InsertFields
<1> HIDE DEF s
<1>6. /\ procHashTable'[x % N] = p
      /\ \A a \in Slot : a # x % N => procHashTable'[a] = procHashTable[a]
  BY <1>1, <1>2, <1>4, <1>5
<1> SUFFICES ASSUME NEW q \in Process, IsTraced(heap', q)
             PROVE  /\ HashPos(heap', q) = PidOf(heap', q) % N
                    /\ procHashTable'[HashPos(heap', q)] = q
                    /\ q # p => IsTraced(heap, q) /\ PidOf(heap', q) = PidOf(heap, q)
                    /\ q = p => PidOf(heap', q) = x
  OBVIOUS
<1>7. CASE q = p
  <2>1. HashPos(heap', p) = s /\ PidOf(heap', p) = x
    BY <1>5 DEF IsHashPos
  <2> QED
    BY <1>4, <1>6, <1>7, <2>1
<1>8. CASE q # p
  <2>1. Same(heap', k, q) /\ Same(k, heap, q)
    BY <1>5, <1>8 DEF IsHashPos
  <2>2. /\ IsTraced(heap, q) /\ PidOf(heap', q) = PidOf(heap, q)
        /\ HashPos(heap', q) = HashPos(heap, q)
    BY <2>1 DEF Same, IsTraced, IsLive
  <2>3. HashPos(heap, q) = PidOf(heap, q) % N /\ procHashTable[HashPos(heap, q)] = q
    BY <2>2 DEF FoundInv
  <2>4. HashPos(heap, q) \in Slot
    BY <1>2, <2>2, <2>3, PlaceOfPid
  <2>5. HashPos(heap, q) # x % N
    BY <1>3, <2>3, SETAssumption DEF NULL, Process
  <2> QED
    BY <1>6, <1>8, <2>2, <2>3, <2>4, <2>5
<1> QED
  BY <1>7, <1>8

\* A program that starts without damage was not traced, and no live process has
\* its pid.
LEMMA TracesNew ==
    ASSUME TypeOK, CtrlInv, TableInv, NEW i \in 0 .. procTableSize - 1, NEW p, p = procTable[i],
           NEW k, Trace(k, p), damage' # "again"
    PROVE  /\ p \in Process /\ IsLive(heap, p) /\ ~IsTraced(heap, p) /\ PidOf(heap, p) = -1
           /\ \A q \in Process : IsLive(heap, q) => PidOf(heap, q) # now_pid
<1>1. ~Again(p)
  BY DEF Trace
<1>2. i \in 0 .. Used - 1
  BY UsedPlaces
<1>3. p \in Process /\ IsLive(heap, p)
  BY <1>2 DEF TableInv, EntryInv
<1> QED
  BY <1>1, <1>3 DEF Again, IsTraced, IsLive, State, PidOf

\* A program that starts is found where its pid says: no live process has it.
LEMMA ExecveFound ==
    ASSUME Inv, damage = "none", FoundInv, NoCollision, NEW n \in Name,
           Execve(n) \/ StartDalvik(n), damage' # "again"
    PROVE  FoundInv'
<1>1. /\ is_start /\ now_pid \in alive /\ now_pid \in Pid
      /\ UNCHANGED <<is_start, table, kernel, user, moved>>
  BY ExecveTraces
<1>2. PICK i \in 0 .. procTableSize - 1 : \E k :
          Begun(k, heap, procTable[i], now_pid) /\ Trace(k, procTable[i])
  BY ExecveTraces
<1> DEFINE p == procTable[i]
<1>3. PICK k : Begun(k, heap, p, now_pid) /\ Trace(k, p)
  BY <1>2
<1>4. TypeOK /\ TableInv /\ HashInv /\ CtrlInv
  BY <1>1 DEF Inv
<1>5. /\ p \in Process /\ IsLive(heap, p) /\ ~IsTraced(heap, p) /\ PidOf(heap, p) = -1
      /\ \A q \in Process : IsLive(heap, q) => PidOf(heap, q) # now_pid
  BY <1>3, <1>4, TracesNew
<1> HIDE DEF p
<1>6. /\ k \in Heap /\ HeapInv(k) /\ PidOf(k, p) = now_pid /\ IsTraced(k, p)
      /\ \A q \in Process : q # p => Same(k, heap, q)
  BY <1>1, <1>3, <1>5, SETAssumption DEF Begun, IsTraced, IsLive
<1>7. /\ Insert(k, p) /\ tracing_process' = p /\ now_pid' = now_pid /\ alive' = alive
  BY <1>1, <1>3 DEF Trace, kernel
<1>8. \A q \in Process : IsTraced(heap, q) => PidOf(heap, q) # PidOf(k, p)
  BY <1>5, <1>6 DEF IsTraced
<1>9. \A q \in Process : IsTraced(heap', q) =>
          /\ HashPos(heap', q) = PidOf(heap', q) % PROC_HASH_TABLE_SIZE
          /\ procHashTable'[HashPos(heap', q)] = q
          /\ q # p => IsTraced(heap, q) /\ PidOf(heap', q) = PidOf(heap, q)
          /\ q = p => PidOf(heap', q) = PidOf(k, p)
  BY <1>1, <1>4, <1>5, <1>6, <1>7, <1>8, InsertFound
<1>10. ASSUME NEW q \in Process, IsTraced(heap', q)
       PROVE  PidOf(heap', q) \in alive' /\ (PidOf(heap', q) = now_pid' => tracing_process' = q)
  <2>1. CASE q = p
    BY <1>1, <1>6, <1>7, <1>9, <1>10, <2>1
  <2>2. CASE q # p
    <3>1. IsTraced(heap, q) /\ PidOf(heap', q) = PidOf(heap, q)
      BY <1>9, <1>10, <2>2
    <3>2. PidOf(heap, q) \in alive
      BY <1>1, <3>1 DEF FoundInv
    <3> QED
      BY <1>6, <1>7, <1>8, <3>1, <3>2
  <2> QED
    BY <2>1, <2>2
<1> QED
  BY <1>9, <1>10 DEF FoundInv

\* A thread is found where its pid says: no traced process has it, as theirs
\* are alive.
LEMMA ThreadCreateFound ==
    ASSUME Inv, damage = "none", FoundInv, NoCollision, NEW c \in Pid, ThreadCreate(c)
    PROVE  FoundInv'
<1>1. /\ is_start /\ now_pid \in alive /\ c \notin alive
      /\ tracing_process' = tracing_process /\ now_pid' = now_pid
      /\ alive' = alive \cup {c}
  BY DEF ThreadCreate, Runs
<1>2. TypeOK /\ TableInv /\ HashInv
  BY <1>1 DEF Inv
<1>3. PICK n \in Process, k \in Heap :
          /\ ~IsLive(heap, n) /\ HeapInv(k) /\ Insert(k, n)
          /\ IsTraced(k, n) /\ PidOf(k, n) = c
          /\ \A q \in Process : q # n => Same(k, heap, q)
  BY ThreadCreated
<1>4. \A q \in Process : IsTraced(heap, q) =>
          /\ PidOf(heap, q) \in alive /\ PidOf(heap, q) # c
          /\ PidOf(heap, q) = now_pid => tracing_process = q
  BY <1>1 DEF FoundInv
<1>5. \A q \in Process : IsTraced(heap', q) =>
          /\ HashPos(heap', q) = PidOf(heap', q) % PROC_HASH_TABLE_SIZE
          /\ procHashTable'[HashPos(heap', q)] = q
          /\ q # n => IsTraced(heap, q) /\ PidOf(heap', q) = PidOf(heap, q)
          /\ q = n => PidOf(heap', q) = PidOf(k, n)
  BY <1>1, <1>2, <1>3, <1>4, InsertFound DEF IsTraced
<1>6. ASSUME NEW q \in Process, IsTraced(heap', q)
      PROVE  PidOf(heap', q) \in alive' /\ (PidOf(heap', q) = now_pid' => tracing_process' = q)
  <2>1. CASE q = n
    <3>1. PidOf(heap', q) = c
      BY <1>3, <1>5, <1>6, <2>1
    <3> QED
      BY <1>1, <3>1
  <2>2. CASE q # n
    BY <1>1, <1>4, <1>5, <1>6, <2>2
  <2> QED
    BY <2>1, <2>2
<1> QED
  BY <1>5, <1>6 DEF FoundInv

\* The process that ends clears its own place, and no traced process has its
\* pid.
LEMMA ExitFound ==
    ASSUME Inv, damage = "none", FoundInv, Exit
    PROVE  FoundInv'
<1> DEFINE p == tracing_process
<1>1. /\ is_start /\ p # NULL /\ tracing_process' = NULL
      /\ procHashTable' = [procHashTable EXCEPT ![HashPos(heap, p)] = NULL]
      /\ now_pid' = now_pid /\ now_pid \in alive /\ alive' = alive \ {now_pid}
  BY DEF Exit, Runs, Current, HashPos
<1>2. TypeOK /\ RunningInv
  BY <1>1 DEF Inv
<1>3. p \in Process /\ IsTraced(heap, p) /\ heap \in Heap
      /\ procHashTable \in [Slot -> {NULL} \cup Process]
  BY <1>1, <1>2 DEF TypeOK, RunningInv
<1>4. IsDeleted(heap', heap, p)
  BY ExitStep
<1>5. SUFFICES ASSUME NEW q \in Process, IsTraced(heap', q)
               PROVE  /\ HashPos(heap', q) = PidOf(heap', q) % PROC_HASH_TABLE_SIZE
                      /\ procHashTable'[HashPos(heap', q)] = q
                      /\ PidOf(heap', q) \in alive'
                      /\ PidOf(heap', q) # now_pid'
  BY DEF FoundInv
<1>6. q # p /\ Same(heap', heap, q)
  BY <1>4, <1>5 DEF IsDeleted, IsTraced, IsLive
<1>7. /\ IsTraced(heap, q) /\ PidOf(heap', q) = PidOf(heap, q)
      /\ HashPos(heap', q) = HashPos(heap, q)
  BY <1>5, <1>6 DEF Same, IsTraced, IsLive
<1>8. /\ HashPos(heap, q) = PidOf(heap, q) % PROC_HASH_TABLE_SIZE
      /\ procHashTable[HashPos(heap, q)] = q
      /\ PidOf(heap, q) \in alive
      /\ PidOf(heap, q) = now_pid => p = q
      /\ procHashTable[HashPos(heap, p)] = p
  BY <1>1, <1>3, <1>7 DEF FoundInv
<1>9. HashPos(heap, q) \in Slot /\ HashPos(heap, q) # HashPos(heap, p)
  BY <1>3, <1>6, <1>7, <1>8, PlaceOfPid
<1> HIDE DEF p
<1>10. procHashTable'[HashPos(heap, q)] = q
  BY <1>1, <1>3, <1>8, <1>9
<1> QED
  BY <1>1, <1>6, <1>7, <1>8, <1>10

\* The word before the hash table is the place of no pid.
LEMMA ExecveFailsFound ==
    ASSUME Inv, damage = "none", FoundInv, NEW n \in Name, ExecveFails(n), damage' # "again"
    PROVE  FoundInv'
<1> DEFINE p == Find(n)
<1>1. IsDeleted(heap', heap, p) /\ PidOf(heap, p) = -1
  BY ExecveFailsStep
<1>2. /\ is_start /\ tracing_process' = tracing_process
      /\ procHashTable' \in {procHashTable, [procHashTable EXCEPT ![-1] = p]}
      /\ now_pid' = now_pid /\ alive' = alive
  BY <1>1 DEF ExecveFails, Runs, kernel, PidOf
<1>3. heap \in Heap /\ procHashTable \in [Slot -> {NULL} \cup Process]
  BY <1>2 DEF Inv, TypeOK
<1> HIDE DEF p
<1>4. SUFFICES ASSUME NEW q \in Process, IsTraced(heap', q)
               PROVE  /\ HashPos(heap', q) = PidOf(heap', q) % PROC_HASH_TABLE_SIZE
                      /\ procHashTable'[HashPos(heap', q)] = q
                      /\ PidOf(heap', q) \in alive
                      /\ PidOf(heap', q) = now_pid => tracing_process = q
  BY <1>2 DEF FoundInv
<1>5. q # p /\ Same(heap', heap, q)
  BY <1>1, <1>4 DEF IsDeleted, IsTraced, IsLive
<1>6. /\ IsTraced(heap, q) /\ PidOf(heap', q) = PidOf(heap, q)
      /\ HashPos(heap', q) = HashPos(heap, q)
  BY <1>4, <1>5 DEF Same, IsTraced, IsLive
<1>7. /\ HashPos(heap, q) = PidOf(heap, q) % PROC_HASH_TABLE_SIZE
      /\ procHashTable[HashPos(heap, q)] = q
      /\ PidOf(heap, q) \in alive
      /\ PidOf(heap, q) = now_pid => tracing_process = q
  BY <1>2, <1>6 DEF FoundInv
<1>8. HashPos(heap, q) \in Slot /\ HashPos(heap, q) # -1
  <2>1. HashPos(heap, q) \in Slot /\ HashPos(heap, q) \in 0 .. PROC_HASH_TABLE_SIZE - 1
    BY <1>3, <1>6, <1>7, PlaceOfPid
  <2> QED
    BY <2>1, SETAssumption
<1>9. procHashTable'[HashPos(heap, q)] = q
  BY <1>2, <1>3, <1>7, <1>8
<1> QED
  BY <1>6, <1>7, <1>9

\* Processes that stay as they are are found as before.
LEMMA KeptFound ==
    ASSUME FoundInv, damage = "none", is_start => Keeps(heap', heap),
           UNCHANGED <<is_start, procHashTable, tracing_process, now_pid, alive>>
    PROVE  FoundInv'
<1>1. is_start => \A q \in Process : IsTraced(heap', q) =>
          /\ IsTraced(heap, q)
          /\ PidOf(heap', q) = PidOf(heap, q) /\ HashPos(heap', q) = HashPos(heap, q)
  BY DEF Keeps, IsTraced
<1> QED
  BY <1>1 DEF FoundInv

\* A process that is not traced has a pid that no traced one has.
LEMMA ExitUntracedFound ==
    ASSUME Inv, damage = "none", FoundInv, ExitUntraced
    PROVE  FoundInv'
<1>1. /\ is_start /\ is_start' = is_start /\ heap' = heap
      /\ procHashTable' = procHashTable /\ tracing_process' = tracing_process
      /\ tracing_process = NULL
      /\ now_pid' = now_pid /\ alive' = alive \ {now_pid}
  BY DEF ExitUntraced, Runs, tracing
<1>2. NULL \notin Process
  BY SETAssumption DEF NULL, Process
<1>3. \A q \in Process : IsTraced(heap, q) => PidOf(heap, q) # now_pid
  BY <1>1, <1>2 DEF FoundInv
<1> QED
  BY <1>1, <1>3 DEF FoundInv

\* The search for a pid ends at once at the traced process that has it.
LEMMA SwitchFound ==
    ASSUME Inv, damage = "none", FoundInv, NEW p \in Pid \cup {0}, Switch(p)
    PROVE  FoundInv'
<1> DEFINE s == Probe(heap, p)
<1>1. /\ is_start /\ is_start' = is_start /\ heap' = heap
      /\ procHashTable' = procHashTable /\ now_pid' = p
      /\ alive' = alive \cup ({p} \ {0})
      /\ p # 0 => tracing_process' = procHashTable[s]
  BY DEF Switch
<1>2. TypeOK /\ TableInv /\ HashInv /\ heap \in Heap
  BY <1>1 DEF Inv, TypeOK
<1>3. ASSUME NEW q \in Process, IsTraced(heap, q), PidOf(heap, q) = p
      PROVE  tracing_process' = q
  <2>1. procHashTable[p % PROC_HASH_TABLE_SIZE] = q
    BY <1>1, <1>3 DEF FoundInv
  <2>2. p \in Pid
    BY <1>2, <1>3, PlaceOfPid
  <2>3. p \in Nat /\ p # 0
    <3>1. Pid \subseteq Nat \ {0}
      BY SETAssumption
    <3> QED
      BY <2>2, <3>1
  <2>4. s = p % PROC_HASH_TABLE_SIZE
    BY <1>2, <1>3, <2>1, <2>3, FreePlace, ProbeStops
  <2> HIDE DEF s
  <2> QED
    BY <1>1, <2>1, <2>3, <2>4
<1> HIDE DEF s
<1> QED
  BY <1>1, <1>3 DEF FoundInv

\* Every step leaves each traced process where its pid says.
LEMMA NextFound ==
    ASSUME Inv, FoundInv, NoCollision, [Next]_vars
    PROVE  FoundInv'
<1>1. CASE Next
  <2>0. damage = "none"
    BY <1>1 DEF Next
  <2>a. CASE damage' = "again"
    BY <2>a DEF FoundInv
  <2>b. CASE damage' # "again"
    <3>1. ASSUME NEW n \in Name, Execve(n) \/ ExecveFails(n) \/ StartDalvik(n) PROVE FoundInv'
      BY <2>0, <2>b, <3>1, ExecveFound, ExecveFailsFound
    <3>2. CASE Mmap
      BY <2>0, <3>2, MmapStep, KeptFound DEF Mmap, tracing, kernel
    <3>3. CASE Exit
      BY <2>0, <3>3, ExitFound
    <3>4. CASE ExitUntraced
      BY <2>0, <3>4, ExitUntracedFound
    <3>5. ASSUME NEW c \in Pid, ThreadCreate(c) PROVE FoundInv'
      BY <2>0, <3>5, ThreadCreateFound
    <3>6. ASSUME NEW p \in Pid \cup {0}, Switch(p) PROVE FoundInv'
      BY <2>0, <3>6, SwitchFound
    <3>7. ASSUME NEW m \in TimingModel, DeviceModel(m) PROVE FoundInv'
      BY <2>0, <3>7 DEF FoundInv, DeviceModel, tracing, kernel
    <3>8. ASSUME NEW n \in Name, NEW t \in Type, DeviceName(n, t) PROVE FoundInv'
      <4>1. UNCHANGED <<is_start, procHashTable, tracing_process, now_pid, alive>>
        BY <3>8 DEF DeviceName, tracing, kernel
      <4> QED
        BY <2>0, <3>8, <4>1, DeviceNameStep, KeptFound
    <3>9. CASE SETExit
      BY <3>9 DEF SETExit, FoundInv
    <3>10. ASSUME NEW m \in TimingModel, NEW n \in Name, NEW t \in Type, CtrlConnect(m, n, t)
           PROVE  FoundInv'
      <4>1. UNCHANGED <<is_start, procHashTable, tracing_process, now_pid, alive>>
        BY <3>10 DEF CtrlConnect, tracing, kernel
      <4> QED
        BY <2>0, <3>10, <4>1, CtrlConnectStep, KeptFound
    <3>11. CASE CtrlAttach
      <4>1. UNCHANGED <<is_start, procHashTable, tracing_process, now_pid, alive>>
        BY <3>11 DEF CtrlAttach, tracing, kernel
      <4> QED
        BY <2>0, <3>11, <4>1, CtrlAttachStep, KeptFound
    <3>12. CASE CtrlSize
      BY <2>0, <3>12 DEF FoundInv, CtrlSize, tracing, kernel
    <3>13. ASSUME NEW stop \in BOOLEAN, CtrlStop(stop) PROVE FoundInv'
      BY <2>0, <3>13 DEF FoundInv, CtrlStop, tracing, kernel
    <3> QED
      BY <1>1, <3>1, <3>2, <3>3, <3>4, <3>5, <3>6, <3>7, <3>8, <3>9, <3>10, <3>11, <3>12, <3>13
      DEF Next, Guest, Ctrl
  <2> QED
    BY <2>a, <2>b
<1>2. CASE UNCHANGED vars
  BY <1>2 DEF FoundInv, vars, tracing, kernel, history
<1> QED
  BY <1>1, <1>2

\* Without collisions FoundInv holds from the start.
LEMMA FoundHolds ==
    ASSUME NoCollision
    PROVE  Spec => []FoundInv
<1>1. Init => FoundInv
  BY InitFields DEF FoundInv, IsTraced, IsLive
<1>2. Inv /\ FoundInv /\ [Next]_vars => FoundInv'
  BY NextFound
<1> QED
  BY <1>1, <1>2, InvHolds, PTL DEF Spec

\* As long as no two pids have the same place, the hash table holds exactly the
\* traced processes and each of them knows its place, so that the end of a
\* process clears its own place (SET_event.c:37-51 and 218).
THEOREM HashIsExact ==
    ASSUME NoCollision
    PROVE  Spec => []HashHoldsTraced
<1>1. Inv /\ FoundInv => HashHoldsTraced
  <2> SUFFICES ASSUME Inv, FoundInv, is_start, damage # "again"
               PROVE  /\ \A s \in Slot \ {-1} : procHashTable[s] # NULL =>
                             /\ procHashTable[s] \in Traced
                             /\ heap.process[procHashTable[s]].hash_pos = s
                      /\ \A p \in Traced : /\ heap.process[p].hash_pos # NoSlot
                                           /\ procHashTable[heap.process[p].hash_pos] = p
    BY DEF HashHoldsTraced, HashExact
  <2>1. TypeOK /\ HashInv /\ heap \in Heap
    BY DEF Inv, TypeOK
  <2>2. \A p : p \in Traced <=> p \in Process /\ IsTraced(heap, p)
    BY DEF Traced, Live, IsTraced, IsLive, State, PidOf
  <2>3. ASSUME NEW s \in Slot \ {-1}, procHashTable[s] # NULL
        PROVE  /\ procHashTable[s] \in Traced
               /\ heap.process[procHashTable[s]].hash_pos = s
    <3>1. s \in 0 .. PROC_HASH_TABLE_SIZE - 1
      BY SETAssumption DEF Slot
    <3>2. procHashTable[s] \in Process
      BY <2>1, <2>3 DEF TypeOK
    <3> QED
      BY <2>1, <2>2, <2>3, <3>1, <3>2 DEF HashInv, HashPos
  <2>4. ASSUME NEW p \in Traced
        PROVE  /\ heap.process[p].hash_pos # NoSlot
               /\ procHashTable[heap.process[p].hash_pos] = p
    <3>1. p \in Process /\ IsTraced(heap, p)
      BY <2>2
    <3>2. /\ HashPos(heap, p) = PidOf(heap, p) % PROC_HASH_TABLE_SIZE
          /\ procHashTable[HashPos(heap, p)] = p
      BY <3>1 DEF FoundInv
    <3>3. HashPos(heap, p) \in 0 .. PROC_HASH_TABLE_SIZE - 1
      BY <2>1, <3>1, <3>2, PlaceOfPid
    <3>4. HashPos(heap, p) # NoSlot
      BY <3>3, SETAssumption DEF NoSlot
    <3> QED
      BY <3>2, <3>4 DEF HashPos
  <2> QED
    BY <2>3, <2>4
<1> QED
  BY <1>1, InvHolds, FoundHolds, PTL

\* As long as no two pids have the same place, a switch to a traced process
\* finds it (SET_event.c:53-64 and 222-225).
THEOREM SwitchFinds ==
    ASSUME NoCollision
    PROVE  Spec => []SwitchFindsTraced
<1>1. Inv /\ FoundInv => SwitchFindsTraced
  <2> SUFFICES ASSUME Inv, FoundInv, is_start, damage # "again", NEW p \in Traced
               PROVE  procHashTable[Probe(heap, heap.process[p].pid)] = p
    BY DEF SwitchFindsTraced
  <2> DEFINE x == PidOf(heap, p)
  <2>1. TypeOK /\ heap \in Heap
    BY DEF Inv, TypeOK
  <2>2. p \in Process /\ IsTraced(heap, p)
    BY DEF Traced, Live, IsTraced, IsLive, State, PidOf
  <2>3. procHashTable[x % PROC_HASH_TABLE_SIZE] = p
    BY <2>2 DEF FoundInv
  <2>4. x \in Nat
    <3>1. Pid \subseteq Nat
      BY SETAssumption
    <3> QED
      BY <2>1, <2>2, <3>1, PlaceOfPid
  <2>5. Probe(heap, x) = x % PROC_HASH_TABLE_SIZE
    BY <2>3, <2>4, ProbeStops
  <2> QED
    BY <2>3, <2>5 DEF PidOf
<1> QED
  BY <1>1, InvHolds, FoundHolds, PTL
---------------------------------------------------------------------------
(* The profile. *)

\* SET_has_process_being_tracing finds exactly the traced processes with an
\* output: the counter of an entry that is not traced counts nobody.
LEMMA HasProcessIsTraced ==
    ASSUME NEW h \in Heap, CounterInv(h), NEW entries,
           \A e \in entries : e \in Process /\ IsLive(h, e),
           \A q \in Process : IsTraced(h, q) => q \in entries
    PROVE  HasProcess(h, entries) <=>
               \E q \in Process : IsTraced(h, q) /\ "OUTPUT" \in Kind(h, q)
<1>1. ASSUME NEW q \in Process, IsTraced(h, q)
      PROVE  Count(h, Counter(h, q)) > 0
  <2> DEFINE g == Counter(h, q)
  <2>1. g \in Process
    BY <1>1, CounterOfLive DEF IsTraced
  <2>2. IsFiniteSet(Group(h, g)) /\ q \in Group(h, g)
    BY <1>1, SetsAreFinite DEF Group
  <2>3. Cardinality(Group(h, g)) \in Nat /\ Cardinality(Group(h, g)) # 0
    BY <2>2, FS_CardinalityType, FS_EmptySet
  <2>4. Count(h, g) = Cardinality(Group(h, g))
    BY <2>1 DEF CounterInv
  <2> QED
    BY <2>3, <2>4
<1>2. ASSUME NEW e \in entries, Count(h, Counter(h, e)) > 0
      PROVE  e \in Process /\ IsTraced(h, e)
  <2>1. e \in Process /\ IsLive(h, e)
    OBVIOUS
  <2>2. SUFFICES ASSUME PidOf(h, e) = -1 PROVE FALSE
    BY <2>1 DEF IsTraced
  <2>3. Counter(h, e) = e /\ \A q \in Process : IsLive(h, q) /\ Counter(h, q) = e => q = e
    BY <2>1, <2>2 DEF CounterInv
  <2>4. Group(h, e) = {}
    BY <2>2, <2>3 DEF Group, IsTraced
  <2>5. Count(h, e) = 0
    BY <2>1, <2>4, FS_EmptySet DEF CounterInv
  <2> QED
    BY <1>2, <2>3, <2>5
<1>3. HasProcess(h, entries) <=>
          \E e \in entries : Count(h, Counter(h, e)) > 0 /\ "OUTPUT" \in Kind(h, e)
  BY DEF HasProcess, Count, Counter, Kind
<1> QED
  BY <1>1, <1>2, <1>3

\* A traced process of h is traced in k too, for the same outputs.
StaysTraced(k, h) ==
    \A q \in Process : IsTraced(h, q) => IsTraced(k, q) /\ Kind(k, q) = Kind(h, q)

\* A step that ends no traced process and does not stop the profile.
ProfileStep ==
    StaysTraced(heap', heap) /\ (VPMU_enabled => VPMU_enabled' \/ ctrl' # ctrl)

\* The step of ProfileFollowsTracing.
FollowsTracing ==
    /\ VPMU_enabled /\ ~VPMU_enabled' => TracedOutputs' = {} \/ ctrl' # ctrl \/ ~is_start'
    /\ TracedOutputs # {} /\ TracedOutputs' = {} => ~VPMU_enabled'

\* Such a step stops the profile only if the user says so.
LEMMA ProfileStepFollows ==
    ASSUME ProfileStep
    PROVE  FollowsTracing
<1>1. TracedOutputs # {} => TracedOutputs' # {}
  BY DEF ProfileStep, StaysTraced, TracedOutputs, Traced, Live, IsTraced, IsLive, State,
         PidOf, Kind
<1> QED
  BY <1>1 DEF ProfileStep, FollowsTracing

\* Processes that stay as they are stay traced.
LEMMA KeptStays ==
    ASSUME NEW k, NEW h, Keeps(k, h)
    PROVE  StaysTraced(k, h)
  BY DEF Keeps, StaysTraced, IsTraced, IsLive

\* A process that was not traced is inserted: the others stay traced.
LEMMA InsertStays ==
    ASSUME TypeOK, TableInv, HashInv, NEW k \in Heap, HeapInv(k), NEW p \in Process,
           ~IsTraced(heap, p), IsTraced(k, p), PidOf(k, p) \in Pid,
           \A q \in Process : q # p => Same(k, heap, q),
           Insert(k, p)
    PROVE  StaysTraced(heap', heap)
<1>1. \A q \in Process : AllButHashPos(heap', k, q)
  BY InsertInv
<1> QED
  BY <1>1 DEF StaysTraced, AllButHashPos, Same, IsTraced, IsLive

\* SET_start_vpmu never stops the profile.
LEMMA ExecveProfile ==
    ASSUME Inv, damage = "none", NEW n \in Name, Execve(n) \/ StartDalvik(n), damage' # "again"
    PROVE  ProfileStep
<1>1. is_start /\ now_pid \in Pid
  BY ExecveTraces
<1>2. PICK i \in 0 .. procTableSize - 1 : \E k :
          Begun(k, heap, procTable[i], now_pid) /\ Trace(k, procTable[i])
  BY ExecveTraces
<1> DEFINE p == procTable[i]
<1>3. PICK k : Begun(k, heap, p, now_pid) /\ Trace(k, p)
  BY <1>2
<1>4. TypeOK /\ TableInv /\ HashInv /\ CtrlInv
  BY <1>1 DEF Inv
<1>5. p \in Process /\ IsLive(heap, p) /\ ~IsTraced(heap, p) /\ PidOf(heap, p) = -1
  BY <1>3, <1>4, TracesNew
<1> HIDE DEF p
<1>6. /\ k \in Heap /\ HeapInv(k) /\ PidOf(k, p) = now_pid /\ IsTraced(k, p)
      /\ \A q \in Process : q # p => Same(k, heap, q)
  BY <1>1, <1>3, <1>5, SETAssumption DEF Begun, IsTraced, IsLive
<1>7. Insert(k, p) /\ (VPMU_enabled => VPMU_enabled')
  BY <1>3 DEF Trace, StartVPMU, profile
<1>8. StaysTraced(heap', heap)
  BY <1>1, <1>4, <1>5, <1>6, <1>7, InsertStays
<1> QED
  BY <1>7, <1>8 DEF ProfileStep

\* A thread that is created ends no other.
LEMMA ThreadCreateProfile ==
    ASSUME Inv, damage = "none", NEW c \in Pid, ThreadCreate(c)
    PROVE  ProfileStep
<1>1. is_start /\ VPMU_enabled' = VPMU_enabled
  BY DEF ThreadCreate, Runs, profile
<1>2. TypeOK /\ TableInv /\ HashInv
  BY <1>1 DEF Inv
<1>3. PICK n \in Process, k \in Heap :
          /\ ~IsLive(heap, n) /\ HeapInv(k) /\ Insert(k, n)
          /\ IsTraced(k, n) /\ PidOf(k, n) = c
          /\ \A q \in Process : q # n => Same(k, heap, q)
  BY ThreadCreated
<1>4. StaysTraced(heap', heap)
  BY <1>2, <1>3, InsertStays DEF IsTraced
<1> QED
  BY <1>1, <1>4 DEF ProfileStep

\* The process whose start fails was not traced.
LEMMA ExecveFailsProfile ==
    ASSUME Inv, damage = "none", NEW n \in Name, ExecveFails(n), damage' # "again"
    PROVE  ProfileStep
<1>1. IsDeleted(heap', heap, Find(n)) /\ PidOf(heap, Find(n)) = -1
  BY ExecveFailsStep
<1>2. StaysTraced(heap', heap)
  BY <1>1 DEF StaysTraced, IsDeleted, Same, IsTraced, IsLive
<1>3. VPMU_enabled' = VPMU_enabled
  BY DEF ExecveFails, profile
<1> QED
  BY <1>2, <1>3 DEF ProfileStep

\* SET_end_tracing stops the profile exactly when no traced process is left
\* that has an output.
LEMMA ExitFollows ==
    ASSUME Inv, damage = "none", Exit, damage' = "none"
    PROVE  FollowsTracing
<1>1. Inv' /\ is_start'
  BY ExitStep DEF Exit, Runs
<1>2. heap' \in Heap /\ CounterInv(heap') /\ TableInv'
  BY <1>1 DEF Inv, TypeOK, HeapInv
<1>3. /\ \A e \in Entries' : e \in Process /\ IsLive(heap', e)
      /\ \A q \in Process : IsTraced(heap', q) => q \in Entries'
  <2>1. \A i \in 0 .. procTableSize' - 1 : i \in 0 .. Used' - 1
    <3>1. procTableSize' \in Nat
      BY <1>1, SETAssumption DEF Inv, TypeOK
    <3>2. Used' \in {procTableSize', procTableSize' + 1}
      BY DEF Used
    <3>3. \A n \in Nat : \A u \in {n, n + 1} : \A i \in 0 .. n - 1 : i \in 0 .. u - 1
      OBVIOUS
    <3> QED
      BY <3>1, <3>2, <3>3
  <2> QED
    BY <1>2, <2>1 DEF TableInv, EntryInv, Entries
<1>4. HasProcess(heap', Entries') <=>
          \E q \in Process : IsTraced(heap', q) /\ "OUTPUT" \in Kind(heap', q)
  BY <1>2, <1>3, HasProcessIsTraced
<1>5. TracedOutputs' # {} <=> \E q \in Process : IsTraced(heap', q) /\ "OUTPUT" \in Kind(heap', q)
  BY DEF TracedOutputs, Traced, Live, IsTraced, IsLive, State, PidOf, Kind
<1>6. VPMU_enabled' = (VPMU_enabled /\ HasProcess(heap', Entries'))
  <2>1. ~\E e \in Entries' : heap'.process[e].state # "live"
    BY <1>3 DEF IsLive, State
  <2> QED
    BY <2>1 DEF Exit, EndTracing
<1> QED
  BY <1>1, <1>4, <1>5, <1>6 DEF FollowsTracing

\* A step that leaves the heap alone ends no process.
LEMMA SameHeapFollows ==
    ASSUME heap' = heap, VPMU_enabled => VPMU_enabled' \/ ctrl' # ctrl
    PROVE  FollowsTracing
<1>1. ProfileStep
  BY DEF ProfileStep, StaysTraced
<1> QED
  BY <1>1, ProfileStepFollows

\* Every step follows the processes that are traced.
LEMMA NextFollows ==
    ASSUME Inv, [Next]_vars, is_start, damage' \notin {"first", "moved", "again"}
    PROVE  FollowsTracing
<1>1. CASE Next
  <2>0. damage = "none" /\ damage' # "again"
    BY <1>1 DEF Next
  <2>1. ASSUME NEW n \in Name, Execve(n) \/ ExecveFails(n) \/ StartDalvik(n)
        PROVE  FollowsTracing
    BY <2>0, <2>1, ExecveProfile, ExecveFailsProfile, ProfileStepFollows
  <2>2. CASE Mmap
    <3>1. VPMU_enabled' = VPMU_enabled
      BY <2>2 DEF Mmap, profile
    <3> QED
      BY <2>0, <2>2, <3>1, MmapStep, KeptStays, ProfileStepFollows DEF ProfileStep
  <2>3. CASE Exit
    <3>1. damage' = "none"
      BY <2>0, <2>3, ExitStep
    <3> QED
      BY <2>0, <2>3, <3>1, ExitFollows
  <2>4. CASE ExitUntraced
    BY <2>4, SameHeapFollows DEF ExitUntraced, profile
  <2>5. ASSUME NEW c \in Pid, ThreadCreate(c) PROVE FollowsTracing
    BY <2>0, <2>5, ThreadCreateProfile, ProfileStepFollows
  <2>6. ASSUME NEW p \in Pid \cup {0}, Switch(p) PROVE FollowsTracing
    <3>1. heap' = heap /\ VPMU_enabled' = VPMU_enabled
      BY <2>6 DEF Switch, profile
    <3> QED
      BY <3>1, SameHeapFollows
  <2>7. ASSUME NEW m \in TimingModel, DeviceModel(m) PROVE FollowsTracing
    BY <2>7, SameHeapFollows DEF DeviceModel
  <2>8. ASSUME NEW n \in Name, NEW t \in Type, DeviceName(n, t) PROVE FollowsTracing
    <3>1. VPMU_enabled' = VPMU_enabled
      BY <2>8 DEF DeviceName, profile
    <3> QED
      BY <2>0, <2>8, <3>1, DeviceNameStep, KeptStays, ProfileStepFollows DEF ProfileStep
  <2>9. CASE SETExit
    <3>1. is_start' = FALSE /\ VPMU_enabled' = FALSE
      BY <2>9 DEF SETExit
    <3> QED
      BY <3>1 DEF FollowsTracing
  <2>10. ASSUME NEW m \in TimingModel, NEW n \in Name, NEW t \in Type, CtrlConnect(m, n, t)
         PROVE  FollowsTracing
    <3>1. VPMU_enabled => VPMU_enabled'
      BY <2>10 DEF CtrlConnect, StartVPMU
    <3> QED
      BY <2>0, <2>10, <3>1, CtrlConnectStep, KeptStays, ProfileStepFollows DEF ProfileStep
  <2>11. CASE CtrlAttach
    <3>1. VPMU_enabled' = VPMU_enabled
      BY <2>11 DEF CtrlAttach, profile
    <3> QED
      BY <2>0, <2>11, <3>1, CtrlAttachStep, KeptStays, ProfileStepFollows DEF ProfileStep
  <2>12. CASE CtrlSize
    BY <2>12, SameHeapFollows DEF CtrlSize, profile
  <2>13. ASSUME NEW stop \in BOOLEAN, CtrlStop(stop) PROVE FollowsTracing
    <3>1. heap' = heap /\ ctrl.pc = "read" /\ ctrl'.pc = "accept"
      BY <2>13 DEF CtrlStop
    <3>2. ctrl' # ctrl
      BY <3>1
    <3> QED
      BY <3>1, <3>2, SameHeapFollows
  <2> QED
    BY <1>1, <2>1, <2>2, <2>3, <2>4, <2>5, <2>6, <2>7, <2>8, <2>9, <2>10, <2>11, <2>12, <2>13
    DEF Next, Guest, Ctrl
<1>2. CASE UNCHANGED vars
  BY <1>2, SameHeapFollows DEF vars, profile
<1> QED
  BY <1>1, <1>2

\* The profile runs on until the last traced process with an output has ended,
\* or the user or SET_exit stops it, and stops then (SET_event.c:184-191).
THEOREM ProfileFollows ==
    Spec => ProfileFollowsTracing
<1>1. Inv /\ [Next]_vars =>
          (is_start /\ damage' \notin {"first", "moved", "again"} => FollowsTracing)
  BY NextFollows
<1>2. (is_start /\ damage' \notin {"first", "moved", "again"} => FollowsTracing) =>
         [is_start /\ damage' \notin {"first", "moved", "again"} =>
          /\ VPMU_enabled /\ ~VPMU_enabled' => TracedOutputs' = {} \/ ctrl' # ctrl \/ ~is_start'
          /\ TracedOutputs # {} /\ TracedOutputs' = {} => ~VPMU_enabled']_vars
  BY DEF FollowsTracing
<1> QED
  BY <1>1, <1>2, InvHolds, PTL DEF Spec, ProfileFollowsTracing
=============================================================================
