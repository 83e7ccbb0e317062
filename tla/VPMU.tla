-------------------------------- MODULE VPMU --------------------------------
(***************************************************************************)
(* The virtual performance monitor of a device (src/hw/vpmu-device.c),     *)
(* from which its guest's virtual time comes, in the build with            *)
(* CONFIG_VPMU_THREAD.  The emulation thread "cpu" puts branches into a    *)
(* ring and memory references into sets of references; branch_thread and   *)
(* dinero_thread take them out and simulate the predictor and the caches.  *)
(* The profile is started and stopped by the guest, through the device     *)
(* register (cpu), and by SET (src/SET/SET.c), on cpu for the events of    *)
(* traced processes or on its control thread "ctrl" for a user.            *)
(*                                                                         *)
(* todo[t] is what thread t has still to do of the function it is in, one  *)
(* element per access to what the threads share.  The k-th branch and the  *)
(* k-th reference are represented by k.                                    *)
(***************************************************************************)
EXTENDS Naturals, Sequences

CONSTANTS
    BRANCH_QUEUE_SIZE,   \* entries of the ring of branches (200)
    TRACE_SET,           \* sets of references (500)
    TRACE_QUEUE_SIZE,    \* references in a set (100)
    DeviceModel,         \* the timing models the guest asks for
    SETModel,            \* the timing models SET asks for
    Controller,          \* the threads that start and stop profiles
    MaxBranches,         \* bound: branches that are put
    MaxRefs,             \* bound: references that are put
    MaxCalls,            \* bound: starts, stops and reports
    Patient              \* profiles start only when both workers are suspended

Model == {"A", "B", "C", "D", "E", "F", "G", "none"}
Thread == {"cpu", "ctrl"}

ASSUME VPMUAssumption ==
    /\ BRANCH_QUEUE_SIZE \in Nat \ {0, 1}
    /\ TRACE_SET \in Nat \ {0}
    /\ TRACE_QUEUE_SIZE \in Nat \ {0}
    /\ DeviceModel \subseteq Model \ {"F", "G"}
    /\ SETModel \subseteq {"E", "F", "G"}
    /\ Controller \subseteq Thread
    /\ MaxBranches \in Nat
    /\ MaxRefs \in Nat
    /\ MaxCalls \in Nat
    /\ Patient \in BOOLEAN

VARIABLES
    enabled,       \* VPMU_enabled
    timing,        \* timing_register: the simulators with a thread that are on
    todo,          \* what each thread has still to do
    reg,           \* what each thread has read of a counter it is updating
    BranchTrace,   \* the ring
    bhead,         \* branch_index_head
    btail,         \* branch_index_tail
    bsize,         \* branch_buffer_size
    mutex_sync_branch,   \* its holder
    bpc,           \* where branch_thread is
    TraceBuffer,   \* the sets of references
    pset, pind,    \* set and index of cache_ref
    cset, cind,    \* set and index of dinero_thread
    set_used,      \* how many sets are full
    mutex_sync_cache,    \* its holder
    cpc,           \* where dinero_thread is
    bput, bdone,   \* history: how many branches were put, and simulated
    rput, rdone,   \* history: how many references were put, and simulated
    seen,          \* history: the threads that the report of cpu has waited for
    calls          \* how many starts, stops and reports

control == <<enabled, timing, seen, calls>>
branches == <<BranchTrace, bhead, btail, bsize, mutex_sync_branch, bput, bdone>>
refs == <<TraceBuffer, pset, pind, cset, cind, set_used, mutex_sync_cache, rput, rdone>>
vars == <<control, todo, reg, branches, bpc, refs, cpc>>

Free == "free"
Hole == 0     \* what branch_thread leaves in an entry (33 in the code)

Init ==
    /\ enabled = FALSE
    /\ timing = {}
    /\ todo = [t \in Thread |-> << >>]
    /\ reg = [t \in {"cpu", "branch", "cache"} |-> 0]
    /\ BranchTrace = [i \in 0 .. BRANCH_QUEUE_SIZE - 1 |-> Hole]
    /\ bhead = 0 /\ btail = 0 /\ bsize = 0
    /\ mutex_sync_branch = Free
    /\ bpc = "loop"
    /\ TraceBuffer = [s \in 0 .. TRACE_SET - 1 |-> [i \in 0 .. TRACE_QUEUE_SIZE - 1 |-> 0]]
    /\ pset = 0 /\ pind = 0 /\ cset = 0 /\ cind = 0 /\ set_used = 0
    /\ mutex_sync_cache = Free
    /\ cpc = "loop"
    /\ bput = 0 /\ bdone = 0 /\ rput = 0 /\ rdone = 0
    /\ seen = {}
    /\ calls = 0

Does(t, step) == todo[t] # << >> /\ Head(todo[t]) = step
Done(t) == todo' = [todo EXCEPT ![t] = Tail(@)]
---------------------------------------------------------------------------
(* branch_thread *)

BranchLoop ==
    /\ bpc = "loop"
    /\ bpc' = IF enabled THEN "size" ELSE "suspend"
    /\ UNCHANGED <<control, todo, reg, branches, refs, cpc>>

\* The spin on an empty ring reads the size and then VPMU_enabled.
BranchSize ==
    /\ bpc = "size"
    /\ bpc' = IF bsize = 0 THEN "empty" ELSE "take"
    /\ UNCHANGED <<control, todo, reg, branches, refs, cpc>>

BranchEmpty ==
    /\ bpc = "empty"
    /\ bpc' = IF enabled THEN "size" ELSE "suspend"
    /\ UNCHANGED <<control, todo, reg, branches, refs, cpc>>

\* branch_set, and the entry is marked as read.
BranchTake ==
    /\ bpc = "take"
    /\ bdone' = bdone + 1
    /\ BranchTrace' = [BranchTrace EXCEPT ![btail] = Hole]
    /\ btail' = (btail + 1) % BRANCH_QUEUE_SIZE
    /\ bpc' = "lock"
    /\ UNCHANGED <<control, todo, reg, bhead, bsize, mutex_sync_branch, bput, refs, cpc>>

BranchLock ==
    /\ bpc = "lock"
    /\ mutex_sync_branch = Free
    /\ mutex_sync_branch' = "branch"
    /\ reg' = [reg EXCEPT !["branch"] = bsize]
    /\ bpc' = "store"
    /\ UNCHANGED <<control, todo, BranchTrace, bhead, btail, bsize, bput, bdone, refs, cpc>>

BranchStore ==
    /\ bpc = "store"
    /\ bsize' = reg["branch"] - 1
    /\ mutex_sync_branch' = Free
    /\ bpc' = "loop"
    /\ UNCHANGED <<control, todo, reg, BranchTrace, bhead, btail, bput, bdone, refs, cpc>>

\* pthread_cond_wait on branch_cond, without a predicate.
BranchSuspend ==
    /\ bpc = "suspend"
    /\ bpc' = "wait"
    /\ UNCHANGED <<control, todo, reg, branches, refs, cpc>>

\* POSIX lets pthread_cond_wait return without a signal.
BranchSpurious ==
    /\ bpc = "wait"
    /\ bpc' = "loop"
    /\ UNCHANGED <<control, todo, reg, branches, refs, cpc>>

BranchThread == \/ BranchLoop \/ BranchSize \/ BranchEmpty \/ BranchTake
                \/ BranchLock \/ BranchStore \/ BranchSuspend
---------------------------------------------------------------------------
(* dinero_thread *)

CacheLoop ==
    /\ cpc = "loop"
    /\ cpc' = IF enabled THEN "used" ELSE "drain"
    /\ UNCHANGED <<control, todo, reg, branches, bpc, refs>>

\* Broken variant: dinero_thread stops with VPMU_enabled, as branch_thread does.
CacheDrainNever ==
    /\ cpc = "drain"
    /\ cpc' = "suspend"
    /\ UNCHANGED <<control, todo, reg, branches, bpc, refs>>

\* A disabled VPMU still simulates the sets that are full.
CacheDrain ==
    /\ cpc = "drain"
    /\ cpc' = IF set_used > 0 THEN "used" ELSE "suspend"
    /\ UNCHANGED <<control, todo, reg, branches, bpc, refs>>

CacheUsed ==
    /\ cpc = "used"
    /\ cpc' = IF set_used > 0 THEN "take" ELSE "loop"
    /\ UNCHANGED <<control, todo, reg, branches, bpc, refs>>

\* One reference of the set goes to the cache simulator.
CacheTake ==
    /\ cpc = "take"
    /\ rdone' = rdone + 1
    /\ cind' = cind + 1
    /\ cpc' = IF cind' = TRACE_QUEUE_SIZE THEN "lock" ELSE "take"
    /\ UNCHANGED <<control, todo, reg, branches, bpc, TraceBuffer, pset, pind, cset,
                   set_used, mutex_sync_cache, rput>>

CacheLock ==
    /\ cpc = "lock"
    /\ mutex_sync_cache = Free
    /\ mutex_sync_cache' = "cache"
    /\ reg' = [reg EXCEPT !["cache"] = set_used]
    /\ cpc' = "store"
    /\ UNCHANGED <<control, todo, branches, bpc, TraceBuffer, pset, pind, cset, cind,
                   set_used, rput, rdone>>

CacheStore ==
    /\ cpc = "store"
    /\ set_used' = reg["cache"] - 1
    /\ mutex_sync_cache' = Free
    /\ cind' = 0
    /\ cset' = (cset + 1) % TRACE_SET
    /\ cpc' = "loop"
    /\ UNCHANGED <<control, todo, reg, branches, bpc, TraceBuffer, pset, pind, rput, rdone>>

CacheSuspend ==
    /\ cpc = "suspend"
    /\ cpc' = "wait"
    /\ UNCHANGED <<control, todo, reg, branches, bpc, refs>>

CacheSpurious ==
    /\ cpc = "wait"
    /\ cpc' = "loop"
    /\ UNCHANGED <<control, todo, reg, branches, bpc, refs>>

CacheThread == \/ CacheLoop \/ CacheDrain \/ CacheUsed \/ CacheTake
               \/ CacheLock \/ CacheStore \/ CacheSuspend
---------------------------------------------------------------------------
(* The emulation thread puts branches and references. *)

\* HELPER(branch_predictor)
PutEvent ==
    /\ todo["cpu"] = << >>
    /\ enabled
    /\ "branch" \in timing
    /\ bput < MaxBranches
    /\ todo' = [todo EXCEPT !["cpu"] = <<"trace", "full", "lock_branch", "store_branch">>]
    /\ UNCHANGED <<control, reg, branches, bpc, refs, cpc>>

\* put_event writes the entry before it knows that the ring has room.
PutTrace ==
    /\ Does("cpu", "trace")
    /\ BranchTrace' = [BranchTrace EXCEPT ![bhead] = bput + 1]
    /\ Done("cpu")
    /\ UNCHANGED <<control, reg, bhead, btail, bsize, mutex_sync_branch, bput, bdone, bpc,
                   refs, cpc>>

\* Broken variant: all entries may be full.
PutFullLate ==
    /\ Does("cpu", "full")
    /\ bsize # BRANCH_QUEUE_SIZE
    /\ bhead' = (bhead + 1) % BRANCH_QUEUE_SIZE
    /\ Done("cpu")
    /\ UNCHANGED <<control, reg, BranchTrace, btail, bsize, mutex_sync_branch, bput, bdone,
                   bpc, refs, cpc>>

PutFull ==
    /\ Does("cpu", "full")
    /\ bsize # BRANCH_QUEUE_SIZE - 1
    /\ bhead' = (bhead + 1) % BRANCH_QUEUE_SIZE
    /\ Done("cpu")
    /\ UNCHANGED <<control, reg, BranchTrace, btail, bsize, mutex_sync_branch, bput, bdone,
                   bpc, refs, cpc>>

\* Broken variant: branch_buffer_size is changed without its mutex.
PutLockNoMutex ==
    /\ Does("cpu", "lock_branch")
    /\ reg' = [reg EXCEPT !["cpu"] = bsize]
    /\ Done("cpu")
    /\ UNCHANGED <<control, branches, bpc, refs, cpc>>

PutLock ==
    /\ Does("cpu", "lock_branch")
    /\ mutex_sync_branch = Free
    /\ mutex_sync_branch' = "cpu"
    /\ reg' = [reg EXCEPT !["cpu"] = bsize]
    /\ Done("cpu")
    /\ UNCHANGED <<control, BranchTrace, bhead, btail, bsize, bput, bdone, bpc, refs, cpc>>

PutStore ==
    /\ Does("cpu", "store_branch")
    /\ bsize' = reg["cpu"] + 1
    /\ mutex_sync_branch' = Free
    /\ bput' = bput + 1
    /\ Done("cpu")
    /\ UNCHANGED <<control, reg, BranchTrace, bhead, btail, bdone, bpc, refs, cpc>>

\* HELPER(dinero_access), HELPER(vpmu_calculate) and the memory accessors
CacheRef ==
    /\ todo["cpu"] = << >>
    /\ enabled
    /\ "cache" \in timing
    /\ rput < MaxRefs
    /\ todo' = [todo EXCEPT !["cpu"] = <<"fill">>]
    /\ UNCHANGED <<control, reg, branches, bpc, refs, cpc>>

\* Broken variant: the reference is written although every set is full.
CacheFillNoRoom ==
    /\ Does("cpu", "fill")
    /\ TraceBuffer' = [TraceBuffer EXCEPT ![pset][pind] = rput + 1]
    /\ rput' = rput + 1
    /\ pind' = pind + 1
    /\ todo' = [todo EXCEPT !["cpu"] =
           IF pind' = TRACE_QUEUE_SIZE THEN <<"lock_cache", "store_cache">> ELSE << >>]
    /\ UNCHANGED <<control, reg, branches, bpc, pset, cset, cind, set_used,
                   mutex_sync_cache, rdone, cpc>>

\* cache_ref, once a set is free.
CacheFill ==
    /\ Does("cpu", "fill")
    /\ set_used # TRACE_SET
    /\ TraceBuffer' = [TraceBuffer EXCEPT ![pset][pind] = rput + 1]
    /\ rput' = rput + 1
    /\ pind' = pind + 1
    /\ todo' = [todo EXCEPT !["cpu"] =
           IF pind' = TRACE_QUEUE_SIZE THEN <<"lock_cache", "store_cache">> ELSE << >>]
    /\ UNCHANGED <<control, reg, branches, bpc, pset, cset, cind, set_used,
                   mutex_sync_cache, rdone, cpc>>

FillLock ==
    /\ Does("cpu", "lock_cache")
    /\ mutex_sync_cache = Free
    /\ mutex_sync_cache' = "cpu"
    /\ reg' = [reg EXCEPT !["cpu"] = set_used]
    /\ Done("cpu")
    /\ UNCHANGED <<control, branches, bpc, TraceBuffer, pset, pind, cset, cind, set_used,
                   rput, rdone, cpc>>

FillStore ==
    /\ Does("cpu", "store_cache")
    /\ set_used' = reg["cpu"] + 1
    /\ mutex_sync_cache' = Free
    /\ pind' = 0
    /\ pset' = (pset + 1) % TRACE_SET
    /\ Done("cpu")
    /\ UNCHANGED <<control, reg, branches, bpc, TraceBuffer, cset, cind, rput, rdone, cpc>>
---------------------------------------------------------------------------
(* Profiles are started, reported and stopped. *)

data == <<reg, branches, refs>>

Calls(t, steps) ==
    /\ t \in Controller
    /\ todo[t] = << >>
    /\ calls < MaxCalls
    /\ calls' = calls + 1
    /\ todo' = [todo EXCEPT ![t] = steps]
    /\ seen' = IF t = "cpu" THEN {} ELSE seen
    /\ UNCHANGED <<enabled, timing, data, bpc, cpc>>

MayStart == Patient => bpc = "wait" /\ cpc = "wait"

\* A timing model is written to the device register: VPMU_enabled is set
\* before the workers are signalled.
DeviceStart == MayStart /\ DeviceModel # {} /\ Calls("cpu", <<"reset", "enable", "setup">>)

\* SET_start_vpmu: the workers are signalled before VPMU_enabled is set.
SETStart(t) == MayStart /\ ~enabled /\ SETModel # {} /\ Calls(t, <<"reset", "SET_setup", "enable">>)

\* 1 is written to the device register.
DeviceStop == Calls("cpu", <<"disable", "sync", "predict", "sync", "report">>)

\* SET_stop_vpmu
SETStop(t) == enabled /\ Calls(t, <<"disable", "sync", "predict", "sync", "report">>)

\* 11 is written to the device register: a report of the running profile.
DeviceReport == Calls("cpu", <<"predict", "sync", "report">>)

\* get_vpmu_time: the virtual time counts the cycles of the cache misses.
AskTime == Calls("cpu", <<"sync">>)

Reset(t) ==
    /\ Does(t, "reset")
    /\ timing' = {}
    /\ Done(t)
    /\ UNCHANGED <<enabled, seen, calls, data, bpc, cpc>>

Enable(t) ==
    /\ Does(t, "enable")
    /\ enabled' = TRUE
    /\ Done(t)
    /\ UNCHANGED <<timing, seen, calls, data, bpc, cpc>>

Disable(t) ==
    /\ Does(t, "disable")
    /\ enabled' = FALSE
    /\ Done(t)
    /\ UNCHANGED <<timing, seen, calls, data, bpc, cpc>>

\* vpmu_model_setup: the simulators of a timing model that have a thread
Simulators(m) == CASE m \in {"C", "D", "G"} -> {"cache"}
                   [] m = "E" -> {"cache", "branch"}
                   [] OTHER -> {}

\* vpmu_simulator_turn_on: a signal wakes a worker that waits, and is lost on
\* one that does not.  Device value 7 sets no model.
Setup(t) ==
    /\ Does(t, "setup") \/ Does(t, "SET_setup")
    /\ \E m \in IF Does(t, "setup") THEN DeviceModel ELSE SETModel :
          /\ timing' = Simulators(m)
          /\ bpc' = IF "branch" \in Simulators(m) /\ bpc = "wait" THEN "loop" ELSE bpc
          /\ cpc' = IF "cache" \in Simulators(m) /\ cpc = "wait" THEN "loop" ELSE cpc
    /\ Done(t)
    /\ UNCHANGED <<enabled, seen, calls, data>>

\* VPMU_sync_all and the miss counters: wait for the cache simulator, if it is on.
Sync(t) ==
    /\ Does(t, "sync")
    /\ todo' = [todo EXCEPT ![t] =
           IF "cache" \in timing THEN <<"drained">> \o Tail(@) ELSE Tail(@)]
    /\ UNCHANGED <<control, data, bpc, cpc>>

\* Broken variant: the wait ends one set early.
DrainedEarly(t) ==
    /\ Does(t, "drained")
    /\ set_used <= 1
    /\ seen' = IF t = "cpu" THEN seen \cup {"cache"} ELSE seen
    /\ Done(t)
    /\ UNCHANGED <<enabled, timing, calls, data, bpc, cpc>>

Drained(t) ==
    /\ Does(t, "drained")
    /\ set_used = 0
    /\ seen' = IF t = "cpu" THEN seen \cup {"cache"} ELSE seen
    /\ Done(t)
    /\ UNCHANGED <<enabled, timing, calls, data, bpc, cpc>>

\* vpmu_branch_predict: wait for the branch predictor, if it is on.
Predict(t) ==
    /\ Does(t, "predict")
    /\ todo' = [todo EXCEPT ![t] =
           IF "branch" \in timing THEN <<"emptied">> \o Tail(@) ELSE Tail(@)]
    /\ UNCHANGED <<control, data, bpc, cpc>>

Emptied(t) ==
    /\ Does(t, "emptied")
    /\ bsize = 0
    /\ seen' = IF t = "cpu" THEN seen \cup {"branch"} ELSE seen
    /\ Done(t)
    /\ UNCHANGED <<enabled, timing, calls, data, bpc, cpc>>

\* The counters are printed.
Report(t) ==
    /\ Does(t, "report")
    /\ Done(t)
    /\ UNCHANGED <<control, data, bpc, cpc>>

Step(t) == \/ Reset(t) \/ Enable(t) \/ Disable(t) \/ Setup(t) \/ Sync(t) \/ Drained(t)
           \/ Predict(t) \/ Emptied(t) \/ Report(t)
           \/ t = "cpu" /\ \/ PutTrace \/ PutFull \/ PutLock \/ PutStore
                           \/ CacheFill \/ FillLock \/ FillStore
---------------------------------------------------------------------------
Next == \/ BranchThread \/ BranchSpurious
        \/ CacheThread \/ CacheSpurious
        \/ PutEvent \/ CacheRef
        \/ DeviceStart \/ DeviceStop \/ DeviceReport \/ AskTime
        \/ \E t \in Thread : SETStart(t) \/ SETStop(t) \/ Step(t)

Spec == Init /\ [][Next]_vars

\* The host schedules its threads; nobody need start, stop or put anything.
FairSpec == /\ Spec
            /\ WF_vars(BranchThread)
            /\ WF_vars(CacheThread)
            /\ \A t \in Thread : WF_vars(Step(t))
---------------------------------------------------------------------------
(* What the threads promise. *)

\* Every variable has its type.
TypeOK ==
    /\ enabled \in BOOLEAN
    /\ timing \in SUBSET {"branch", "cache"}
    /\ seen \in SUBSET {"branch", "cache"}
    /\ bhead \in 0 .. BRANCH_QUEUE_SIZE - 1
    /\ btail \in 0 .. BRANCH_QUEUE_SIZE - 1
    /\ bsize \in 0 .. BRANCH_QUEUE_SIZE - 1
    /\ BranchTrace \in [0 .. BRANCH_QUEUE_SIZE - 1 -> Nat]
    /\ mutex_sync_branch \in {Free, "cpu", "branch"}
    /\ bpc \in {"loop", "size", "empty", "take", "lock", "store", "suspend", "wait"}
    /\ pset \in 0 .. TRACE_SET - 1
    /\ cset \in 0 .. TRACE_SET - 1
    /\ pind \in 0 .. TRACE_QUEUE_SIZE
    /\ cind \in 0 .. TRACE_QUEUE_SIZE
    /\ set_used \in 0 .. TRACE_SET
    /\ TraceBuffer \in [0 .. TRACE_SET - 1 -> [0 .. TRACE_QUEUE_SIZE - 1 -> Nat]]
    /\ mutex_sync_cache \in {Free, "cpu", "cache"}
    /\ cpc \in {"loop", "drain", "used", "take", "lock", "store", "suspend", "wait"}
    /\ reg \in [{"cpu", "branch", "cache"} -> Nat]
    /\ bput \in Nat /\ bdone \in Nat /\ rput \in Nat /\ rdone \in Nat
    /\ calls \in 0 .. MaxCalls

\* branch_thread simulates the branches in the order in which they were put,
\* each once, and never an entry it has read before ("sync error" in
\* branch_set), although put_event writes its entry before it waits for room
\* (vpmu-device.c:2152-2160).
BranchInOrder == bpc = "take" => BranchTrace[btail] = bdone + 1

\* dinero_thread simulates the references in the order in which they were put,
\* each once: cache_ref never writes into a set that is still read
\* (vpmu-device.c:2183-2201), also over several profiles.
RefsInOrder == cpc = "take" => TraceBuffer[cset][cind] = rdone + 1

\* A report of the emulation thread counts every branch, and every reference
\* but those of one set that is not full (vpmu-device.c:2466-2480, 2806-2811):
\* what the workers had not simulated when it was asked for is waited for.
ReportIsComplete ==
    Does("cpu", "report") =>
        /\ "branch" \in seen => bdone = bput
        /\ "cache" \in seen => rput - rdone < TRACE_QUEUE_SIZE

\* The wait for the cache simulator ends, whether the VPMU is still enabled or
\* not (vpmu-device.c:2113), if dinero_thread is awake when it begins: the
\* guest's virtual time and Network_Exit depend on it.
SyncReturns ==
    (Does("cpu", "drained") /\ cpc \notin {"suspend", "wait"}) ~> ~Does("cpu", "drained")

\* A profile that is stopped is reported (vpmu-device.c:4596-4660): Network_Exit
\* returns to the guest.
StopReturns == Does("cpu", "disable") ~> todo["cpu"] = << >>
===========================================================================
