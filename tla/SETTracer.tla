------------------------------ MODULE SETTracer ------------------------------
(***************************************************************************)
(* SET, the tracer of guest processes (src/SET/SET.c, SET_event.c,         *)
(* SET_ctrl.c and src/hw/SET_device.c).  The emulation thread sees the     *)
(* guest kernel switch, execute, clone, map and exit; the processes to be  *)
(* traced are registered by the guest (device registers) or by a user (the *)
(* control thread).  A SETProcess is an object of the heap that the table  *)
(* of processes, the hash table and set.tracing_process point to; threads  *)
(* of one process share its tracing counter, and processes share the files *)
(* they have mapped (ObjFile and DexFile, which are handled alike).        *)
(*                                                                         *)
(* The two threads use no lock.  One step is one event on the emulation    *)
(* thread; the control thread's SET_attach_process is two steps.  Output   *)
(* files, call stacks and sampling are left out.                           *)
(*                                                                         *)
(* Five events leave a table that the tracer cannot go on with; damage     *)
(* says which has come.  The model takes that step as the code does, and   *)
(* ends there: what follows reads freed memory, or wrong entries.          *)
(***************************************************************************)
EXTENDS Integers, FiniteSets, FiniteSetsExt

CONSTANTS
    MAX_PROC_TABLE_SIZE,    \* 1024
    PROC_HASH_TABLE_SIZE,   \* 32749
    Name,                   \* program names, "app_process" among them
    Type,                   \* what a process may be registered for (LIBRARY: or DALVIK)
    TimingModel,            \* the timing models that are asked for
    Pid,                    \* the guest's process and thread numbers
    MaxProcess,             \* bound: SETProcess objects that are allocated
    MaxFile,                \* bound: files that are mapped
    MaxConnect              \* bound: connections to the control thread

\* What the tracer is not prepared for.
Damage == {"first",     \* the first process of the table ends
           "moved",     \* a process ends that an earlier end has moved in the table
           "full",      \* a thread is created when the table is full
           "race",      \* two threads attach at a time
           "again"}     \* a traced program, or a traced process, executes again

ASSUME SETAssumption ==
    /\ MAX_PROC_TABLE_SIZE \in Nat \ {0}
    /\ PROC_HASH_TABLE_SIZE \in Nat
    /\ MAX_PROC_TABLE_SIZE < PROC_HASH_TABLE_SIZE
    /\ "app_process" \in Name
    /\ Type \subseteq SUBSET {"OUTPUT", "USER_C", "LIBRARY", "MMAP"}
    /\ TimingModel \subseteq {"none", "valid", "wrong"}
    /\ Pid \subseteq Nat \ {0}
    /\ MaxProcess \in Nat \ {0}
    /\ MaxFile \in Nat
    /\ MaxConnect \in Nat

VARIABLES
    is_start,          \* set.is_start
    heap,              \* SETProcess objects, tracing counters and files
    procTable,         \* set.procTable, also beyond its size
    procTableSize,     \* set.procTableSize
    procHashTable,     \* procHashTable, and at -1 the word before it
    tracing_process,   \* set.tracing_process
    model,             \* set.model
    VPMU_enabled,
    now_pid,           \* the guest process that runs
    idled,             \* pid_base[0][0]: the idle process has run
    alive,             \* the guest's processes that have not exited
    ctrl,              \* the control thread: where it is, and its process
    connects,          \* how often a user has connected
    moved,             \* history: the processes that the end of another has moved
    damage             \* history: the damage that has come, or "none"

table == <<procTable, procTableSize>>
tracing == <<procHashTable, tracing_process>>
profile == <<model, VPMU_enabled>>
kernel == <<now_pid, idled, alive>>
user == <<ctrl, connects>>
history == <<moved, damage>>
vars == <<is_start, heap, table, tracing, profile, kernel, user, history>>

NULL == 0
NoSlot == -2
Model == {"none", "valid", "wrong"}     \* 0, 1 .. 3, and anything else
Process == 1 .. MaxProcess
File == 1 .. MaxFile
Slot == -1 .. PROC_HASH_TABLE_SIZE - 1

NoName == ""

Unused == [state |-> "unused", name |-> NoName, type |-> {}, pid |-> -1, tracing |-> NULL,
           idx |-> -1, hash_pos |-> NoSlot, files |-> {}]
Freed == [Unused EXCEPT !.state = "freed"]

\* The process p that has just been created.
New(p, n, t) == [state |-> "live", name |-> n, type |-> t, pid |-> -1, tracing |-> p,
                 idx |-> -1, hash_pos |-> NoSlot, files |-> {}]

\* SET_init: app_process, from which every application is forked, comes first.
Init ==
    /\ is_start = TRUE
    /\ heap = [process |-> [p \in Process |->
                   IF p = 1 THEN [New(1, "app_process", {"MMAP"}) EXCEPT !.idx = 0] ELSE Unused],
               count |-> [p \in Process |-> 0],      \* *process->tracing
               counters |-> {1},                     \* the counters not freed
               fcount |-> [f \in File |-> 0],        \* obj->count
               files |-> {},                         \* the files not freed
               processes |-> 1, mapped |-> 0]        \* how many were allocated
    /\ procTable = [i \in 0 .. MAX_PROC_TABLE_SIZE |-> IF i = 0 THEN 1 ELSE NULL]
    /\ procTableSize = 1
    /\ procHashTable = [i \in Slot |-> NULL]
    /\ tracing_process = NULL
    /\ model = "none"
    /\ VPMU_enabled = FALSE
    /\ now_pid = 0
    /\ idled = FALSE
    /\ alive = {}
    /\ ctrl = [pc |-> "accept", process |-> NULL]
    /\ connects = 0
    /\ moved = {}
    /\ damage = "none"
---------------------------------------------------------------------------
(* The heap. *)

CanCreate == heap.processes < MaxProcess
NewProcess == heap.processes + 1
CanMap == heap.mapped < MaxFile

\* SET_create_process
Created(h, n, t) ==
    LET p == h.processes + 1
    IN  [h EXCEPT !.process[p] = New(p, n, t),
                  !.counters = @ \cup {p},
                  !.processes = p]

\* SET_create_obj and SET_attach_obj, or those of dex files
Mapped(h, p) ==
    LET f == h.mapped + 1
    IN  [h EXCEPT !.process[p].files = @ \cup {f},
                  !.fcount[f] = 1,
                  !.files = @ \cup {f},
                  !.mapped = f]

\* Broken variant: the thread is not counted.
CopiedUncounted(h, p, c) ==
    [h EXCEPT !.process[h.processes + 1] = [h.process[p] EXCEPT !.pid = c],
              !.processes = @ + 1]

\* SET_copy_process, and the thread's pid: memcpy copies idx and hash_pos too.
Copied(h, p, c) ==
    [h EXCEPT !.process[h.processes + 1] = [h.process[p] EXCEPT !.pid = c],
              !.count[h.process[p].tracing] = @ + 1,
              !.processes = @ + 1]

\* SET_delete_process: the last thread frees what is shared, as it knows it.
Deleted(h, p) ==
    LET g == h.process[p].tracing
        c == h.count[g] - 1
        fs == IF c < 1 THEN h.process[p].files ELSE {}
    IN  [h EXCEPT !.process[p] = Freed,
                  !.count[g] = IF c < 1 THEN 0 ELSE c,
                  !.counters = IF c < 1 THEN @ \ {g} ELSE @,
                  !.fcount = [f \in File |-> IF f \in fs THEN @[f] - 1 ELSE @[f]],
                  !.files = @ \ {f \in fs : h.fcount[f] <= 1}]
---------------------------------------------------------------------------
(* The tables. *)

\* The processes in the table.
Entries == {procTable[i] : i \in 0 .. procTableSize - 1}

\* The first process of the table with this name, or NULL.
Find(n) == LET at == {i \in 0 .. procTableSize - 1 : heap.process[procTable[i]].name = n}
           IN  IF at = {} THEN NULL ELSE procTable[Min(at)]

\* Broken variant: a full table is written beyond its end.
AttachUnchecked(p) ==
    /\ procTable' = [procTable EXCEPT ![procTableSize] = p]
    /\ procTableSize' = procTableSize + 1

\* SET_attach_process: the table, and the heap h, with p attached.
Full == procTableSize = MAX_PROC_TABLE_SIZE
Attach(p) ==
    IF Full THEN UNCHANGED table
    ELSE /\ procTable' = [procTable EXCEPT ![procTableSize] = p]
         /\ procTableSize' = procTableSize + 1
Attached(h, p) == IF Full THEN h ELSE [h EXCEPT !.process[p].idx = procTableSize]

\* SET_detach_process: no entry learns its new place.
Detached(p) == procTableSize > 0 /\ heap.process[p].idx > 0

\* Broken variant: the shift starts one place too late.
DetachLate(p) ==
    IF Detached(p)
    THEN /\ procTable' = [i \in DOMAIN procTable |->
                IF i \in heap.process[p].idx + 1 .. procTableSize - 1
                THEN procTable[i + 1] ELSE procTable[i]]
         /\ procTableSize' = procTableSize - 1
    ELSE UNCHANGED table

Detach(p) ==
    IF Detached(p)
    THEN /\ procTable' = [i \in DOMAIN procTable |->
                IF i \in heap.process[p].idx .. procTableSize - 1
                THEN procTable[i + 1] ELSE procTable[i]]
         /\ procTableSize' = procTableSize - 1
    ELSE UNCHANGED table

\* The places in use, that of the process which the control thread attaches
\* among them.
Used == IF ctrl.pc = "size" THEN procTableSize + 1 ELSE procTableSize

\* What the end of p means for the table: the processes behind it move and keep
\* their idx.
EndDamage(p) ==
    IF p = procTable[0] THEN "first"
    ELSE IF p \in moved /\ p # procTable[Used - 1] THEN "moved"
    ELSE "none"
Ends(p) ==
    /\ damage' = EndDamage(p)
    /\ moved' = moved \cup {procTable[i] : i \in heap.process[p].idx + 1 .. Used - 1}

\* Where linear probing for pid ends: at pid, or at a free place.
Probe(h, pid) ==
    LET At(k) == (pid + k) % PROC_HASH_TABLE_SIZE
        Stop(k) == \/ procHashTable[At(k)] = NULL
                   \/ h.process[procHashTable[At(k)]].pid = pid
    IN  At(CHOOSE k \in 0 .. PROC_HASH_TABLE_SIZE - 1 :
               Stop(k) /\ \A j \in 0 .. k - 1 : ~Stop(j))

\* proc_insert, to the heap h: a pid that is there is not inserted again.
Insert(h, p) ==
    LET s == Probe(h, h.process[p].pid)
    IN  IF procHashTable[s] # NULL
        THEN heap' = h /\ UNCHANGED procHashTable
        ELSE /\ procHashTable' = [procHashTable EXCEPT ![s] = p]
             /\ heap' = [h EXCEPT !.process[p].hash_pos = s]
---------------------------------------------------------------------------
(* The profile. *)

\* SET_start_vpmu
StartVPMU(m) ==
    /\ VPMU_enabled' = (VPMU_enabled \/ m = "valid")
    /\ model' = IF ~VPMU_enabled /\ m = "wrong" THEN "none" ELSE m

\* Broken variant: any traced process keeps the profile running.
HasProcessAny(h, entries) ==
    \E e \in entries : h.count[h.process[e].tracing] > 0

\* SET_has_process_being_tracing
HasProcess(h, entries) ==
    \E e \in entries :
        h.count[h.process[e].tracing] > 0 /\ "OUTPUT" \in h.process[e].type
---------------------------------------------------------------------------
(* Events of the guest, on the emulation thread. *)

Runs == is_start /\ now_pid \in alive

Current == heap.process[tracing_process]

\* SET_start_tracing without a failure: the heap it leaves
Started(h, p) ==
    LET s == [h EXCEPT !.process[p].pid = now_pid, !.count[h.process[p].tracing] = @ + 1]
    IN  IF "USER_C" \in h.process[p].type THEN Mapped(s, p) ELSE s

MayStart(p) == p # NULL /\ ("USER_C" \in heap.process[p].type => CanMap)

\* p, or the process that executes it, is traced already.
Again(p) ==
    \/ heap.process[p].pid # -1
    \/ \E q \in Process : heap.process[q].state = "live" /\ heap.process[q].pid = now_pid

\* The rest of SET_start_tracing, and proc_insert
Trace(h, p) ==
    /\ Insert(h, p)
    /\ tracing_process' = p
    /\ IF "OUTPUT" \in h.process[p].type THEN StartVPMU(model) ELSE UNCHANGED profile
    /\ damage' = IF Again(p) THEN "again" ELSE "none"

\* SET_event_execve: the running process executes the program n.
Execve(n) ==
    /\ Runs
    /\ MayStart(Find(n))
    /\ Trace(Started(heap, Find(n)), Find(n))
    /\ UNCHANGED <<is_start, table, kernel, user, moved>>

\* An output file or the binary cannot be opened: the process is deleted, and
\* then inserted with its pid, which is still read.  With pid -1 that is the
\* word before the hash table, where one that was inserted before has pid -1.
ExecveFails(n) ==
    LET p == Find(n)
        s == IF heap.process[p].pid = -1 THEN -1 ELSE Probe(heap, heap.process[p].pid)
    IN
    /\ Runs
    /\ MayStart(p)
    /\ heap.process[p].type \cap {"OUTPUT", "USER_C"} # {}
    /\ Detach(p)
    /\ heap' = Deleted(heap, p)
    /\ procHashTable' = IF procHashTable[s] = NULL THEN [procHashTable EXCEPT ![s] = p]
                        ELSE procHashTable
    /\ IF heap.process[p].pid = -1 THEN Ends(p) ELSE damage' = "again" /\ UNCHANGED moved
    /\ UNCHANGED <<is_start, tracing_process, profile, kernel, user>>

\* Broken variant: the files of app_process are not counted again.
InheritUncounted(h, p) ==
    LET z == Find("app_process")
    IN  IF z = NULL \/ "LIBRARY" \notin h.process[p].type THEN h
        ELSE [h EXCEPT !.process[p].files = h.process[z].files]

\* An application has mapped what app_process had mapped when it was forked.
Inherit(h, p) ==
    LET z == Find("app_process")
    IN  IF z = NULL \/ "LIBRARY" \notin h.process[p].type THEN h
        ELSE [h EXCEPT !.process[p].files = h.process[z].files,
                       !.fcount = [f \in File |->
                           IF f \in h.process[z].files THEN @[f] + 1 ELSE @[f]]]

\* SET_event_start_dalvik: the running process has become the application n.
StartDalvik(n) ==
    /\ Runs
    /\ MayStart(Find(n))
    /\ Trace(Inherit(Started(heap, Find(n)), Find(n)), Find(n))
    /\ UNCHANGED <<is_start, table, kernel, user, moved>>

\* SET_event_mmap
Mmap ==
    /\ Runs
    /\ tracing_process # NULL
    /\ Current.type \cap {"LIBRARY", "MMAP"} # {}
    /\ CanMap
    /\ heap' = Mapped(heap, tracing_process)
    /\ UNCHANGED <<is_start, table, tracing, profile, kernel, user, history>>

\* SET_event_thread_create: the running process has created the thread c.
ThreadCreate(c) ==
    LET p == NewProcess IN
    /\ Runs
    /\ tracing_process # NULL
    /\ c \notin alive
    /\ alive' = alive \cup {c}
    /\ CanCreate
    /\ Attach(p)
    /\ Insert(Attached(Copied(heap, tracing_process, c), p), p)
    /\ damage' = IF Full THEN "full" ELSE IF ctrl.pc = "size" THEN "race" ELSE "none"
    /\ UNCHANGED <<is_start, tracing_process, profile, now_pid, idled, user, moved>>

\* SET_end_tracing.  When the table lists a process that has been freed,
\* SET_has_process_being_tracing may find anything.
EndTracing(p) ==
    /\ Detach(p)
    /\ heap' = Deleted(heap, p)
    /\ VPMU_enabled' \in
           IF \E e \in Entries' : heap'.process[e].state # "live" THEN {FALSE, VPMU_enabled}
           ELSE {VPMU_enabled /\ HasProcess(heap', Entries')}

\* Broken variant: the place in the hash table keeps the process.
ExitKept ==
    /\ Runs
    /\ tracing_process # NULL
    /\ alive' = alive \ {now_pid}
    /\ tracing_process' = NULL
    /\ EndTracing(tracing_process)
    /\ Ends(tracing_process)
    /\ UNCHANGED <<is_start, procHashTable, model, now_pid, idled, user>>

\* SET_event_exit: the running process exits.
Exit ==
    /\ Runs
    /\ tracing_process # NULL
    /\ alive' = alive \ {now_pid}
    /\ tracing_process' = NULL
    /\ procHashTable' = [procHashTable EXCEPT ![Current.hash_pos] = NULL]
    /\ EndTracing(tracing_process)
    /\ Ends(tracing_process)
    /\ UNCHANGED <<is_start, model, now_pid, idled, user>>

\* A process that is not traced exits.
ExitUntraced ==
    /\ Runs
    /\ tracing_process = NULL
    /\ alive' = alive \ {now_pid}
    /\ UNCHANGED <<is_start, heap, table, tracing, profile, now_pid, idled, user, history>>

\* Broken variant: a switch to a process that is not traced changes nothing.
SwitchTracedOnly(p) ==
    /\ is_start
    /\ p # now_pid
    /\ now_pid' = p
    /\ alive' = alive \cup ({p} \ {0})
    /\ idled' = (idled \/ p = 0)
    /\ tracing_process' = LET q == procHashTable[Probe(heap, p)]
                          IN  IF (p = 0 /\ idled) \/ q = NULL THEN tracing_process ELSE q
    /\ UNCHANGED <<is_start, heap, table, procHashTable, profile, user, history>>

\* SET_event_cs: the guest switches to the process p, which may be new.  From
\* the second time on a switch to the idle process is not looked at.
Switch(p) ==
    /\ is_start
    /\ p # now_pid
    /\ now_pid' = p
    /\ alive' = alive \cup ({p} \ {0})
    /\ idled' = (idled \/ p = 0)
    /\ tracing_process' = IF p = 0 /\ idled THEN tracing_process
                          ELSE procHashTable[Probe(heap, p)]
    /\ UNCHANGED <<is_start, heap, table, procHashTable, profile, user, history>>

\* The guest writes the timing model to the device register.
DeviceModel(m) ==
    /\ Runs
    /\ model # m
    /\ model' = m
    /\ UNCHANGED <<is_start, heap, table, tracing, VPMU_enabled, kernel, user, history>>

\* The guest writes a program to be traced to the device register.  A name in
\* the table is refused.
DeviceName(n, t) ==
    /\ Runs
    /\ Find(n) = NULL
    /\ CanCreate
    /\ Attach(NewProcess)
    /\ heap' = Attached(Created(heap, n, t), NewProcess)
    /\ damage' = IF ctrl.pc = "size" THEN "race" ELSE "none"
    /\ UNCHANGED <<is_start, tracing, profile, kernel, user, moved>>

\* SET_exit, when the emulator ends
SETExit ==
    LET after[k \in 0 .. procTableSize] ==     \* the heap, k processes deleted
            IF k = 0 THEN heap ELSE Deleted(after[k - 1], procTable[k - 1])
    IN
    /\ is_start
    /\ is_start' = FALSE
    /\ heap' = after[procTableSize]
    /\ procTableSize' = 0
    /\ VPMU_enabled' = FALSE
    /\ UNCHANGED <<procTable, tracing, model, kernel, user, history>>
---------------------------------------------------------------------------
(* SET_ctrl_thread, which goes on when SET_exit has been called. *)

\* A user connects: the profile is started and the process created.
CtrlConnect(m, n, t) ==
    /\ ctrl.pc = "accept"
    /\ connects < MaxConnect
    /\ connects' = connects + 1
    /\ StartVPMU(m)
    /\ IF Find(n) # NULL
       THEN ctrl' = [pc |-> "read", process |-> NULL] /\ UNCHANGED heap
       ELSE /\ CanCreate
            /\ ctrl' = [pc |-> "attach", process |-> NewProcess]
            /\ heap' = Created(heap, n, t)
    /\ UNCHANGED <<is_start, table, tracing, kernel, history>>

\* SET_attach_process up to procTableSize++
CtrlAttach ==
    /\ ctrl.pc = "attach"
    /\ ctrl' = [ctrl EXCEPT !.pc = IF Full THEN "read" ELSE "size"]
    /\ procTable' = IF Full THEN procTable
                    ELSE [procTable EXCEPT ![procTableSize] = ctrl.process]
    /\ heap' = Attached(heap, ctrl.process)
    /\ UNCHANGED <<is_start, procTableSize, tracing, profile, kernel, connects, history>>

CtrlSize ==
    /\ ctrl.pc = "size"
    /\ ctrl' = [ctrl EXCEPT !.pc = "read"]
    /\ procTableSize' = procTableSize + 1
    /\ UNCHANGED <<is_start, heap, procTable, tracing, profile, kernel, connects, history>>

\* The user asks for the end of the profile, or just hangs up.
CtrlStop(stop) ==
    /\ ctrl.pc = "read"
    /\ ctrl' = [pc |-> "accept", process |-> NULL]
    /\ VPMU_enabled' = (VPMU_enabled /\ ~stop)
    /\ UNCHANGED <<is_start, heap, table, tracing, model, kernel, connects, history>>
---------------------------------------------------------------------------
Guest == \/ \E n \in Name : Execve(n) \/ ExecveFails(n) \/ StartDalvik(n)
         \/ Mmap \/ Exit \/ ExitUntraced
         \/ \E c \in Pid : ThreadCreate(c)
         \/ \E p \in Pid \cup {0} : Switch(p)
         \/ \E m \in TimingModel : DeviceModel(m)
         \/ \E n \in Name, t \in Type : DeviceName(n, t)
         \/ SETExit

Ctrl == \/ \E m \in TimingModel, n \in Name, t \in Type : CtrlConnect(m, n, t)
        \/ CtrlAttach \/ CtrlSize
        \/ \E stop \in BOOLEAN : CtrlStop(stop)

Next == damage = "none" /\ (Guest \/ Ctrl)

Spec == Init /\ [][Next]_vars
---------------------------------------------------------------------------
(* What the tracer promises. *)

SETProcess ==
    [state : {"unused", "live", "freed"}, name : Name \cup {NoName},
     type : SUBSET {"OUTPUT", "USER_C", "LIBRARY", "MMAP"}, pid : Pid \cup {-1},
     tracing : {NULL} \cup Process, idx : -1 .. MAX_PROC_TABLE_SIZE - 1,
     hash_pos : Slot \cup {NoSlot}, files : SUBSET File]

Heap == [process : [Process -> SETProcess],
         count : [Process -> Int], counters : SUBSET Process,
         fcount : [File -> Int], files : SUBSET File,
         processes : Process, mapped : 0 .. MaxFile]

\* Every variable has its type.
TypeOK ==
    /\ is_start \in BOOLEAN
    /\ heap \in Heap
    /\ procTable \in [0 .. MAX_PROC_TABLE_SIZE -> {NULL} \cup Process]
    /\ procTableSize \in 0 .. MAX_PROC_TABLE_SIZE
    /\ procHashTable \in [Slot -> {NULL} \cup Process]
    /\ tracing_process \in {NULL} \cup Process
    /\ model \in Model
    /\ VPMU_enabled \in BOOLEAN
    /\ now_pid \in Pid \cup {0}
    /\ idled \in BOOLEAN
    /\ alive \subseteq Pid
    /\ ctrl \in [pc : {"accept", "attach", "size", "read"}, process : {NULL} \cup Process]
    /\ connects \in 0 .. MaxConnect
    /\ moved \subseteq Process
    /\ damage \in Damage \cup {"none"}

Live == {p \in Process : heap.process[p].state = "live"}
Traced == {p \in Live : heap.process[p].pid # -1}
TracedOutputs == {p \in Traced : "OUTPUT" \in heap.process[p].type}

ListsLive == Entries \subseteq Live /\ Traced \subseteq Entries

\* The table lists every traced process and none that has been freed, in
\* whatever order processes start and end, until one of the damages comes.
\* SET_detach_process (SET.c:365-380) takes out the process that ends, from
\* the middle too, also while the control thread is between its two stores
\* (360-362), unless that process is the first or an earlier end has moved it;
\* and a moved one too when it is the last, whose idx is beyond the table.
TableIsLive == is_start /\ damage = "none" => ListsLive

HashExact ==
    /\ \A s \in Slot \ {-1} : procHashTable[s] # NULL =>
           procHashTable[s] \in Traced /\ heap.process[procHashTable[s]].hash_pos = s
    /\ \A p \in Traced : heap.process[p].hash_pos # NoSlot
                         /\ procHashTable[heap.process[p].hash_pos] = p

\* The hash table holds exactly the traced processes, each where its hash_pos
\* says, so that the end of a process clears its own place and no other
\* (SET_event.c:37-51 and 218), whatever the table of processes looks like.
\* Pids that collide break it: a process that SwitchFindsTraced misses exits
\* and stays in the table.
HashHoldsTraced == is_start /\ damage # "again" => HashExact

\* The tracing counter that threads share is the number of them that are
\* traced, and it is not freed while one of them is there, in whatever order
\* they end (SET.c:261 and 297-352).
CountsItsThreads ==
    is_start /\ damage # "again" => \A p \in Live :
        LET g == heap.process[p].tracing
        IN  /\ g \in heap.counters
            /\ heap.count[g] = Cardinality({q \in Traced : heap.process[q].tracing = g})

\* No process refers to a file that has been freed, although threads and
\* applications inherit files by copying pointers (SET.c:259 and 317-341,
\* SET_event.c:325-355) and app_process, or the thread that mapped the file,
\* may end before them.
FilesStayLoaded ==
    is_start /\ damage # "again" =>
        \A p \in Live : heap.process[p].files \subseteq heap.files

\* What happens is put down to the process that runs (SET_event.c:222-225):
\* set.tracing_process is never a freed process, and never another than the
\* running one, except for the idle process.
TracesTheRunning ==
    is_start /\ damage # "again" /\ tracing_process # NULL =>
        /\ tracing_process \in Traced
        /\ now_pid # 0 => Current.pid = now_pid

\* The profile runs on until the last process with an output has ended, or the
\* user stops it, and stops then (SET_event.c:184-191), as long as the table
\* that SET_has_process_being_tracing reads lists no freed process.
ProfileFollowsTracing ==
    [][is_start /\ damage' \notin {"first", "moved", "again"} =>
       /\ VPMU_enabled /\ ~VPMU_enabled' => TracedOutputs' = {} \/ ctrl' # ctrl \/ ~is_start'
       /\ TracedOutputs # {} /\ TracedOutputs' = {} => ~VPMU_enabled']_vars

\* A traced process is recognised when the guest switches to it
\* (SET_event.c:53-64).
SwitchFindsTraced ==
    is_start /\ damage # "again" =>
        \A p \in Traced : procHashTable[Probe(heap, heap.process[p].pid)] = p
---------------------------------------------------------------------------
(* False of the code: what each damage breaks. *)

\* SET_detach_process removes "an entry in 'i' place" (SET.c:374): a process
\* that has been moved leaves the table when it ends.
MovedProcessLeaves == damage = "moved" => ListsLive

\* The first process of the table leaves it when it ends (SET.c:370-372).
FirstProcessLeaves == damage = "first" => ListsLive

\* A thread is listed although the table is full (SET.c:357).
FullTableLists == damage = "full" => ListsLive

\* The entry that the control thread writes is still there when it counts it
\* (SET.c:360-362).
RaceKeepsEntry ==
    damage = "race" => ctrl.process \in {procTable[i] : i \in 0 .. procTableSize}

\* A traced program that executes again is found at its place (SET_event.c:202-203).
AgainIsFound == damage = "again" => HashExact
=============================================================================
