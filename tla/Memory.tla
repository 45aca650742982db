------------------------------- MODULE Memory -------------------------------
(***************************************************************************)
(* Physical frames and page tables: MemoryManager (kernel/MM), BigBuffer,  *)
(* SharedMemoryManager and the calls of the loader, of create_kernel_task  *)
(* and of the system calls that change address spaces.                     *)
(*                                                                         *)
(* There is one MemoryManager and one CPU.  MemoryManager::the() stores    *)
(* the directory of the caller in the one m_page_directory, and a page     *)
(* table is reached through the one page of TEMPMAP_ADDR.  A system call   *)
(* runs with interrupts disabled until it blocks, allocate disables them   *)
(* itself.  In deallocate, the() and clone_page_directory the line         *)
(* "InterruptDisabler dis();" declares a function, so the loader, and a    *)
(* system call that was resumed after a wait, can be preempted in them.    *)
(*                                                                         *)
(* A directory has five entries: the kernel heap and stacks, the buffers   *)
(* (both made at boot), the kernel heap past its first table, the user's   *)
(* pages and shared memory.  A table has PerTable pages.  Flags other than *)
(* present are left out, and a process has its pid as its directory.       *)
(***************************************************************************)
EXTENDS Naturals, FiniteSets, FiniteSetsExt

CONSTANTS MaxPid,     \* pids, and page directories, are 1..MaxPid
          MaxDirs,    \* page directories before PAGE_DIRECTORY_ALLOCATION_END
          NumFrames,  \* frames the boot loader reports as available
          PerTable,   \* pages of a page table
          BufPages,   \* pages of the buffer area
          MaxShm,     \* pages of shared memory before SHARED_MEMORY_END
          Guids       \* names of shared memory

ASSUME MemoryAssumption ==
    /\ {MaxPid, MaxDirs, NumFrames, PerTable, BufPages, MaxShm} \subseteq Nat \ {0}
    /\ NumFrames > 4 /\ BufPages <= PerTable /\ MaxShm <= PerTable

VARIABLES
    mm,        \* MemoryManager and the page tables, see MMInit
    life,      \* "none", "kernel" (interrupts enabled), "user", "gone"
    op,        \* what a process is in the middle of, in the kernel
    kpages,    \* kernel pages handed out: heap and stacks only grow
    upages,    \* user pages a process has asked for
    dirs,      \* next_page_directory_allocation
    bits,      \* bitmap of BigBuffer
    big_lock,  \* holder of big_buffer_lock, or 0
    bufs,      \* pages of the buffers that exist
    shm,       \* SharedMemoryManager::m_entries
    next_shm,  \* m_next_shared_memory of a process
    raced,     \* history: somebody used the temporary mapping of another
    astray,    \* history: an allocation went to another directory
    clashed    \* history: a guid was created twice

vars == <<mm, life, op, kpages, upages, dirs, bits, big_lock, bufs, shm, next_shm, raced, astray, clashed>>

Pids   == 1..MaxPid
Frames == 1..NumFrames
Slots  == 1..PerTable
Shared == {"kernel", "buffer", "late"}
Areas  == Shared \cup {"user", "shm"}
Idle   == [k |-> "idle", at |-> 0, area |-> "user", page |-> 0, frame |-> 0]
Empty  == [i \in Slots |-> 0]

(***************************************************************************)
(* MemoryManager                                                           *)
(***************************************************************************)
\* An assertion, or a page fault in the kernel, stops the machine.
Fault(m, why) == [m EXCEPT !.fault = why]

\* What follows in the code, unless the machine stopped.
Then(m, Op(_)) == IF m.fault = "" THEN Op(m) ELSE m

Lowest(m) == Min(m.avail)

set_frame_used(m, f) == [m EXCEPT !.avail = @ \ {f}]

set_frame_available(m, f) == [m EXCEPT !.avail = @ \cup {f}]

\* The lowest frame is taken out of the bitmap.
get_free_frame(m) ==
    IF m.avail = {} THEN Fault(m, "no frame") ELSE set_frame_used(m, Lowest(m))

\* The table of an area in a directory, or 0.
get_pde(m, d, a) == m.pde[d][a]

\* An entry of the table that TEMPMAP_ADDR maps.
get_pte(m, i) == m.pt[m.target][i]

\* temp_map up to its last assignment.
TempTarget(m, f) ==
    IF m.used THEN Fault(m, "temp map in use") ELSE [m EXCEPT !.target = f]

TempUsed(m) == [m EXCEPT !.used = TRUE]

temp_map(m, f) == Then(TempTarget(m, f), TempUsed)

un_temp_map(m) == [m EXCEPT !.target = 0, !.used = FALSE]

\* ensure_pte before it maps the table: a missing table is made, in the
\* directory m_page_directory names, also for a kernel address, because
\* no address is both below BIG_BUFFER_START and above BIG_BUFFER_END.
ensure_pde(m, a) ==
    IF get_pde(m, m.dir, a) # 0 THEN m
    ELSE Then(get_free_frame(m),
              LAMBDA g : [g EXCEPT !.pde[m.dir][a] = Lowest(m), !.pt[Lowest(m)] = Empty])

ensure_pte(m, a) == Then(ensure_pde(m, a), LAMBDA g : temp_map(g, get_pde(g, g.dir, a)))

\* E_TAKEN, which every caller asserts not to get, leaves the table mapped.
map_page(m, a, i, f) ==
    Then(ensure_pte(m, a),
         LAMBDA g : IF get_pte(g, i) # 0 THEN Fault(g, "taken")
                    ELSE un_temp_map([g EXCEPT !.pt[g.target][i] = f]))

\* The page first, then a table for it if there is none.
allocate(m, a, i) ==
    Then(get_free_frame(m), LAMBDA g : map_page(g, a, i, Lowest(m)))

the(m, p) == [m EXCEPT !.dir = p]

\* Mutant of clone_page_directory: the user's entries are copied as they are.
CloneAll(m, child) == [m EXCEPT !.pde[child] = m.pde[m.dir]]

\* memcpy_frames: the copy goes through TEMPMAP_ADDR, one frame at a time.
memcpy_frames(m) == IF m.used THEN Fault(m, "temp map in use") ELSE m

\* CopyUserPages::NO: kernel entries point to the same tables, the others go.
clone_page_directory(m, child) ==
    Then(memcpy_frames(m),
         LAMBDA g : [g EXCEPT !.pde[child] =
                        [a \in Areas |-> IF a \in Shared THEN get_pde(g, g.dir, a) ELSE 0]])

\* The frame that page i of shared memory has in directory src becomes page j.
duplicate(m, src, i, j) ==
    LET t == get_pde(m, src, "shm") IN
    IF t = 0 THEN Fault(m, "no table")
    ELSE Then(temp_map(m, t),
              LAMBDA g : IF get_pte(g, i) = 0 THEN Fault(g, "not present")
                         ELSE map_page(un_temp_map(g), "shm", j, get_pte(g, i)))

(***************************************************************************)
(* Boot: all frames are available, the first page of the kernel heap and a *)
(* page of a buffer are allocated, which makes their tables.  The process  *)
(* with pid 1 has the directory of the boot.                               *)
(***************************************************************************)
MMInit ==
    [avail  |-> Frames,                                     \* m_frames_avail_bitmap
     dir    |-> 1,                                          \* m_page_directory
     target |-> 0,                                          \* what TEMPMAP_ADDR maps
     used   |-> FALSE,                                      \* m_tempmap_used
     pde    |-> [p \in Pids |-> [a \in Areas |-> 0]],       \* directories: table or 0
     pt     |-> [f \in Frames |-> Empty],                   \* tables: frame or 0
     fault  |-> ""]

Booted == allocate(allocate(MMInit, "kernel", 1), "buffer", 1)

Init ==
    /\ mm = Booted
    /\ life = [p \in Pids |-> IF p = 1 THEN "kernel" ELSE "none"]
    /\ op = [p \in Pids |-> Idle]
    /\ kpages = 1
    /\ upages = [p \in Pids |-> 0]
    /\ dirs = 1
    /\ bits = {1}
    /\ big_lock = 0
    /\ bufs = {1}
    /\ shm = {}
    /\ next_shm = [p \in Pids |-> 1]
    /\ raced = FALSE /\ astray = FALSE /\ clashed = FALSE

Running == mm.fault = ""

\* p is between the first and the last use of the temporary mapping.
InTempMap(p) == op[p].k \in {"look", "free"} /\ op[p].at > 0

\* A step of p that uses the temporary mapping.
NoteRace(p) == raced' = (raced \/ \E q \in Pids \ {p} : InTempMap(q))

InKernel(p) == Running /\ life[p] = "kernel"
InUser(p)   == Running /\ life[p] = "user"

(***************************************************************************)
(* System calls, with interrupts disabled                                  *)
(***************************************************************************)
\* Syscall::AllocatePage: the heap of the program asks for its pages in order.
SysAllocatePage(p) ==
    /\ InUser(p)
    /\ upages[p] < PerTable
    /\ mm' = allocate(the(mm, p), "user", upages[p] + 1)
    /\ upages' = [upages EXCEPT ![p] = @ + 1]
    /\ NoteRace(p)
    /\ UNCHANGED <<life, op, kpages, dirs, bits, big_lock, bufs, shm, next_shm, astray, clashed>>

KernelArea(k) == IF k <= PerTable THEN "kernel" ELSE "late"
KernelSlot(k) == IF k <= PerTable THEN k ELSE k - PerTable

\* The heap grows by a page, or create_kernel_task takes a stack.
KernelPage(m) == allocate(m, KernelArea(kpages + 1), KernelSlot(kpages + 1))

\* create_kernel_task in ForkAndExec: a stack, and a directory.
NewProcess(p, child) ==
    /\ InUser(p)
    /\ life[child] = "none"
    /\ \A q \in Pids : q < child => life[q] # "none"
    /\ kpages <= PerTable
    /\ kpages' = kpages + 1
    /\ dirs' = dirs + 1
    /\ mm' = Then(KernelPage(the(mm, p)),
                  LAMBDA m : IF dirs' > MaxDirs THEN Fault(m, "no directory")
                             ELSE clone_page_directory(m, child))
    /\ life' = [life EXCEPT ![child] = "kernel"]
    /\ NoteRace(p)
    /\ UNCHANGED <<op, upages, bits, big_lock, bufs, shm, next_shm, astray, clashed>>

\* register_shm refuses a name that is there; get returns its entry.
register_fails(guid) == \E e \in shm : e.guid = guid
shm_get(guid)        == {e \in shm : e.guid = guid}

\* A page is allocated before the name is looked at.  When the name is taken
\* the page stays and m_next_shared_memory does not move.
CreateSharedMemory(p, guid) ==
    /\ InUser(p)
    /\ next_shm[p] < MaxShm
    /\ mm' = allocate(the(mm, p), "shm", next_shm[p])
    /\ IF register_fails(guid)
       THEN /\ clashed' = TRUE
            /\ UNCHANGED <<shm, next_shm>>
       ELSE /\ shm' = shm \cup {[guid |-> guid, pid |-> p, page |-> next_shm[p]]}
            /\ next_shm' = [next_shm EXCEPT ![p] = @ + 1]
            /\ UNCHANGED clashed
    /\ NoteRace(p)
    /\ UNCHANGED <<life, op, kpages, upages, dirs, bits, big_lock, bufs, astray>>

\* Only of another process that is still there; there is no bound on the
\* pages a process maps, so the model's table bounds them.
OpenSharedMemory(p, guid) ==
    /\ InUser(p)
    /\ \E e \in shm_get(guid) :
          /\ e.pid # p
          /\ life[e.pid] # "gone"
          /\ next_shm[p] <= PerTable
          /\ mm' = duplicate(the(mm, p), e.pid, e.page, next_shm[p])
          /\ next_shm' = [next_shm EXCEPT ![p] = @ + 1]
    /\ NoteRace(p)
    /\ UNCHANGED <<life, op, kpages, upages, dirs, bits, big_lock, bufs, shm, astray, clashed>>

\* terminate_current frees neither pages nor tables nor the directory.
Exit(p) ==
    /\ InUser(p)
    /\ life' = [life EXCEPT ![p] = "gone"]
    /\ UNCHANGED <<mm, op, kpages, upages, dirs, bits, big_lock, bufs, shm, next_shm, raced, astray, clashed>>

\* A system call waits, for the disk say; when it is resumed, interrupts are
\* enabled.
Blocks(p) ==
    /\ InUser(p)
    /\ life' = [life EXCEPT ![p] = "kernel"]
    /\ UNCHANGED <<mm, op, kpages, upages, dirs, bits, big_lock, bufs, shm, next_shm, raced, astray, clashed>>

\* The call returns; the loader jumps to the program once it has its page.
Returns(p) ==
    /\ InKernel(p)
    /\ op[p] = Idle
    /\ upages[p] > 0
    /\ life' = [life EXCEPT ![p] = "user"]
    /\ UNCHANGED <<mm, op, kpages, upages, dirs, bits, big_lock, bufs, shm, next_shm, raced, astray, clashed>>

(***************************************************************************)
(* Kernel code that can be preempted                                       *)
(***************************************************************************)
Start(p, o) == op[p] = Idle /\ op' = [op EXCEPT ![p] = o]

\* HeapAllocator::allocate disables interrupts, so growth is one step.
GrowHeap(p) ==
    /\ InKernel(p)
    /\ op[p] = Idle
    /\ kpages <= PerTable
    /\ kpages' = kpages + 1
    /\ mm' = KernelPage(the(mm, p))
    /\ NoteRace(p)
    /\ UNCHANGED <<life, op, upages, dirs, bits, big_lock, bufs, shm, next_shm, astray, clashed>>

\* Kernel data on a heap page that the directory in use does not map.
TouchHeap(p) ==
    /\ InKernel(p)
    /\ kpages > PerTable
    /\ mm.pde[p]["late"] = 0
    /\ mm' = Fault(mm, "page fault")
    /\ UNCHANGED <<life, op, kpages, upages, dirs, bits, big_lock, bufs, shm, next_shm, raced, astray, clashed>>

\* load_and_jump_userspace: the() before allocate.
LoadThe(p) ==
    /\ InKernel(p)
    /\ upages[p] = 0
    /\ Start(p, [Idle EXCEPT !.k = "alloc", !.page = 1])
    /\ upages' = [upages EXCEPT ![p] = 1]
    /\ mm' = the(mm, p)
    /\ UNCHANGED <<life, kpages, dirs, bits, big_lock, bufs, shm, next_shm, raced, astray, clashed>>

\* Pages BigBuffer::allocate finds free; its loop stops before the last one.
FindBuffer == {i \in 1..(BufPages - 1) : i \notin bits}

\* BigBuffer::allocate for one page: with the lock, up to the().
BufferThe(p) ==
    /\ InKernel(p)
    /\ big_lock = 0
    /\ FindBuffer # {}
    /\ Start(p, [Idle EXCEPT !.k = "alloc", !.area = "buffer", !.page = Min(FindBuffer)])
    /\ bits' = bits \cup {Min(FindBuffer)}
    /\ big_lock' = p
    /\ mm' = the(mm, p)
    /\ UNCHANGED <<life, kpages, upages, dirs, bufs, shm, next_shm, raced, astray, clashed>>

\* allocate, in whatever directory m_page_directory names by now.
Allocate(p) ==
    /\ InKernel(p)
    /\ op[p].k = "alloc"
    /\ mm' = allocate(mm, op[p].area, op[p].page)
    /\ astray' = (astray \/ mm.dir # p)
    /\ bufs' = IF op[p].area = "buffer" THEN bufs \cup {op[p].page} ELSE bufs
    /\ big_lock' = IF big_lock = p THEN 0 ELSE big_lock
    /\ op' = [op EXCEPT ![p] = Idle]
    /\ NoteRace(p)
    /\ UNCHANGED <<life, kpages, upages, dirs, bits, shm, next_shm, clashed>>

\* ~BigBuffer, by whoever drops the last reference: the bit, then the().
FreeThe(p) ==
    /\ InKernel(p)
    /\ big_lock = 0
    /\ \E i \in bufs : /\ Start(p, [Idle EXCEPT !.k = "free", !.area = "buffer", !.page = i])
                       /\ bits' = bits \ {i}
                       /\ bufs' = bufs \ {i}
    /\ big_lock' = p
    /\ mm' = the(mm, p)
    /\ UNCHANGED <<life, kpages, upages, dirs, shm, next_shm, raced, astray, clashed>>

\* RTL8139NetworkCard::transmit asks where its buffer is: the().
LookupThe(p) ==
    /\ InKernel(p)
    /\ \E i \in bufs : Start(p, [Idle EXCEPT !.k = "look", !.area = "buffer", !.page = i])
    /\ mm' = the(mm, p)
    /\ UNCHANGED <<life, kpages, upages, dirs, bits, big_lock, bufs, shm, next_shm, raced, astray, clashed>>

\* Step n of deallocate or get_physical_address of p, with m afterwards.
TempStep(p, n, m) ==
    /\ InKernel(p)
    /\ op[p].k \in {"look", "free"}
    /\ op[p].at = n
    /\ mm' = m
    /\ NoteRace(p)
    /\ UNCHANGED <<life, kpages, upages, dirs, bits, bufs, shm, next_shm, astray, clashed>>

NextStage(p) == op' = [op EXCEPT ![p].at = @ + 1] /\ UNCHANGED big_lock

\* temp_map points TEMPMAP_ADDR at the table.
TempMapTarget(p) ==
    /\ TempStep(p, 0, Then(ensure_pde(mm, op[p].area),
                           LAMBDA g : TempTarget(g, get_pde(g, g.dir, op[p].area))))
    /\ NextStage(p)

TempMapUsed(p) ==
    /\ TempStep(p, 1, TempUsed(mm))
    /\ NextStage(p)

\* The entry is read through TEMPMAP_ADDR, and its frame made available.
ReadEntry(p) ==
    LET f == IF mm.target = 0 THEN 0 ELSE get_pte(mm, op[p].page) IN
    /\ TempStep(p, 2, IF mm.target = 0 THEN Fault(mm, "page fault")
                      ELSE IF op[p].k = "look" THEN mm
                      ELSE IF f = 0 THEN Fault(mm, "not present")
                      ELSE set_frame_available(mm, f))
    /\ NextStage(p)

\* Mutant of ZeroEntry: the entry keeps its frame.
ZeroNothing(p) ==
    /\ TempStep(p, 3, mm)
    /\ NextStage(p)

ZeroEntry(p) ==
    /\ TempStep(p, 3, IF op[p].k = "look" THEN mm
                      ELSE IF mm.target = 0 THEN Fault(mm, "page fault")
                      ELSE [mm EXCEPT !.pt[mm.target][op[p].page] = 0])
    /\ NextStage(p)

Untemp(p) ==
    /\ TempStep(p, 4, un_temp_map(mm))
    /\ op' = [op EXCEPT ![p] = Idle]
    /\ big_lock' = IF big_lock = p THEN 0 ELSE big_lock

TempMapStep(p) ==
    \/ TempMapTarget(p)
    \/ TempMapUsed(p)
    \/ ReadEntry(p)
    \/ ZeroEntry(p)
    \/ Untemp(p)

KernelStep(p) ==
    \/ GrowHeap(p)
    \/ TouchHeap(p)
    \/ LoadThe(p)
    \/ BufferThe(p)
    \/ Allocate(p)
    \/ FreeThe(p)
    \/ LookupThe(p)
    \/ TempMapStep(p)
    \/ Returns(p)

SystemCall(p) ==
    \/ SysAllocatePage(p)
    \/ \E child \in Pids : NewProcess(p, child)
    \/ \E guid \in Guids : CreateSharedMemory(p, guid) \/ OpenSharedMemory(p, guid)
    \/ Exit(p)
    \/ Blocks(p)

Next == \E p \in Pids : SystemCall(p) \/ KernelStep(p)

Spec == Init /\ [][Next]_vars

(***************************************************************************)
(* Properties                                                              *)
(***************************************************************************)
Tables == {mm.pde[p][a] : p \in Pids, a \in Areas} \ {0}

\* Entries of the tables: the frames they map.
Uses(f) == {u \in Tables \X Slots : mm.pt[u[1]][u[2]] = f}

SharedTables == {mm.pde[p]["shm"] : p \in Pids} \ {0}

\* The step between making a frame available and clearing its entry.
HalfFreed == {mm.pt[mm.target][op[p].page] : p \in {q \in Pids : op[q].k = "free" /\ op[q].at = 3 /\ mm.target # 0}}

\* As long as nobody is preempted while it has a table mapped, a frame is
\* either available or in use; a table is not also a page; and a frame two
\* entries map is shared memory in both (get_free_frame, allocate,
\* deallocate, clone_page_directory and duplicate), whatever directory the
\* allocations between the() and allocate end up in.
FramesUsedOnce ==
    ~raced /\ Running =>
    \A f \in Frames :
       /\ f \in mm.avail => f \notin Tables /\ (Uses(f) = {} \/ f \in HalfFreed)
       /\ f \in Tables => Uses(f) = {}
       /\ Cardinality(Uses(f)) > 1 => \A u \in Uses(f) : u[1] \in SharedTables

\* A private table belongs to one directory: no process reaches another's
\* pages (clone_page_directory drops them, ensure_pte makes a new table).
\* The assertions of the memory manager hold, apart from memory and
\* directories running out, as long as no step came between the() or
\* temp_map and what follows them, no kernel table was made after boot, and
\* no guid was created twice.
MemoryAssertionsHold ==
    /\ \A p, q \in Pids : p # q =>
          \A a \in Areas \ Shared : mm.pde[p][a] # 0 => mm.pde[p][a] # mm.pde[q][a]
    /\ ~raced /\ ~astray /\ ~clashed /\ kpages <= PerTable =>
          mm.fault \in {"", "no frame", "no directory"}

\* What ASSERT(!m_tempmap_used) of temp_map says: nobody else has a page
\* mapped at TEMPMAP_ADDR.
TempMapFree == mm.fault # "temp map in use"
=============================================================================
