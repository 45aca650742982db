# DarkForest in TLA+

DarkForest is a small operating system for 32-bit x86: a monolithic kernel (`src/kernel`), a C
library shared by kernel and programs (`src/libc`), and programs (`src/userspace`), among them a
window server and a shell. This project models the parts of it whose correctness depends on the
order in which things happen, checks them with TLC on small instances, and proves with TLAPS, for
every instance, the central properties of the scheduler, of starting programs, messages, sleep, the
heap, the keyboard, memory, the network and the window server.

## 1. Inventory

There is one CPU. Three things interrupt the code that runs on it: the timer (1000 times a second,
`drivers/PIT.cpp`), which advances the clock and enters `Scheduler::tick`; the keyboard, mouse and
network interrupts, which put events in buffers; and system calls, which enter through interrupt
gates. Gates disable interrupts, so a system call is atomic until it first blocks. A task that is
resumed runs with interrupts **enabled** (`task.S`), so the rest of a system call that has blocked
can be preempted anywhere. This asymmetry is where most of the hard behaviour comes from.

| Component | State it keeps | Operations | What makes it correct |
|---|---|---|---|
| Scheduler (`Scheduler.cpp`, `task.cpp`, `task.S`) | runnable and blocked list, current process, current TCB, ticks of the slice, state and blocker of each task | `tick`, `try_unblock_tasks`, `pick_next_and_switch`, `block_current`, `terminate_current`, `add_process` | lists and states agree; nobody is lost, run twice or starved; ESP is saved in the right, living TCB |
| Processes (`process.cpp`) | pid counter, `m_waiter`, descriptors, directory, shared memory, messages | `create`, `~Process`, `syscall_wait`, `ForkAndExec`, files, messages | no lost wake-up of a waiter; a child runs the program it was started for |
| Sleep and clock (`sleep.cpp`, `PIT.cpp`, `TaskBlocker.cpp`) | seconds and ticks, deadline of each sleeper | timer interrupt, `sleep_ms`, `SleepBlocker::can_unblock` | never early, boundedly late |
| Messages and locks (`process.cpp`, `lock.cpp`) | queue and lock of each process | send, receive, has-pending | none lost, duplicated or reordered; the lock is given back |
| Heap (`libc/HeapAllocator.cpp`) | free list, most recently freed first | allocate, free, expand, merge | live blocks are disjoint and stay in the heap |
| Keyboard, mouse (`drivers/PS2*.cpp`, `HAL/`) | ring of events, decoder state | interrupt, consume, can-consume | events are read in order, no reader finds the ring empty after it was woken |
| Network (`Network/`, `drivers/RTL8139*`) | receive queue, ARP table and blockers, sockets | interrupt, receive task, resolve, send, receive | every packet is handled once; a resolver wakes up when its answer came |
| Memory manager (`MM/`, `BigBuffer.cpp`) | frame bitmap, page directories, temporary mappings, shared buffers | allocate, free, map, temp-map | a frame has one owner |
| FAT32 and disk (`FileSystem/Fat32FS.cpp`, `CharFile.cpp`, `drivers/ATADisk.cpp`) | FAT, directories, sectors, the lock of the disk | find, read, create, write, load | no two entries share a cluster; names and data are those of the file |
| Files, paths, terminals (`FileSystem/VFS.cpp`, `DevFS.cpp`, `PtsFS.cpp`, `Pipe.cpp`, `path.cpp`, `process.cpp`) | mount table, pipes, descriptors, current directory | open, read, write, list, cd, create | a path means the same to shell and programs; no character is lost between them |
| Programs (`userspace/`) | command line, screen | GuiTerminal, shell, ls, cat, touch, ping | the screen shows what the commands mean |
| Window server (`userspace/WindowServer`, `LibWindowServer`) | windows, focus, drag state | requests as pairs of messages, input events | a reply answers the request it belongs to |
| Containers (`types/list.h`, `vector.h`, `shared_ptr.h`) | | | used by all of the above |

How they interact: every blocking operation ends in `block_current` with a `TaskBlocker` on the
blocked task's own stack; the scheduler asks these blockers, from the timer interrupt, whether their
condition holds. Conditions are set by other processes (messages, exit, pipes) or by interrupt
handlers (clock, keyboard, network). `PROJECT.json` lists the hazards at their lines.

## 2. Plan

Done, in this order: the scheduler with its abstract specification and proofs; then the components
of the kernel that extend it, whose processes are scheduled by the real scheduler and not by
arbitrary interleaving; then the window server, the heap, the file system, memory and the terminal,
which stand alone: there any process may run at any step, which covers every schedule.

| Module | Models | Status |
|---|---|---|
| `Multitasking` | what the scheduler promises, without lists, ticks and blockers | done |
| `Scheduler` | the scheduler, process life and waiting | done |
| `SchedulerProofs` | theorems about `Scheduler`, its refinement of `Multitasking` included | done |
| `SleepTimer` | clock and sleeping, on `Scheduler` | done |
| `ForkExec` | starting programs, on `Scheduler` | done |
| `Messages` | messages and locks, on `Scheduler` | done |
| `WindowServer` | the window server and its clients over message queues | done |
| `HeapAllocator` | the free-list allocator of kernel and programs | done |
| `Keyboard` | keyboard interrupt, event buffer and readers, on `Scheduler` | done |
| `Fat32` | FAT32 directories and files, sector by sector, with the machine stopping | done |
| `Network` | receive interrupt and task, ARP, ICMP sockets and ping, on `Scheduler` | done |
| `Memory` | frames, page tables, buffers and shared memory | done |
| `Terminal` | GuiTerminal, shell and programs over pipes, descriptors, paths and the mount table | done |
| `ProcessProofs` (`ForkExec`, `SleepTimer`, `Messages`), `Fat32Proofs`, `HeapAllocatorProofs`, `KeyboardProofs`, `MemoryProofs`, `NetworkProofs`, `WindowServerProofs` | theorems about these modules | done |
| PS/2 mouse, shared_ptr | packet assembly and event buffer; counts | later |

Theorems left: those about `Terminal`, see section 5.

## 3. The modules

### Scheduler
The variables are the fields of the code under their names where possible (a comment at each
declaration gives the field). A process is named by its pid; pid 0 is the idle process, which is in
no list unless a handler blocks it. An action is a stretch of code with interrupts disabled:

* `Tick` (`TickContinue`, `TickPreempt`), then one `TryUnblock` per node of the blocked list, then
  `TickSwitch`: the timer interrupt. The phases are separated so that the loop is a sequence of
  steps; nothing else is enabled during them (`phase = "unblock"`).
* `BlockOnEvent`, `Wait(pid)`, `Terminate`, `AddProcess`: what a running process asks for. The
  first three end in `SwitchToNext`, which is `pick_next_and_switch` with the context switch.
* `IdleBlocks`: an interrupt handler finds a lock taken while idle runs, and `Lock::lock` puts idle in
  the blocked list. Idle is then Running or Runnable and in that list, and the next tick that looks at
  its node fails `ASSERT(state == Blocked)`. One such node is enough (the bound), since the loop stops
  at the first. `BlockOnEvent` is the same code for a process.
* `EventOccurs`, `EventWithdrawn`: whatever makes another kind of blocker answer TRUE, or FALSE
  again (another reader took the data). The modules below replace these by the real conditions.

`try_unblock_tasks` reads `process_node->next` after `List::remove` has deleted the node, and the
`append` in between allocates a node of the same size. Whether it is given the same memory depends
on the heap; `Unblock` therefore leaves the cursor where the next node is *or* at the end of the
list. `WakeupsAreSeen` and `NeverLate` show what this costs: a later look, not a lost wake-up.

A failed `ASSERT` is a value of `panic`, with the kernel hung. `SchedulerAssertionsHold` names the two that
can fail: that of `set_waiter`, and that of `try_unblock_tasks` for idle. `Network` has the way
there (section 4). ESP being saved into a deleted TCB is
not an assertion of the code but is recorded as one.

### Multitasking
Life cycle and waiting only. `Scheduler!ImplementsMultitasking` is the refinement: `lifeBar` maps
the task states, `waitingBar` inverts `m_waiter`.

### SleepTimer
`Timer` is `isr_timer_handler`: the clock, then `tick`. `sleep_ms` keeps the carry of the code (`>`
and not `>=`). Time is in ticks, a second has `TICKS_PER_SECOND` of them. `deadline` is a history
variable. The clock stops at a bound (`ClockBound`).

### ForkExec
The data of a fork are named by the pid of the child they are for, so "the child reads its own data"
is `path[p] = p`. The parent's side is one action (a system call); the child's is three, because it
runs with interrupts enabled. `ForkAfterChild` chooses between programs like the repository's, which
wait for their child (shell, TextTerminal) or fork only once (GuiTerminal), and arbitrary programs.

### Messages
An uncontended send or receive is atomic. A call that has slept (for a message or for the lock) goes
on in single steps: lock, read the list, write the list, unlock. The list operations are split into
read and write because that is where an unlocked overlap would lose an update. The end of the
`sleep_ms(1)` in `Lock::lock` may come at any look at the blocked list.

### WindowServer
Every `send_message` and `get_message` of the server and of a client is an action; what the kernel
promises about messages is taken from `Messages` (one queue per process, nothing lost or reordered).
`outbox` holds the sends that remain of the handler that runs, so that a handler which sends several
messages can be interrupted between any two. A press of the mouse button may hit the banner or the
body of any set of windows, which covers every layout of overlapping windows. An `ASSERT` in a
program ends that program (`life[p] = "asserted"`). Three ways to fail an assertion are real and are
written into the properties as excuses or left out by having one client: the code of one client's
request comes between code and body of another's; a client that was ended by a fault is sent the
answer to its request (the server ends); a client that opens a second window reads an event for its
first one in place of the answer (the client ends).

### HeapAllocator
`free_list` is the linked list in its order (a freed block goes to the front), with the header
address of each node kept apart from its region, because allocation moves the region and not the
header. First fit, the strict `>`, the single retry after an expansion and the one-sided merge are
those of the code. Addresses are offsets from the start of the heap, so the whole heap of a small
instance can be accounted for byte by byte.

### Keyboard
A keyboard interrupt (`KeyByte`, `MultibytePrefix`, `DropByte`) can come whenever a task or idle runs
and the last one has been acknowledged. With the lock of the buffer free the handler is atomic. With
the lock taken it sleeps in the context of the interrupted process (`isr`) and goes on in two steps,
`IsrLock` and `IsrInsert`, between which it can be preempted. `consume` always runs with interrupts
enabled and is split like the list operations of `Messages`. Two consequences of a lock that is
taken in an interrupt handler and in the scheduler are real and appear as excuses, so that the run
shows that nothing else can go wrong: a handler that interrupts the holder waits for it forever
(`SelfDeadlock`), and a handler that is preempted between its two steps makes `can_consume` sleep
where there is no current process, a null pointer that faults (`LockFreeInScheduler`). When more
events are pending than the buffer holds, the newest replaces the oldest but `head` does not move:
later reads return events out of order (`overrun`). The driver has one flag for
two shift keys (`Modified`). What an event should carry is computed from the keys (`ModifiersAfter`):
shift while a shift key is held, except that once one of two held shift keys was let go the other no
longer counts. `NoKeyLost` and its theorem state the modifiers with this exception; that without it
they are wrong is what `ShiftIsHeld` says, and it is violated (section 4). With the keyboard alone idle is never
blocked, which `KeyboardProofs` proves; that a network handler can put a task to sleep in the middle
of `consume` is outside this module.

### Fat32
The disk is an array of clusters of two sectors and a FAT; every sector that is written is a step, so
`Crash` can come between any two of them and the machine goes on with what is on the disk. A system
call runs with interrupts off and is alone, unless it has to sleep for the lock of the disk, which only
happens while a process that loads its program holds it (`LoaderReads`); from then on the call can be
overtaken (`ie`). `create_entry` is eight steps: find the parent and the slot, find a free cluster,
copy and fill the cluster of the directory, write it, read and write the sector of the FAT, zero the
new cluster. `CharFile::write` looks the directory of the file up once (`WriteParent`), writes the data, and
then the sector of the directory with the size. Assertions that stop the kernel are `Panic` steps. The run shows which excuses `NoCrossLink`
needs: `torn`, the clusters of entries whose directory slot was written and whose FAT entry was not, and
`overlap`. `NamesAsked` needs `overlap` too: two calls that found the same empty slot and write names of
different length leave a name made of the pieces of both. `OwnData` says nothing of what lies in a
directory with a torn cluster: it is reached by two paths, and the data were written by one of them. These panics are reachable, none is excused by the properties: a directory filled to its last
slot makes every later `read_directory` assert (Fat32FS.cpp:105); the check for room (608) counts words
of four bytes where an entry has 32, so an entry can be written past the end of the buffer; a file
that became shorter by a cluster keeps its chain, and the next `CharFile::read` copies the whole chain
into a buffer of the smaller size (CharFile.cpp:17); an empty file cannot be read (`ASSERT(size>0)` of
BigBuffer); a write beyond the chain overwrites the start of the file and then stops the kernel (326);
`lseek` checks the size the file had when it was opened (CharFile.cpp:81); a cluster beyond `MAX_SECTOR`
is entered into the directory and the FAT before zeroing it asserts (ATADisk.cpp:186).

### Network
The environment puts frames into the ring of the card (`FrameArrives`): ARP answers and requests and
other frames at any time, echo replies once an echo request has been sent, any number of them or none.
`Interrupt` is the receive handler, atomic when `m_rx_lock` is free, otherwise asleep in the context of
whatever it interrupted (`isr`, `IsrLock`, `IsrQueue`), idle included. `RxStep` is the task
`handle_network_rx`, always preemptible, which holds `m_rx_lock` while it handles a packet and takes
the locks of `Icmp` and of the socket inside it. `PingStep` is the program: its system calls are atomic
until they first block. A timeout may be found over whenever the blocker is asked, and fairness only
says that it is over some day. The properties have one excuse, `Stuck`, and the run shows that no other
is needed: the handler interrupted the task that holds `m_rx_lock`, or interrupted a receiver that holds
the lock of the socket for which that task waits. A
handler that finds the lock taken while idle runs puts idle into the blocked list, and the next tick
fails `ASSERT(state == Blocked)`. This takes four frames (section 4): the
task sleeps for the lock of the socket with `m_rx_lock` in its hands, ping gives that lock back and blocks in
its next `recvfrom`, and a frame comes while idle runs. A handler sleeps on the stack of idle once
(`Interrupt`, `IsrLock`; the tick that follows ends the run). Also reachable: `SetAnswers` goes through `m_arp_blockers` while a system call may
append to it (`Dangling`); `transmit` (`// TODO lock`) can send the frame of another process twice and
lose its own. `sendto` returns success when the ARP request timed out. `m_id` is a u8 and every ping
uses the id 8, so two pings receive each other's replies; the model has one.

### Memory
`mm` is the MemoryManager with the tables it manages: free frames (`avail`), the directory `the()` stored
last (`dir`), the temporary mapping (`target`, `used`), directory entries (`pde`), tables (`pt`) and the
assertion that failed (`fault`). Its methods are operators on that record with the names of the code
(`get_free_frame`, `temp_map`, `ensure_pte`, `map_page`, `allocate`, `clone_page_directory`,
`duplicate`); `Then` stops at a failed assertion as the machine does. A directory has five entries: the
kernel's heap and stacks, its buffers (both tables exist at boot and every directory shares them), the
heap past its first table, the user's pages and shared memory.

A process in `life` "user" makes system calls, one step each. In "kernel" (the loader, or a call resumed
after a wait) interrupts are enabled, and an operation is cut where the code is not protected: between
`the()` and `allocate` (`LoadThe`, `BufferThe`, `Allocate`), and in `~BigBuffer` and
`get_physical_address` between the read of `m_tempmap_used`, its assignment, the release of the frame, the
clearing of the entry and `un_temp_map` (`TempMapStep`). The update of one word of the frame bitmap is
one instruction with the `-O2` of the Makefile and stays one step. The history variables `raced`, `astray`
and `clashed` record the three things that go wrong in the code today: two users of the temporary mapping
overlap, an allocation lands in the directory another process stored in between, a shared memory name was
created twice (the page stays mapped and the next `create` or `open` asserts). The fourth, a kernel table
made after boot, exists in one directory only (`TouchHeap`): `lock_kernel_PDEs` is meant to forbid it,
but the condition before its assertion, `(addr < BIG_BUFFER_START) && (addr > BIG_BUFFER_END)`, is never
true. The properties hold as long as none of these happened.

### Terminal
Three processes, `gui`, `shell` and `child`, each a program counter with what it still has to print. A
system call is one step; only `Pipe::read` is cut in two after it slept (`GetCharWoken`, `GetCharCopy`),
because a resumed call runs with interrupts enabled and a `PipeWrite` in between may replace the buffer it
has a pointer to (`GetCharFreed`, recorded in `garbled`: this can happen in the code today, and what follows
is not modelled). Path strings are sequences of names and `"/"`, so that `get_full_path`, `to_string`,
`parts_from_string` and the test for a trailing separator work on what the code works on. `session` is the
reference: what the same keys mean when directories are sequences of names and commands run one after the
other. It is written without the operators of the code, except `dirname`.

Three things the scripts leave out because they stop the machine or the shell: a path with two separators in
a row makes `String::substr` assert in the kernel; `cd` without an argument asserts in the shell; opening
`/dev` itself asserts in `DevFS::open`. There is no system call that closes a descriptor.

## 4. Runs

| Run | Instance | Shows |
|---|---|---|
| `scheduler` | 3 pids, 2 at boot, slice 2 | `TypeInv`, `ListsMatchStates`, `TCBOfCurrent`, `SchedulerAssertionsHold`, `WaitersAreWaiting`, `DeletedForGood`, refinement of `Multitasking`, `RunnableEventuallyRuns`, `WakeupsAreSeen` |
| `sleep_timer` | 3 pids, second of 6 ticks, sleeps of 2 and 7, clock to second 2 | `NeverEarly`, `NeverLate` with 5 ticks, `NoSecondSkipped` |
| `fork_exec` | 5 pids, one forking root | with the repository's programs one loader buffer is enough |
| `messages` | two senders, one receiver, 2 messages each, slice 0 | `MessageStillThere`, `NothingLost`, `LockIsReleased` |
| `window_server` | one client, which may die, 2 windows, 3 input events, 1 draw | assertions of server and client, `OneFocused`, `WindowIsCreated` |
| `heap` | pages of 8 bytes, headers of 2, up to 3 pages, sizes 0, 3 and 9 | `BlocksAreDisjoint`, `NothingLeaks`, `RetrySucceeds` |
| `keyboard` | 2 processes, one reads, two shift keys and caps lock, buffer of 2 events, 3 key events | `NoKeyLost`, `ConsumeFindsEvent`, `LockFreeInScheduler`, `KeyIsRead` |
| `fat32` | 2 processes, 7 clusters of 8 slots, names of 1 and 2 pieces, 3 calls, 1 crash | `NoCrossLink`, `NamesAsked`, `OwnData` |
| `network` | the task and ping with 2 requests, 3 frames of which 1 unasked, 2 send buffers | `RepliesInOrder`, `NetAssertionsHold`, `CallsReturn`, `FramesAreHandled` |
| `memory` | two processes, eleven frames, tables of two pages, one usable buffer, two shared names (symmetric); enough for frames and directories to run out and for a table made late | `FramesUsedOnce`: a frame is free or used, for one thing, unless it is shared memory. `MemoryAssertionsHold`: private tables are private, and no assertion fails unless one of the known overlaps happened. States past an overlap are not explored (`NoRaceYet`) |
| `terminal` | eight scripts of six to eight keys (cd down, up, absolute, to a directory that does not exist; ls, touch, cat, devices; backspace), typed at any speed; 4 descriptors, a pipe that starts with room for one character, reads of two | `ScreenIsSession`: the screen is a prefix of the session and no assertion fails. `ScreenCatchesUp`: it becomes the whole session |
| `temp_map` | violation; nine frames, tables of three pages, two usable buffers | `TempMapFree`: the loader frees its buffer, is preempted with a table mapped, and another process's `AllocatePage` stops the machine |

**Bounds.** Two processes at boot, one created later and idle, which a handler may add to the blocked
list, are enough for every list position (head, middle, tail), for two waiters of one process, a chain
of waits, and a wait for a process that has ended. A slice of 2 has ticks that continue and ticks that
preempt. With `MaxPid = 4` and a slice of 1 the run passes too (517,932 states, about four minutes). A slice
of 0 in `messages` preempts at every tick. In `sleep_timer` the second is 6 ticks, so that every
combination of a start within the second and a sleep with and without carry occurs, across two
seconds. `MaxLateness = 5` is tight: with 4 the run fails. The gap between two looks at the blocked
list is at most one full slice per other process, and a look may end early once per process that it
unblocks; with the real slice of 5 ticks and 1000 ticks in a second this leaves the assertion of
`SleepBlocker` (at most one second skipped) room for about fourteen processes. In `keyboard` a buffer of 2 overflows, is full and is
empty, and 3 key events are both shift keys pressed and one released, after which `NoKeyLost` still looks at
the modifiers of the next; a slice of 0 lets the timer come at every step. In `window_server` two windows give
every overlap of two, and three events cover a press, a drag and a key. In `heap` the sizes are one
that leaves no rest, one that splits a page and one that needs two pages; sizes that end within two
headers of a page boundary are left out, see below.

**Fairness.** `FairSpec` asks only that the timer ticks and that the code of `tick` runs to its end;
processes may do nothing for ever. `ForkExec` and `Messages` add strong fairness of the kernel code
of a process: a process that gets the CPU again and again makes progress there, because a slice is
longer than an instruction and this code waits for nothing. Programs are under no obligation.
`WindowServer` has weak fairness of the server and of each client: the scheduler starves nobody
(`RunnableEventuallyRuns`); a client need not open further windows.

`Keyboard` adds that a `sleep_ms(1)` ends and that a reader goes on reading, as the window server and
the terminals do.

`Network` adds that a timeout is over some day, that an interrupt that stays requested is delivered,
and that the task and ping go on; nothing is assumed of the network.

`Terminal` has weak fairness of each of its three processes (`RunnableEventuallyRuns` again); the user need
not type.

**Deadlock** is checked except where the system really may stop: in `window_server` and `terminal` all
wait for input once the bound on it is reached; in `fat32` and `memory` the processes may have done all the
bounds allow, and the machine stops at a failed assertion (also in the violation run).

**Known and not a run of their own.** With `ForkAfterChild = FALSE`, two forks in a row fail
`ASSERT(!glob_userspace_loader_locked)` (`process.cpp:143`; line 142 has a TODO for a mutex);
that is why the passing run has programs that wait. Each of the following is a change of
constants away, with the property that is named as the only one of the cfg:

* Two processes that wait for a third fail `ASSERT(m_waiter==nullptr)` (`process.cpp:170`): the
  scheduler run reaches it (`SetWaiterFailed`), and `SchedulerAssertionsHold` allows it.
* `ForkAfterChild = FALSE` in `MCForkExec.cfg`: `auxiliary_loader` clears the flag before the path is
  read (`process.cpp:121`), and `ChildRunsItsProgram` is violated by a fork in between.
* `Clients = {gui, gui2}` in `MCWindowServer.cfg`: the code and the body of a request are two messages,
  those of two clients interleave, and `ASSERT(rc)` (`WindowServerHandler.cpp:171`) ends the server (`ServerAssertionsHold`).
* `PAGE_SIZE = 4096, HEADER = 16, Sizes = {4064}` in `MCHeapAllocator.cfg`: the page the heap grows by
  has no room for the headers and `ASSERT(!retried)` (`HeapAllocator.cpp:55`) fails (`RetrySucceeds`).
* `Readers = {1, 2}` in `MCKeyboard.cfg`: one key wakes two readers, and the second fails
  `ASSERT(m_events_pending>0)` (`PS2Keyboard.cpp:209`, `ConsumeFindsEvent`).
* `ShiftIsHeld` with the constants of `MCKeyboard.cfg`: both shift keys are pressed and one is released, which
  clears the flag (`PS2Keyboard.cpp:155`) although `m_current_modifiers` "stores bit-wise state of modifiers"
  (`PS2Keyboard.h:43`) and a shift key is held. `NoKeyLost` states what the flag does tell.
* `MaxFrames = 4` and `NetworkSpec` in `MCNetwork.cfg`: the receive task holds `m_rx_lock` and sleeps for the
  lock of the socket (`IcmpSocket.cpp:80`), ping gives it back and blocks, a frame comes while idle runs, and
  `Lock::lock` (`NetworkManager.cpp:37`, `lock.cpp:18`) puts idle in the blocked list. The next tick fails
  `ASSERT(state == Blocked)` (`Scheduler.cpp:104`, `BlockedAreBlocked`); `SchedulerAssertionsHold` allows it
  for idle only. `RepliesInOrder` and `NetAssertionsHold` hold with four frames too (451,863 states).

Others were seen in the code and are not shown by a run: a full descriptor table makes `allocate_fd` delete the file (`process.cpp:533`),
which for a device is the one all processes share; `buff[rc]` in GuiTerminal (`main.cpp:114`) is one
byte past the buffer when exactly 100 characters were read; `DevFS::is_directory` is always false, so
`/dev` can be listed and not entered. The comment at `Scheduler.cpp:67` says that the
blocked list is looked at when a task blocks; `block_current` does not do so, and the CPU can go
idle until the next tick while a task could be unblocked.

## 5. Proofs

`SchedulerProofs` proves, for all `MaxPid`, `NumBoot` and `TIME_SLICE_MS` allowed by
`SchedulerAssumption`: `TypeCorrect`, `NoProcessLost`, `SavesTheRightTCB`, `AssertionsHold`,
`NoLostWakeup` (the five invariants of run `scheduler`) and `PidsAreNotReused` (its action
property). `AssertionsHold` excepts what the code does break, `set_waiter` and the node of idle. None of the
invariants is inductive alone: that the head of the runnable list is Runnable
needs the correspondence of lists and states; that `Terminate` switches from the right TCB needs
`TCBOfCurrent`; that a woken waiter leaves no `m_waiter` behind needs `WaitersAreWaiting`. Their
conjunction with `IdleWhenEmpty`, `IdleStaysUp` (idle is Running or Runnable, also in the blocked list) and
`PanicHangs` is `SchedulerInv`, which is inductive (`Invariance`).  The modules without a handler that blocks
idle have `IdleNotBlocked` besides, and there the assertion of `try_unblock_tasks` never fails. The proof has one lemma per action, and two
lemmas, `SwitchLemma` and `BlockLemma`, for the code that several actions end in. `AppendMember`,
`TailMember` and `RemoveAtMember` say what the list operations do to membership and to freedom
from duplicates.
`Refinement` shows that `Scheduler` implements `Multitasking`, action by action: a step that moves a
process between lists without changing its life is a stutter, `TryUnblock` of a waiter is `Awake`,
`Terminate` is the end of a life. Its steps use `SchedulerInv`, because only there a woken waiter is
known to have a dead waitee.

The modules below extend `Scheduler`; their proofs extend `SchedulerProofs` and reuse its lemmas for
the scheduling half of every step, so that what is left is the component's own half.

**`ForkExec`** (in `ProcessProofs`), under `OneChain` (one root, and programs that wait for their last child, which
is what the repository's programs do; without it the properties are false, see section 4).
`userspace_loader_data` is one global, so the argument is about who may fork: `ForkInv` says that
the living forkers form a chain along `child`, that exactly the last of the chain may fork
(`OneLast`), that whoever loads is that last one and that the global data are its own (`Loading`).
`ForkFindsDataFree` and `ChildRunsItsOwn` follow, and `OneWaiterEach`: the assertion of `set_waiter`,
which a second waiter would fail, holds with such programs.

**`Messages`** (in `ProcessProofs`; any number of processes, receivers and messages). `LockIsHeld` ties the steps
between `lock` and `unlock` to the holder, `ReadIsFresh` says that what a list operation has read is
still the list, `MessagePending` that a receiver past its blocker has a message, which nobody but
itself can take; `QueuesKept` is the order. `NothingLost` alone is not inductive: a preempted append
writes back what it read.

**`SleepTimer`** (in `ProcessProofs`; any number of processes, any `TICKS_PER_SECOND`, any sleep). The carry of
`sleep_ms` leaves pairs of seconds and ticks that are not normalised; `EndIsDeadline` says that the
pair is the deadline all the same and that its ticks are at most a second. `SleepsLongEnough` is the
action property `NeverEarly`. `NeverLate` and `NoSecondSkipped` are bounds that depend on the number
of processes and the slice (section 4), so they are checked for an instance and not proved.

**`HeapAllocatorProofs`** (any page, header and request sizes). The argument goes byte by byte:
`HeapInv` says that every byte below `heap_end` has exactly one owner and that the owners are the
blocks in use, the headers and the regions of free nodes. `BlocksAreDisjoint` compares blocks and
not bytes, and is not inductive: merging moves a region away from its header. `ExpansionIsEnough`
has the hypothesis `RoomForHeaders`, that no request ends within two headers of a page boundary;
for the other requests the assertion does fail (section 4).

**`KeyboardProofs`** (any number of processes, any keys and buffer length), under `OneReader` (with
two the assertion of `consume` fails, section 4) and `FewKeys` (fewer than 256 events, as
`m_events_pending` is a byte). `KeyboardInv` has three parts. `Reading`: the lock is held by the
reader from lock to unlock or by a handler that slept, never by both; its holder can run unless a
handler sleeps on its stack; a reader past its blocker has an event. `Events`: until an overflow the
ring from head to tail holds the events after those taken, and the handler's modifiers are those of
the keys typed so far; `ShiftStep` and `CapsStep` say what one more key does to them. `SchedPart`: the
scheduler's invariant and `IdleNotBlocked`. Idle runs only when nobody else can (`IdleWhenEmpty`), so a
handler that finds the lock taken, whose holder could run, never sleeps on the stack of idle. Or the
kernel hangs where `can_consume` met a handler with the lock (`Hung`), as `LockFreeInScheduler` says.

**`MemoryProofs`** (any number of processes, frames, directories, pages and guids allowed by
`MemoryAssumption`). The argument follows the entries of the page tables. `Sound` says that a table
is not available and serves one area of one directory, or the same kernel area of several, and that
what an entry maps is not available, no table, and in no other entry unless both are shared memory;
one lemma for each operation of `MemoryManager` says that it keeps `Sound` and what it adds (`Mapped`,
`Cloned`, `Duplicated`). `FramesUsedOnce` is not inductive: between `set_frame_available` and the
cleared entry of `deallocate` a frame is both available and mapped. `MemInv` therefore names these
entries (`Halves`), and adds that `big_buffer_lock` leaves at most one of them (`Ops`), that without
a race the temporary mapping belongs to the one process that uses it and no other entry or table has
its frame (`TempMapping`, `OnlyMine`), and which pages are there (`Buffers`, `PagesInOrder`,
`Directories`), which is why no page is taken and none is missing. After a race `Sound` still holds
for the other entries as long as the machine runs; what is lost is that nobody takes the frame that
is half freed.

**`NetworkProofs`** (any number of echo requests, frames and send buffers). A frame goes from the
ring to `m_rx_queue`, into the hands of the task, to the socket and to ping. Each step takes the
first of one place to the end of the next, so the line of all of them stays as it is (`Frames`), and
what leaves it is no echo reply, because replies come only after a request and by then the socket
is registered (`Asked`). `Readers` is about the places between a blocker and its lock: the task alone
takes from `m_rx_queue`, ping alone from its socket, so what was seen is still there. It needs part
of the scheduler's invariant (`SchedPart`), to know that the task runs only if its blocker let it;
not all, because here a handler may put idle in the blocked list.

**`WindowServerProofs`**. `OneFocused` holds for any number of clients; its invariant `WindowsInv`
says that the focus is at a window and that a window not yet in `m_windows` has no flag. The loop of
`handle_mouse_event` is followed turn by turn: after each one the flag is at the window the focus
names, wherever the ones before put it. The assertions of the two sides are proved under `OneClient`
(with two they fail, section 4) and as long as `IdsFit`: `set_drag` takes a u16, and a window id
that does not fit would be looked up as another one. In each direction a code and its body
alternate, whoever is half way through a pair (`Linked`); what is drawn or dragged has a window,
since an id reaches the client only with the answer that ends its creation (`IdsHaveWindows`); at
most one creation is on its way, as a request, with the server or as an answer (`OneCreation`); and
before its first window a client is sent nothing but the answer (`FirstIsAnswer`).

**`Fat32Proofs`** (any number of processes, clusters, slots of a sector, paths, sizes, calls and
crashes allowed by `FatAssumption`, whose names have any number of pieces). `Base` holds always: the
types, with the shape of the FAT (only the image's file has two clusters, and since `write` never makes
a chain longer no other gets a second one), and that calls overlap only when a program has been loaded.
`Sound` holds until calls overlap: one call is in progress at a time, and what it has read is still
what is on the disk when it writes (`CallFits`: the empty slot, the free cluster, the copy of the
directory, the copy of the FAT). None of the three properties is inductive. `NoCrossLink` looks at
the directories one can reach, and a cluster may become a directory later, so `UniqueTargets` speaks of
every slot of every cluster, the slots behind an unfinished entry included; that the next free cluster
has no entry is `Entered`, which a crash between directory and FAT breaks for one cluster, torn from
then on. `NamesAsked` needs to know that nothing lies behind the first empty slot (`EndsAtEnd`) and, while
an entry is being written, exactly which of its slots are on the disk (`Fills`): a crash after the
first of two sectors leaves long entries without their entry, and the next entry's own last piece ends
the search for its name (`NewName`). `OwnData` needs that an open file refers to the only entry of its
cluster and that its path is the only one to it (`Handles`, `OnePath`), that a free cluster is zero
(`FreeIsFresh`), and that the sizes written are those that fit (`Room`). What `read_directory`,
`find` and the chain of clusters return are lemmas (`FirstEnd`, `WalkIs`, `ChainIs`): the latter two
are functions defined by recursion, followed to their end with `Counting`.

Loops over sequences (`ReceiveAll`, `Press`) are functions defined by recursion in the model. The
proofs reach every turn of them with a set form of induction, `Counting` and `CountingUp`: a set of
the numbers up to n that has 0, and with each number the next, has all of them. It follows from the
library's `WFMin`, the least number of those missing.

Only model-checked: all liveness properties (fairness and `ENABLED` are out of the prover's reach);
`NeverLate` and `NoSecondSkipped` (bounds of an instance, see above); and `Terminal`, whose property
compares the screen with a fold over the session. `FoldLeft`, `SelectSeq` and operators
declared RECURSIVE cannot be unfolded by the provers, a recursive function can.

## 6. Not modelled

Contents of messages and packets; formatting and logging; port I/O (PIT, PIC, PCI set-up); the PS/2
mouse; the ELF parser, boot and descriptor tables; ioctl, lseek and map_device; memory exhaustion of the
kernel heap. A receiver that ends while a sender sleeps in
`Lock::lock` with a pointer to it is listed as a hazard and left out of `Messages`, whose receivers
do not end. `FAT32` is a set of paths in `Terminal` and modelled by itself in `Fat32`. The components
with status `not_modelled` in `PROJECT.json` are the mouse, which the plan has left, and those without state.

Small differences that no property depends on: `recvfrom` returns `-E_TOO_BIG` for a packet longer than
the buffer and leaves it queued (`IcmpSocket.cpp:125`), in `Network` a reply fits the buffer of the
request; `consume_message` asserts the size of the message (`process.cpp:393`), in `Messages` all have
the size asked for; `update_file_size` compares the cluster of every 32 bytes of a directory, those of long
entries included (`Fat32FS.cpp:715`), `SlotsWith` only those of entries; and when the search for the pieces
of a name reaches the start of the directory an assertion fails (`Fat32FS.cpp:520`), where `NameAt` gives
the short name.
