------------------------------ MODULE Scheduler ------------------------------
(***************************************************************************)
(* The process scheduler of the kernel: kernel/Scheduler.cpp, with the     *)
(* parts of kernel/process.cpp, kernel/task.cpp and kernel/task.S it calls *)
(* (creation, deletion and waiting for a process, the context switch).     *)
(*                                                                         *)
(* There is one CPU.  The timer interrupt enters Scheduler::tick with      *)
(* interrupts disabled, system calls enter through an interrupt gate (0x8e)*)
(* and are atomic up to their first block_current, and asm_switch_to_task  *)
(* enables interrupts again when it resumes a task.  So an action here is  *)
(* a stretch of code that runs with interrupts disabled, except that the   *)
(* loop of try_unblock_tasks takes one action per node of the blocked list.*)
(*                                                                         *)
(* A process is named by its pid.  Process 0 is the idle process.  It is   *)
(* in neither list, unless an interrupt handler that runs in its context   *)
(* finds a lock taken: Lock::lock then blocks idle like any process.       *)
(***************************************************************************)
EXTENDS Integers, Sequences, SequencesExt

CONSTANTS MaxPid,         \* bound: processes ever created have pids 1..MaxPid
          NumBoot,        \* processes kernel_main adds before it enables interrupts
          TIME_SLICE_MS   \* ticks a process runs before a tick may preempt it

ASSUME SchedulerAssumption ==
    /\ MaxPid \in Nat \ {0}
    /\ NumBoot \in 1..MaxPid
    /\ TIME_SLICE_MS \in Nat

Idle      == 0
Pids      == 1..MaxPid
Processes == 0..MaxPid
NoProcess == -1             \* nullptr as a Process* or a ThreadControlBlock*
BootTCB   == -2             \* the dummy TCB made by initialize_multitasking
NoPanic   == "none"

\* The assertions of the modelled code, named by function.
SetWaiterFailed  == "set_waiter: process already has a waiter"
NotBlockedFailed == "try_unblock_tasks: task is not blocked"
Assertions ==
    {SetWaiterFailed, NotBlockedFailed,
     "tick: current task is in the runnable list", "pick_next: task is not runnable",
     "terminate_current: current_TCB is not the current task",
     "asm_switch_to_task: ESP saved in a deleted TCB"}

(***************************************************************************)
(* TaskMetaData::State, plus the two states a process object has outside   *)
(* its lifetime.                                                           *)
(***************************************************************************)
States == {"Unborn", "Running", "Runnable", "Blocked", "Deleted"}

(***************************************************************************)
(* The TaskBlocker a blocked task points to: a WaitBlocker, or one of the  *)
(* blockers whose condition is set by something else (clock, message, file,*)
(* device, network).                                                       *)
(***************************************************************************)
Blockers == {"nullptr", "wait", "event"}

VARIABLES
    runnable,   \* m_runanble_list
    blocked,    \* m_blocked_list
    current,    \* m_current_process
    current_TCB,\* owner of the TCB that asm_switch_to_task saves ESP into
    ticks,      \* m_tick_since_switch
    state,      \* TaskMetaData::state of every process
    blocker,    \* TaskMetaData::blocker
    waiter,     \* Process::m_waiter: the process whose WaitBlocker it points to
    finished,   \* WaitBlocker::m_waitee_finished, by the process that waits
    ready,      \* processes whose event blocker would answer TRUE
    next_pid,   \* g_next_pid
    phase,      \* "cpu": a task runs; "unblock": in try_unblock_tasks; "hang"
    cursor,     \* position of process_node in the blocked list
    panic       \* the kernel assertion that failed, or NoPanic

lists == <<runnable, blocked>>
procs == <<state, blocker, waiter, finished, ready, next_pid>>
cpu   == <<current, current_TCB, ticks, phase, cursor, panic>>
vars  == <<lists, procs, cpu>>

Init ==
    /\ runnable = [i \in 1..NumBoot |-> i]
    /\ blocked = <<>>
    /\ current = NoProcess
    /\ current_TCB = BootTCB
    /\ ticks = 0
    /\ state = [p \in Processes |-> IF p <= NumBoot THEN "Runnable" ELSE "Unborn"]
    /\ blocker = [p \in Processes |-> "nullptr"]
    /\ waiter = [p \in Processes |-> NoProcess]
    /\ finished = [p \in Processes |-> FALSE]
    /\ ready = {}
    /\ next_pid = NumBoot + 1
    /\ phase = "cpu"
    /\ cursor = 1
    /\ panic = NoPanic

-----------------------------------------------------------------------------
(* Helpers *)

\* A failed ASSERT raises the crash trap: the kernel panics and hangs.
Panic(assertion) ==
    /\ panic' = assertion
    /\ phase' = "hang"
    /\ UNCHANGED <<lists, procs, current, current_TCB, ticks, cursor>>

\* The process Scheduler::get_process finds: the running one is in no list.
Listed(p) == Contains(runnable, p) \/ Contains(blocked, p)

\* asm_switch_to_task stores ESP through current_TCB unless that is nullptr.
SavesToDeletedTCB(st, tcb) == tcb \in Processes /\ st[tcb] = "Deleted"

\* Mutant of SwitchToNext: switch_to_task does not move current_TCB along.
KeepOldTCB(st, tcb) ==
    LET next == IF runnable = <<>> THEN Idle ELSE Head(runnable)
    IN  /\ runnable' = IF runnable = <<>> THEN runnable ELSE Tail(runnable)
        /\ current' = next
        /\ state' = [st EXCEPT ![next] = "Running"]
        /\ ticks' = 0
        /\ cursor' = 1
        /\ phase' = "cpu"
        /\ UNCHANGED <<current_TCB, panic>>

(***************************************************************************)
(* Scheduler::pick_next_and_switch with the context switch it ends in, for *)
(* a caller that has left the runnable list as it is, the task states as   *)
(* st and current_TCB as tcb.  The head of the list runs, or idle.         *)
(***************************************************************************)
SwitchToNext(st, tcb) ==
    LET next == IF runnable = <<>> THEN Idle ELSE Head(runnable)
        failed == CASE runnable # <<>> /\ st[next] # "Runnable" -> "pick_next: task is not runnable"
                    [] SavesToDeletedTCB(st, tcb) ->
                           "asm_switch_to_task: ESP saved in a deleted TCB"
                    [] OTHER -> NoPanic
    IN  /\ runnable' = IF runnable = <<>> THEN runnable ELSE Tail(runnable)
        /\ current' = next
        /\ current_TCB' = next
        /\ state' = [st EXCEPT ![next] = "Running"]
        /\ ticks' = 0
        /\ cursor' = 1
        /\ panic' = failed
        /\ phase' = IF failed = NoPanic THEN "cpu" ELSE "hang"

\* Scheduler::block_current: the running task blocks on b and another runs.
block_current(b) ==
    /\ blocker' = [blocker EXCEPT ![current] = b]
    /\ blocked' = Append(blocked, current)
    /\ SwitchToNext([state EXCEPT ![current] = "Blocked"], current_TCB)

-----------------------------------------------------------------------------
(* The timer interrupt: Scheduler::tick *)

\* The task ticked; a tick before the first switch finds no current process.
Ticked == IF current = NoProcess THEN Idle ELSE current

\* Mutant of TickContinue: the slice has no end.
TickWithoutSlice ==
    /\ phase = "cpu"
    /\ Ticked # Idle
    /\ state[Ticked] = "Running"
    /\ ticks <= TIME_SLICE_MS
    /\ ticks' = ticks + 1
    /\ UNCHANGED <<lists, procs, current, current_TCB, phase, cursor, panic>>

\* The slice is not used up: the current task goes on.
TickContinue ==
    /\ phase = "cpu"
    /\ Ticked # Idle
    /\ state[Ticked] = "Running"
    /\ ticks < TIME_SLICE_MS
    /\ ticks' = ticks + 1
    /\ UNCHANGED <<lists, procs, current, current_TCB, phase, cursor, panic>>

\* Mutant of TickPreempt: the preempted task goes to the front of the list.
PreemptToFront ==
    /\ phase = "cpu"
    /\ Ticked = Idle \/ ticks >= TIME_SLICE_MS
    /\ runnable' = IF Ticked # Idle THEN <<Ticked>> \o runnable ELSE runnable
    /\ state' = [state EXCEPT ![Ticked] = "Runnable"]
    /\ current' = NoProcess
    /\ phase' = "unblock"
    /\ cursor' = 1
    /\ UNCHANGED <<blocked, blocker, waiter, finished, ready, next_pid,
                   current_TCB, ticks, panic>>

\* Idle is always preempted, another task when its slice is used up; then
\* try_unblock_tasks starts at the head of the blocked list.
TickPreempt ==
    /\ phase = "cpu"
    /\ Ticked = Idle \/ state[Ticked] # "Running" \/ ticks >= TIME_SLICE_MS
    /\ LET running == Ticked # Idle /\ state[Ticked] = "Running" IN
       IF running /\ Contains(runnable, Ticked)
       THEN Panic("tick: current task is in the runnable list")
       ELSE /\ runnable' = IF running THEN Append(runnable, Ticked) ELSE runnable
            /\ state' = IF running \/ Ticked = Idle
                        THEN [state EXCEPT ![Ticked] = "Runnable"] ELSE state
            /\ current' = IF running \/ Ticked = Idle THEN NoProcess ELSE current
            /\ phase' = "unblock"
            /\ cursor' = 1
            /\ UNCHANGED <<blocked, blocker, waiter, finished, ready, next_pid,
                           current_TCB, ticks, panic>>

Tick == TickContinue \/ TickPreempt

\* Mutant of can_unblock: WaitBlocker does not look at m_waitee_finished.
WaitIsOver(p) == blocker[p] = "wait" \/ p \in ready

\* TaskBlocker::can_unblock of the blocker of p.
can_unblock(p) == IF blocker[p] = "wait" THEN finished[p] ELSE p \in ready

\* Mutant of Unblock: the node stays in the blocked list.
UnblockKeepsNode(p) ==
    /\ state' = [state EXCEPT ![p] = "Runnable"]
    /\ blocker' = [blocker EXCEPT ![p] = "nullptr"]
    /\ runnable' = Append(runnable, p)
    /\ cursor' = cursor + 1
    /\ ready' = ready \ {p}
    /\ UNCHANGED <<blocked, waiter, finished, next_pid, current, current_TCB,
                   ticks, phase, panic>>

(***************************************************************************)
(* One iteration of the loop of try_unblock_tasks, where can tells what    *)
(* can_unblock answers.  A task that is unblocked leaves the list, which   *)
(* deletes its node; the loop then reads process_node->next from the freed *)
(* node.  The append in between allocates a node of the same size: when it *)
(* is given the freed memory, next is nullptr and the loop ends early;     *)
(* otherwise the old next is still there.  Both happen.                    *)
(***************************************************************************)
Unblock(p) ==
    /\ state' = [state EXCEPT ![p] = "Runnable"]
    /\ blocker' = [blocker EXCEPT ![p] = "nullptr"]
    /\ blocked' = RemoveAt(blocked, cursor)
    /\ runnable' = Append(runnable, p)
    /\ cursor' \in {cursor, Len(blocked)}
    /\ ready' = ready \ {p}
    /\ UNCHANGED <<waiter, finished, next_pid, current, current_TCB, ticks,
                   phase, panic>>

\* Mutant of StayBlocked: the loop stops at the first task it cannot unblock.
StopAtBlocked ==
    /\ cursor' = Len(blocked) + 1
    /\ UNCHANGED <<lists, procs, current, current_TCB, ticks, phase, panic>>

StayBlocked ==
    /\ cursor' = cursor + 1
    /\ UNCHANGED <<lists, procs, current, current_TCB, ticks, phase, panic>>

VisitBlocked(can) ==
    /\ phase = "unblock"
    /\ cursor <= Len(blocked)
    /\ LET p == blocked[cursor] IN
       IF state[p] # "Blocked" \/ blocker[p] = "nullptr"
       THEN Panic(NotBlockedFailed)
       ELSE IF can THEN Unblock(p) ELSE StayBlocked

TryUnblock == VisitBlocked(can_unblock(blocked[cursor]))

\* The loop has ended; tick goes on to pick_next_and_switch.
TickSwitch ==
    /\ phase = "unblock"
    /\ cursor > Len(blocked)
    /\ SwitchToNext(state, current_TCB)
    /\ UNCHANGED <<blocked, blocker, waiter, finished, ready, next_pid>>

-----------------------------------------------------------------------------
(* What the running process does *)

InProcess == phase = "cpu" /\ current \in Pids

\* Mutant of AddProcess: the pid of a process that has ended is used again.
ReusePid ==
    /\ InProcess
    /\ \E p \in Pids :
        /\ state[p] \in {"Unborn", "Deleted"} /\ p <= next_pid
        /\ state' = [state EXCEPT ![p] = "Runnable"]
        /\ runnable' = Append(runnable, p)
        /\ next_pid' = IF p = next_pid THEN next_pid + 1 ELSE next_pid
    /\ UNCHANGED <<blocked, blocker, waiter, finished, ready, cpu>>

\* Process::create and Scheduler::add_process.
AddProcess ==
    /\ InProcess
    /\ next_pid <= MaxPid
    /\ state' = [state EXCEPT ![next_pid] = "Runnable"]
    /\ runnable' = Append(runnable, next_pid)
    /\ next_pid' = next_pid + 1
    /\ UNCHANGED <<blocked, blocker, waiter, finished, ready, cpu>>

\* A system call blocks on an event, which may already have happened.
BlockOnEvent ==
    /\ InProcess
    /\ block_current("event")
    /\ ready' \in {ready, ready \cup {current}}
    /\ UNCHANGED <<waiter, finished, next_pid>>

(* An interrupt handler finds a lock taken while idle runs: Lock::lock      *)
(* sleeps, and block_current puts idle in the blocked list.  Idle is picked *)
(* again unless another process is runnable, and the next tick that comes   *)
(* to its node finds it Runnable.  Bound: one node of idle; the loop never  *)
(* gets past the first one to see a second.                                 *)
IdleBlocks ==
    /\ phase = "cpu" /\ current = Idle
    /\ ~Contains(blocked, Idle)
    /\ block_current("event")
    /\ UNCHANGED <<waiter, finished, ready, next_pid>>

\* Process::syscall_wait; an unlisted pid returns -E_NOTFOUND and changes
\* nothing.  set_waiter asserts that nobody else waits for the process.
Wait(pid) ==
    /\ InProcess
    /\ Listed(pid)
    /\ IF waiter[pid] # NoProcess
       THEN Panic(SetWaiterFailed)
       ELSE /\ waiter' = [waiter EXCEPT ![pid] = current]
            /\ finished' = [finished EXCEPT ![current] = FALSE]
            /\ block_current("wait")
            /\ UNCHANGED <<ready, next_pid>>

\* Mutant of Terminate: current_TCB is not set to nullptr.
TerminateKeepsTCB ==
    /\ InProcess
    /\ finished' = IF waiter[current] # NoProcess
                   THEN [finished EXCEPT ![waiter[current]] = TRUE] ELSE finished
    /\ waiter' = [waiter EXCEPT ![current] = NoProcess]
    /\ SwitchToNext([state EXCEPT ![current] = "Deleted"], current_TCB)
    /\ UNCHANGED <<blocked, blocker, ready, next_pid>>

\* Mutant of Terminate: ~Process does not tell the waiter.
TerminateSilently ==
    /\ InProcess
    /\ waiter' = [waiter EXCEPT ![current] = NoProcess]
    /\ SwitchToNext([state EXCEPT ![current] = "Deleted"], NoProcess)
    /\ UNCHANGED <<blocked, blocker, finished, ready, next_pid>>

\* Scheduler::terminate_current with ~Process: the waiter is told through
\* the pointer to its blocker, the process object goes with its m_waiter.
Terminate ==
    /\ InProcess
    /\ IF current_TCB # current
       THEN Panic("terminate_current: current_TCB is not the current task")
       ELSE /\ finished' = IF waiter[current] # NoProcess
                           THEN [finished EXCEPT ![waiter[current]] = TRUE]
                           ELSE finished
            /\ waiter' = [waiter EXCEPT ![current] = NoProcess]
            /\ SwitchToNext([state EXCEPT ![current] = "Deleted"], NoProcess)
            /\ UNCHANGED <<blocked, blocker, ready, next_pid>>

(* What makes an event blocker answer TRUE: a system call of the running    *)
(* process or an interrupt handler; a second reader may take it away again. *)
EventOccurs(p) ==
    /\ phase = "cpu"
    /\ blocker[p] = "event"
    /\ p \notin ready
    /\ ready' = ready \cup {p}
    /\ UNCHANGED <<lists, state, blocker, waiter, finished, next_pid, cpu>>

EventWithdrawn(p) ==
    /\ phase = "cpu"
    /\ p \in ready
    /\ ready' = ready \ {p}
    /\ UNCHANGED <<lists, state, blocker, waiter, finished, next_pid, cpu>>

\* cpu_hang
Hang == phase = "hang" /\ UNCHANGED vars

Next ==
    \/ Tick
    \/ TryUnblock
    \/ TickSwitch
    \/ AddProcess
    \/ BlockOnEvent
    \/ IdleBlocks
    \/ \E pid \in Pids : Wait(pid)
    \/ Terminate
    \/ \E p \in Pids : EventOccurs(p) \/ EventWithdrawn(p)
    \/ Hang

Spec == Init /\ [][Next]_vars

(***************************************************************************)
(* The timer keeps ticking and the code of tick, once entered, runs to its *)
(* end.  Processes are under no obligation to do anything.                 *)
(***************************************************************************)
Fairness == WF_vars(Tick) /\ WF_vars(TryUnblock) /\ WF_vars(TickSwitch)

FairSpec == Spec /\ Fairness

-----------------------------------------------------------------------------
(* What the scheduler guarantees *)

TypeInv ==
    /\ runnable \in Seq(Pids)
    /\ blocked \in Seq(Processes)
    /\ current \in Processes \cup {NoProcess}
    /\ current_TCB \in Processes \cup {NoProcess, BootTCB}
    /\ ticks \in 0..TIME_SLICE_MS
    /\ state \in [Processes -> States]
    /\ blocker \in [Processes -> Blockers]
    /\ waiter \in [Processes -> Pids \cup {NoProcess}]
    /\ finished \in [Processes -> BOOLEAN]
    /\ ready \subseteq Pids
    /\ next_pid \in 1..(MaxPid + 1)
    /\ phase \in {"cpu", "unblock", "hang"}
    /\ cursor \in Nat \ {0}
    /\ panic \in Assertions \cup {NoPanic}

(***************************************************************************)
(* No process is lost and none is scheduled twice: a process is in the     *)
(* runnable list exactly when its state says Runnable, in the blocked list *)
(* exactly when it says Blocked (and then it has a blocker), on the CPU    *)
(* exactly when it says Running, in a list at most once, and in none       *)
(* before its pid has been handed out.                                     *)
(***************************************************************************)
ListsMatchStates ==
    /\ IsInjective(runnable)
    /\ IsInjective(blocked)
    /\ \A p \in Pids :
        /\ Contains(runnable, p) <=> state[p] = "Runnable"
        /\ Contains(blocked, p) <=> state[p] = "Blocked"
        /\ state[p] = "Running" <=> current = p
        /\ state[p] = "Blocked" <=> blocker[p] # "nullptr"
        /\ state[p] = "Unborn" <=> next_pid <= p

(***************************************************************************)
(* A context switch saves ESP into the TCB of the task it takes off the    *)
(* CPU: current_TCB is the TCB of m_current_process whenever there is one, *)
(* and it is never a deleted one (asm_switch_to_task would write to freed  *)
(* memory).  While tick looks for tasks to unblock nobody is current.      *)
(***************************************************************************)
TCBOfCurrent ==
    /\ current # NoProcess => current_TCB = current
    /\ current_TCB \in Processes => state[current_TCB] # "Deleted"
    /\ phase = "unblock" => current = NoProcess

(***************************************************************************)
(* Two assertions of the modelled code can fail.  One is that of           *)
(* Process::set_waiter, when a second process waits for the same one.  The *)
(* other, ASSERT(state == Blocked) in try_unblock_tasks, fails when a      *)
(* handler has blocked idle, and then for the node of idle; for a process  *)
(* it never fails.  The other ASSERTs of Scheduler.cpp hold always, also   *)
(* with idle in the blocked list.                                          *)
(***************************************************************************)
SchedulerAssertionsHold ==
    /\ panic \in {NoPanic, SetWaiterFailed, NotBlockedFailed}
    /\ panic = NotBlockedFailed => blocked[cursor] = Idle

(***************************************************************************)
(* No dangling m_waiter and no lost wake-up: m_waiter of a process points  *)
(* into the stack frame of a syscall_wait that is still waiting for it     *)
(* (never into a frame that has returned), and a process that waits either *)
(* has been told that its waitee ended, or is the waiter of exactly one    *)
(* process that is still alive and can tell it.                            *)
(***************************************************************************)
Alive(p) == state[p] \in {"Running", "Runnable", "Blocked"}

Waiting(p) == blocker[p] = "wait" /\ ~finished[p]

WaitersAreWaiting ==
    /\ \A q \in Pids : waiter[q] # NoProcess => Alive(q) /\ Waiting(waiter[q])
    /\ \A p \in Pids : Waiting(p) => \E q \in Pids : waiter[q] = p
    /\ \A q, r \in Pids : waiter[q] = waiter[r] /\ waiter[q] # NoProcess => q = r

(***************************************************************************)
(* A step never resurrects a process: the pid of a terminated process is   *)
(* never scheduled again, so a stale pid cannot name another process.      *)
(***************************************************************************)
DeletedForGood ==
    [][\A p \in Pids : state[p] = "Deleted" => state'[p] = "Deleted"]_vars

(***************************************************************************)
(* The scheduler implements Multitasking: the life of a process is its     *)
(* task state, and p waits for the process whose m_waiter is p's blocker.  *)
(* Idle on the CPU is nobody running.                                      *)
(***************************************************************************)
lifeBar ==
    [p \in Pids |-> CASE state[p] = "Unborn" -> "unborn"
                      [] state[p] = "Runnable" -> "ready"
                      [] state[p] = "Running" -> "running"
                      [] state[p] = "Blocked" -> "blocked"
                      [] state[p] = "Deleted" -> "dead"]

waitingBar ==
    [p \in Pids |-> IF \E q \in Pids : waiter[q] = p
                    THEN CHOOSE q \in Pids : waiter[q] = p ELSE NoProcess]

Abstract == INSTANCE Multitasking WITH
    Procs <- Pids, None <- NoProcess, life <- lifeBar, waiting <- waitingBar

\* Every step of the scheduler is a step of Multitasking or changes nothing of it.
ImplementsMultitasking == Abstract!Spec

(***************************************************************************)
(* Round robin starves nobody: a runnable process eventually gets the CPU. *)
(***************************************************************************)
RunnableEventuallyRuns ==
    \A p \in Pids : state[p] = "Runnable" ~> (current = p \/ phase = "hang")

(***************************************************************************)
(* A wake-up is acted upon although the loop of try_unblock_tasks may end  *)
(* before it has visited the whole list: a process whose waitee ended      *)
(* becomes runnable, and one whose event stays signalled does too.         *)
(***************************************************************************)
WakeupsAreSeen ==
    \A p \in Pids :
        /\ (blocker[p] = "wait" /\ finished[p]) ~> (state[p] = "Runnable" \/ phase = "hang")
        /\ (p \in ready) ~> (p \notin ready \/ phase = "hang")
=============================================================================
