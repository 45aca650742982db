--------------------------- MODULE ProcessProofs ---------------------------
(***************************************************************************)
(* Proofs about three modules on top of Scheduler, for any number of       *)
(* processes: ForkExec, SleepTimer and Messages.  They share no variable   *)
(* but the scheduler's, and each part speaks of its own specification.     *)
(*                                                                         *)
(* ForkExec.                                                               *)
(* userspace_loader_data is one global, so what is proved rests on how the *)
(* programs of this system fork: one root (the first terminal), and every  *)
(* program waits for its last child before it forks again or ends.  Then   *)
(* the forking processes form a chain, only its last member may fork, and  *)
(* while a child loads, that last member is the child.                     *)
(*                                                                         *)
(* SleepTimer.  Nobody is woken early, for any length of a second in ticks *)
(* and any sleep.                                                          *)
(* SleepBlocker keeps the end of a sleep as a second and the ticks left of *)
(* it.  The carry in sleep_ms tests > where >= is meant, so the ticks left *)
(* can be a whole second and the pair is not normalised.  The invariant    *)
(* says that the pair names the deadline all the same, and that the ticks  *)
(* left are at most a second, which is what can_unblock needs when it      *)
(* answers by the second alone.                                            *)
(*                                                                         *)
(* Messages.                                                               *)
(* What makes the two steps of a list operation safe is the lock: whoever  *)
(* is between lock and unlock of a queue is in m_message_lock, so nobody   *)
(* writes the list that it has read.  What makes the assertion of          *)
(* consume_message hold is that only its owner takes from a queue: once    *)
(* PendingMessageBlocker has seen a message, it stays until the owner pops *)
(* it, however long the owner then waits for the CPU and for the lock.     *)
(***************************************************************************)
EXTENDS ForkExec, SleepTimer, Messages, SchedulerProofs

-----------------------------------------------------------------------------
(* ForkExec *)

\* How the programs fork (see ChildEnded): one root, and no two live children.
OneChain == ForkAfterChild /\ \A p, q \in Roots : p = q

Forks(p) == p \in Roots \/ p > NumBoot

\* The end of the chain: a process that could fork now, if it had the CPU.
ChainEnd(p) == Forks(p) /\ Alive(p) /\ \A q \in Pids : child[p] = q => ~Alive(q)

ForkTypes ==
    /\ locked \in BOOLEAN
    /\ loader_data \in Pids \cup {NoProcess}
    /\ loader_pc \in [Pids -> {"start", "path", "argv", "user"}]
    /\ path \in [Pids -> Pids \cup {NoProcess}]
    /\ argv \in [Pids -> Pids \cup {NoProcess}]
    /\ child \in [Pids -> Pids \cup {NoProcess}]

\* Children have been created by this module, and each has one parent.
ParentsAndChildren ==
    /\ \A p \in Pids : child[p] # NoProcess => NumBoot < child[p] /\ child[p] < next_pid
    /\ \A p \in Pids : next_pid <= p => child[p] = NoProcess
    /\ \A p, q \in Pids : child[p] = child[q] /\ child[p] # NoProcess => p = q
    /\ \A p, q \in Pids : waiter[q] = p => child[p] = q
    /\ NumBoot < next_pid

OneLast == \A p, q \in Pids : ChainEnd(p) /\ ChainEnd(q) => p = q

\* A process that still loads is the end of the chain, and the data are its own.
Loading ==
    /\ \A p \in Pids : loader_pc[p] # "user" =>
          Alive(p) /\ NumBoot < p /\ child[p] = NoProcess /\ loader_data = p
    /\ locked => \E p \in Pids : loader_pc[p] = "start"

ForkInv ==
    /\ OneChain
    /\ SchedulerInv /\ IdleNotBlocked
    /\ panic = NoPanic
    /\ ForkTypes
    /\ ParentsAndChildren
    /\ OneLast
    /\ Loading
    /\ ChildRunsItsProgram

\* Before interrupts are enabled nobody has a child, and one process may fork.
LEMMA ForkInitInv == OneChain /\ ForkInit => ForkInv
<1> SUFFICES ASSUME OneChain, ForkInit PROVE ForkInv
  OBVIOUS
<1> USE Names, SchedulerAssumption, ForkAssumption
        DEF SchedulerAssumption, ForkAssumption, ForkInit
<1>1. SchedulerInv /\ panic = NoPanic /\ next_pid = NumBoot + 1
  BY InitInv DEF Init
<1>2. ForkTypes
  BY DEF ForkTypes
<1>3. ParentsAndChildren
  BY <1>1 DEF ParentsAndChildren, Init
<1>4. OneLast
  <2>1. \A p \in Pids : Alive(p) => ~(p > NumBoot)
    BY DEF Init, Alive, Pids, Processes
  <2> QED
    BY <2>1 DEF OneLast, ChainEnd, Forks, OneChain
<1> QED
  BY <1>1, <1>2, <1>3, <1>4, IdleInit DEF ForkInv, Loading, ChildRunsItsProgram

(***************************************************************************)
(* A scheduler step under which nobody is born or ends leaves the chain    *)
(* and the loading processes as they are.                                  *)
(***************************************************************************)
LEMMA SameProcesses ==
    ASSUME ForkInv, UNCHANGED loader, UNCHANGED next_pid,
           SchedulerInv', IdleNotBlocked', panic' = NoPanic,
           \A p \in Pids : Alive(p)' <=> Alive(p),
           \A p, q \in Pids : waiter'[q] = p => child[p] = q
    PROVE  ForkInv'
<1>1. UNCHANGED <<locked, loader_data, loader_pc, path, argv, child>>
  BY DEF loader
<1>2. OneChain'
  BY DEF ForkInv, OneChain
<1>3. ForkTypes' /\ ChildRunsItsProgram'
  BY <1>1 DEF ForkInv, ForkTypes, ChildRunsItsProgram
<1>4. ParentsAndChildren'
  BY <1>1 DEF ForkInv, ParentsAndChildren
<1>5. \A p \in Pids : ChainEnd(p)' <=> ChainEnd(p)
  BY <1>1 DEF ChainEnd, Forks
<1>6. OneLast'
  BY <1>5 DEF ForkInv, OneLast
<1>7. Loading'
  BY <1>1 DEF ForkInv, Loading
<1> QED
  BY <1>2, <1>3, <1>4, <1>6, <1>7 DEF ForkInv

\* The timer interrupt, up to the context switch it ends in.
LEMMA ScheduleForkInv == ForkInv /\ Schedule => ForkInv'
<1> SUFFICES ASSUME ForkInv, Schedule PROVE ForkInv'
  OBVIOUS
<1>0. SchedulerInv /\ IdleNotBlocked /\ IdleNotBlocked' /\ panic = NoPanic /\ UNCHANGED loader
  BY IdleKept DEF ForkInv, Schedule
<1>w. \A p, q \in Pids : waiter[q] = p => child[p] = q
  BY DEF ForkInv, ParentsAndChildren
<1>1. CASE Tick
  <2>1. SchedulerInv' /\ UNCHANGED <<waiter, next_pid, panic>>
    BY <1>0, <1>1, TickInv, TickEffect
  <2>2. \A p \in Pids : Alive(p)' <=> Alive(p)
    <3>1. CASE UNCHANGED state
      BY <3>1 DEF Alive
    <3>2. CASE \A p \in Pids : state'[p] = IF p = current THEN "Runnable" ELSE state[p]
      <4>1. \A p \in Pids : p = current => state[p] = "Running"
        BY <1>0 DEF SchedulerInv, ListsMatchStates
      <4> QED
        BY <3>2, <4>1 DEF Alive
    <3> QED
      BY <1>0, <1>1, <3>1, <3>2, TickEffect
  <2> QED
    BY <1>0, <1>w, <2>1, <2>2, SameProcesses
<1>2. CASE TryUnblock
  <2> DEFINE b == blocked[cursor]
  <2>1. SchedulerInv' /\ UNCHANGED <<waiter, next_pid, panic>>
    BY <1>0, <1>2, TryUnblockInv, TryUnblockEffect
  <2>2. \/ UNCHANGED state
        \/ /\ b \in Pids /\ state[b] = "Blocked"
           /\ state' = [state EXCEPT ![b] = "Runnable"]
    BY <1>0, <1>2, TryUnblockEffect
  <2> HIDE DEF b
  <2>3. \A p \in Pids : Alive(p)' <=> Alive(p)
    BY <1>0, <2>2, Names DEF Alive, SchedulerInv, TypeInv
  <2> QED
    BY <1>0, <1>w, <2>1, <2>3, SameProcesses
<1>3. CASE TickSwitch
  <2>1. SchedulerInv' /\ UNCHANGED <<waiter, next_pid>> /\ panic' = NoPanic
    BY <1>0, <1>3, TickSwitchInv, TickSwitchEffect
  <2>2. /\ current' \in Pids => state[current'] = "Runnable"
        /\ \A p \in Pids : state'[p] = IF p = current' THEN "Running" ELSE state[p]
    BY <1>0, <1>3, TickSwitchEffect
  <2>3. \A p \in Pids : Alive(p)' <=> Alive(p)
    BY <2>2 DEF Alive
  <2> QED
    BY <1>0, <1>w, <2>1, <2>3, SameProcesses
<1> QED
  BY <1>1, <1>2, <1>3 DEF Schedule

\* syscall_ForkAndExec finds the loader data free, and only its child will read them.
LEMMA ForkAndExecInv == ForkInv /\ ForkAndExec => ForkInv'
<1> SUFFICES ASSUME ForkInv, ForkAndExec PROVE ForkInv'
  OBVIOUS
<1> USE Names
<1>0. /\ SchedulerInv /\ IdleNotBlocked /\ panic = NoPanic
      /\ ForkTypes /\ ParentsAndChildren /\ OneLast
      /\ Loading /\ ChildRunsItsProgram /\ OneChain
      /\ current \in Pids /\ loader_pc[current] = "user" /\ MayFork
  BY DEF ForkInv, ForkAndExec, InUser, InProcess
<1>1. ChainEnd(current)
  <2>1. Forks(current) /\ child[current] \notin {p \in Pids : Alive(p)}
    BY <1>0 DEF MayFork, ChildEnded, OneChain, Forks
  <2>2. Alive(current)
    BY <1>0 DEF SchedulerInv, ListsMatchStates, Alive
  <2> QED
    BY <2>1, <2>2 DEF ChainEnd
<1>2. \A p \in Pids : loader_pc[p] = "user"
  <2> SUFFICES ASSUME NEW p \in Pids, loader_pc[p] # "user" PROVE FALSE
    OBVIOUS
  <2>1. ChainEnd(p)
    <3>1. Alive(p) /\ NumBoot < p /\ child[p] = NoProcess
      BY <1>0 DEF Loading
    <3>2. p > NumBoot
      BY <3>1, SchedulerAssumption DEF Pids, SchedulerAssumption
    <3> QED
      BY <3>1, <3>2 DEF ChainEnd, Forks
  <2> QED
    BY <1>0, <1>1, <2>1 DEF OneLast
<1>3. ~locked
  BY <1>0, <1>2 DEF Loading
<1>4. /\ locked' = TRUE
      /\ loader_data' = next_pid
      /\ loader_pc' = [loader_pc EXCEPT ![next_pid] = "start"]
      /\ child' = [child EXCEPT ![current] = next_pid]
      /\ AddProcess
      /\ UNCHANGED <<path, argv>>
  BY <1>3 DEF ForkAndExec
<1>5. /\ SchedulerInv' /\ IdleNotBlocked'
      /\ UNCHANGED <<waiter, panic>>
      /\ next_pid \in Pids /\ next_pid' = next_pid + 1
      /\ state[next_pid] = "Unborn"
      /\ \A p \in Pids : state'[p] = IF p = next_pid THEN "Runnable" ELSE state[p]
  BY <1>0, <1>4, AddProcessInv, AddProcessEffect, IdleKept
<1>6. next_pid \in Nat /\ NumBoot \in Nat /\ NumBoot < next_pid /\ Pids \subseteq Int
  BY <1>0, <1>5, SchedulerAssumption DEF Pids, SchedulerAssumption, ParentsAndChildren
<1>7. ForkTypes'
  BY <1>0, <1>4, <1>5 DEF ForkTypes
<1>8. /\ child'[current] = next_pid
      /\ \A p \in Pids : p # current => child'[p] = child[p]
      /\ loader_pc'[next_pid] = "start"
      /\ \A p \in Pids : p # next_pid => loader_pc'[p] = "user"
  BY <1>0, <1>2, <1>4, <1>5 DEF ForkTypes
<1>9. current # next_pid /\ current < next_pid
  <2>1. state[current] = "Running"
    BY <1>0 DEF SchedulerInv, ListsMatchStates
  <2>2. ~(next_pid <= current)
    BY <1>0, <2>1 DEF SchedulerInv, ListsMatchStates
  <2> QED
    BY <1>0, <1>6, <2>2
<1>10. \A p \in Pids : IF p = next_pid THEN Alive(p)' /\ ~Alive(p) ELSE Alive(p)' <=> Alive(p)
  BY <1>5 DEF Alive
<1>11. child[next_pid] = NoProcess
  BY <1>0, <1>5, <1>6 DEF ParentsAndChildren
<1>12. ASSUME NEW p \in Pids
       PROVE  child[p] # next_pid /\ child[p] \in Pids \cup {NoProcess}
  <2>1. child[p] # NoProcess => child[p] < next_pid
    BY <1>0 DEF ParentsAndChildren
  <2>2. ~(next_pid < next_pid) /\ next_pid # NoProcess
    BY <1>5, <1>6
  <2> QED
    BY <1>0, <2>1, <2>2 DEF ForkTypes
<1>13. ParentsAndChildren'
  <2>1. ASSUME NEW p \in Pids, child'[p] # NoProcess
        PROVE  NumBoot < child'[p] /\ child'[p] < next_pid'
    <3>1. CASE p = current
      BY <1>5, <1>6, <1>8, <3>1
    <3>2. CASE p # current
      <4>1. NumBoot < child[p] /\ child[p] < next_pid /\ child'[p] = child[p] /\ child[p] \in Int
        BY <1>0, <1>6, <1>8, <1>12, <2>1, <3>2 DEF ParentsAndChildren
      <4> QED
        BY <1>5, <1>6, <4>1
    <3> QED
      BY <3>1, <3>2
  <2>2. ASSUME NEW p \in Pids, next_pid' <= p
        PROVE  child'[p] = NoProcess
    <3>1. p \in Int /\ current \in Int
      BY <1>0, <1>6
    <3>2. next_pid <= p /\ p # current
      BY <1>5, <1>6, <1>9, <2>2, <3>1
    <3> QED
      BY <1>0, <1>8, <3>2 DEF ParentsAndChildren
  <2>3. \A p, q \in Pids : child'[p] = child'[q] /\ child'[p] # NoProcess => p = q
    BY <1>0, <1>8, <1>12 DEF ParentsAndChildren
  <2>4. \A q \in Pids : waiter[q] # current
    <3>1. blocker[current] = "nullptr"
      BY <1>0 DEF SchedulerInv, ListsMatchStates
    <3> QED
      BY <1>0, <3>1 DEF SchedulerInv, WaitersAreWaiting, Waiting
  <2>5. \A p, q \in Pids : waiter'[q] = p => child'[p] = q
    BY <1>0, <1>5, <1>8, <2>4 DEF ParentsAndChildren
  <2>6. NumBoot < next_pid'
    BY <1>5, <1>6
  <2> QED
    BY <2>1, <2>2, <2>3, <2>5, <2>6 DEF ParentsAndChildren
<1>14. OneLast'
  <2>1. ASSUME NEW p \in Pids, ChainEnd(p)'
        PROVE  p = next_pid
    <3>1. p # current
      BY <1>5, <1>8, <1>10, <2>1 DEF ChainEnd
    <3>2. ASSUME p # next_pid
          PROVE  ChainEnd(p)
      <4>1. Forks(p) /\ Alive(p) /\ child'[p] = child[p]
        BY <1>8, <1>10, <2>1, <3>1, <3>2 DEF ChainEnd, Forks
      <4>2. ASSUME NEW q \in Pids, child[p] = q
            PROVE  ~Alive(q)
        <5>1. ~Alive(q)' /\ q # next_pid
          BY <1>12, <2>1, <4>1, <4>2 DEF ChainEnd
        <5> QED
          BY <1>10, <5>1
      <4> QED
        BY <4>1, <4>2 DEF ChainEnd
    <3> QED
      BY <1>0, <1>1, <3>1, <3>2 DEF OneLast
  <2> QED
    BY <2>1 DEF OneLast
<1>15. Loading'
  <2>1. child'[next_pid] = NoProcess
    BY <1>5, <1>8, <1>9, <1>11
  <2>2. \A p \in Pids : loader_pc'[p] # "user" => p = next_pid
    BY <1>8
  <2>3. \E p \in Pids : loader_pc'[p] = "start"
    BY <1>5, <1>8
  <2> QED
    BY <1>4, <1>6, <1>10, <2>1, <2>2, <2>3 DEF Loading
<1>16. ChildRunsItsProgram' /\ OneChain'
  BY <1>0, <1>4 DEF ChildRunsItsProgram, OneChain
<1> QED
  BY <1>0, <1>5, <1>7, <1>13, <1>14, <1>15, <1>16 DEF ForkInv

\* auxiliary_loader and load_and_jump_userspace, which may be preempted in between.
LEMMA LoadInv == ForkInv /\ Load => ForkInv'
<1> SUFFICES ASSUME ForkInv, Load PROVE ForkInv'
  OBVIOUS
<1> USE Names
<1>0. /\ SchedulerInv /\ IdleNotBlocked /\ panic = NoPanic
      /\ ForkTypes /\ ParentsAndChildren /\ OneLast
      /\ Loading /\ ChildRunsItsProgram /\ OneChain
  BY DEF ForkInv
<1>1. /\ UNCHANGED <<vars, loader_data, child>>
      /\ current \in Pids /\ loader_pc[current] # "user"
  BY DEF Load, LoaderUnlock, LoaderReadPath, LoaderReadArgv, InProcess
<1>2. SchedulerInv' /\ IdleNotBlocked' /\ UNCHANGED <<state, next_pid, waiter, panic>>
  BY <1>0, <1>1, StutterInv, IdleKept DEF vars, procs, cpu
<1>3. loader_data = current
  BY <1>0, <1>1 DEF Loading
<1>4. ParentsAndChildren' /\ OneChain'
  BY <1>0, <1>1, <1>2 DEF ParentsAndChildren, OneChain
<1>5. OneLast'
  BY <1>0, <1>1, <1>2 DEF OneLast, ChainEnd, Forks, Alive
<1>6. CASE LoaderUnlock
  <2>1. /\ locked' = FALSE /\ loader_pc' = [loader_pc EXCEPT ![current] = "path"]
        /\ UNCHANGED <<path, argv>>
    BY <1>6 DEF LoaderUnlock
  <2>2. ForkTypes' /\ ChildRunsItsProgram'
    BY <1>0, <1>1, <2>1 DEF ForkTypes, ChildRunsItsProgram
  <2>3. Loading'
    BY <1>0, <1>1, <1>2, <2>1 DEF Loading, ForkTypes, Alive
  <2> QED
    BY <1>0, <1>2, <1>4, <1>5, <2>2, <2>3 DEF ForkInv
<1>7. CASE LoaderReadPath \/ LoaderReadArgv
  <2>1. /\ loader_pc[current] # "start" /\ UNCHANGED locked
        /\ \/ loader_pc' = [loader_pc EXCEPT ![current] = "argv"]
           \/ loader_pc' = [loader_pc EXCEPT ![current] = "user"]
        /\ path' \in {path, [path EXCEPT ![current] = current]}
        /\ argv' \in {argv, [argv EXCEPT ![current] = current]}
    BY <1>3, <1>7 DEF LoaderReadPath, LoaderReadArgv
  <2>2. ForkTypes'
    BY <1>0, <1>1, <2>1 DEF ForkTypes
  <2>3. ChildRunsItsProgram'
    BY <1>0, <1>1, <2>1 DEF ForkTypes, ChildRunsItsProgram
  <2>4. \A p \in Pids : /\ loader_pc'[p] # "user" => loader_pc[p] # "user"
                        /\ loader_pc[p] = "start" => loader_pc'[p] = "start"
    BY <1>0, <1>1, <2>1 DEF ForkTypes
  <2>5. Loading'
    BY <1>0, <1>1, <1>2, <2>1, <2>4 DEF Loading, Alive
  <2> QED
    BY <1>0, <1>2, <1>4, <1>5, <2>2, <2>3, <2>5 DEF ForkInv
<1> QED
  BY <1>6, <1>7 DEF Load

(***************************************************************************)
(* A program ends: its parent, if it has one, is now the end of the chain. *)
(* A program waits for its child: nobody else does, so set_waiter holds.   *)
(***************************************************************************)
LEMMA ProgramInv == ForkInv /\ ProgramStep => ForkInv'
<1> SUFFICES ASSUME ForkInv, ProgramStep PROVE ForkInv'
  OBVIOUS
<1> USE Names
<1>0. /\ SchedulerInv /\ IdleNotBlocked /\ panic = NoPanic
      /\ ForkTypes /\ ParentsAndChildren /\ OneLast
      /\ Loading /\ ChildRunsItsProgram /\ OneChain
      /\ current \in Pids /\ loader_pc[current] = "user"
      /\ UNCHANGED loader
      /\ UNCHANGED <<locked, loader_data, loader_pc, path, argv, child>>
  BY DEF ForkInv, ProgramStep, InUser, InProcess, loader
<1>1. CASE ChildEnded /\ Terminate
  <2>1. /\ SchedulerInv' /\ IdleNotBlocked' /\ panic' = NoPanic /\ UNCHANGED next_pid
        /\ waiter' = [waiter EXCEPT ![current] = NoProcess]
        /\ current' \in Pids => state[current'] = "Runnable" /\ current' # current
        /\ state[current] = "Running"
        /\ \A p \in Pids : state'[p] = IF p = current' THEN "Running"
                                      ELSE IF p = current THEN "Deleted" ELSE state[p]
    BY <1>0, <1>1, TerminateInv, TerminateEffect, IdleKept
  <2>2. \A p \in Pids : Alive(p)' <=> (Alive(p) /\ p # current)
    BY <1>0, <2>1 DEF Alive
  <2>3. Forks(current) => ChainEnd(current)
    <3>1. Alive(current) /\ child[current] \notin {p \in Pids : Alive(p)}
      BY <1>0, <1>1, <2>1 DEF Alive, ChildEnded, OneChain
    <3> QED
      BY <3>1 DEF ChainEnd
  <2>4. ASSUME NEW p \in Pids, ChainEnd(p)'
        PROVE  ChainEnd(p) \/ child[p] = current
    BY <1>0, <2>2, <2>4 DEF ChainEnd, Forks
  <2>5. ASSUME NEW p \in Pids, child[p] = current
        PROVE  Forks(current)
    <3>1. NumBoot < current
      BY <1>0, <2>5 DEF ParentsAndChildren
    <3> QED
      BY <1>0, <3>1, SchedulerAssumption DEF Forks, Pids, SchedulerAssumption
  <2>6. ASSUME NEW p \in Pids, ChainEnd(p)'
        PROVE  p # current
    BY <1>0, <2>2, <2>6 DEF ChainEnd
  <2>7. OneLast'
    <3> SUFFICES ASSUME NEW p \in Pids, NEW q \in Pids, ChainEnd(p)', ChainEnd(q)'
                 PROVE  p = q
      BY DEF OneLast
    <3>1. CASE ChainEnd(p) /\ ChainEnd(q)
      BY <1>0, <3>1 DEF OneLast
    <3>2. CASE child[p] = current /\ child[q] = current
      BY <1>0, <3>2 DEF ParentsAndChildren
    <3>3. CASE (ChainEnd(p) /\ child[q] = current) \/ (ChainEnd(q) /\ child[p] = current)
      <4>1. ChainEnd(current)
        BY <2>3, <2>5, <3>3
      <4>2. p = current \/ q = current
        BY <1>0, <3>3, <4>1 DEF OneLast
      <4> QED
        BY <2>6, <4>2
    <3>4. ChainEnd(p) \/ child[p] = current
      BY <2>4
    <3>5. ChainEnd(q) \/ child[q] = current
      BY <2>4
    <3> QED
      BY <3>1, <3>2, <3>3, <3>4, <3>5
  <2>8. ParentsAndChildren'
    <3>1. \A p, q \in Pids : waiter'[q] = p => waiter[q] = p
      BY <1>0, <2>1 DEF SchedulerInv, TypeInv
    <3> QED
      BY <1>0, <2>1, <3>1 DEF ParentsAndChildren
  <2>9. Loading'
    BY <1>0, <2>2 DEF Loading
  <2>10. ForkTypes' /\ ChildRunsItsProgram' /\ OneChain'
    BY <1>0 DEF ForkTypes, ChildRunsItsProgram, OneChain
  <2> QED
    BY <2>1, <2>7, <2>8, <2>9, <2>10 DEF ForkInv
<1>2. CASE child[current] \in Pids /\ Wait(child[current])
  <2>1. PICK pid \in Pids : pid = child[current]
    BY <1>2
  <2>2. Wait(pid)
    BY <1>2, <2>1
  <2>3. waiter[pid] = NoProcess
    <3>1. blocker[current] = "nullptr"
      BY <1>0 DEF SchedulerInv, ListsMatchStates
    <3>2. waiter[pid] # current
      BY <1>0, <3>1 DEF SchedulerInv, WaitersAreWaiting, Waiting
    <3>3. waiter[pid] \in Pids => waiter[pid] = current
      BY <1>0, <2>1 DEF ParentsAndChildren
    <3> QED
      BY <1>0, <3>2, <3>3 DEF SchedulerInv, TypeInv
  <2>4. /\ InProcess /\ block_current("wait") /\ UNCHANGED next_pid
        /\ waiter' = [waiter EXCEPT ![pid] = current]
    BY <2>2, <2>3 DEF Wait
  <2>5. panic' = NoPanic /\ \A p \in Pids : Alive(p)' <=> Alive(p)
    BY <1>0, <2>4, BlockLemma
  <2>6. SchedulerInv' /\ IdleNotBlocked'
    BY <1>0, <2>2, WaitInv, IdleKept
  <2>7. \A p, q \in Pids : waiter'[q] = p => child[p] = q
    BY <1>0, <2>1, <2>4 DEF ParentsAndChildren, SchedulerInv, TypeInv
  <2> QED
    BY <1>0, <2>4, <2>5, <2>6, <2>7, SameProcesses
<1> QED
  BY <1>1, <1>2 DEF ProgramStep

\* Every step of ForkExec keeps the invariant: one lemma per action.
LEMMA ForkNextInv == ForkInv /\ [ForkNext]_fvars => ForkInv'
<1>1. ASSUME ForkInv, UNCHANGED fvars
      PROVE  ForkInv'
  <2>1. UNCHANGED <<loader, vars>>
    BY <1>1 DEF fvars
  <2>2. SchedulerInv' /\ IdleNotBlocked' /\ UNCHANGED <<state, next_pid, waiter, panic>>
    BY <1>1, <2>1, StutterInv, IdleKept DEF vars, procs, cpu, ForkInv
  <2> QED
    BY <1>1, <2>1, <2>2, SameProcesses DEF ForkInv, ParentsAndChildren, Alive
<1> QED
  BY <1>1, ScheduleForkInv, ForkAndExecInv, LoadInv, ProgramInv DEF ForkNext

\* The invariant above is inductive.
THEOREM ForkInvariance == OneChain /\ ForkSpec => []ForkInv
  BY ForkInitInv, ForkNextInv, PTL DEF ForkSpec

(***************************************************************************)
(* The ASSERT of syscall_ForkAndExec holds for any number of programs, as  *)
(* long as they start from one root and wait for their children.           *)
(***************************************************************************)
THEOREM ForkFindsDataFree == OneChain /\ ForkSpec => []LoaderDataFree
<1>1. ForkInv => LoaderDataFree
  BY DEF ForkInv, LoaderDataFree, LoaderLocked, NoPanic
<1> QED
  BY <1>1, ForkInvariance, PTL

(***************************************************************************)
(* A child runs the program it was started for with its own arguments,     *)
(* wherever auxiliary_loader is preempted.                                 *)
(***************************************************************************)
THEOREM ChildRunsItsOwn == OneChain /\ ForkSpec => []ChildRunsItsProgram
<1>1. ForkInv => ChildRunsItsProgram
  BY DEF ForkInv
<1> QED
  BY <1>1, ForkInvariance, PTL

(***************************************************************************)
(* With a parent that waits only for its own last child, no assertion of   *)
(* the modelled code fails: that of set_waiter, which can fail in general, *)
(* does not either.                                                        *)
(***************************************************************************)
THEOREM OneWaiterEach == OneChain /\ ForkSpec => [](panic = NoPanic)
<1>1. ForkInv => panic = NoPanic
  BY DEF ForkInv
<1> QED
  BY <1>1, ForkInvariance, PTL

-----------------------------------------------------------------------------
(* SleepTimer *)


\* Nobody calls syscall_wait here: every blocker is a SleepBlocker.
AllSleep == \A p \in Pids : blocker[p] # "wait"

ClockTypes ==
    /\ sec \in Nat
    /\ ms \in Nat /\ ms < TICKS_PER_SECOND
    /\ until_sec \in [Pids -> Nat]
    /\ leftover \in [Pids -> Nat]
    /\ deadline \in [Pids -> Nat]

\* Where a SleepBlocker says that its sleep ends is where it was asked to end.
EndIsDeadline ==
    \A p \in Pids : /\ until_sec[p] * TICKS_PER_SECOND + leftover[p] = deadline[p]
                    /\ leftover[p] <= TICKS_PER_SECOND

TimerInv ==
    /\ ClockTypes
    /\ EndIsDeadline
    /\ phase = "hang" \/ (SchedulerInv /\ IdleNotBlocked /\ AllSleep)

-----------------------------------------------------------------------------
(* Seconds and ticks *)

\* A time in a later second, or later in the same one, is later.
LEMMA LaterSecond ==
    ASSUME NEW T \in Nat \ {0}, NEW s \in Nat, NEW u \in Nat, NEW m \in Nat, NEW l \in Nat,
           l <= T, s > u \/ (s = u /\ m >= l)
    PROVE  s * T + m >= u * T + l
<1>1. CASE s = u /\ m >= l
  BY <1>1
<1>2. CASE s > u
  <2>1. PICK d \in Nat : s = u + 1 + d
    BY <1>2
  <2>2. s * T = u * T + T + d * T
    BY <2>1
  <2>3. d * T \in Nat /\ u * T \in Nat
    BY <2>1
  <2> QED
    BY <2>2, <2>3
<1> QED
  BY <1>1, <1>2

\* The second and the ticks left that sleep_ms(n) stores at m ticks of second s.
EndSecond(T, s, m, n) == IF m + (n % T) > T THEN s + (n \div T) + 1 ELSE s + (n \div T)
EndTicks(T, m, n) == IF m + (n % T) > T THEN (m + (n % T)) % T ELSE m + (n % T)

\* The arithmetic of sleep_ms, carry included.
LEMMA SleepArithmetic ==
    ASSUME NEW T \in Nat \ {0}, NEW s \in Nat, NEW m \in Nat, m < T, NEW n \in Nat
    PROVE  /\ EndSecond(T, s, m, n) \in Nat
           /\ EndTicks(T, m, n) \in Nat /\ EndTicks(T, m, n) <= T
           /\ EndSecond(T, s, m, n) * T + EndTicks(T, m, n) = s * T + m + n
<1> DEFINE u == EndSecond(T, s, m, n)
           l == EndTicks(T, m, n)
<1> SUFFICES u \in Nat /\ l \in Nat /\ l <= T /\ u * T + l = s * T + m + n
  OBVIOUS
<1> DEFINE q == n \div T
           r == n % T
           t == m + r
<1>1. q \in Nat /\ r \in Nat /\ r < T /\ n = q * T + r
  OBVIOUS
<1> HIDE DEF q, r, u, l
<1>2. t \in Nat /\ t < T + T
  BY <1>1
<1>3. (s + q) * T = s * T + q * T /\ (s + q + 1) * T = s * T + q * T + T
  BY <1>1
<1>4. CASE t > T
  <2>1. t % T = t - T
    BY <1>2, <1>4
  <2>2. u = s + q + 1 /\ l = t - T
    BY <1>4, <2>1 DEF q, r, u, l, EndSecond, EndTicks
  <2> QED
    BY <1>1, <1>2, <1>3, <1>4, <2>2
<1>5. CASE ~(t > T)
  <2>1. u = s + q /\ l = t
    BY <1>5 DEF q, r, u, l, EndSecond, EndTicks
  <2> QED
    BY <1>1, <1>2, <1>3, <1>5, <2>1
<1> QED
  BY <1>4, <1>5

-----------------------------------------------------------------------------
(* The scheduler under the timer *)

SleepPart == SchedulerInv /\ IdleNotBlocked /\ AllSleep

\* tick outside its loop, a new process and the end of one wake nobody.
LEMMA WakesNobody ==
    ASSUME SleepPart, Tick \/ TickSwitch \/ AddProcess \/ Terminate
    PROVE  /\ SleepPart'
           /\ \A p \in Pids : state[p] = "Blocked" => state'[p] # "Runnable"
<1> USE DEF SleepPart
<1>0. /\ \A p \in Pids : p = current => state[p] = "Running"
      /\ IdleNotBlocked'
  BY IdleKept DEF SchedulerInv, ListsMatchStates
<1>1. CASE Tick
  <2>1. SchedulerInv' /\ UNCHANGED blocker
    BY <1>1, TickInv, TickEffect
  <2>2. \A p \in Pids : state[p] = "Blocked" => state'[p] # "Runnable"
    BY <1>0, <1>1, TickEffect
  <2> QED
    BY <1>0, <2>1, <2>2 DEF AllSleep
<1>2. CASE TickSwitch
  <2>1. SchedulerInv' /\ UNCHANGED blocker
    BY <1>2, TickSwitchInv, TickSwitchEffect
  <2>2. \A p \in Pids : state[p] = "Blocked" => state'[p] # "Runnable"
    BY <1>2, TickSwitchEffect
  <2> QED
    BY <1>0, <2>1, <2>2 DEF AllSleep
<1>3. CASE AddProcess
  <2>1. SchedulerInv' /\ UNCHANGED blocker
    BY <1>3, AddProcessInv, AddProcessEffect
  <2>2. \A p \in Pids : state[p] = "Blocked" => state'[p] # "Runnable"
    BY <1>3, AddProcessEffect
  <2> QED
    BY <1>0, <2>1, <2>2 DEF AllSleep
<1>4. CASE Terminate
  <2>1. SchedulerInv' /\ UNCHANGED blocker
    BY <1>4, TerminateInv, TerminateEffect
  <2>2. \A p \in Pids : state[p] = "Blocked" => state'[p] # "Runnable"
    BY <1>4, TerminateEffect
  <2> QED
    BY <1>0, <2>1, <2>2 DEF AllSleep
<1> QED
  BY <1>1, <1>2, <1>3, <1>4

\* A task that goes to sleep hands the CPU on and wakes nobody.
LEMMA FallsAsleep ==
    ASSUME SleepPart, InProcess, block_current("event"),
           UNCHANGED <<waiter, finished, ready, next_pid>>
    PROVE  /\ SleepPart'
           /\ \A p \in Pids : state[p] = "Blocked" => state'[p] # "Runnable"
<1> USE DEF SleepPart
<1>1. SchedulerInv' /\ IdleNotBlocked'
  <2>1. BlockOnEvent
    BY DEF BlockOnEvent
  <2> QED
    BY <2>1, BlockOnEventInv, IdleKept
<1>2. /\ blocker' = [blocker EXCEPT ![current] = "event"]
      /\ \A q \in Pids : state'[q] = IF q = current' THEN "Running"
                                    ELSE IF q = current THEN "Blocked" ELSE state[q]
  BY BlockLemma
<1>3. AllSleep'
  BY <1>2, Names DEF AllSleep, SchedulerInv, TypeInv
<1> QED
  BY <1>1, <1>2, <1>3

\* A turn of the loop of try_unblock_tasks wakes the sleeper it looks at, if any.
LEMMA WakesSleeper ==
    ASSUME SleepPart, NEW b \in Pids, b = blocked[cursor], VisitBlocked(SleepOver(b))
    PROVE  /\ SleepPart'
           /\ \A p \in Pids : state[p] = "Blocked" /\ state'[p] = "Runnable" => SleepOver(p)
<1> USE DEF SleepPart
<1> DEFINE can == SleepOver(b)
<1>1. can \in BOOLEAN
  BY DEF SleepOver
<1>2. can => ~Waiting(blocked[cursor])
  BY DEF AllSleep, Waiting
<1>3. VisitBlocked(can) /\ (can => SleepOver(b))
  OBVIOUS
<1> HIDE DEF can
<1>4. /\ SchedulerInv' /\ IdleNotBlocked'
      /\ \A q \in Pids : state'[q] = "Blocked" <=>
                            (state[q] = "Blocked" /\ ~(can /\ q = blocked[cursor]))
      /\ \A q \in Pids : blocker'[q] \in {blocker[q], "nullptr"}
  BY <1>1, <1>2, <1>3, Names, VisitBlockedInv
<1>5. AllSleep'
  BY <1>4 DEF AllSleep
<1>6. ASSUME NEW p \in Pids, state[p] = "Blocked", state'[p] = "Runnable"
      PROVE  SleepOver(p)
  <2>1. can /\ p = b
    BY <1>4, <1>6
  <2> QED
    BY <2>1, <1>3
<1> QED
  BY <1>4, <1>5, <1>6

-----------------------------------------------------------------------------
(* The invariant *)

\* The clock starts at 0 and nobody sleeps.
LEMMA TimerInitInv == TimerInit => TimerInv
<1> SUFFICES ASSUME TimerInit PROVE TimerInv
  OBVIOUS
<1>1. SchedulerInv /\ IdleNotBlocked
  BY InitInv, IdleInit DEF TimerInit
<1>2. AllSleep
  BY Names DEF TimerInit, Init, AllSleep
<1>3. ClockTypes /\ EndIsDeadline
  BY SleepAssumption DEF TimerInit, ClockTypes, EndIsDeadline
<1> QED
  BY <1>1, <1>2, <1>3 DEF TimerInv

\* A step that leaves the clock and the sleepers alone.
LEMMA ClockSame ==
    ASSUME ClockTypes, EndIsDeadline, UNCHANGED <<clock, sleeping>>
    PROVE  ClockTypes' /\ EndIsDeadline'
BY DEF ClockTypes, EndIsDeadline, clock, sleeping

\* The timer interrupt keeps the clock normalised.
LEMMA TimerClock ==
    ASSUME ClockTypes, EndIsDeadline, Timer
    PROVE  ClockTypes' /\ EndIsDeadline'
<1>1. UNCHANGED <<until_sec, leftover, deadline>>
  BY DEF Timer, sleeping
<1>2. sec' \in Nat /\ ms' \in Nat /\ ms' < TICKS_PER_SECOND
  <2>1. sec \in Nat /\ ms \in Nat /\ TICKS_PER_SECOND \in Nat \ {0}
    BY SleepAssumption DEF ClockTypes
  <2>2. CASE ms + 1 >= TICKS_PER_SECOND
    <3>1. sec' = sec + 1 /\ ms' = 0
      BY <2>2 DEF Timer
    <3> QED
      BY <2>1, <3>1
  <2>3. CASE ~(ms + 1 >= TICKS_PER_SECOND)
    <3>1. sec' = sec /\ ms' = ms + 1
      BY <2>3 DEF Timer
    <3> QED
      BY <2>1, <2>3, <3>1
  <2> QED
    BY <2>2, <2>3
<1> QED
  BY <1>1, <1>2 DEF ClockTypes, EndIsDeadline

\* sleep_ms stores the end of the sleep that was asked for.
LEMMA SleepClock ==
    ASSUME ClockTypes, EndIsDeadline, NEW n \in SleepTimes, sleep_ms(n), current \in Pids
    PROVE  ClockTypes' /\ EndIsDeadline'
<1>0. /\ TICKS_PER_SECOND \in Nat \ {0} /\ n \in Nat
      /\ sec \in Nat /\ ms \in Nat /\ ms < TICKS_PER_SECOND
  BY SleepAssumption DEF ClockTypes
<1> DEFINE T == TICKS_PER_SECOND
           u == EndSecond(T, sec, ms, n)
           l == EndTicks(T, ms, n)
<1>1. u \in Nat /\ l \in Nat /\ l <= T /\ u * T + l = sec * T + ms + n
  BY <1>0, SleepArithmetic
<1>2. /\ until_sec' = [until_sec EXCEPT ![current] = u]
      /\ leftover' = [leftover EXCEPT ![current] = l]
      /\ deadline' = [deadline EXCEPT ![current] = sec * T + ms + n]
      /\ UNCHANGED <<sec, ms>>
  BY DEF sleep_ms, Now, clock, EndSecond, EndTicks
<1> HIDE DEF u, l
<1>3. sec * T + ms + n \in Nat
  BY <1>0
<1>4. ClockTypes'
  BY <1>0, <1>1, <1>2, <1>3 DEF ClockTypes
<1>5. ASSUME NEW p \in Pids
      PROVE  until_sec'[p] * T + leftover'[p] = deadline'[p] /\ leftover'[p] <= T
  <2>1. CASE p = current
    <3>1. until_sec'[p] = u /\ leftover'[p] = l /\ deadline'[p] = sec * T + ms + n
      BY <1>2, <2>1 DEF ClockTypes
    <3> QED
      BY <1>1, <3>1
  <2>2. CASE p # current
    <3>1. /\ until_sec'[p] = until_sec[p] /\ leftover'[p] = leftover[p]
          /\ deadline'[p] = deadline[p]
      BY <1>2, <2>2 DEF ClockTypes
    <3> QED
      BY <3>1 DEF EndIsDeadline
  <2> QED
    BY <2>1, <2>2
<1> QED
  BY <1>4, <1>5 DEF EndIsDeadline

(***************************************************************************)
(* Every step keeps the invariant, and a process becomes runnable only     *)
(* when can_unblock of its SleepBlocker says so.                           *)
(***************************************************************************)
LEMMA TimerStep ==
    ASSUME TimerInv, [TimerNext]_tvars
    PROVE  /\ TimerInv'
           /\ \A p \in Pids : state[p] = "Blocked" /\ state'[p] = "Runnable" => SleepOver(p)
<1> DEFINE Wakes == \A p \in Pids : state[p] = "Blocked" /\ state'[p] = "Runnable"
                                    => SleepOver(p)
<1>0. ClockTypes /\ EndIsDeadline
  BY DEF TimerInv
<1>1. ASSUME phase # "hang" PROVE SleepPart
  BY <1>1 DEF TimerInv, SleepPart
<1>2. CASE Timer
  <2>1. phase # "hang" /\ Tick
    BY <1>2 DEF Timer, Tick, TickContinue, TickPreempt
  <2> QED
    BY <1>0, <1>1, <1>2, <2>1, TimerClock, WakesNobody DEF TimerInv, SleepPart
<1>3. ASSUME NEW n \in SleepTimes, sleep_ms(n)
      PROVE  TimerInv' /\ Wakes
  <2>1. phase # "hang" /\ InProcess /\ block_current("event") /\ current \in Pids
        /\ UNCHANGED <<waiter, finished, ready, next_pid>>
    BY <1>3 DEF sleep_ms, InProcess
  <2>2. SleepPart' /\ Wakes
    BY <1>1, <2>1, FallsAsleep
  <2> QED
    BY <1>0, <1>3, <2>1, <2>2, SleepClock DEF TimerInv, SleepPart
<1>4. CASE TryUnblockSleeper
  <2>1. phase = "unblock" /\ cursor <= Len(blocked) /\ UNCHANGED <<clock, sleeping>>
    BY <1>4 DEF TryUnblockSleeper
  <2>2. ClockTypes' /\ EndIsDeadline'
    BY <1>0, <2>1, ClockSame
  <2>3. SleepPart
    BY <1>1, <2>1
  <2>4. CASE sec > until_sec[blocked[cursor]] + 1
    <3>1. phase' = "hang" /\ UNCHANGED state
      BY <1>4, <2>4 DEF TryUnblockSleeper, Panic, procs
    <3> QED
      BY <2>2, <3>1 DEF TimerInv
  <2>5. CASE ~(sec > until_sec[blocked[cursor]] + 1)
    <3>1. PICK b : b = blocked[cursor]
      OBVIOUS
    <3>2. b \in Pids
      BY <2>1, <2>3, <3>1, InBlockedList DEF SleepPart
    <3>3. VisitBlocked(SleepOver(b))
      BY <1>4, <2>5, <3>1 DEF TryUnblockSleeper
    <3> QED
      BY <2>2, <2>3, <3>1, <3>2, <3>3, WakesSleeper DEF TimerInv, SleepPart
  <2> QED
    BY <2>4, <2>5
<1>5. CASE OtherStep
  <2>1. /\ TickSwitch \/ AddProcess \/ Terminate
        /\ UNCHANGED <<clock, sleeping>>
    BY <1>5 DEF OtherStep
  <2>2. phase # "hang"
    BY <2>1 DEF TickSwitch, AddProcess, Terminate, InProcess
  <2> QED
    BY <1>0, <1>1, <2>1, <2>2, ClockSame, WakesNobody DEF TimerInv, SleepPart
<1>6. CASE UNCHANGED tvars
  <2>1. UNCHANGED vars /\ UNCHANGED <<clock, sleeping>> /\ UNCHANGED <<state, blocker, phase>>
    BY <1>6 DEF tvars, vars, procs, cpu
  <2>2. ClockTypes' /\ EndIsDeadline'
    BY <1>0, <2>1, ClockSame
  <2> QED
    BY <2>1, <2>2, StutterInv, IdleKept DEF TimerInv, AllSleep
<1> QED
  BY <1>2, <1>3, <1>4, <1>5, <1>6 DEF TimerNext, ClockBound

-----------------------------------------------------------------------------
(* The theorems *)

(***************************************************************************)
(* However sleeps, ticks and other processes interleave, every             *)
(* SleepBlocker names the end of the sleep that was asked for, with at     *)
(* most one whole second left over by the carry of sleep_ms, and the clock *)
(* of isr_timer_handler stays normalised.                                  *)
(***************************************************************************)
THEOREM TimerInvariance == TimerSpec => []TimerInv
BY TimerInitInv, TimerStep, PTL DEF TimerSpec

(***************************************************************************)
(* sleep_ms never returns early: a sleeper becomes runnable only at or     *)
(* after its deadline.  When can_unblock answers by the second alone, the  *)
(* ticks left over are at most a second; when it compares the ticks, the   *)
(* second is the one the sleep ends in.                                    *)
(***************************************************************************)
THEOREM SleepsLongEnough == TimerSpec => NeverEarly
<1>1. ASSUME TimerInv, [TimerNext]_tvars
      PROVE  [\A p \in Pids : state[p] = "Blocked" /\ state'[p] = "Runnable"
                              => Now >= deadline[p]]_tvars
  <2> SUFFICES ASSUME NEW p \in Pids, state[p] = "Blocked", state'[p] = "Runnable"
               PROVE  Now >= deadline[p]
    OBVIOUS
  <2>1. SleepOver(p)
    BY <1>1, TimerStep
  <2>2. /\ TICKS_PER_SECOND \in Nat \ {0} /\ sec \in Nat /\ ms \in Nat
        /\ until_sec[p] \in Nat /\ leftover[p] \in Nat
        /\ leftover[p] <= TICKS_PER_SECOND
        /\ until_sec[p] * TICKS_PER_SECOND + leftover[p] = deadline[p]
    BY <1>1, SleepAssumption DEF TimerInv, ClockTypes, EndIsDeadline
  <2>3. sec * TICKS_PER_SECOND + ms >= until_sec[p] * TICKS_PER_SECOND + leftover[p]
    BY <2>1, <2>2, LaterSecond DEF SleepOver
  <2> QED
    BY <2>2, <2>3 DEF Now
<1> QED
  BY <1>1, TimerInvariance, PTL DEF TimerSpec, NeverEarly

-----------------------------------------------------------------------------
(* Messages *)

Msg == Pids \X Nat

SendSteps    == {"send read", "send append", "send unlock"}
ReceiveSteps == {"receive read", "receive pop", "receive unlock"}
Steps        == SendSteps \cup ReceiveSteps \cup {"user", "message", "send lock", "receive lock"}

MessagesTypes ==
    /\ inbox \in [Pids -> Seq(Msg)]
    /\ lock \in [Pids -> Pids \cup {NoProcess}]
    /\ pc \in [Pids -> Steps]
    /\ target \in [Pids -> Pids \cup {NoProcess}]
    /\ seen \in [Pids -> Seq(Msg)]
    /\ nsent \in [Pids -> Nat]
    /\ sent \in [Pids -> Seq(Msg)]
    /\ got \in [Pids -> Seq(Msg)]
    /\ \A p \in Pids : pc[p] \in SendSteps \cup {"send lock"} => target[p] \in Pids

\* p is between lock and unlock of the queue of q.
Inside(p, q) == \/ pc[p] \in SendSteps /\ target[p] = q
                \/ pc[p] \in ReceiveSteps /\ p = q

LockIsHeld == \A p, q \in Pids : Inside(p, q) => lock[q] = p

\* The list a process has read is still the list when the process writes it.
ReadIsFresh ==
    \A p \in Pids : /\ pc[p] = "send append" => seen[p] = inbox[target[p]]
                    /\ pc[p] = "receive pop" => seen[p] = inbox[p]

\* A receiver past its blocker has a message.
MessagePending ==
    \A p \in Pids :
        /\ pc[p] = "message" => state[p] = "Blocked" \/ inbox[p] # <<>>
        /\ pc[p] \in {"receive lock", "receive read", "receive pop"} => inbox[p] # <<>>

QueuesKept == \A q \in Pids : got[q] \o inbox[q] = sent[q]

\* Nobody calls syscall_wait here, so every blocker is one that can go off at any look.
NobodyWaits == \A p \in Pids : blocker[p] # "wait"

SchedPart == SchedulerInv /\ IdleNotBlocked /\ panic = NoPanic /\ NobodyWaits

MessagesInv ==
    /\ SchedPart
    /\ MessagesTypes
    /\ LockIsHeld
    /\ ReadIsFresh
    /\ MessagePending
    /\ QueuesKept

-----------------------------------------------------------------------------
(* The queue *)

\* List::append after what was taken before keeps the order.
LEMMA QueueAppend ==
    ASSUME NEW g \in Seq(Msg), NEW s \in Seq(Msg), NEW m \in Msg
    PROVE  /\ g \o Append(s, m) = Append(g \o s, m)
           /\ Append(s, m) \in Seq(Msg) /\ Append(s, m) # <<>>
           /\ Append(g \o s, m) \in Seq(Msg)
<1>1. g \o s \in Seq(Msg) /\ <<m>> \in Seq(Msg)
  BY ConcatProperties
<1>2. Append(s, m) = s \o <<m>> /\ Append(g \o s, m) = (g \o s) \o <<m>>
  BY <1>1, AppendIsConcat
<1>3. (g \o s) \o <<m>> = g \o (s \o <<m>>)
  BY <1>1, ConcatAssociative
<1>4. Append(s, m) \in Seq(Msg) /\ Append(s, m) # <<>> /\ Append(g \o s, m) \in Seq(Msg)
  BY <1>1, AppendProperties
<1> QED
  BY <1>2, <1>3, <1>4

\* Taking the front of the queue moves it to the end of what was taken.
LEMMA QueuePop ==
    ASSUME NEW g \in Seq(Msg), NEW s \in Seq(Msg), s # <<>>
    PROVE  /\ Append(g, Head(s)) \o Tail(s) = g \o s
           /\ Tail(s) \in Seq(Msg)
           /\ Append(g, Head(s)) \in Seq(Msg)
<1> DEFINE h == <<Head(s)>>
<1>1. /\ Head(s) \in Msg /\ Tail(s) \in Seq(Msg) /\ Len(Tail(s)) = Len(s) - 1
      /\ \A i \in 1..Len(Tail(s)) : Tail(s)[i] = s[i + 1]
      /\ Head(s) = s[1] /\ Len(s) \in Nat \ {0}
  <2>1. /\ Head(s) \in Msg /\ Tail(s) \in Seq(Msg) /\ Len(Tail(s)) = Len(s) - 1
        /\ \A i \in 1..Len(Tail(s)) : Tail(s)[i] = s[i + 1]
    BY HeadTailProperties
  <2>2. Len(s) \in Nat \ {0}
    BY EmptySeq
  <2>3. Head(s) = s[1]
    OBVIOUS
  <2> QED
    BY <2>1, <2>2, <2>3
<1>2. h \in Seq(Msg) /\ Len(h) = 1 /\ h[1] = s[1]
  BY <1>1
<1> HIDE DEF h
<1>3. /\ h \o Tail(s) \in Seq(Msg)
      /\ Len(h \o Tail(s)) = Len(s)
      /\ \A i \in 1..Len(s) : (h \o Tail(s))[i] = IF i <= 1 THEN h[i] ELSE Tail(s)[i - 1]
  <2>1. /\ h \o Tail(s) \in Seq(Msg)
        /\ Len(h \o Tail(s)) = Len(h) + Len(Tail(s))
        /\ \A i \in 1..(Len(h) + Len(Tail(s))) :
              (h \o Tail(s))[i] = IF i <= Len(h) THEN h[i] ELSE Tail(s)[i - Len(h)]
    BY <1>1, <1>2, ConcatProperties
  <2>2. Len(h) + Len(Tail(s)) = Len(s)
    BY <1>1, <1>2
  <2> QED
    BY <1>2, <2>1, <2>2
<1>4. h \o Tail(s) = s
  <2>1. ASSUME NEW i \in 1..Len(s)
        PROVE  (h \o Tail(s))[i] = s[i]
    <3>1. CASE i = 1
      BY <1>1, <1>2, <1>3, <3>1
    <3>2. CASE i # 1
      <4>1. i - 1 \in 1..Len(Tail(s)) /\ (i - 1) + 1 = i /\ ~(i <= 1)
        BY <1>1, <3>2
      <4> QED
        BY <1>1, <1>3, <4>1
    <3> QED
      BY <3>1, <3>2
  <2> QED
    BY <1>3, <2>1, SeqEqual
<1>5. Append(g, Head(s)) = g \o h /\ Append(g, Head(s)) \in Seq(Msg)
  BY <1>1, AppendIsConcat, AppendProperties DEF h
<1>6. (g \o h) \o Tail(s) = g \o (h \o Tail(s))
  BY <1>1, <1>2, ConcatAssociative
<1> QED
  BY <1>1, <1>4, <1>5, <1>6

-----------------------------------------------------------------------------
(* The scheduler under the system calls *)

\* A system call that goes on, or the timer: a process that is blocked stays blocked.
LEMMA SchedStep ==
    ASSUME SchedPart,
           \/ UNCHANGED vars
           \/ Tick \/ TickSwitch
           \/ Terminate
    PROVE  /\ SchedPart'
           /\ \A p \in Pids : state[p] = "Blocked" => state'[p] = "Blocked"
<1> USE DEF SchedPart
<1>0. /\ \A p \in Pids : p = current => state[p] = "Running"
      /\ IdleNotBlocked'
  BY IdleKept DEF SchedulerInv, ListsMatchStates
<1>1. CASE UNCHANGED vars
  <2>1. SchedulerInv'
    BY <1>1, StutterInv
  <2>2. UNCHANGED <<state, blocker, panic>>
    BY <1>1 DEF vars, procs, cpu
  <2> QED
    BY <1>0, <2>1, <2>2 DEF NobodyWaits
<1>2. CASE Tick
  <2>1. SchedulerInv'
    BY <1>2, TickInv
  <2>2. UNCHANGED <<blocker, panic>>
    BY <1>2, TickEffect
  <2>3. \A p \in Pids : state[p] = "Blocked" => state'[p] = "Blocked"
    BY <1>0, <1>2, TickEffect
  <2> QED
    BY <1>0, <2>1, <2>2, <2>3 DEF NobodyWaits
<1>3. CASE TickSwitch
  <2>1. SchedulerInv'
    BY <1>3, TickSwitchInv
  <2>2. UNCHANGED blocker /\ panic' = NoPanic
    BY <1>3, TickSwitchEffect
  <2>3. \A p \in Pids : state[p] = "Blocked" => state'[p] = "Blocked"
    BY <1>3, TickSwitchEffect
  <2> QED
    BY <1>0, <2>1, <2>2, <2>3 DEF NobodyWaits
<1>4. CASE Terminate
  <2>1. SchedulerInv'
    BY <1>4, TerminateInv
  <2>2. UNCHANGED blocker /\ panic' = NoPanic
    BY <1>4, TerminateEffect
  <2>3. \A p \in Pids : state[p] = "Blocked" => state'[p] = "Blocked"
    BY <1>4, TerminateEffect
  <2> QED
    BY <1>0, <2>1, <2>2, <2>3 DEF NobodyWaits
<1> QED
  BY <1>1, <1>2, <1>3, <1>4

\* A system call that blocks.
LEMMA BlockStep ==
    ASSUME SchedPart, InProcess, block_current("event"),
           UNCHANGED <<waiter, finished, ready, next_pid>>
    PROVE  /\ SchedPart'
           /\ \A p \in Pids : state[p] = "Blocked" \/ p = current => state'[p] = "Blocked"
<1> USE DEF SchedPart
<1>1. SchedulerInv' /\ IdleNotBlocked'
  <2>1. BlockOnEvent
    BY DEF BlockOnEvent
  <2> QED
    BY <2>1, BlockOnEventInv, IdleKept
<1>2. /\ panic' = NoPanic
      /\ blocker' = [blocker EXCEPT ![current] = "event"]
      /\ current' \in Pids => state[current'] = "Runnable" /\ current' # current
      /\ \A q \in Pids : state'[q] = IF q = current' THEN "Running"
                                    ELSE IF q = current THEN "Blocked" ELSE state[q]
  BY BlockLemma
<1>3. NobodyWaits'
  BY <1>2, Names DEF NobodyWaits, SchedulerInv, TypeInv
<1> QED
  BY <1>1, <1>2, <1>3

-----------------------------------------------------------------------------
(* The system calls *)

(***************************************************************************)
(* A step of the running process c to label l that changes no queue and    *)
(* takes no queue from its holder: what is left to show is what the        *)
(* invariant says of c at l.                                               *)
(***************************************************************************)
LEMMA Moves ==
    ASSUME MessagesInv, SchedPart', NEW c \in Pids, NEW l \in Steps,
           \A p \in Pids : state[p] = "Blocked" => state'[p] = "Blocked",
           pc' = [pc EXCEPT ![c] = l],
           UNCHANGED <<inbox, sent, got>>,
           lock' \in [Pids -> Pids \cup {NoProcess}],
           target' \in [Pids -> Pids \cup {NoProcess}],
           nsent' \in [Pids -> Nat],
           seen' \in [Pids -> Seq(Msg)],
           \A p \in Pids : p # c => target'[p] = target[p] /\ seen'[p] = seen[p],
           \A q \in Pids : lock'[q] = lock[q] \/ lock[q] \in {c, NoProcess},
           l \in SendSteps \cup {"send lock"} => target'[c] \in Pids,
           \A q \in Pids : (l \in SendSteps /\ target'[c] = q) \/ (l \in ReceiveSteps /\ c = q)
                           => lock'[q] = c,
           l = "send append" => seen'[c] = inbox[target'[c]],
           l = "receive pop" => seen'[c] = inbox[c],
           l = "message" => state'[c] = "Blocked",
           l \in {"receive lock", "receive read", "receive pop"} => inbox[c] # <<>>
    PROVE  MessagesInv'
<1> USE Names DEF MessagesInv
<1>1. /\ pc'[c] = l
      /\ \A p \in Pids : p # c => pc'[p] = pc[p]
      /\ pc' \in [Pids -> Steps]
  BY DEF MessagesTypes
<1>2. MessagesTypes'
  <2>1. ASSUME NEW p \in Pids, pc'[p] \in SendSteps \cup {"send lock"}
        PROVE  target'[p] \in Pids
    <3>1. CASE p = c
      BY <1>1, <2>1, <3>1
    <3>2. CASE p # c
      <4>1. pc'[p] = pc[p] /\ target'[p] = target[p]
        BY <1>1, <3>2
      <4>2. pc[p] \in SendSteps \cup {"send lock"} => target[p] \in Pids
        BY DEF MessagesTypes
      <4> QED
        BY <2>1, <4>1, <4>2
    <3> QED
      BY <3>1, <3>2
  <2>2. inbox' \in [Pids -> Seq(Msg)] /\ sent' \in [Pids -> Seq(Msg)] /\ got' \in [Pids -> Seq(Msg)]
    BY DEF MessagesTypes
  <2> QED
    BY <1>1, <2>1, <2>2 DEF MessagesTypes
<1>3. LockIsHeld'
  <2> SUFFICES ASSUME NEW p \in Pids, NEW q \in Pids, Inside(p, q)'
               PROVE  lock'[q] = p
    BY DEF LockIsHeld
  <2>1. CASE p = c
    BY <1>1, <2>1 DEF Inside
  <2>2. CASE p # c
    <3>1. Inside(p, q)
      BY <1>1, <2>2 DEF Inside
    <3>2. lock[q] = p
      BY <3>1 DEF LockIsHeld
    <3> QED
      BY <2>2, <3>2
  <2> QED
    BY <2>1, <2>2
<1>4. ReadIsFresh'
  <2> SUFFICES ASSUME NEW p \in Pids
               PROVE  /\ pc'[p] = "send append" => seen'[p] = inbox'[target'[p]]
                      /\ pc'[p] = "receive pop" => seen'[p] = inbox'[p]
    BY DEF ReadIsFresh
  <2>1. CASE p = c
    BY <1>1, <2>1
  <2>2. CASE p # c
    <3>1. pc'[p] = pc[p] /\ target'[p] = target[p] /\ seen'[p] = seen[p] /\ inbox' = inbox
      BY <1>1, <2>2
    <3>2. /\ pc[p] = "send append" => seen[p] = inbox[target[p]]
          /\ pc[p] = "receive pop" => seen[p] = inbox[p]
      BY DEF ReadIsFresh
    <3> QED
      BY ONLY <3>1, <3>2
  <2> QED
    BY <2>1, <2>2
<1>5. MessagePending'
  BY <1>1 DEF MessagePending
<1>6. QueuesKept'
  BY DEF QueuesKept
<1> QED
  BY <1>2, <1>3, <1>4, <1>5, <1>6

(***************************************************************************)
(* A step of the running process c, which alone may write the queue of r:  *)
(* the message m is put at the end of the queue.                           *)
(***************************************************************************)
LEMMA Appends ==
    ASSUME MessagesInv, UNCHANGED vars, NEW c \in Pids, NEW r \in Pids, NEW m \in Msg,
           NEW l \in {"user", "send unlock"},
           pc' = [pc EXCEPT ![c] = l],
           inbox' = [inbox EXCEPT ![r] = Append(inbox[r], m)],
           sent' = [sent EXCEPT ![r] = Append(sent[r], m)],
           UNCHANGED <<lock, seen, got>>,
           nsent' \in [Pids -> Nat],
           target' \in [Pids -> Pids \cup {NoProcess}], target'[c] = r,
           \A p \in Pids : p # c => target'[p] = target[p],
           lock[r] \in {c, NoProcess},
           l = "send unlock" => lock[r] = c
    PROVE  MessagesInv'
<1> USE Names DEF MessagesInv
<1>0. SchedPart' /\ UNCHANGED state
  BY SchedStep DEF vars, procs
<1>1. /\ pc'[c] = l
      /\ \A p \in Pids : p # c => pc'[p] = pc[p]
      /\ pc' \in [Pids -> Steps]
  BY DEF MessagesTypes, Steps, SendSteps
<1>2. got[r] \in Seq(Msg) /\ inbox[r] \in Seq(Msg) /\ got[r] \o inbox[r] = sent[r]
  BY DEF MessagesTypes, QueuesKept
<1>3. /\ got[r] \o Append(inbox[r], m) = Append(sent[r], m)
      /\ Append(inbox[r], m) \in Seq(Msg) /\ Append(inbox[r], m) # <<>>
      /\ Append(sent[r], m) \in Seq(Msg)
  <2>1. /\ got[r] \o Append(inbox[r], m) = Append(got[r] \o inbox[r], m)
        /\ Append(inbox[r], m) \in Seq(Msg) /\ Append(inbox[r], m) # <<>>
        /\ Append(got[r] \o inbox[r], m) \in Seq(Msg)
    <3> HIDE DEF MessagesInv
    <3> QED
      BY <1>2, QueueAppend
  <2> QED
    BY <1>2, <2>1
<1> DEFINE a == Append(inbox[r], m)
           b == Append(sent[r], m)
<1>4. /\ inbox' = [inbox EXCEPT ![r] = a] /\ sent' = [sent EXCEPT ![r] = b]
      /\ got[r] \o a = b /\ a \in Seq(Msg) /\ a # <<>> /\ b \in Seq(Msg)
  BY <1>3
<1> HIDE DEF a, b
<1>5. /\ inbox' \in [Pids -> Seq(Msg)] /\ sent' \in [Pids -> Seq(Msg)]
      /\ \A q \in Pids : inbox'[q] = IF q = r THEN a ELSE inbox[q]
      /\ \A q \in Pids : sent'[q] = IF q = r THEN b ELSE sent[q]
  <2>1. inbox \in [Pids -> Seq(Msg)] /\ sent \in [Pids -> Seq(Msg)] /\ r \in Pids
    BY DEF MessagesTypes
  <2> QED
    BY ONLY <1>4, <2>1
<1>6. MessagesTypes'
  BY <1>1, <1>5 DEF MessagesTypes, SendSteps
<1>7. \A p \in Pids : p # c => ~Inside(p, r)
  BY DEF LockIsHeld
<1>8. LockIsHeld'
  <2> SUFFICES ASSUME NEW p \in Pids, NEW q \in Pids, Inside(p, q)'
               PROVE  lock'[q] = p
    BY DEF LockIsHeld
  <2>1. CASE p = c
    BY <1>1, <2>1 DEF Inside, SendSteps, ReceiveSteps
  <2>2. CASE p # c
    <3>1. pc'[p] = pc[p] /\ target'[p] = target[p] /\ lock' = lock
      BY <1>1, <2>2
    <3>2. Inside(p, q)
      BY <3>1 DEF Inside
    <3> QED
      BY <3>1, <3>2 DEF LockIsHeld
  <2> QED
    BY <2>1, <2>2
<1>9. ReadIsFresh'
  <2>1. ASSUME NEW p \in Pids, pc'[p] = "send append"
        PROVE  seen'[p] = inbox'[target'[p]]
    <3>1. p # c /\ pc[p] = "send append" /\ target'[p] = target[p] /\ seen[p] = inbox[target[p]]
      BY <1>1, <2>1 DEF ReadIsFresh
    <3>2. target[p] # r /\ target[p] \in Pids
      BY <1>7, <3>1 DEF Inside, SendSteps, MessagesTypes
    <3> QED
      BY <1>5, <3>1, <3>2
  <2>2. ASSUME NEW p \in Pids, pc'[p] = "receive pop"
        PROVE  seen'[p] = inbox'[p]
    <3>1. p # c /\ pc[p] = "receive pop" /\ seen[p] = inbox[p]
      BY <1>1, <2>2 DEF ReadIsFresh
    <3>2. p # r
      BY <1>7, <3>1 DEF Inside, ReceiveSteps
    <3> QED
      BY <1>5, <3>1, <3>2
  <2> QED
    BY <2>1, <2>2 DEF ReadIsFresh
<1>10. MessagePending'
  BY <1>0, <1>1, <1>4, <1>5 DEF MessagePending
<1>11. QueuesKept'
  BY <1>4, <1>5 DEF QueuesKept
<1> QED
  BY <1>0, <1>6, <1>8, <1>9, <1>10, <1>11

(***************************************************************************)
(* A step of the running process c, which alone may write its queue: the   *)
(* front of the queue is taken.                                            *)
(***************************************************************************)
LEMMA Pops ==
    ASSUME MessagesInv, UNCHANGED vars, NEW c \in Pids, NEW l \in {"user", "receive unlock"},
           pc' = [pc EXCEPT ![c] = l],
           inbox[c] # <<>>,
           inbox' = [inbox EXCEPT ![c] = Tail(inbox[c])],
           got' = [got EXCEPT ![c] = Append(got[c], Head(inbox[c]))],
           UNCHANGED <<lock, target, seen, nsent, sent>>,
           lock[c] \in {c, NoProcess},
           l = "receive unlock" => lock[c] = c
    PROVE  MessagesInv'
<1> USE Names DEF MessagesInv
<1>0. SchedPart' /\ UNCHANGED state
  BY SchedStep DEF vars, procs
<1>1. /\ pc'[c] = l
      /\ \A p \in Pids : p # c => pc'[p] = pc[p]
      /\ pc' \in [Pids -> Steps]
  BY DEF MessagesTypes, Steps, ReceiveSteps
<1>2. got[c] \in Seq(Msg) /\ inbox[c] \in Seq(Msg) /\ got[c] \o inbox[c] = sent[c]
  BY DEF MessagesTypes, QueuesKept
<1> DEFINE a == Tail(inbox[c])
           b == Append(got[c], Head(inbox[c]))
<1>3. /\ inbox' = [inbox EXCEPT ![c] = a] /\ got' = [got EXCEPT ![c] = b]
      /\ b \o a = sent[c] /\ a \in Seq(Msg) /\ b \in Seq(Msg)
  BY <1>2, QueuePop
<1> HIDE DEF a, b
<1>4. /\ inbox' \in [Pids -> Seq(Msg)] /\ got' \in [Pids -> Seq(Msg)]
      /\ \A q \in Pids : inbox'[q] = IF q = c THEN a ELSE inbox[q]
      /\ \A q \in Pids : got'[q] = IF q = c THEN b ELSE got[q]
  <2>1. inbox \in [Pids -> Seq(Msg)] /\ got \in [Pids -> Seq(Msg)] /\ c \in Pids
    BY DEF MessagesTypes
  <2> QED
    BY ONLY <1>3, <2>1
<1>5. MessagesTypes'
  BY <1>1, <1>4 DEF MessagesTypes, SendSteps
<1>6. \A p \in Pids : p # c => ~Inside(p, c)
  BY DEF LockIsHeld
<1>7. LockIsHeld'
  BY <1>1 DEF LockIsHeld, Inside, SendSteps, ReceiveSteps
<1>8. ReadIsFresh'
  <2>1. ASSUME NEW p \in Pids, pc'[p] = "send append"
        PROVE  seen'[p] = inbox'[target'[p]]
    <3>1. p # c /\ pc[p] = "send append" /\ seen[p] = inbox[target[p]]
      BY <1>1, <2>1 DEF ReadIsFresh
    <3>2. target[p] # c /\ target[p] \in Pids
      BY <1>6, <3>1 DEF Inside, SendSteps, MessagesTypes
    <3> QED
      BY <1>4, <3>1, <3>2
  <2>2. ASSUME NEW p \in Pids, pc'[p] = "receive pop"
        PROVE  seen'[p] = inbox'[p]
    BY <1>1, <1>4, <2>2 DEF ReadIsFresh
  <2> QED
    BY <2>1, <2>2 DEF ReadIsFresh
<1>9. MessagePending'
  BY <1>0, <1>1, <1>4 DEF MessagePending
<1>10. QueuesKept'
  BY <1>3, <1>4 DEF QueuesKept
<1> QED
  BY <1>0, <1>5, <1>7, <1>8, <1>9, <1>10

\* The process goes on at l: with the CPU, or blocked until l.
LEMMA GoesOn ==
    ASSUME MessagesInv, InProcess, NEW l, Goto(l) \/ BlockAt(l)
    PROVE  /\ SchedPart'
           /\ pc' = [pc EXCEPT ![current] = l]
           /\ \A p \in Pids : state[p] = "Blocked" => state'[p] = "Blocked"
           /\ BlockAt(l) => state'[current] = "Blocked"
<1>0. SchedPart /\ current \in Pids
  BY DEF MessagesInv, InProcess
<1>1. CASE BlockAt(l)
  BY <1>0, <1>1, BlockStep DEF BlockAt
<1>2. CASE Goto(l) /\ ~BlockAt(l)
  BY <1>0, <1>2, SchedStep DEF Goto
<1> QED
  BY <1>1, <1>2

\* Lock::lock on the queue of q, taken or slept for.
LEMMA LockInv ==
    ASSUME MessagesInv, InProcess, NEW q \in Pids, NEW retry, NEW taken,
           Lock(q, retry, taken),
           \/ pc[current] = "send lock" /\ target[current] = q
              /\ retry = "send lock" /\ taken = "send read"
           \/ pc[current] \in {"message", "receive lock"} /\ current = q
              /\ retry = "receive lock" /\ taken = "receive read"
    PROVE  MessagesInv'
<1> USE Names
<1>0. PICK c \in Pids : c = current
  BY DEF InProcess
<1>1. /\ MessagesTypes /\ LockIsHeld /\ ReadIsFresh /\ MessagePending
      /\ state[c] # "Blocked"
  BY <1>0 DEF MessagesInv, SchedPart, SchedulerInv, ListsMatchStates
<1>2. /\ inbox' = inbox /\ sent' = sent /\ got' = got /\ target' = target /\ seen' = seen
      /\ nsent' = nsent
  BY DEF Lock
<1>3. c = q /\ retry = "receive lock" => inbox[c] # <<>>
  BY <1>0, <1>1 DEF MessagePending
<1>4. retry \in {"send lock", "receive lock"} /\ taken \in {"send read", "receive read"}
  OBVIOUS
<1>5. retry \in Steps /\ taken \in Steps
  BY <1>4 DEF Steps, SendSteps, ReceiveSteps
<1>6. /\ target' \in [Pids -> Pids \cup {NoProcess}] /\ nsent' \in [Pids -> Nat]
      /\ seen' \in [Pids -> Seq(Msg)] /\ lock \in [Pids -> Pids \cup {NoProcess}]
  BY <1>1, <1>2 DEF MessagesTypes
<1>7. CASE lock[q] = NoProcess
  <2>1. lock' = [lock EXCEPT ![q] = current] /\ Goto(taken)
    BY <1>7 DEF Lock
  <2>2. /\ SchedPart' /\ pc' = [pc EXCEPT ![c] = taken]
        /\ \A p \in Pids : state[p] = "Blocked" => state'[p] = "Blocked"
    BY <1>0, <2>1, GoesOn
  <2>3. /\ lock' \in [Pids -> Pids \cup {NoProcess}] /\ lock'[q] = c
        /\ \A r \in Pids : lock'[r] = lock[r] \/ lock[r] \in {c, NoProcess}
    BY ONLY <1>0, <1>6, <1>7, <2>1, q \in Pids
  <2>4. \A r \in Pids : \/ taken \in SendSteps /\ target'[c] = r
                        \/ taken \in ReceiveSteps /\ c = r
                        => lock'[r] = c
    BY <1>0, <1>2, <2>3 DEF SendSteps, ReceiveSteps
  <2>5. taken \in SendSteps \cup {"send lock"} => target'[c] \in Pids
    BY <1>0, <1>2 DEF SendSteps
  <2>6. /\ taken # "send append" /\ taken # "receive pop" /\ taken # "message"
        /\ taken \in {"receive lock", "receive read", "receive pop"} => inbox[c] # <<>>
    BY <1>0, <1>3, <1>4
  <2> QED
    BY ONLY MessagesInv, <1>0, <1>2, <1>5, <1>6, <2>2, <2>3, <2>4, <2>5, <2>6, Moves
<1>8. CASE lock[q] # NoProcess
  <2>1. lock' = lock /\ BlockAt(retry)
    BY <1>8 DEF Lock
  <2>2. /\ SchedPart' /\ pc' = [pc EXCEPT ![c] = retry]
        /\ \A p \in Pids : state[p] = "Blocked" => state'[p] = "Blocked"
    BY <1>0, <2>1, GoesOn
  <2>3. retry \notin SendSteps /\ retry \notin ReceiveSteps
    BY <1>4 DEF SendSteps, ReceiveSteps
  <2>4. retry \in SendSteps \cup {"send lock"} => target'[c] \in Pids
    BY <1>0, <1>2, <2>3
  <2>5. /\ retry # "send append" /\ retry # "receive pop" /\ retry # "message"
        /\ retry \in {"receive lock", "receive read", "receive pop"} => inbox[c] # <<>>
    BY <1>0, <1>3, <1>4
  <2> QED
    BY ONLY MessagesInv, <1>0, <1>2, <1>5, <1>6, <2>1, <2>2, <2>3, <2>4, <2>5, Moves
<1> QED
  BY <1>7, <1>8

\* syscall_send_message: atomic, or asleep in Lock::lock.
LEMMA SendInv == ASSUME NEW q \in Receivers, MessagesInv, Send(q) PROVE MessagesInv'
<1> USE Names
<1>0. /\ q \in Pids /\ InProcess /\ pc[current] = "user" /\ At("user")
      /\ MessagesTypes /\ LockIsHeld
  BY MessagesAssumption DEF Send, At, MessagesInv, MessagesAssumption
<1>1. PICK c \in Pids : c = current
  BY <1>0 DEF InProcess
<1>2. /\ nsent' = [nsent EXCEPT ![c] = nsent[c] + 1]
      /\ target' = [target EXCEPT ![c] = q]
      /\ lock' = lock /\ seen' = seen /\ got' = got
  BY <1>1 DEF Send
<1>3. nsent' \in [Pids -> Nat] /\ nsent[c] + 1 \in Nat
  <2>1. nsent \in [Pids -> Nat]
    BY <1>0 DEF MessagesTypes
  <2>2. nsent[c] + 1 \in Nat
    BY <2>1
  <2> QED
    BY ONLY <1>2, <2>1, <2>2, c \in Pids
<1>4. /\ target' \in [Pids -> Pids \cup {NoProcess}] /\ target'[c] = q
      /\ \A p \in Pids : p # c => target'[p] = target[p]
  BY <1>0, <1>2 DEF MessagesTypes
<1>5. CASE lock[q] = NoProcess
  <2> DEFINE m == <<c, nsent[c] + 1>>
  <2>1. m \in Msg
    BY <1>3 DEF Msg
  <2>2. /\ inbox' = [inbox EXCEPT ![q] = Append(inbox[q], m)]
        /\ sent' = [sent EXCEPT ![q] = Append(sent[q], m)]
        /\ pc' = [pc EXCEPT ![c] = "user"] /\ UNCHANGED vars
    BY <1>1, <1>5 DEF Send, Goto
  <2> HIDE DEF m
  <2> QED
    BY ONLY MessagesInv, <1>0, <1>2, <1>3, <1>4, <1>5, <2>1, <2>2, Appends
<1>6. CASE lock[q] # NoProcess
  <2>1. BlockAt("send lock") /\ inbox' = inbox /\ sent' = sent
    BY <1>6 DEF Send
  <2>2. /\ SchedPart' /\ pc' = [pc EXCEPT ![c] = "send lock"]
        /\ \A p \in Pids : state[p] = "Blocked" => state'[p] = "Blocked"
    BY <1>0, <1>1, <2>1, GoesOn
  <2>3. /\ "send lock" \in Steps /\ "send lock" \notin SendSteps
        /\ "send lock" \notin ReceiveSteps /\ "send lock" # "send append"
        /\ "send lock" # "receive pop" /\ "send lock" # "message"
        /\ "send lock" \notin {"receive lock", "receive read", "receive pop"}
    BY DEF Steps, SendSteps, ReceiveSteps
  <2>4. seen \in [Pids -> Seq(Msg)] /\ lock \in [Pids -> Pids \cup {NoProcess}]
    BY <1>0 DEF MessagesTypes
  <2>5. /\ lock' \in [Pids -> Pids \cup {NoProcess}]
        /\ target' \in [Pids -> Pids \cup {NoProcess}] /\ target'[c] \in Pids
        /\ nsent' \in [Pids -> Nat] /\ seen' \in [Pids -> Seq(Msg)]
        /\ \A p \in Pids : p # c => target'[p] = target[p] /\ seen'[p] = seen[p]
        /\ \A p \in Pids : lock'[p] = lock[p]
        /\ UNCHANGED <<inbox, sent, got>>
    BY ONLY <1>0, <1>2, <1>3, <1>4, <2>1, <2>4, c \in Pids
  <2> QED
    BY ONLY MessagesInv, <2>2, <2>3, <2>5, c \in Pids, Moves, ZenonT(40)
<1> QED
  BY <1>5, <1>6

\* syscall_send_message after it slept for the lock.
LEMMA SendStepsInv ==
    MessagesInv /\ (SendLock \/ SendRead \/ SendAppend \/ SendUnlock) => MessagesInv'
<1> SUFFICES ASSUME MessagesInv, SendLock \/ SendRead \/ SendAppend \/ SendUnlock
             PROVE  MessagesInv'
  OBVIOUS
<1> USE Names
<1>0. InProcess /\ pc[current] \in SendSteps \cup {"send lock"}
  BY DEF SendLock, SendRead, SendAppend, SendUnlock, At, SendSteps
<1>1. PICK c \in Pids : c = current
  BY <1>0 DEF InProcess
<1>2. PICK q \in Pids : q = target[c]
  BY <1>0, <1>1 DEF MessagesInv, MessagesTypes
<1>3. /\ lock \in [Pids -> Pids \cup {NoProcess}] /\ target \in [Pids -> Pids \cup {NoProcess}]
      /\ nsent \in [Pids -> Nat] /\ seen \in [Pids -> Seq(Msg)] /\ inbox \in [Pids -> Seq(Msg)]
  BY DEF MessagesInv, MessagesTypes
<1>4. pc[c] \in SendSteps => lock[q] = c
  <2>1. LockIsHeld
    BY DEF MessagesInv
  <2>2. pc[c] \in SendSteps => Inside(c, q)
    BY <1>2 DEF Inside
  <2> QED
    BY <2>1, <2>2 DEF LockIsHeld
<1>5. CASE SendLock
  <2>1. Lock(q, "send lock", "send read") /\ pc[current] = "send lock"
    BY <1>1, <1>2, <1>5 DEF SendLock, At
  <2> QED
    BY <1>0, <1>1, <1>2, <2>1, LockInv
<1>6. CASE SendRead
  <2>1. /\ seen' = [seen EXCEPT ![c] = inbox[q]] /\ Goto("send append")
        /\ inbox' = inbox /\ lock' = lock /\ target' = target /\ nsent' = nsent
        /\ sent' = sent /\ got' = got /\ pc[c] = "send read"
    BY <1>1, <1>2, <1>6 DEF SendRead, At
  <2>2. /\ SchedPart' /\ pc' = [pc EXCEPT ![c] = "send append"]
        /\ \A p \in Pids : state[p] = "Blocked" => state'[p] = "Blocked"
    BY <1>0, <1>1, <2>1, GoesOn
  <2>3. /\ seen' \in [Pids -> Seq(Msg)] /\ seen'[c] = inbox[q]
        /\ \A p \in Pids : p # c => seen'[p] = seen[p]
    BY ONLY <1>2, <1>3, <2>1, c \in Pids, q \in Pids
  <2>4. lock[q] = c
    BY <1>4, <2>1 DEF SendSteps
  <2>5. "send append" \in Steps /\ "send append" \notin ReceiveSteps
    BY DEF Steps, SendSteps, ReceiveSteps
  <2>6. \A r \in Pids : \/ "send append" \in SendSteps /\ target'[c] = r
                        \/ "send append" \in ReceiveSteps /\ c = r
                        => lock'[r] = c
    BY <1>2, <2>1, <2>4, <2>5
  <2> QED
    BY ONLY MessagesInv, <1>2, <1>3, <2>1, <2>2, <2>3, <2>5, <2>6, c \in Pids, q \in Pids,
            Moves, ZenonT(40)
<1>7. CASE SendAppend
  <2>1. /\ pc[c] = "send append" /\ seen[c] = inbox[q]
    <3>1. ReadIsFresh /\ pc[c] = "send append"
      BY <1>1, <1>7 DEF SendAppend, At, MessagesInv
    <3> QED
      BY <1>2, <3>1 DEF ReadIsFresh
  <2> DEFINE m == <<c, nsent[c]>>
  <2>2. m \in Msg
    BY <1>3 DEF Msg
  <2>3. /\ inbox' = [inbox EXCEPT ![q] = Append(inbox[q], m)]
        /\ sent' = [sent EXCEPT ![q] = Append(sent[q], m)]
        /\ pc' = [pc EXCEPT ![c] = "send unlock"] /\ UNCHANGED vars
        /\ lock' = lock /\ target' = target /\ seen' = seen /\ nsent' = nsent /\ got' = got
    BY <1>1, <1>2, <1>7, <2>1 DEF SendAppend, Goto, Message
  <2>4. lock[q] = c
    BY <1>4, <2>1 DEF SendSteps
  <2> HIDE DEF m
  <2> QED
    BY ONLY MessagesInv, <1>2, <1>3, <2>2, <2>3, <2>4, c \in Pids, q \in Pids, Appends
<1>8. CASE SendUnlock
  <2>1. /\ lock' = [lock EXCEPT ![q] = NoProcess] /\ Goto("user") /\ pc[c] = "send unlock"
        /\ inbox' = inbox /\ target' = target /\ seen' = seen /\ nsent' = nsent
        /\ sent' = sent /\ got' = got
    BY <1>1, <1>2, <1>8 DEF SendUnlock, Unlock, At
  <2>2. /\ SchedPart' /\ pc' = [pc EXCEPT ![c] = "user"]
        /\ \A p \in Pids : state[p] = "Blocked" => state'[p] = "Blocked"
    BY <1>0, <1>1, <2>1, GoesOn
  <2>3. lock[q] = c
    BY <1>4, <2>1 DEF SendSteps
  <2>4. /\ lock' \in [Pids -> Pids \cup {NoProcess}]
        /\ \A r \in Pids : lock'[r] = lock[r] \/ lock[r] \in {c, NoProcess}
    BY ONLY <1>3, <2>1, <2>3, q \in Pids
  <2>5. "user" \in Steps /\ "user" \notin ReceiveSteps /\ "user" \notin SendSteps
    BY DEF Steps, SendSteps, ReceiveSteps
  <2> QED
    BY ONLY MessagesInv, <1>3, <2>1, <2>2, <2>4, <2>5, c \in Pids, Moves
<1> QED
  BY <1>5, <1>6, <1>7, <1>8

\* syscall_get_message: atomic, or blocked for a message or asleep in Lock::lock.
LEMMA ReceiveInv == MessagesInv /\ Receive => MessagesInv'
<1> SUFFICES ASSUME MessagesInv, Receive PROVE MessagesInv'
  OBVIOUS
<1> USE Names
<1>0. InProcess /\ pc[current] = "user"
  BY DEF Receive, At
<1>1. PICK c \in Pids : c = current
  BY <1>0 DEF InProcess
<1>2. /\ lock \in [Pids -> Pids \cup {NoProcess}] /\ target \in [Pids -> Pids \cup {NoProcess}]
      /\ nsent \in [Pids -> Nat] /\ seen \in [Pids -> Seq(Msg)]
  BY DEF MessagesInv, MessagesTypes
<1>3. lock' = lock /\ target' = target /\ seen' = seen /\ nsent' = nsent /\ sent' = sent
  BY DEF Receive
<1>4. /\ {"message", "receive lock"} \subseteq Steps
      /\ \A l \in {"message", "receive lock"} : l \notin SendSteps /\ l \notin ReceiveSteps
  BY DEF Steps, SendSteps, ReceiveSteps
<1>5. CASE inbox[c] = <<>>
  <2>1. BlockAt("message") /\ inbox' = inbox /\ got' = got
    BY <1>1, <1>5 DEF Receive
  <2>2. /\ SchedPart' /\ pc' = [pc EXCEPT ![c] = "message"]
        /\ \A p \in Pids : state[p] = "Blocked" => state'[p] = "Blocked"
        /\ state'[c] = "Blocked"
    BY <1>0, <1>1, <2>1, GoesOn
  <2> QED
    BY ONLY MessagesInv, <1>2, <1>3, <1>4, <2>1, <2>2, c \in Pids, Moves
<1>6. CASE inbox[c] # <<>> /\ lock[c] = NoProcess
  <2>1. /\ inbox' = [inbox EXCEPT ![c] = Tail(inbox[c])]
        /\ got' = [got EXCEPT ![c] = Append(got[c], Head(inbox[c]))]
        /\ pc' = [pc EXCEPT ![c] = "user"] /\ UNCHANGED vars
    BY <1>1, <1>6 DEF Receive, Goto
  <2> QED
    BY ONLY MessagesInv, <1>3, <1>6, <2>1, c \in Pids, Pops
<1>7. CASE inbox[c] # <<>> /\ lock[c] # NoProcess
  <2>1. BlockAt("receive lock") /\ inbox' = inbox /\ got' = got
    BY <1>1, <1>7 DEF Receive
  <2>2. /\ SchedPart' /\ pc' = [pc EXCEPT ![c] = "receive lock"]
        /\ \A p \in Pids : state[p] = "Blocked" => state'[p] = "Blocked"
    BY <1>0, <1>1, <2>1, GoesOn
  <2> QED
    BY ONLY MessagesInv, <1>2, <1>3, <1>4, <1>7, <2>1, <2>2, c \in Pids, Moves
<1> QED
  BY <1>5, <1>6, <1>7

\* syscall_get_message after it blocked.
LEMMA ReceiveStepsInv ==
    MessagesInv /\ (ReceiveLock \/ ReceiveRead \/ ReceivePop \/ ReceiveUnlock) => MessagesInv'
<1> SUFFICES ASSUME MessagesInv, ReceiveLock \/ ReceiveRead \/ ReceivePop \/ ReceiveUnlock
             PROVE  MessagesInv'
  OBVIOUS
<1> USE Names
<1>0. InProcess
  BY DEF ReceiveLock, ReceiveRead, ReceivePop, ReceiveUnlock, At
<1>1. PICK c \in Pids : c = current
  BY <1>0 DEF InProcess
<1>2. /\ lock \in [Pids -> Pids \cup {NoProcess}] /\ target \in [Pids -> Pids \cup {NoProcess}]
      /\ nsent \in [Pids -> Nat] /\ seen \in [Pids -> Seq(Msg)] /\ inbox \in [Pids -> Seq(Msg)]
      /\ LockIsHeld /\ MessagePending /\ ReadIsFresh
  BY DEF MessagesInv, MessagesTypes
<1>3. pc[c] \in ReceiveSteps => lock[c] = c
  <2>1. pc[c] \in ReceiveSteps => Inside(c, c)
    BY DEF Inside
  <2> QED
    BY <1>2, <2>1 DEF LockIsHeld
<1>4. CASE ReceiveLock
  <2>1. Lock(c, "receive lock", "receive read") /\ pc[current] \in {"message", "receive lock"}
    BY <1>1, <1>4 DEF ReceiveLock, At
  <2> QED
    BY <1>0, <1>1, <2>1, LockInv
<1>5. CASE ReceiveRead
  <2>1. pc[c] = "receive read"
    BY <1>1, <1>5 DEF ReceiveRead, At
  <2>2. inbox[c] # <<>> /\ lock[c] = c
    BY <1>2, <1>3, <2>1 DEF MessagePending, ReceiveSteps
  <2>3. /\ seen' = [seen EXCEPT ![c] = inbox[c]] /\ Goto("receive pop")
        /\ inbox' = inbox /\ lock' = lock /\ target' = target /\ nsent' = nsent
        /\ sent' = sent /\ got' = got
    BY <1>1, <1>5, <2>2 DEF ReceiveRead
  <2>4. /\ SchedPart' /\ pc' = [pc EXCEPT ![c] = "receive pop"]
        /\ \A p \in Pids : state[p] = "Blocked" => state'[p] = "Blocked"
    BY <1>0, <1>1, <2>3, GoesOn
  <2>5. /\ seen' \in [Pids -> Seq(Msg)] /\ seen'[c] = inbox[c]
        /\ \A p \in Pids : p # c => seen'[p] = seen[p]
    BY ONLY <1>2, <2>3, c \in Pids
  <2>6. "receive pop" \in Steps /\ "receive pop" \notin SendSteps
    BY DEF Steps, SendSteps, ReceiveSteps
  <2> QED
    BY ONLY MessagesInv, <1>2, <2>2, <2>3, <2>4, <2>5, <2>6, c \in Pids, Moves
<1>6. CASE ReceivePop
  <2>1. pc[c] = "receive pop"
    BY <1>1, <1>6 DEF ReceivePop, At
  <2>2. inbox[c] # <<>> /\ lock[c] = c /\ seen[c] = inbox[c]
    BY <1>2, <1>3, <2>1 DEF MessagePending, ReceiveSteps, ReadIsFresh
  <2>3. /\ inbox' = [inbox EXCEPT ![c] = Tail(inbox[c])]
        /\ got' = [got EXCEPT ![c] = Append(got[c], Head(inbox[c]))]
        /\ pc' = [pc EXCEPT ![c] = "receive unlock"] /\ UNCHANGED vars
        /\ lock' = lock /\ target' = target /\ seen' = seen /\ nsent' = nsent /\ sent' = sent
    BY <1>1, <1>6, <2>2 DEF ReceivePop, Goto
  <2> QED
    BY ONLY MessagesInv, <2>2, <2>3, c \in Pids, Pops
<1>7. CASE ReceiveUnlock
  <2>1. /\ lock' = [lock EXCEPT ![c] = NoProcess] /\ Goto("user") /\ pc[c] = "receive unlock"
        /\ inbox' = inbox /\ target' = target /\ seen' = seen /\ nsent' = nsent
        /\ sent' = sent /\ got' = got
    BY <1>1, <1>7 DEF ReceiveUnlock, Unlock, At
  <2>2. /\ SchedPart' /\ pc' = [pc EXCEPT ![c] = "user"]
        /\ \A p \in Pids : state[p] = "Blocked" => state'[p] = "Blocked"
    BY <1>0, <1>1, <2>1, GoesOn
  <2>3. lock[c] = c
    BY <1>3, <2>1 DEF ReceiveSteps
  <2>4. /\ lock' \in [Pids -> Pids \cup {NoProcess}]
        /\ \A r \in Pids : lock'[r] = lock[r] \/ lock[r] \in {c, NoProcess}
    BY ONLY <1>2, <2>1, <2>3, c \in Pids
  <2>5. "user" \in Steps /\ "user" \notin ReceiveSteps /\ "user" \notin SendSteps
    BY DEF Steps, SendSteps, ReceiveSteps
  <2> QED
    BY ONLY MessagesInv, <1>2, <2>1, <2>2, <2>4, <2>5, c \in Pids, Moves
<1> QED
  BY <1>4, <1>5, <1>6, <1>7

-----------------------------------------------------------------------------
(* The timer *)

\* A step of the scheduler alone: no receiver is let go without a message.
LEMMA Quiet ==
    ASSUME MessagesInv, SchedPart', UNCHANGED msgs,
           \A p \in Pids : pc[p] = "message" /\ state[p] = "Blocked"
                           => state'[p] = "Blocked" \/ inbox[p] # <<>>
    PROVE  MessagesInv'
<1>1. UNCHANGED <<inbox, lock, pc, target, seen, nsent, sent, got>>
  BY DEF msgs
<1>2. MessagesTypes'
  BY <1>1 DEF MessagesInv, MessagesTypes
<1>3. LockIsHeld' /\ ReadIsFresh' /\ QueuesKept'
  BY <1>1 DEF MessagesInv, LockIsHeld, Inside, ReadIsFresh, QueuesKept
<1>4. MessagePending'
  BY <1>1 DEF MessagesInv, MessagePending
<1> QED
  BY <1>2, <1>3, <1>4 DEF MessagesInv

\* One turn of the loop of try_unblock_tasks, with PendingMessageBlocker::can_unblock.
LEMMA TryUnblockMessagesInv == MessagesInv /\ TryUnblockMessages => MessagesInv'
<1> SUFFICES ASSUME MessagesInv, TryUnblockMessages PROVE MessagesInv'
  OBVIOUS
<1>0. SchedulerInv /\ IdleNotBlocked /\ NobodyWaits /\ panic = NoPanic /\ UNCHANGED msgs
  BY DEF MessagesInv, SchedPart, TryUnblockMessages
<1>1. PICK b : b = blocked[cursor]
  OBVIOUS
<1>2. PICK can \in CanUnblock(b) : VisitBlocked(can)
  BY <1>1 DEF TryUnblockMessages
<1>3. can \in BOOLEAN /\ (can /\ pc[b] = "message" => inbox[b] # <<>>)
  <2>1. CASE pc[b] = "message"
    <3>1. can = (inbox[b] # <<>>)
      BY <1>2, <2>1 DEF CanUnblock
    <3> QED
      BY <3>1
  <2>2. CASE pc[b] # "message"
    <3>1. can \in BOOLEAN
      BY <1>2, <2>2 DEF CanUnblock
    <3> QED
      BY <2>2, <3>1
  <2> QED
    BY <2>1, <2>2
<1>4. b \in Pids
  BY <1>0, <1>1, <1>2, InBlockedList DEF VisitBlocked
<1>5. ~Waiting(blocked[cursor])
  BY <1>0, <1>1, <1>4 DEF NobodyWaits, Waiting
<1>6. /\ SchedulerInv' /\ IdleNotBlocked'
      /\ panic' = panic
      /\ \A q \in Pids : state'[q] = "Blocked" <=> (state[q] = "Blocked" /\ ~(can /\ q = b))
      /\ \A q \in Pids : blocker'[q] \in {blocker[q], "nullptr"}
  BY <1>0, <1>1, <1>2, <1>3, <1>4, <1>5, Names, VisitBlockedInv
<1>7. SchedPart'
  BY <1>0, <1>6 DEF SchedPart, NobodyWaits
<1>8. ASSUME NEW p \in Pids, pc[p] = "message", state[p] = "Blocked"
      PROVE  state'[p] = "Blocked" \/ inbox[p] # <<>>
  BY <1>3, <1>6, <1>8
<1> QED
  BY <1>0, <1>7, <1>8, Quiet

\* What kernel_main sets up.
LEMMA MessagesInitInv == MessagesInit => MessagesInv
<1> SUFFICES ASSUME MessagesInit PROVE MessagesInv
  OBVIOUS
<1> USE Names
<1>1. SchedPart
  BY InitInv, IdleInit DEF MessagesInit, Init, SchedPart, NobodyWaits
<1>2. <<>> \in Seq(Msg)
  OBVIOUS
<1>3. MessagesTypes
  BY <1>2 DEF MessagesInit, MessagesTypes, Steps, SendSteps
<1>4. LockIsHeld /\ ReadIsFresh /\ MessagePending
  BY DEF MessagesInit, LockIsHeld, Inside, ReadIsFresh, MessagePending, SendSteps, ReceiveSteps
<1>5. QueuesKept
  BY <1>2, ConcatEmptySeq DEF MessagesInit, QueuesKept
<1> QED
  BY <1>1, <1>3, <1>4, <1>5 DEF MessagesInv

\* Every step of Messages keeps the invariant.
LEMMA MessagesNextInv == MessagesInv /\ [MessagesNext]_mvars => MessagesInv'
<1> SUFFICES ASSUME MessagesInv, [MessagesNext]_mvars PROVE MessagesInv'
  OBVIOUS
<1>1. CASE Dispatch \/ End \/ UNCHANGED mvars
  <2>1. UNCHANGED msgs /\ (Tick \/ TickSwitch \/ Terminate \/ UNCHANGED vars)
    BY <1>1 DEF Dispatch, End, mvars
  <2>2. SchedPart
    BY DEF MessagesInv
  <2>3. SchedPart' /\ \A p \in Pids : state[p] = "Blocked" => state'[p] = "Blocked"
    BY <2>1, <2>2, SchedStep
  <2> QED
    BY <2>1, <2>3, Quiet
<1> QED
  BY <1>1, SendInv, SendStepsInv, ReceiveInv, ReceiveStepsInv, TryUnblockMessagesInv
     DEF MessagesNext, InLock

-----------------------------------------------------------------------------
(* The theorems *)

\* The invariant above is inductive.
THEOREM MessagesInvariance == MessagesSpec => []MessagesInv
  BY MessagesInitInv, MessagesNextInv, PTL DEF MessagesSpec

\* The ASSERT of consume_message holds for any number of senders and receivers.
THEOREM ConsumeFindsMessage == MessagesSpec => []MessageStillThere
<1>1. MessagesInv => MessageStillThere
  BY DEF MessagesInv, SchedPart, MessageStillThere, NoMessage, NoPanic
<1> QED
  BY <1>1, MessagesInvariance, PTL

(***************************************************************************)
(* Whatever the number of senders, receivers and messages, and wherever a  *)
(* send or a receive is preempted, a receiver is given what was sent to it *)
(* in the order in which it was sent.                                      *)
(***************************************************************************)
THEOREM MessagesAreKept == MessagesSpec => []NothingLost
<1>1. MessagesInv => NothingLost
  BY MessagesAssumption DEF MessagesInv, QueuesKept, NothingLost, MessagesAssumption
<1> QED
  BY <1>1, MessagesInvariance, PTL

=============================================================================
