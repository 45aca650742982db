-------------------------- MODULE SchedulerProofs ---------------------------
(***************************************************************************)
(* Proofs about Scheduler, for any number of processes and any time slice. *)
(*                                                                         *)
(* The invariants are proved together: ListsMatchStates needs that tick    *)
(* puts back on the runnable list only a task that is not there (its own   *)
(* clause on the running task), the assertions need the lists and the TCB, *)
(* and WaitersAreWaiting needs that only a listed process gets a waiter    *)
(* and that only a process that does not wait is unblocked.  That the      *)
(* assertion on the node of idle is the only one of the scheduler's own to *)
(* fail needs two facts more: idle never keeps the state Blocked, because  *)
(* it runs only when nobody else can, and a failed assertion stops the     *)
(* kernel.                                                                 *)
(***************************************************************************)
EXTENDS Scheduler, SequenceTheorems, TLAPS

-----------------------------------------------------------------------------
(* The lists *)

\* List::append puts one new value in the list and loses none.
LEMMA AppendMember ==
    ASSUME NEW S, NEW s \in Seq(S), NEW e \in S
    PROVE  /\ Append(s, e) \in Seq(S)
           /\ \A x : Contains(Append(s, e), x) <=> (Contains(s, x) \/ x = e)
           /\ IsInjective(s) /\ ~Contains(s, e) => IsInjective(Append(s, e))
<1> DEFINE t == Append(s, e)
<1>1. /\ t \in Seq(S)
      /\ Len(t) = Len(s) + 1
      /\ \A i \in 1..Len(s) : t[i] = s[i]
      /\ t[Len(s) + 1] = e
  BY AppendProperties
<1>2. Len(s) \in Nat /\ DOMAIN s = 1..Len(s) /\ DOMAIN t = 1..Len(t)
  BY <1>1
<1> HIDE DEF t
<1>3. \A x : Contains(t, x) <=> (Contains(s, x) \/ x = e)
  BY <1>1, <1>2 DEF Contains
<1>4. IsInjective(s) /\ ~Contains(s, e) => IsInjective(t)
  BY <1>1, <1>2 DEF Contains, IsInjective
<1> QED
  BY <1>1, <1>3, <1>4 DEF t

\* Removing the head of a list without duplicates removes just that value.
LEMMA TailMember ==
    ASSUME NEW S, NEW s \in Seq(S), s # <<>>, IsInjective(s)
    PROVE  /\ Head(s) \in S
           /\ Contains(s, Head(s))
           /\ Tail(s) \in Seq(S)
           /\ IsInjective(Tail(s))
           /\ \A x : Contains(Tail(s), x) <=> (Contains(s, x) /\ x # Head(s))
<1> DEFINE t == Tail(s)
<1>1. /\ Head(s) \in S
      /\ t \in Seq(S)
      /\ Len(t) = Len(s) - 1
      /\ \A i \in 1..Len(t) : t[i] = s[i + 1]
  BY HeadTailProperties
<1>2. Len(s) \in Nat \ {0} /\ DOMAIN s = 1..Len(s) /\ DOMAIN t = 1..Len(t)
      /\ Head(s) = s[1]
  BY <1>1
<1> HIDE DEF t
<1>3. \A i, j \in 1..Len(s) : s[i] = s[j] => i = j
  BY <1>2 DEF IsInjective
<1>4. IsInjective(t)
  BY <1>1, <1>2, <1>3 DEF IsInjective
<1>5. ASSUME NEW x, Contains(t, x)
      PROVE  Contains(s, x) /\ x # Head(s)
  <2>1. PICK i \in 1..Len(t) : t[i] = x
    BY <1>5 DEF Contains
  <2>2. i + 1 \in 1..Len(s) /\ s[i + 1] = x /\ i + 1 # 1
    BY <2>1, <1>1, <1>2
  <2>3. s[i + 1] # s[1]
    BY <2>2, <1>2, <1>3
  <2> QED
    BY <2>2, <2>3, <1>2 DEF Contains
<1>6. ASSUME NEW x, Contains(s, x), x # Head(s)
      PROVE  Contains(t, x)
  <2>1. PICK i \in 1..Len(s) : s[i] = x
    BY <1>6 DEF Contains
  <2>2. i - 1 \in 1..Len(t) /\ t[i - 1] = x
    BY <2>1, <1>1, <1>2, <1>6
  <2> QED
    BY <2>2 DEF Contains
<1>7. Contains(s, Head(s))
  BY <1>2 DEF Contains
<1> QED
  BY <1>1, <1>4, <1>5, <1>6, <1>7 DEF t

\* List::remove of one node of a list without duplicates removes its value.
LEMMA RemoveAtMember ==
    ASSUME NEW S, NEW s \in Seq(S), NEW n \in 1..Len(s), IsInjective(s)
    PROVE  /\ s[n] \in S
           /\ Contains(s, s[n])
           /\ RemoveAt(s, n) \in Seq(S)
           /\ IsInjective(RemoveAt(s, n))
           /\ \A x : Contains(RemoveAt(s, n), x) <=> (Contains(s, x) /\ x # s[n])
<1> DEFINE a == SubSeq(s, 1, n - 1)
           b == SubSeq(s, n + 1, Len(s))
           t == RemoveAt(s, n)
<1>1. Len(s) \in Nat /\ DOMAIN s = 1..Len(s) /\ \A i \in 1..Len(s) : s[i] \in S
  OBVIOUS
<1>2. /\ a \in Seq(S)
      /\ Len(a) = n - 1
      /\ \A i \in 1..(n - 1) : a[i] = s[i]
  <2>1. /\ a \in Seq(S)
        /\ Len(a) = IF 1 <= n - 1 THEN (n - 1) - 1 + 1 ELSE 0
        /\ \A i \in 1..((n - 1) - 1 + 1) : a[i] = s[1 + i - 1]
    BY <1>1, SubSeqProperties
  <2> HIDE DEF a
  <2> QED
    BY <2>1, <1>1
<1>3. /\ b \in Seq(S)
      /\ Len(b) = Len(s) - n
      /\ \A i \in 1..(Len(s) - n) : b[i] = s[n + i]
  <2>1. /\ b \in Seq(S)
        /\ Len(b) = IF n + 1 <= Len(s) THEN Len(s) - (n + 1) + 1 ELSE 0
        /\ \A i \in 1..(Len(s) - (n + 1) + 1) : b[i] = s[(n + 1) + i - 1]
    BY <1>1, SubSeqProperties
  <2> HIDE DEF b
  <2>2. Len(b) = Len(s) - n
    <3>1. Len(b) = IF n + 1 <= Len(s) THEN Len(s) - (n + 1) + 1 ELSE 0
      BY <2>1
    <3>2. Len(s) \in Int /\ n \in Int /\ n <= Len(s)
      BY <1>1
    <3> QED
      BY ONLY <3>1, <3>2
  <2>3. ASSUME NEW i \in 1..(Len(s) - n)
        PROVE  b[i] = s[n + i]
    <3>1. i \in 1..(Len(s) - (n + 1) + 1) /\ (n + 1) + i - 1 = n + i
      BY <1>1
    <3> QED
      BY <2>1, <3>1
  <2> QED
    BY <2>1, <2>2, <2>3
<1> HIDE DEF a, b
<1>4. /\ a \o b \in Seq(S)
      /\ Len(a \o b) = Len(a) + Len(b)
      /\ \A i \in 1..(Len(a) + Len(b)) :
            (a \o b)[i] = IF i <= Len(a) THEN a[i] ELSE b[i - Len(a)]
  BY <1>2, <1>3, ConcatProperties
<1>5. t = a \o b
  BY DEF RemoveAt, a, b
<1> HIDE DEF t
<1>6. /\ t \in Seq(S)
      /\ Len(t) = Len(s) - 1
      /\ DOMAIN t = 1..(Len(s) - 1)
      /\ \A i \in 1..(Len(s) - 1) : t[i] = IF i < n THEN s[i] ELSE s[i + 1]
  <2>1. t \in Seq(S) /\ Len(t) = Len(s) - 1
    <3>1. t \in Seq(S) /\ Len(t) = Len(a) + Len(b)
      BY <1>4, <1>5
    <3>2. Len(a) = n - 1 /\ Len(b) = Len(s) - n /\ Len(s) \in Int /\ n \in Int
      BY <1>1, <1>2, <1>3
    <3> QED
      BY ONLY <3>1, <3>2
  <2>2. ASSUME NEW i \in 1..(Len(s) - 1)
        PROVE  t[i] = IF i < n THEN s[i] ELSE s[i + 1]
    <3>1. t[i] = IF i <= n - 1 THEN a[i] ELSE b[i - (n - 1)]
      BY <1>1, <1>2, <1>3, <1>4, <1>5
    <3>2. CASE i < n
      BY <3>1, <3>2, <1>1, <1>2
    <3>3. CASE i >= n
      <4>1. i - (n - 1) \in 1..(Len(s) - n) /\ n + (i - (n - 1)) = i + 1
        BY <3>3, <1>1
      <4> QED
        BY <4>1, <3>1, <3>3, <1>1, <1>3
    <3> QED
      BY <3>2, <3>3, <1>1
  <2> QED
    BY <2>1, <2>2
<1>7. \A i, j \in 1..Len(s) : s[i] = s[j] => i = j
  BY <1>1 DEF IsInjective
<1>8. IsInjective(t)
  BY <1>1, <1>6, <1>7 DEF IsInjective
<1>9. ASSUME NEW x, Contains(t, x)
      PROVE  Contains(s, x) /\ x # s[n]
  <2>1. PICK i \in 1..(Len(s) - 1) : t[i] = x
    BY <1>9, <1>6 DEF Contains
  <2>2. PICK j \in 1..Len(s) : j # n /\ s[j] = x
    BY <2>1, <1>1, <1>6
  <2> QED
    BY <2>2, <1>7 DEF Contains
<1>10. ASSUME NEW x, Contains(s, x), x # s[n]
       PROVE  Contains(t, x)
  <2>1. PICK i \in 1..Len(s) : s[i] = x
    BY <1>10 DEF Contains
  <2>2. CASE i < n
    BY <2>1, <2>2, <1>1, <1>6 DEF Contains
  <2>3. CASE i > n
    <3>1. i - 1 \in 1..(Len(s) - 1) /\ t[i - 1] = x
      BY <2>1, <2>3, <1>1, <1>6
    <3> QED
      BY <3>1, <1>6 DEF Contains
  <2> QED
    BY <2>1, <2>2, <2>3, <1>10
<1>11. s[n] \in S /\ Contains(s, s[n])
  BY <1>1 DEF Contains
<1> QED
  BY <1>6, <1>8, <1>9, <1>10, <1>11 DEF t

-----------------------------------------------------------------------------
(* The invariant *)

\* Idle has the CPU only when no process can have it.
IdleWhenEmpty == current = Idle => runnable = <<>>

\* A handler that blocks idle switches to idle again: it is not left Blocked.
IdleStaysUp == state[Idle] # "Blocked"

\* A failed assertion is the last thing that happens.
PanicHangs == panic # NoPanic => phase = "hang"

SchedulerInv ==
    /\ TypeInv
    /\ ListsMatchStates
    /\ TCBOfCurrent
    /\ WaitersAreWaiting
    /\ SchedulerAssertionsHold
    /\ IdleWhenEmpty
    /\ IdleStaysUp
    /\ PanicHangs

\* No handler has blocked idle.
IdleNotBlocked == ~Contains(blocked, Idle)

\* The names of processes are told apart from each other and from nullptr.
LEMMA Names ==
    /\ Pids \subseteq Processes
    /\ Idle \in Processes
    /\ Idle \notin Pids
    /\ NoProcess \notin Processes
    /\ BootTCB \notin Processes
    /\ NoProcess # BootTCB
    /\ \A p \in Processes : p \in Pids \/ p = Idle
  BY SchedulerAssumption
     DEF SchedulerAssumption, Pids, Processes, Idle, NoProcess, BootTCB

(***************************************************************************)
(* pick_next_and_switch: given a runnable list that matches the task       *)
(* states and nobody running, it leaves them matching with one task on the *)
(* CPU, and no assertion fails.                                            *)
(***************************************************************************)
LEMMA SwitchLemma ==
    ASSUME runnable \in Seq(Pids),
           IsInjective(runnable),
           NEW st \in [Processes -> States],
           NEW tcb,
           \A p \in Pids : Contains(runnable, p) <=> st[p] = "Runnable",
           \A p \in Pids : st[p] # "Running",
           tcb \in Processes => st[tcb] # "Deleted",
           SwitchToNext(st, tcb)
    PROVE  /\ runnable' \in Seq(Pids)
           /\ IsInjective(runnable')
           /\ current' \in Processes
           /\ current_TCB' = current'
           /\ current' \in Pids => st[current'] = "Runnable"
           /\ state' \in [Processes -> States]
           /\ state'[current'] = "Running"
           /\ \A p \in Processes : p # current' => state'[p] = st[p]
           /\ \A p \in Pids : Contains(runnable', p) <=> state'[p] = "Runnable"
           /\ \A p \in Pids : state'[p] = "Running" <=> current' = p
           /\ ticks' = 0 /\ cursor' = 1 /\ panic' = NoPanic /\ phase' = "cpu"
           /\ current' = Idle => runnable' = <<>>
           /\ st[Idle] # "Blocked" \/ runnable = <<>> => state'[Idle] # "Blocked"
<1>1. CASE runnable = <<>>
  <2>1. /\ runnable' = runnable /\ current' = Idle /\ current_TCB' = Idle
        /\ state' = [st EXCEPT ![Idle] = "Running"]
        /\ ticks' = 0 /\ cursor' = 1 /\ panic' = NoPanic /\ phase' = "cpu"
    BY <1>1 DEF SwitchToNext, SavesToDeletedTCB, NoPanic
  <2> QED
    BY <1>1, <2>1, Names DEF States
<1>2. CASE runnable # <<>>
  <2> DEFINE n == Head(runnable)
  <2>1. /\ n \in Pids /\ Contains(runnable, n)
        /\ Tail(runnable) \in Seq(Pids) /\ IsInjective(Tail(runnable))
        /\ \A x : Contains(Tail(runnable), x) <=> (Contains(runnable, x) /\ x # n)
    BY <1>2, TailMember
  <2>2. st[n] = "Runnable"
    BY <2>1
  <2>3. /\ runnable' = Tail(runnable) /\ current' = n /\ current_TCB' = n
        /\ state' = [st EXCEPT ![n] = "Running"]
        /\ ticks' = 0 /\ cursor' = 1 /\ panic' = NoPanic /\ phase' = "cpu"
    BY <1>2, <2>2 DEF SwitchToNext, SavesToDeletedTCB, NoPanic
  <2> HIDE DEF n
  <2> QED
    BY <2>1, <2>2, <2>3, Names DEF States
<1> QED
  BY <1>1, <1>2

\* What kernel_main sets up before it enables interrupts.
LEMMA InitInv == Init => SchedulerInv
<1> SUFFICES ASSUME Init PROVE SchedulerInv
  OBVIOUS
<1> USE SchedulerAssumption DEF SchedulerAssumption, Init
<1>1. runnable \in Seq(Pids) /\ blocked \in Seq(Processes)
  BY DEF Pids
<1>2. TypeInv
  <2>1. next_pid \in 1..(MaxPid + 1) /\ ticks \in 0..TIME_SLICE_MS
    OBVIOUS
  <2>2. /\ state \in [Processes -> States]
        /\ blocker \in [Processes -> Blockers]
        /\ waiter \in [Processes -> Pids \cup {NoProcess}]
    BY DEF States, Blockers
  <2>3. finished \in [Processes -> BOOLEAN]
    BY Zenon
  <2> QED
    BY <1>1, <2>1, <2>2, <2>3, Names DEF TypeInv, NoPanic
<1>3. IsInjective(runnable) /\ IsInjective(blocked)
  BY DEF IsInjective
<1>4. \A p \in Pids : Contains(runnable, p) <=> p <= NumBoot
  <2>1. Len(runnable) = NumBoot /\ \A i \in 1..NumBoot : runnable[i] = i
    BY <1>1
  <2> QED
    BY <2>1 DEF Contains, Pids
<1>5. \A p \in Pids : ~Contains(blocked, p)
  BY DEF Contains
<1>6. ListsMatchStates
  BY <1>3, <1>4, <1>5, Names DEF ListsMatchStates, Pids, Processes, NoProcess
<1> QED
  BY <1>2, <1>6, Names
     DEF SchedulerInv, TCBOfCurrent, WaitersAreWaiting, Waiting, SchedulerAssertionsHold,
         IdleWhenEmpty, IdleStaysUp, PanicHangs, NoPanic, NotBlockedFailed

\* tick, up to the loop of try_unblock_tasks.
LEMMA TickInv == SchedulerInv /\ Tick => SchedulerInv'
<1> SUFFICES ASSUME SchedulerInv, Tick PROVE SchedulerInv'
  OBVIOUS
<1> USE Names DEF SchedulerInv
<1>1. CASE TickContinue
  <2>1. /\ ticks' = ticks + 1 /\ ticks < TIME_SLICE_MS
        /\ UNCHANGED <<runnable, blocked, state, blocker, waiter, finished, ready,
                       next_pid, current, current_TCB, phase, cursor, panic>>
    BY <1>1 DEF TickContinue, lists, procs
  <2>2. TypeInv'
    BY <2>1, SchedulerAssumption DEF TypeInv, SchedulerAssumption
  <2>3. ListsMatchStates' /\ TCBOfCurrent' /\ WaitersAreWaiting' /\ SchedulerAssertionsHold'
    BY <2>1 DEF ListsMatchStates, TCBOfCurrent, WaitersAreWaiting, Waiting, Alive,
                SchedulerAssertionsHold
  <2>4. IdleWhenEmpty' /\ IdleStaysUp' /\ PanicHangs'
    BY <2>1 DEF IdleWhenEmpty, IdleStaysUp, PanicHangs
  <2> QED
    BY <2>2, <2>3, <2>4
<1>2. CASE TickPreempt
  <2> DEFINE t == Ticked
  <2>1. t \in Processes /\ (t # Idle => t = current) /\ (t = Idle => current \notin Pids)
    BY DEF TypeInv, Ticked
  <2>2. t # Idle => t \in Pids /\ state[t] = "Running" /\ ~Contains(runnable, t)
    BY <2>1 DEF ListsMatchStates
  <2>3. /\ runnable' = IF t # Idle THEN Append(runnable, t) ELSE runnable
        /\ state' = [state EXCEPT ![t] = "Runnable"]
        /\ current' = NoProcess
        /\ phase' = "unblock"
        /\ cursor' = 1
        /\ UNCHANGED <<blocked, blocker, waiter, finished, ready, next_pid,
                       current_TCB, ticks, panic>>
    BY <1>2, <2>1, <2>2 DEF TickPreempt
  <2> HIDE DEF t
  <2>4. /\ runnable' \in Seq(Pids)
        /\ IsInjective(runnable')
        /\ \A x : Contains(runnable', x) <=> (Contains(runnable, x) \/ (t # Idle /\ x = t))
    <3>1. runnable \in Seq(Pids) /\ IsInjective(runnable)
      BY DEF TypeInv, ListsMatchStates
    <3>2. CASE t = Idle
      BY <2>3, <3>1, <3>2
    <3>3. CASE t # Idle
      BY <2>2, <2>3, <3>1, <3>3, AppendMember
    <3> QED
      BY <3>2, <3>3
  <2>5. TypeInv'
    BY <2>1, <2>3, <2>4 DEF TypeInv, States
  <2>6. ListsMatchStates'
    BY <2>1, <2>2, <2>3, <2>4 DEF ListsMatchStates, TypeInv
  <2>7. TCBOfCurrent' /\ SchedulerAssertionsHold' /\ PanicHangs'
    <3>1. panic = NoPanic
      BY <1>2 DEF TickPreempt, PanicHangs
    <3> QED
      BY <2>1, <2>3, <3>1
         DEF TCBOfCurrent, SchedulerAssertionsHold, TypeInv, PanicHangs, NoPanic,
             NotBlockedFailed
  <2>8. WaitersAreWaiting'
    BY <2>1, <2>3 DEF WaitersAreWaiting, Waiting, Alive, TypeInv
  <2>9. IdleWhenEmpty' /\ IdleStaysUp'
    BY <2>1, <2>3 DEF IdleWhenEmpty, IdleStaysUp, TypeInv
  <2> QED
    BY <2>5, <2>6, <2>7, <2>8, <2>9
<1> QED
  BY <1>1, <1>2 DEF Tick

\* The node the loop looks at, and what removing it would leave.
LEMMA VisitedNode ==
    ASSUME SchedulerInv, NEW can, VisitBlocked(can)
    PROVE  LET p == blocked[cursor] IN
           /\ cursor \in 1..Len(blocked) /\ Len(blocked) \in Nat
           /\ p \in Processes
           /\ Contains(blocked, p)
           /\ p \in Pids => state[p] = "Blocked" /\ blocker[p] # "nullptr"
           /\ RemoveAt(blocked, cursor) \in Seq(Processes)
           /\ IsInjective(RemoveAt(blocked, cursor))
           /\ \A x : Contains(RemoveAt(blocked, cursor), x) <=> (Contains(blocked, x) /\ x # p)
<1> USE DEF SchedulerInv
<1> DEFINE p == blocked[cursor]
<1>1. cursor \in 1..Len(blocked) /\ Len(blocked) \in Nat
  <2>1. cursor <= Len(blocked)
    BY DEF VisitBlocked
  <2>2. Len(blocked) \in Nat /\ cursor \in Nat \ {0}
    BY DEF TypeInv
  <2> QED
    BY <2>1, <2>2
<1>2. /\ p \in Processes
      /\ Contains(blocked, p)
      /\ RemoveAt(blocked, cursor) \in Seq(Processes)
      /\ IsInjective(RemoveAt(blocked, cursor))
      /\ \A x : Contains(RemoveAt(blocked, cursor), x) <=> (Contains(blocked, x) /\ x # p)
  BY <1>1, RemoveAtMember DEF TypeInv, ListsMatchStates
<1>3. p \in Pids => state[p] = "Blocked" /\ blocker[p] # "nullptr"
  BY <1>2 DEF ListsMatchStates
<1> HIDE DEF p
<1> QED
  BY <1>1, <1>2, <1>3 DEF p

(***************************************************************************)
(* One turn of the loop of try_unblock_tasks, whatever blocker is asked:   *)
(* as long as it does not let a process go whose waitee has not ended.     *)
(* The kernel panics on the node of idle, and on no other.                 *)
(***************************************************************************)
LEMMA VisitBlockedInv ==
    ASSUME SchedulerInv, NEW can \in BOOLEAN, VisitBlocked(can),
           can => ~Waiting(blocked[cursor])
    PROVE  /\ SchedulerInv'
           /\ IdleNotBlocked => IdleNotBlocked' /\ blocked[cursor] \in Pids
           /\ \/ /\ blocked[cursor] = Idle
                 /\ panic' = NotBlockedFailed /\ phase' = "hang"
                 /\ UNCHANGED <<lists, procs, current>>
              \/ /\ panic' = panic
                 /\ \A q \in Pids : state'[q] = "Blocked" <=>
                                       (state[q] = "Blocked" /\ ~(can /\ q = blocked[cursor]))
                 /\ \A q \in Pids : blocker'[q] \in {blocker[q], "nullptr"}
                 /\ blocked[cursor] \in Pids /\ state[blocked[cursor]] = "Blocked"
                 /\ UNCHANGED <<waiter, finished, next_pid, current, phase>>
<1> USE Names DEF SchedulerInv
<1> DEFINE p == blocked[cursor]
<1>1. /\ cursor \in 1..Len(blocked) /\ Len(blocked) \in Nat
      /\ p \in Processes
      /\ Contains(blocked, p)
      /\ p \in Pids => state[p] = "Blocked" /\ blocker[p] # "nullptr"
      /\ RemoveAt(blocked, cursor) \in Seq(Processes)
      /\ IsInjective(RemoveAt(blocked, cursor))
      /\ \A x : Contains(RemoveAt(blocked, cursor), x) <=> (Contains(blocked, x) /\ x # p)
  BY VisitedNode
<1>2. phase = "unblock" /\ panic = NoPanic
  BY DEF VisitBlocked, PanicHangs
<1>3. IF state[p] # "Blocked" \/ blocker[p] = "nullptr"
      THEN Panic(NotBlockedFailed) ELSE IF can THEN Unblock(p) ELSE StayBlocked
  BY DEF VisitBlocked
<1>4. (can => ~Waiting(p)) /\ (IdleNotBlocked => p # Idle)
  BY <1>1 DEF IdleNotBlocked
<1>5. SUFFICES
        /\ SchedulerInv'
        /\ IdleNotBlocked => IdleNotBlocked'
        /\ \/ /\ p = Idle
              /\ panic' = NotBlockedFailed /\ phase' = "hang"
              /\ UNCHANGED <<lists, procs, current>>
           \/ /\ panic' = panic
              /\ \A q \in Pids : state'[q] = "Blocked" <=>
                                    (state[q] = "Blocked" /\ ~(can /\ q = p))
              /\ \A q \in Pids : blocker'[q] \in {blocker[q], "nullptr"}
              /\ p \in Pids /\ state[p] = "Blocked"
              /\ UNCHANGED <<waiter, finished, next_pid, current, phase>>
  BY <1>1, <1>4
<1>6. CASE p = Idle
  <2>1. state[p] # "Blocked"
    BY <1>6 DEF IdleStaysUp
  <2>2. /\ panic' = NotBlockedFailed /\ phase' = "hang"
        /\ UNCHANGED <<runnable, blocked, state, blocker, waiter, finished, ready,
                       next_pid, current, current_TCB, ticks, cursor>>
    BY <1>3, <2>1 DEF Panic, lists, procs
  <2>3. blocked'[cursor'] = Idle
    BY <1>6, <2>2
  <2> HIDE DEF p
  <2>4. TypeInv'
    BY <2>2 DEF TypeInv, Assertions
  <2>5. ListsMatchStates' /\ TCBOfCurrent' /\ WaitersAreWaiting'
    BY <2>2 DEF ListsMatchStates, TCBOfCurrent, WaitersAreWaiting, Waiting, Alive
  <2>6. SchedulerAssertionsHold' /\ IdleWhenEmpty' /\ IdleStaysUp' /\ PanicHangs'
    BY <2>2, <2>3 DEF SchedulerAssertionsHold, IdleWhenEmpty, IdleStaysUp, PanicHangs
  <2>7. IdleNotBlocked => IdleNotBlocked'
    BY <2>2 DEF IdleNotBlocked
  <2> QED
    BY <1>6, <2>2, <2>4, <2>5, <2>6, <2>7 DEF lists, procs
<1>7. ASSUME p \in Pids, ~can
      PROVE  /\ SchedulerInv'
             /\ IdleNotBlocked => IdleNotBlocked'
             /\ UNCHANGED <<state, blocker, waiter, finished, next_pid, current, phase, panic>>
  <2>1. /\ cursor' = cursor + 1
        /\ UNCHANGED <<runnable, blocked, state, blocker, waiter, finished, ready,
                       next_pid, current, current_TCB, ticks, phase, panic>>
    BY <1>1, <1>3, <1>7 DEF StayBlocked, lists, procs
  <2> HIDE DEF p
  <2>2. TypeInv'
    BY <2>1 DEF TypeInv
  <2>3. ListsMatchStates' /\ TCBOfCurrent' /\ WaitersAreWaiting'
    BY <2>1 DEF ListsMatchStates, TCBOfCurrent, WaitersAreWaiting, Waiting, Alive
  <2>4. SchedulerAssertionsHold' /\ IdleWhenEmpty' /\ IdleStaysUp' /\ PanicHangs'
    BY <1>2, <2>1 DEF SchedulerAssertionsHold, IdleWhenEmpty, IdleStaysUp, PanicHangs,
                      NoPanic, NotBlockedFailed
  <2>5. IdleNotBlocked => IdleNotBlocked'
    BY <2>1 DEF IdleNotBlocked
  <2> QED
    BY <2>1, <2>2, <2>3, <2>4, <2>5
<1>8. ASSUME p \in Pids, can
      PROVE  /\ SchedulerInv'
             /\ IdleNotBlocked => IdleNotBlocked'
             /\ state' = [state EXCEPT ![p] = "Runnable"]
             /\ blocker' = [blocker EXCEPT ![p] = "nullptr"]
             /\ UNCHANGED <<waiter, finished, next_pid, current, phase, panic>>
  <2>1. /\ state' = [state EXCEPT ![p] = "Runnable"]
        /\ blocker' = [blocker EXCEPT ![p] = "nullptr"]
        /\ blocked' = RemoveAt(blocked, cursor)
        /\ runnable' = Append(runnable, p)
        /\ cursor' \in {cursor, Len(blocked)}
        /\ ready' = ready \ {p}
        /\ UNCHANGED <<waiter, finished, next_pid, current, current_TCB, ticks,
                       phase, panic>>
    BY <1>1, <1>3, <1>8 DEF Unblock
  <2> HIDE DEF p
  <2>2. ~Contains(runnable, p)
    BY <1>1, <1>8 DEF ListsMatchStates
  <2>3. /\ runnable' \in Seq(Pids)
        /\ IsInjective(runnable')
        /\ \A x : Contains(runnable', x) <=> (Contains(runnable, x) \/ x = p)
    BY <1>8, <2>1, <2>2, AppendMember DEF TypeInv, ListsMatchStates
  <2>4. TypeInv'
    BY <1>1, <1>8, <2>1, <2>3 DEF TypeInv, States, Blockers
  <2>5. ListsMatchStates'
    BY <1>1, <1>8, <2>1, <2>3 DEF ListsMatchStates, TypeInv
  <2>6. TCBOfCurrent' /\ IdleWhenEmpty'
    BY <1>2, <1>8, <2>1 DEF TCBOfCurrent, IdleWhenEmpty, TypeInv
  <2>7. SchedulerAssertionsHold' /\ PanicHangs'
    BY <1>2, <2>1 DEF SchedulerAssertionsHold, PanicHangs, NoPanic, NotBlockedFailed
  <2>8. WaitersAreWaiting'
    BY <1>4, <1>8, <2>1 DEF WaitersAreWaiting, Waiting, Alive, TypeInv
  <2>9. IdleStaysUp' /\ (IdleNotBlocked => IdleNotBlocked')
    BY <1>1, <1>8, <2>1 DEF IdleStaysUp, IdleNotBlocked, TypeInv
  <2> QED
    BY <2>1, <2>4, <2>5, <2>6, <2>7, <2>8, <2>9
<1>9. ASSUME p \in Pids, can, NEW q \in Pids
      PROVE  /\ state'[q] = "Blocked" <=> (state[q] = "Blocked" /\ ~(can /\ q = p))
             /\ blocker'[q] \in {blocker[q], "nullptr"}
  <2> HIDE DEF p
  <2>1. state'[q] = IF q = p THEN "Runnable" ELSE state[q]
    BY <1>8, <1>9 DEF TypeInv
  <2>2. blocker'[q] = IF q = p THEN "nullptr" ELSE blocker[q]
    BY <1>8, <1>9 DEF TypeInv
  <2> QED
    BY <2>1, <2>2, <1>9
<1> HIDE DEF p
<1> HIDE DEF SchedulerInv
<1>10. CASE p \in Pids /\ ~can
  BY <1>1, <1>7, <1>10
<1>11. CASE p \in Pids /\ can
  BY <1>1, <1>8, <1>9, <1>11
<1> QED
  BY <1>1, <1>6, <1>10, <1>11

\* The loop as the scheduler alone sees it asks a Boolean, and lets no waiter go.
LEMMA LoopAsksBoolean ==
    ASSUME SchedulerInv, TryUnblock
    PROVE  /\ VisitBlocked(can_unblock(blocked[cursor]))
           /\ can_unblock(blocked[cursor]) \in BOOLEAN
           /\ can_unblock(blocked[cursor]) => ~Waiting(blocked[cursor])
<1> DEFINE p == blocked[cursor]
           can == can_unblock(p)
<1>1. VisitBlocked(can)
  BY DEF TryUnblock
<1>2. p \in Processes
  BY <1>1, VisitedNode
<1> HIDE DEF p
<1>3. can \in BOOLEAN
  <2>1. finished[p] \in BOOLEAN
    BY <1>2 DEF SchedulerInv, TypeInv
  <2>2. CASE blocker[p] = "wait"
    <3>1. can_unblock(p) = finished[p]
      BY <2>2 DEF can_unblock
    <3> QED
      BY <2>1, <3>1
  <2>3. CASE blocker[p] # "wait"
    <3>1. can_unblock(p) = (p \in ready)
      BY <2>3 DEF can_unblock
    <3> QED
      BY <3>1
  <2> QED
    BY <2>2, <2>3
<1>4. can => ~Waiting(p)
  BY DEF can_unblock, Waiting
<1> USE DEF p
<1> HIDE DEF can
<1> QED
  BY <1>1, <1>3, <1>4 DEF can

LEMMA TryUnblockInv == SchedulerInv /\ TryUnblock => SchedulerInv'
  BY LoopAsksBoolean, VisitBlockedInv

\* The end of tick: pick_next_and_switch after the loop.
LEMMA TickSwitchInv == SchedulerInv /\ TickSwitch => SchedulerInv'
<1> SUFFICES ASSUME SchedulerInv, TickSwitch PROVE SchedulerInv'
  OBVIOUS
<1> USE Names DEF SchedulerInv
<1>1. /\ SwitchToNext(state, current_TCB)
      /\ UNCHANGED <<blocked, blocker, waiter, finished, ready, next_pid>>
      /\ current = NoProcess
  BY DEF TickSwitch, TCBOfCurrent
<1>2. /\ runnable \in Seq(Pids) /\ IsInjective(runnable)
      /\ state \in [Processes -> States]
      /\ \A p \in Pids : Contains(runnable, p) <=> state[p] = "Runnable"
      /\ \A p \in Pids : state[p] # "Running"
      /\ current_TCB \in Processes => state[current_TCB] # "Deleted"
  BY <1>1 DEF TypeInv, ListsMatchStates, TCBOfCurrent
<1>3. /\ runnable' \in Seq(Pids)
      /\ IsInjective(runnable')
      /\ current' \in Processes
      /\ current_TCB' = current'
      /\ current' \in Pids => state[current'] = "Runnable"
      /\ state' \in [Processes -> States]
      /\ state'[current'] = "Running"
      /\ \A p \in Processes : p # current' => state'[p] = state[p]
      /\ \A p \in Pids : Contains(runnable', p) <=> state'[p] = "Runnable"
      /\ \A p \in Pids : state'[p] = "Running" <=> current' = p
      /\ ticks' = 0 /\ cursor' = 1 /\ panic' = NoPanic /\ phase' = "cpu"
      /\ (current' = Idle => runnable' = <<>>)
      /\ state'[Idle] # "Blocked"
  BY <1>1, <1>2, SwitchLemma DEF IdleStaysUp
<1>4. TypeInv'
  BY <1>1, <1>3, SchedulerAssumption DEF TypeInv, SchedulerAssumption, NoPanic
<1>5. ListsMatchStates'
  BY <1>1, <1>3 DEF ListsMatchStates
<1>6. /\ TCBOfCurrent' /\ SchedulerAssertionsHold'
      /\ IdleWhenEmpty' /\ IdleStaysUp' /\ PanicHangs'
  BY <1>3 DEF TCBOfCurrent, SchedulerAssertionsHold, IdleWhenEmpty, IdleStaysUp, PanicHangs,
              NoPanic, NotBlockedFailed
<1>7. WaitersAreWaiting'
  BY <1>1, <1>3 DEF WaitersAreWaiting, Waiting, Alive
<1> QED
  BY <1>4, <1>5, <1>6, <1>7

(***************************************************************************)
(* block_current: the lists go on matching the task states, and nobody     *)
(* dies or is born.                                                        *)
(***************************************************************************)
LEMMA BlockLemma ==
    ASSUME SchedulerInv, InProcess, NEW b \in {"wait", "event"},
           block_current(b), UNCHANGED next_pid
    PROVE  /\ runnable' \in Seq(Pids) /\ blocked' \in Seq(Processes)
           /\ blocked' = Append(blocked, current)
           /\ state' \in [Processes -> States]
           /\ blocker' = [blocker EXCEPT ![current] = b]
           /\ current' \in Processes /\ current_TCB' = current'
           /\ ticks' = 0 /\ cursor' = 1 /\ panic' = NoPanic /\ phase' = "cpu"
           /\ blocker[current] = "nullptr"
           /\ current' \in Pids => state[current'] = "Runnable" /\ current' # current
           /\ \A q \in Pids : state'[q] = IF q = current' THEN "Running"
                                         ELSE IF q = current THEN "Blocked" ELSE state[q]
           /\ \A q \in Pids : Alive(q)' <=> Alive(q)
           /\ ListsMatchStates'
           /\ TCBOfCurrent'
           /\ IdleWhenEmpty' /\ IdleStaysUp' /\ PanicHangs'
           /\ SchedulerAssertionsHold'
           /\ IdleNotBlocked => IdleNotBlocked'
<1> USE Names DEF SchedulerInv
<1> DEFINE st == [state EXCEPT ![current] = "Blocked"]
<1>1. current \in Pids /\ state[current] = "Running" /\ blocker[current] = "nullptr"
      /\ current_TCB = current
  BY DEF InProcess, ListsMatchStates, TCBOfCurrent
<1>2. /\ blocker' = [blocker EXCEPT ![current] = b]
      /\ blocked' = Append(blocked, current)
      /\ SwitchToNext(st, current_TCB)
  BY DEF block_current
<1>3. /\ st \in [Processes -> States]
      /\ st[current] = "Blocked"
      /\ \A p \in Processes : p # current => st[p] = state[p]
  BY <1>1 DEF TypeInv, States
<1> HIDE DEF st
<1>4. /\ runnable \in Seq(Pids) /\ IsInjective(runnable)
      /\ \A p \in Pids : Contains(runnable, p) <=> st[p] = "Runnable"
      /\ \A p \in Pids : st[p] # "Running"
      /\ current_TCB \in Processes => st[current_TCB] # "Deleted"
  BY <1>1, <1>3 DEF TypeInv, ListsMatchStates
<1>5. /\ runnable' \in Seq(Pids)
      /\ IsInjective(runnable')
      /\ current' \in Processes
      /\ current_TCB' = current'
      /\ current' \in Pids => st[current'] = "Runnable"
      /\ state' \in [Processes -> States]
      /\ state'[current'] = "Running"
      /\ \A p \in Processes : p # current' => state'[p] = st[p]
      /\ \A p \in Pids : Contains(runnable', p) <=> state'[p] = "Runnable"
      /\ \A p \in Pids : state'[p] = "Running" <=> current' = p
      /\ ticks' = 0 /\ cursor' = 1 /\ panic' = NoPanic /\ phase' = "cpu"
      /\ (current' = Idle => runnable' = <<>>)
      /\ state'[Idle] # "Blocked"
  <2>1. st[Idle] # "Blocked"
    BY <1>1, <1>3 DEF IdleStaysUp
  <2> QED
    BY <1>2, <1>3, <1>4, <2>1, SwitchLemma
<1>6. ~Contains(blocked, current)
  BY <1>1 DEF ListsMatchStates
<1>7. /\ blocked' \in Seq(Processes)
      /\ IsInjective(blocked')
      /\ \A x : Contains(blocked', x) <=> (Contains(blocked, x) \/ x = current)
  BY <1>1, <1>2, <1>6, AppendMember DEF TypeInv, ListsMatchStates
<1>8. ASSUME NEW p \in Pids
      PROVE  /\ state'[p] = "Blocked" <=> (state[p] = "Blocked" \/ p = current)
             /\ state'[p] = "Unborn" <=> state[p] = "Unborn"
             /\ Alive(p)' <=> Alive(p)
  BY <1>1, <1>3, <1>5 DEF Alive
<1>9. \A p \in Pids : blocker'[p] # "nullptr" <=> (blocker[p] # "nullptr" \/ p = current)
  BY <1>1, <1>2 DEF TypeInv
<1>10. ListsMatchStates'
  BY <1>5, <1>7, <1>8, <1>9 DEF ListsMatchStates
<1>11. TCBOfCurrent'
  BY <1>5 DEF TCBOfCurrent
<1>12. /\ current' \in Pids => state[current'] = "Runnable" /\ current' # current
       /\ \A q \in Pids : state'[q] = IF q = current' THEN "Running"
                                     ELSE IF q = current THEN "Blocked" ELSE state[q]
  BY <1>1, <1>3, <1>5
<1>13. /\ IdleWhenEmpty' /\ IdleStaysUp' /\ PanicHangs'
       /\ SchedulerAssertionsHold'
  BY <1>5 DEF IdleWhenEmpty, IdleStaysUp, PanicHangs, SchedulerAssertionsHold, NoPanic,
              NotBlockedFailed
<1>14. IdleNotBlocked => IdleNotBlocked'
  BY <1>1, <1>7 DEF IdleNotBlocked
<1> QED
  BY <1>1, <1>2, <1>5, <1>7, <1>8, <1>10, <1>11, <1>12, <1>13, <1>14

\* A system call that blocks on an event.
LEMMA BlockOnEventInv == SchedulerInv /\ BlockOnEvent => SchedulerInv'
<1> SUFFICES ASSUME SchedulerInv, BlockOnEvent PROVE SchedulerInv'
  OBVIOUS
<1> USE Names
<1>1. /\ InProcess /\ block_current("event")
      /\ ready' \in {ready, ready \cup {current}}
      /\ UNCHANGED <<waiter, finished, next_pid>>
      /\ current \in Pids
  BY DEF BlockOnEvent, InProcess
<1>2. /\ runnable' \in Seq(Pids) /\ blocked' \in Seq(Processes)
      /\ state' \in [Processes -> States]
      /\ blocker' = [blocker EXCEPT ![current] = "event"]
      /\ current' \in Processes /\ current_TCB' = current'
      /\ ticks' = 0 /\ cursor' = 1 /\ panic' = NoPanic /\ phase' = "cpu"
      /\ blocker[current] = "nullptr"
      /\ \A q \in Pids : Alive(q)' <=> Alive(q)
      /\ ListsMatchStates'
      /\ TCBOfCurrent' /\ SchedulerAssertionsHold'
      /\ IdleWhenEmpty' /\ IdleStaysUp' /\ PanicHangs'
  BY <1>1, BlockLemma
<1>3. TypeInv'
  BY <1>1, <1>2, SchedulerAssumption
     DEF SchedulerInv, TypeInv, SchedulerAssumption, Blockers
<1>4. \A p \in Pids : Waiting(p)' <=> Waiting(p)
  BY <1>1, <1>2 DEF SchedulerInv, TypeInv, Waiting
<1>5. WaitersAreWaiting'
  BY <1>1, <1>2, <1>4 DEF SchedulerInv, TypeInv, WaitersAreWaiting, Waiting
<1> QED
  BY <1>2, <1>3, <1>5 DEF SchedulerInv

\* A handler blocks idle: idle has a node in the blocked list and goes on running.
LEMMA IdleBlocksInv == SchedulerInv /\ IdleBlocks => SchedulerInv'
<1> SUFFICES ASSUME SchedulerInv, IdleBlocks PROVE SchedulerInv'
  OBVIOUS
<1> USE Names DEF SchedulerInv
<1> DEFINE st == [state EXCEPT ![Idle] = "Blocked"]
<1>1. /\ current = Idle /\ runnable = <<>> /\ ~Contains(blocked, Idle)
      /\ blocker' = [blocker EXCEPT ![Idle] = "event"]
      /\ blocked' = Append(blocked, Idle)
      /\ SwitchToNext(st, current_TCB)
      /\ current_TCB = Idle
      /\ UNCHANGED <<waiter, finished, ready, next_pid>>
  BY DEF IdleBlocks, block_current, IdleWhenEmpty, TCBOfCurrent
<1>2. /\ st \in [Processes -> States]
      /\ st[Idle] = "Blocked"
      /\ \A p \in Pids : st[p] = state[p]
  BY DEF TypeInv, States
<1> HIDE DEF st
<1>3. /\ runnable \in Seq(Pids) /\ IsInjective(runnable)
      /\ \A p \in Pids : Contains(runnable, p) <=> st[p] = "Runnable"
      /\ \A p \in Pids : st[p] # "Running"
      /\ current_TCB \in Processes => st[current_TCB] # "Deleted"
  BY <1>1, <1>2 DEF TypeInv, ListsMatchStates
<1>4. /\ runnable' \in Seq(Pids)
      /\ IsInjective(runnable')
      /\ current' \in Processes
      /\ current_TCB' = current'
      /\ current' \in Pids => st[current'] = "Runnable"
      /\ state' \in [Processes -> States]
      /\ state'[current'] = "Running"
      /\ \A p \in Processes : p # current' => state'[p] = st[p]
      /\ \A p \in Pids : Contains(runnable', p) <=> state'[p] = "Runnable"
      /\ \A p \in Pids : state'[p] = "Running" <=> current' = p
      /\ ticks' = 0 /\ cursor' = 1 /\ panic' = NoPanic /\ phase' = "cpu"
      /\ (current' = Idle => runnable' = <<>>)
      /\ state'[Idle] # "Blocked"
  BY <1>1, <1>2, <1>3, SwitchLemma
<1>5. /\ blocked' \in Seq(Processes)
      /\ IsInjective(blocked')
      /\ \A x : Contains(blocked', x) <=> (Contains(blocked, x) \/ x = Idle)
  BY <1>1, AppendMember DEF TypeInv, ListsMatchStates
<1>6. TypeInv'
  <2>1. blocker' \in [Processes -> Blockers] /\ panic' \in Assertions \cup {NoPanic}
    BY <1>1, <1>4 DEF TypeInv, Blockers
  <2>2. ticks' \in 0..TIME_SLICE_MS /\ cursor' \in Nat \ {0}
    BY <1>4, SchedulerAssumption DEF SchedulerAssumption
  <2> QED
    BY <1>1, <1>4, <1>5, <2>1, <2>2 DEF TypeInv
<1>7. ASSUME NEW p \in Pids
      PROVE  /\ state'[p] = "Blocked" <=> state[p] = "Blocked"
             /\ state'[p] = "Unborn" <=> state[p] = "Unborn"
             /\ Alive(p)' <=> Alive(p)
             /\ blocker'[p] = blocker[p]
  BY <1>1, <1>2, <1>4 DEF Alive, TypeInv
<1>8. ListsMatchStates'
  BY <1>1, <1>4, <1>5, <1>7 DEF ListsMatchStates
<1>9. /\ TCBOfCurrent' /\ SchedulerAssertionsHold'
      /\ IdleWhenEmpty' /\ IdleStaysUp' /\ PanicHangs'
  BY <1>4 DEF TCBOfCurrent, SchedulerAssertionsHold, IdleWhenEmpty, IdleStaysUp, PanicHangs,
              NoPanic, NotBlockedFailed
<1>10. WaitersAreWaiting'
  BY <1>1, <1>7 DEF WaitersAreWaiting, Waiting, TypeInv
<1> QED
  BY <1>6, <1>8, <1>9, <1>10

\* syscall_wait: the new waiter is told apart from every other one.
LEMMA WaitInv == ASSUME NEW pid \in Pids PROVE SchedulerInv /\ Wait(pid) => SchedulerInv'
<1> SUFFICES ASSUME SchedulerInv, Wait(pid) PROVE SchedulerInv'
  OBVIOUS
<1> USE Names
<1>1. CASE waiter[pid] # NoProcess
  <2>1. /\ panic' = SetWaiterFailed
        /\ phase' = "hang"
        /\ UNCHANGED <<runnable, blocked, state, blocker, waiter, finished, ready,
                       next_pid, current, current_TCB, ticks, cursor>>
    BY <1>1 DEF Wait, Panic, lists, procs
  <2>2. TypeInv'
    BY <2>1 DEF SchedulerInv, TypeInv, Assertions
  <2>3. ListsMatchStates' /\ WaitersAreWaiting'
    BY <2>1 DEF SchedulerInv, ListsMatchStates, WaitersAreWaiting, Waiting, Alive
  <2>4. /\ TCBOfCurrent' /\ SchedulerAssertionsHold'
        /\ IdleWhenEmpty' /\ IdleStaysUp' /\ PanicHangs'
    BY <2>1 DEF SchedulerInv, TCBOfCurrent, SchedulerAssertionsHold, IdleWhenEmpty,
                IdleStaysUp, PanicHangs, SetWaiterFailed, NotBlockedFailed
  <2> QED
    BY <2>2, <2>3, <2>4 DEF SchedulerInv
<1>2. CASE waiter[pid] = NoProcess
  <2>1. /\ InProcess /\ Listed(pid)
        /\ waiter' = [waiter EXCEPT ![pid] = current]
        /\ finished' = [finished EXCEPT ![current] = FALSE]
        /\ block_current("wait")
        /\ UNCHANGED <<ready, next_pid>>
        /\ current \in Pids
    BY <1>2 DEF Wait, InProcess
  <2>2. /\ runnable' \in Seq(Pids) /\ blocked' \in Seq(Processes)
        /\ state' \in [Processes -> States]
        /\ blocker' = [blocker EXCEPT ![current] = "wait"]
        /\ current' \in Processes /\ current_TCB' = current'
        /\ ticks' = 0 /\ cursor' = 1 /\ panic' = NoPanic /\ phase' = "cpu"
        /\ blocker[current] = "nullptr"
        /\ \A q \in Pids : Alive(q)' <=> Alive(q)
        /\ ListsMatchStates'
        /\ TCBOfCurrent' /\ SchedulerAssertionsHold'
        /\ IdleWhenEmpty' /\ IdleStaysUp' /\ PanicHangs'
    BY <2>1, BlockLemma
  <2>3. finished' \in [Processes -> BOOLEAN]
    BY <2>1 DEF SchedulerInv, TypeInv
  <2>4. TypeInv'
    BY <2>1, <2>2, <2>3, SchedulerAssumption
       DEF SchedulerInv, TypeInv, SchedulerAssumption, Blockers
  <2>5. Alive(pid)
    BY <2>1 DEF Listed, Alive, SchedulerInv, ListsMatchStates
  <2>6. ~finished'[current] /\ \A p \in Pids : p # current => finished'[p] = finished[p]
    BY <2>1 DEF SchedulerInv, TypeInv
  <2>7. /\ blocker'[current] = "wait"
        /\ \A p \in Pids : p # current => blocker'[p] = blocker[p]
    BY <2>1, <2>2 DEF SchedulerInv, TypeInv
  <2>8. /\ waiter'[pid] = current
        /\ \A q \in Pids : q # pid => waiter'[q] = waiter[q]
        /\ \A q \in Pids : waiter[q] \in Pids \cup {NoProcess}
    BY <2>1 DEF SchedulerInv, TypeInv
  <2>9. \A q \in Pids : waiter[q] # current
    BY <2>1, <2>2 DEF SchedulerInv, WaitersAreWaiting, Waiting
  <2>10. WaitersAreWaiting'
    BY <1>2, <2>1, <2>2, <2>5, <2>6, <2>7, <2>8, <2>9
       DEF SchedulerInv, WaitersAreWaiting, Waiting
  <2> QED
    BY <2>2, <2>4, <2>10 DEF SchedulerInv
<1> QED
  BY <1>1, <1>2

\* terminate_current with ~Process: the waiter learns of it, nobody else does.
LEMMA TerminateInv == SchedulerInv /\ Terminate => SchedulerInv'
<1> SUFFICES ASSUME SchedulerInv, Terminate PROVE SchedulerInv'
  OBVIOUS
<1> USE Names DEF SchedulerInv
<1> DEFINE st == [state EXCEPT ![current] = "Deleted"]
           w == waiter[current]
<1>1. /\ current \in Pids /\ state[current] = "Running" /\ blocker[current] = "nullptr"
      /\ current_TCB = current
  BY DEF Terminate, InProcess, ListsMatchStates, TCBOfCurrent
<1>2. /\ finished' = IF w # NoProcess THEN [finished EXCEPT ![w] = TRUE] ELSE finished
      /\ waiter' = [waiter EXCEPT ![current] = NoProcess]
      /\ SwitchToNext(st, NoProcess)
      /\ UNCHANGED <<blocked, blocker, ready, next_pid>>
  BY <1>1 DEF Terminate
<1>3. /\ st \in [Processes -> States]
      /\ st[current] = "Deleted"
      /\ \A p \in Processes : p # current => st[p] = state[p]
  BY <1>1 DEF TypeInv, States
<1> HIDE DEF st, w
<1>4. /\ runnable \in Seq(Pids) /\ IsInjective(runnable)
      /\ \A p \in Pids : Contains(runnable, p) <=> st[p] = "Runnable"
      /\ \A p \in Pids : st[p] # "Running"
  BY <1>1, <1>3 DEF TypeInv, ListsMatchStates
<1>5. /\ runnable' \in Seq(Pids)
      /\ IsInjective(runnable')
      /\ current' \in Processes
      /\ current_TCB' = current'
      /\ current' \in Pids => st[current'] = "Runnable"
      /\ state' \in [Processes -> States]
      /\ state'[current'] = "Running"
      /\ \A p \in Processes : p # current' => state'[p] = st[p]
      /\ \A p \in Pids : Contains(runnable', p) <=> state'[p] = "Runnable"
      /\ \A p \in Pids : state'[p] = "Running" <=> current' = p
      /\ ticks' = 0 /\ cursor' = 1 /\ panic' = NoPanic /\ phase' = "cpu"
      /\ (current' = Idle => runnable' = <<>>)
      /\ state'[Idle] # "Blocked"
  <2>1. st[Idle] # "Blocked"
    BY <1>1, <1>3 DEF IdleStaysUp
  <2> QED
    BY <1>2, <1>3, <1>4, <2>1, SwitchLemma
<1>6. ASSUME NEW p \in Pids
      PROVE  /\ state'[p] = "Blocked" <=> state[p] = "Blocked"
             /\ state'[p] = "Unborn" <=> state[p] = "Unborn"
             /\ Alive(p)' <=> (Alive(p) /\ p # current)
  BY <1>1, <1>3, <1>5 DEF Alive
<1>7. ListsMatchStates'
  BY <1>2, <1>5, <1>6 DEF ListsMatchStates
<1>8. /\ TCBOfCurrent' /\ SchedulerAssertionsHold'
      /\ IdleWhenEmpty' /\ IdleStaysUp' /\ PanicHangs'
  BY <1>5 DEF TCBOfCurrent, SchedulerAssertionsHold, IdleWhenEmpty, IdleStaysUp, PanicHangs,
              NoPanic, NotBlockedFailed
<1>9. /\ finished \in [Processes -> BOOLEAN] /\ waiter \in [Processes -> Pids \cup {NoProcess}]
      /\ w \in Pids \cup {NoProcess} /\ w = waiter[current]
  BY <1>1 DEF TypeInv, w
<1>10. /\ waiter'[current] = NoProcess
       /\ \A q \in Pids : q # current => waiter'[q] = waiter[q]
       /\ waiter' \in [Processes -> Pids \cup {NoProcess}]
  BY <1>1, <1>2, <1>9
<1>11. /\ finished' \in [Processes -> BOOLEAN]
       /\ w # NoProcess => finished'[w]
       /\ \A p \in Pids : p # w => finished'[p] = finished[p]
  <2>1. CASE w = NoProcess
    BY <1>2, <1>9, <2>1
  <2>2. CASE w # NoProcess
    BY <1>2, <1>9, <2>2
  <2> QED
    BY <2>1, <2>2
<1>12. TypeInv'
  BY <1>2, <1>5, <1>10, <1>11, SchedulerAssumption DEF TypeInv, SchedulerAssumption
<1>13. \A p \in Pids : (blocker'[p] = "wait" /\ ~finished'[p]) <=> (Waiting(p) /\ p # w)
  BY <1>2, <1>9, <1>11 DEF Waiting
<1>14. WaitersAreWaiting'
  <2>1. ASSUME NEW q \in Pids, waiter'[q] # NoProcess
        PROVE  Alive(q)' /\ blocker'[waiter'[q]] = "wait" /\ ~finished'[waiter'[q]]
    <3>1. q # current /\ waiter'[q] = waiter[q] /\ waiter[q] # w
      BY <1>1, <1>9, <1>10, <2>1 DEF WaitersAreWaiting
    <3>2. Alive(q) /\ Waiting(waiter[q]) /\ waiter[q] \in Pids
      BY <1>9, <2>1, <3>1 DEF WaitersAreWaiting
    <3> QED
      BY <1>6, <1>13, <3>1, <3>2
  <2>2. ASSUME NEW p \in Pids, blocker'[p] = "wait", ~finished'[p]
        PROVE  \E q \in Pids : waiter'[q] = p
    <3>1. Waiting(p) /\ p # w
      BY <1>13, <2>2
    <3>2. PICK q \in Pids : waiter[q] = p
      BY <3>1 DEF WaitersAreWaiting
    <3> QED
      BY <1>9, <1>10, <3>1, <3>2
  <2>3. \A q, r \in Pids : waiter'[q] = waiter'[r] /\ waiter'[q] # NoProcess => q = r
    BY <1>10 DEF WaitersAreWaiting
  <2> QED
    BY <2>1, <2>2, <2>3 DEF WaitersAreWaiting, Waiting
<1> QED
  BY <1>7, <1>8, <1>12, <1>14

\* Process::create and add_process: the new pid is fresh.
LEMMA AddProcessInv == SchedulerInv /\ AddProcess => SchedulerInv'
<1> SUFFICES ASSUME SchedulerInv, AddProcess PROVE SchedulerInv'
  OBVIOUS
<1> USE Names DEF SchedulerInv
<1>1. /\ next_pid <= MaxPid
      /\ state' = [state EXCEPT ![next_pid] = "Runnable"]
      /\ runnable' = Append(runnable, next_pid)
      /\ next_pid' = next_pid + 1
      /\ UNCHANGED <<blocked, blocker, waiter, finished, ready, current, current_TCB,
                     ticks, phase, cursor, panic>>
  BY DEF AddProcess, cpu
<1>2. next_pid \in Pids /\ next_pid \in Nat /\ next_pid + 1 \in 1..(MaxPid + 1)
  BY <1>1, SchedulerAssumption DEF TypeInv, Pids, SchedulerAssumption
<1>3. state[next_pid] = "Unborn"
  BY <1>2 DEF ListsMatchStates
<1>4. /\ runnable' \in Seq(Pids)
      /\ IsInjective(runnable')
      /\ \A x : Contains(runnable', x) <=> (Contains(runnable, x) \/ x = next_pid)
  <2>1. ~Contains(runnable, next_pid) /\ IsInjective(runnable) /\ runnable \in Seq(Pids)
    BY <1>2, <1>3 DEF ListsMatchStates, TypeInv
  <2> QED
    BY <1>1, <1>2, <2>1, AppendMember
<1>5. /\ state' \in [Processes -> States]
      /\ state'[next_pid] = "Runnable"
      /\ \A p \in Processes : p # next_pid => state'[p] = state[p]
  BY <1>1, <1>2 DEF TypeInv, States
<1>6. TypeInv'
  BY <1>1, <1>2, <1>4, <1>5 DEF TypeInv
<1>7. \A p \in Pids : next_pid' <= p <=> (next_pid <= p /\ p # next_pid)
  BY <1>1, <1>2 DEF Pids
<1>8. ListsMatchStates'
  BY <1>1, <1>2, <1>3, <1>4, <1>5, <1>7 DEF ListsMatchStates
<1>9. /\ TCBOfCurrent' /\ SchedulerAssertionsHold'
      /\ IdleWhenEmpty' /\ IdleStaysUp' /\ PanicHangs'
  BY <1>1, <1>2, <1>5 DEF TCBOfCurrent, SchedulerAssertionsHold, IdleWhenEmpty, IdleStaysUp,
                          PanicHangs, AddProcess, InProcess
<1>10. WaitersAreWaiting'
  BY <1>1, <1>3, <1>5 DEF WaitersAreWaiting, Waiting, Alive
<1> QED
  BY <1>6, <1>8, <1>9, <1>10

\* The condition of an event blocker comes and goes.
LEMMA EventInv ==
    ASSUME NEW p \in Pids
    PROVE  SchedulerInv /\ (EventOccurs(p) \/ EventWithdrawn(p)) => SchedulerInv'
<1> SUFFICES ASSUME SchedulerInv, EventOccurs(p) \/ EventWithdrawn(p) PROVE SchedulerInv'
  OBVIOUS
<1>1. /\ ready' \in {ready \cup {p}, ready \ {p}}
      /\ UNCHANGED <<runnable, blocked, state, blocker, waiter, finished, next_pid, current,
                     current_TCB, ticks, phase, cursor, panic>>
  BY DEF EventOccurs, EventWithdrawn, lists, cpu
<1>2. TypeInv'
  BY <1>1 DEF SchedulerInv, TypeInv
<1>3. ListsMatchStates' /\ WaitersAreWaiting'
  BY <1>1 DEF SchedulerInv, ListsMatchStates, WaitersAreWaiting, Waiting, Alive
<1>4. /\ TCBOfCurrent' /\ SchedulerAssertionsHold'
      /\ IdleWhenEmpty' /\ IdleStaysUp' /\ PanicHangs'
  BY <1>1 DEF SchedulerInv, TCBOfCurrent, SchedulerAssertionsHold, IdleWhenEmpty,
              IdleStaysUp, PanicHangs
<1> QED
  BY <1>2, <1>3, <1>4 DEF SchedulerInv

\* A step that changes nothing of the scheduler.
LEMMA StutterInv == SchedulerInv /\ UNCHANGED vars => SchedulerInv'
<1> SUFFICES ASSUME SchedulerInv, UNCHANGED vars PROVE SchedulerInv'
  OBVIOUS
<1>1. UNCHANGED <<runnable, blocked, state, blocker, waiter, finished, ready, next_pid,
                 current, current_TCB, ticks, phase, cursor, panic>>
  BY DEF vars, lists, procs, cpu
<1>2. TypeInv'
  BY <1>1 DEF SchedulerInv, TypeInv
<1>3. ListsMatchStates' /\ WaitersAreWaiting'
  BY <1>1 DEF SchedulerInv, ListsMatchStates, WaitersAreWaiting, Waiting, Alive
<1>4. /\ TCBOfCurrent' /\ SchedulerAssertionsHold'
      /\ IdleWhenEmpty' /\ IdleStaysUp' /\ PanicHangs'
  BY <1>1 DEF SchedulerInv, TCBOfCurrent, SchedulerAssertionsHold, IdleWhenEmpty,
              IdleStaysUp, PanicHangs
<1> QED
  BY <1>2, <1>3, <1>4 DEF SchedulerInv

\* Every step keeps the invariant: one lemma per action.
LEMMA NextInv == SchedulerInv /\ [Next]_vars => SchedulerInv'
  BY TickInv, TryUnblockInv, TickSwitchInv, AddProcessInv, BlockOnEventInv, IdleBlocksInv,
     WaitInv, TerminateInv, EventInv, StutterInv DEF Next, Hang

-----------------------------------------------------------------------------
(* What each part of the scheduler does to a process, for the proofs of    *)
(* the refinement and of the modules that build on the scheduler.          *)

\* tick up to the loop: the process on the CPU goes on or is put back.
LEMMA TickEffect ==
    ASSUME SchedulerInv, Tick
    PROVE  /\ UNCHANGED <<blocked, blocker, waiter, finished, ready, next_pid, panic>>
           /\ \/ UNCHANGED <<state, current, phase>>
              \/ /\ phase' = "unblock" /\ current' = NoProcess
                 /\ state' \in [Processes -> States]
                 /\ \A p \in Pids : state'[p] = IF p = current THEN "Runnable" ELSE state[p]
<1> USE Names DEF SchedulerInv
<1>1. CASE TickContinue
  BY <1>1 DEF TickContinue, lists, procs
<1>2. CASE TickPreempt
  <2>1. /\ Ticked \in Processes /\ (Ticked # Idle => Ticked = current)
        /\ (Ticked = Idle => current \notin Pids)
    BY DEF TypeInv, Ticked
  <2>2. Ticked # Idle => state[Ticked] = "Running" /\ ~Contains(runnable, Ticked)
    BY <2>1 DEF ListsMatchStates
  <2>3. /\ state' = [state EXCEPT ![Ticked] = "Runnable"]
        /\ phase' = "unblock" /\ current' = NoProcess
        /\ UNCHANGED <<blocked, blocker, waiter, finished, ready, next_pid, panic>>
    BY <1>2, <2>1, <2>2 DEF TickPreempt
  <2>4. /\ state' \in [Processes -> States]
        /\ \A p \in Pids : state'[p] = IF p = current THEN "Runnable" ELSE state[p]
    BY <2>1, <2>3 DEF TypeInv, States
  <2> QED
    BY <2>3, <2>4
<1> QED
  BY <1>1, <1>2 DEF Tick

\* One turn of the loop: a process that does not wait for a live one is let go;
\* the kernel panics on the node of idle.
LEMMA TryUnblockEffect ==
    ASSUME SchedulerInv, TryUnblock
    PROVE  /\ UNCHANGED <<waiter, finished, next_pid, current>>
           /\ IdleNotBlocked => /\ UNCHANGED <<phase, panic>>
                                /\ blocked[cursor] \in Pids /\ IdleNotBlocked'
           /\ \/ UNCHANGED state
              \/ /\ blocked[cursor] \in Pids /\ state[blocked[cursor]] = "Blocked"
                 /\ ~Waiting(blocked[cursor])
                 /\ state' = [state EXCEPT ![blocked[cursor]] = "Runnable"]
<1> USE Names
<1> DEFINE p == blocked[cursor]
<1>1. /\ VisitBlocked(can_unblock(p))
      /\ can_unblock(p) => ~Waiting(p)
      /\ p \in Processes
      /\ p \in Pids => state[p] = "Blocked" /\ blocker[p] # "nullptr"
  BY LoopAsksBoolean, VisitedNode
<1>2. IdleNotBlocked => p \in Pids /\ IdleNotBlocked'
  BY LoopAsksBoolean, VisitBlockedInv
<1>3. IF state[p] # "Blocked" \/ blocker[p] = "nullptr"
      THEN Panic(NotBlockedFailed)
      ELSE IF can_unblock(p) THEN Unblock(p) ELSE StayBlocked
  BY <1>1 DEF VisitBlocked
<1>4. p = Idle => Panic(NotBlockedFailed)
  BY <1>3 DEF SchedulerInv, IdleStaysUp
<1>5. p \in Pids => IF can_unblock(p) THEN Unblock(p) ELSE StayBlocked
  BY <1>1, <1>3
<1> HIDE DEF p
<1>6. CASE p = Idle
  BY <1>2, <1>4, <1>6 DEF Panic, procs, p
<1>7. CASE p \in Pids
  BY <1>1, <1>2, <1>5, <1>7 DEF Unblock, StayBlocked, procs, p
<1> QED
  BY <1>1, <1>6, <1>7

\* The end of tick: a process that was runnable, or idle, gets the CPU.
LEMMA TickSwitchEffect ==
    ASSUME SchedulerInv, TickSwitch
    PROVE  /\ UNCHANGED <<blocked, blocker, waiter, finished, ready, next_pid>>
           /\ panic' = NoPanic /\ phase' = "cpu" /\ current' \in Processes
           /\ current = NoProcess
           /\ current' \in Pids => state[current'] = "Runnable"
           /\ \A p \in Pids : state'[p] = IF p = current' THEN "Running" ELSE state[p]
<1> USE Names DEF SchedulerInv
<1>1. /\ SwitchToNext(state, current_TCB)
      /\ UNCHANGED <<blocked, blocker, waiter, finished, ready, next_pid>>
      /\ current = NoProcess
  BY DEF TickSwitch, TCBOfCurrent
<1>2. /\ runnable \in Seq(Pids) /\ IsInjective(runnable)
      /\ state \in [Processes -> States]
      /\ \A p \in Pids : Contains(runnable, p) <=> state[p] = "Runnable"
      /\ \A p \in Pids : state[p] # "Running"
      /\ current_TCB \in Processes => state[current_TCB] # "Deleted"
  BY <1>1 DEF TypeInv, ListsMatchStates, TCBOfCurrent
<1>3. /\ current' \in Processes
      /\ current' \in Pids => state[current'] = "Runnable"
      /\ state'[current'] = "Running"
      /\ \A p \in Processes : p # current' => state'[p] = state[p]
      /\ panic' = NoPanic /\ phase' = "cpu"
  BY <1>1, <1>2, SwitchLemma
<1> QED
  BY <1>1, <1>3

\* terminate_current: the process is gone and another one, or idle, runs.
LEMMA TerminateEffect ==
    ASSUME SchedulerInv, Terminate
    PROVE  /\ UNCHANGED <<blocked, blocker, ready, next_pid>>
           /\ panic' = NoPanic /\ phase' = "cpu" /\ current' \in Processes
           /\ current \in Pids /\ state[current] = "Running"
           /\ current' \in Pids => state[current'] = "Runnable" /\ current' # current
           /\ \A p \in Pids : state'[p] = IF p = current' THEN "Running"
                                         ELSE IF p = current THEN "Deleted" ELSE state[p]
           /\ waiter' = [waiter EXCEPT ![current] = NoProcess]
<1> USE Names DEF SchedulerInv
<1> DEFINE st == [state EXCEPT ![current] = "Deleted"]
<1>1. /\ current \in Pids /\ state[current] = "Running"
      /\ current_TCB = current
  BY DEF Terminate, InProcess, ListsMatchStates, TCBOfCurrent
<1>2. /\ waiter' = [waiter EXCEPT ![current] = NoProcess]
      /\ SwitchToNext(st, NoProcess)
      /\ UNCHANGED <<blocked, blocker, ready, next_pid>>
  BY <1>1 DEF Terminate
<1>3. /\ st \in [Processes -> States]
      /\ st[current] = "Deleted"
      /\ \A p \in Processes : p # current => st[p] = state[p]
  BY <1>1 DEF TypeInv, States
<1> HIDE DEF st
<1>4. /\ runnable \in Seq(Pids) /\ IsInjective(runnable)
      /\ \A p \in Pids : Contains(runnable, p) <=> st[p] = "Runnable"
      /\ \A p \in Pids : st[p] # "Running"
  BY <1>1, <1>3 DEF TypeInv, ListsMatchStates
<1>5. /\ current' \in Processes
      /\ current' \in Pids => st[current'] = "Runnable"
      /\ state'[current'] = "Running"
      /\ \A p \in Processes : p # current' => state'[p] = st[p]
      /\ panic' = NoPanic /\ phase' = "cpu"
  BY <1>2, <1>3, <1>4, SwitchLemma
<1> QED
  BY <1>1, <1>2, <1>3, <1>5

\* Process::create and add_process: one more process is alive.
LEMMA AddProcessEffect ==
    ASSUME SchedulerInv, AddProcess
    PROVE  /\ UNCHANGED <<blocked, blocker, waiter, finished, ready, current, phase, panic>>
           /\ current \in Pids /\ state[current] = "Running"
           /\ next_pid \in Pids /\ next_pid' = next_pid + 1
           /\ state[next_pid] = "Unborn"
           /\ \A p \in Pids : state'[p] = IF p = next_pid THEN "Runnable" ELSE state[p]
<1> USE Names DEF SchedulerInv
<1>1. /\ next_pid <= MaxPid
      /\ state' = [state EXCEPT ![next_pid] = "Runnable"]
      /\ next_pid' = next_pid + 1
      /\ UNCHANGED <<blocked, blocker, waiter, finished, ready, current, phase, panic>>
      /\ current \in Pids
  BY DEF AddProcess, cpu, InProcess
<1>2. next_pid \in Pids /\ next_pid \in Nat
  BY <1>1, SchedulerAssumption DEF TypeInv, Pids, SchedulerAssumption
<1>3. state[next_pid] = "Unborn" /\ state[current] = "Running"
  BY <1>1, <1>2 DEF ListsMatchStates
<1>4. \A p \in Pids : state'[p] = IF p = next_pid THEN "Runnable" ELSE state[p]
  BY <1>1, <1>2 DEF TypeInv
<1> QED
  BY <1>1, <1>2, <1>3, <1>4

\* syscall_wait: the kernel panics, or the process blocks until pid ends.
LEMMA WaitEffect ==
    ASSUME SchedulerInv, NEW pid \in Pids, Wait(pid)
    PROVE  \/ /\ panic' = SetWaiterFailed /\ phase' = "hang"
              /\ UNCHANGED <<lists, procs, current>>
           \/ /\ panic' = NoPanic /\ phase' = "cpu" /\ current' \in Processes
              /\ current \in Pids /\ state[current] = "Running"
              /\ state[pid] \in {"Runnable", "Blocked"} /\ waiter[pid] = NoProcess
              /\ current' \in Pids => state[current'] = "Runnable" /\ current' # current
              /\ \A p \in Pids : state'[p] = IF p = current' THEN "Running"
                                            ELSE IF p = current THEN "Blocked" ELSE state[p]
              /\ waiter' = [waiter EXCEPT ![pid] = current]
              /\ UNCHANGED next_pid
<1>1. CASE waiter[pid] # NoProcess
  <2>1. Panic(SetWaiterFailed)
    BY <1>1 DEF Wait
  <2> QED
    BY <2>1 DEF Panic, lists, procs
<1>2. CASE waiter[pid] = NoProcess
  <2>1. /\ InProcess /\ Listed(pid) /\ block_current("wait")
        /\ waiter' = [waiter EXCEPT ![pid] = current]
        /\ UNCHANGED next_pid
        /\ current \in Pids
    BY <1>2 DEF Wait, InProcess
  <2>2. state[pid] \in {"Runnable", "Blocked"} /\ state[current] = "Running"
    BY <2>1 DEF Listed, SchedulerInv, ListsMatchStates
  <2>3. /\ panic' = NoPanic /\ phase' = "cpu" /\ current' \in Processes
        /\ current' \in Pids => state[current'] = "Runnable" /\ current' # current
        /\ \A p \in Pids : state'[p] = IF p = current' THEN "Running"
                                      ELSE IF p = current THEN "Blocked" ELSE state[p]
    BY <2>1, BlockLemma
  <2> QED
    BY <1>2, <2>1, <2>2, <2>3
<1> QED
  BY <1>1, <1>2

\* Only IdleBlocks puts idle in the blocked list.
LEMMA IdleKept ==
    ASSUME SchedulerInv, IdleNotBlocked,
           \/ Tick \/ TryUnblock \/ TickSwitch
           \/ AddProcess \/ BlockOnEvent \/ Terminate
           \/ \E pid \in Pids : Wait(pid)
           \/ UNCHANGED vars
    PROVE  IdleNotBlocked'
<1>1. CASE Tick \/ TickSwitch \/ AddProcess \/ Terminate
  <2>1. UNCHANGED blocked
    BY <1>1, TickEffect, TickSwitchEffect, AddProcessEffect, TerminateEffect
  <2> QED
    BY <2>1 DEF IdleNotBlocked
<1>2. CASE TryUnblock
  BY <1>2, TryUnblockEffect
<1>3. CASE BlockOnEvent
  BY <1>3, BlockLemma DEF BlockOnEvent
<1>4. ASSUME NEW pid \in Pids, Wait(pid)
      PROVE  IdleNotBlocked'
  <2>1. CASE Panic(SetWaiterFailed)
    BY <2>1 DEF Panic, lists, IdleNotBlocked
  <2>2. CASE InProcess /\ block_current("wait") /\ UNCHANGED next_pid
    BY <2>2, BlockLemma
  <2> QED
    BY <1>4, <2>1, <2>2 DEF Wait
<1>5. CASE UNCHANGED vars
  BY <1>5 DEF vars, lists, IdleNotBlocked
<1> QED
  BY <1>1, <1>2, <1>3, <1>4, <1>5

\* Then the loop of try_unblock_tasks only ever looks at processes.
LEMMA InBlockedList ==
    ASSUME SchedulerInv, IdleNotBlocked, cursor <= Len(blocked)
    PROVE  blocked[cursor] \in Pids
<1>1. Len(blocked) \in Nat /\ cursor \in Nat \ {0} /\ blocked \in Seq(Processes)
  BY DEF SchedulerInv, TypeInv
<1>2. cursor \in 1..Len(blocked) /\ blocked[cursor] \in Processes
  BY <1>1
<1> QED
  BY <1>1, <1>2, Names DEF IdleNotBlocked, Contains

\* When interrupts are enabled for the first time nobody is blocked.
LEMMA IdleInit == Init => IdleNotBlocked
  BY DEF Init, IdleNotBlocked, Contains

-----------------------------------------------------------------------------
(* The theorems *)

\* The conjunction of the invariants below is inductive.
THEOREM Invariance == Spec => []SchedulerInv
  BY InitInv, NextInv, PTL DEF Spec

\* Every variable of the scheduler keeps its type.
THEOREM TypeCorrect == Spec => []TypeInv
<1>1. SchedulerInv => TypeInv
  BY DEF SchedulerInv
<1> QED
  BY <1>1, Invariance, PTL

(***************************************************************************)
(* However many processes there are and however tick, block_current,       *)
(* terminate_current and add_process interleave, a live process is in      *)
(* exactly one of the runnable list, the blocked list and the CPU.         *)
(***************************************************************************)
THEOREM NoProcessLost == Spec => []ListsMatchStates
<1>1. SchedulerInv => ListsMatchStates
  BY DEF SchedulerInv
<1> QED
  BY <1>1, Invariance, PTL

\* asm_switch_to_task saves ESP into the TCB of the task it takes off the CPU.
THEOREM SavesTheRightTCB == Spec => []TCBOfCurrent
<1>1. SchedulerInv => TCBOfCurrent
  BY DEF SchedulerInv
<1> QED
  BY <1>1, Invariance, PTL

(***************************************************************************)
(* The ASSERT of try_unblock_tasks fails for no process, but only for idle *)
(* when a handler has blocked it, and that of set_waiter may fail.  All    *)
(* other ASSERTs of Scheduler.cpp hold, also with idle in the blocked      *)
(* list, and no ESP is saved in a deleted TCB.                             *)
(***************************************************************************)
THEOREM AssertionsHold == Spec => []SchedulerAssertionsHold
<1>1. SchedulerInv => SchedulerAssertionsHold
  BY DEF SchedulerInv
<1> QED
  BY <1>1, Invariance, PTL

\* syscall_wait loses no wake-up, and m_waiter never points to a dead stack frame.
THEOREM NoLostWakeup == Spec => []WaitersAreWaiting
<1>1. SchedulerInv => WaitersAreWaiting
  BY DEF SchedulerInv
<1> QED
  BY <1>1, Invariance, PTL

(***************************************************************************)
(* A pid is never used again: no step takes a process out of "Deleted".    *)
(* SwitchToNext runs the head of the runnable list, which is Runnable, and *)
(* a loop turn of try_unblock_tasks unblocks a process that is Blocked.    *)
(***************************************************************************)
THEOREM PidsAreNotReused == Spec => DeletedForGood
<1>1. ASSUME SchedulerInv, Next, NEW p \in Pids, state[p] = "Deleted"
      PROVE  state'[p] = "Deleted"
  <2>0. /\ p \in Processes /\ p # Idle /\ p # NoProcess
        /\ ~Contains(runnable, p) /\ ~Contains(blocked, p) /\ current # p
        /\ next_pid # p /\ state \in [Processes -> States]
        /\ runnable \in Seq(Pids) /\ blocked \in Seq(Processes) /\ cursor \in Nat \ {0}
    BY <1>1, SchedulerAssumption DEF SchedulerInv, TypeInv, ListsMatchStates, Pids,
       Processes, Idle, NoProcess
  <2>1. ASSUME NEW st, NEW tcb, st \in [Processes -> States], st[p] = "Deleted",
               SwitchToNext(st, tcb)
        PROVE  state'[p] = "Deleted"
    <3>1. CASE runnable = <<>>
      BY <2>0, <2>1, <3>1 DEF SwitchToNext, SavesToDeletedTCB
    <3>2. CASE runnable # <<>>
      <4>1. Head(runnable) # p
        BY <2>0, <3>2 DEF Contains
      <4>2. QED
        BY <2>0, <2>1, <3>2, <4>1 DEF SwitchToNext, SavesToDeletedTCB
    <3>3. QED
      BY <3>1, <3>2
  <2>2. CASE Tick
    <3>1. Ticked # p
      BY <2>0 DEF Ticked
    <3>2. QED
      BY <1>1, <2>0, <2>2, <3>1 DEF Tick, TickContinue, TickPreempt, Panic, procs
  <2>3. CASE TryUnblock
    <3>1. cursor \in 1..Len(blocked)
      <4>1. cursor <= Len(blocked)
        BY <2>3 DEF TryUnblock, VisitBlocked
      <4>2. Len(blocked) \in Nat
        BY <2>0
      <4>3. QED
        BY <2>0, <4>1, <4>2
    <3>2. blocked[cursor] # p
      BY <2>0, <3>1 DEF Contains
    <3>3. QED
      BY <1>1, <2>0, <2>3, <3>2 DEF TryUnblock, VisitBlocked, Unblock, StayBlocked, Panic, procs
  <2>4. CASE TickSwitch
    BY <1>1, <2>0, <2>1, <2>4 DEF TickSwitch
  <2>5. CASE AddProcess
    BY <1>1, <2>0, <2>5 DEF AddProcess
  <2>6. CASE BlockOnEvent
    <3>1. SwitchToNext([state EXCEPT ![current] = "Blocked"], current_TCB)
      BY <2>6 DEF BlockOnEvent, block_current
    <3>2. QED
      BY <1>1, <2>0, <2>1, <3>1 DEF States
  <2>12. CASE IdleBlocks
    <3>1. SwitchToNext([state EXCEPT ![Idle] = "Blocked"], current_TCB)
      BY <2>12 DEF IdleBlocks, block_current
    <3>2. QED
      BY <1>1, <2>0, <2>1, <3>1 DEF States
  <2>7. ASSUME NEW pid \in Pids, Wait(pid)
        PROVE  state'[p] = "Deleted"
    <3>1. CASE waiter[pid] # NoProcess
      BY <1>1, <2>7, <3>1 DEF Wait, Panic, procs
    <3>2. CASE waiter[pid] = NoProcess
      <4>1. SwitchToNext([state EXCEPT ![current] = "Blocked"], current_TCB)
        BY <2>7, <3>2 DEF Wait, block_current
      <4>2. QED
        BY <1>1, <2>0, <2>1, <4>1 DEF States
    <3>3. QED
      BY <3>1, <3>2
  <2>8. CASE Terminate
    <3>1. CASE current_TCB # current
      BY <1>1, <2>8, <3>1 DEF Terminate, Panic, procs
    <3>2. CASE current_TCB = current
      <4>1. SwitchToNext([state EXCEPT ![current] = "Deleted"], NoProcess)
        BY <2>8, <3>2 DEF Terminate
      <4>2. QED
        BY <1>1, <2>0, <2>1, <4>1 DEF States
    <3>3. QED
      BY <3>1, <3>2
  <2>9. ASSUME NEW q \in Pids, EventOccurs(q) \/ EventWithdrawn(q)
        PROVE  state'[p] = "Deleted"
    BY <1>1, <2>9 DEF EventOccurs, EventWithdrawn
  <2>10. CASE Hang
    BY <1>1, <2>10 DEF Hang, vars, procs
  <2>11. QED
    BY <1>1, <2>2, <2>3, <2>4, <2>5, <2>6, <2>7, <2>8, <2>9, <2>10, <2>12 DEF Next
<1>2. SchedulerInv /\ [Next]_vars
      => [\A p \in Pids : state[p] = "Deleted" => state'[p] = "Deleted"]_vars
  BY <1>1
<1>3. QED
  BY <1>2, Invariance, PTL DEF Spec, DeletedForGood

-----------------------------------------------------------------------------
(* The refinement *)

\* l is the task states s, renamed to the life of Multitasking.
IsLifeOf(l, s) ==
    /\ l = [p \in Pids |-> l[p]]
    /\ \A p \in Pids : /\ s[p] = "Unborn" <=> l[p] = "unborn"
                       /\ s[p] = "Runnable" <=> l[p] = "ready"
                       /\ s[p] = "Running" <=> l[p] = "running"
                       /\ s[p] = "Blocked" <=> l[p] = "blocked"
                       /\ s[p] = "Deleted" <=> l[p] = "dead"

\* b is the inverse of the pointers w.
IsInverseOf(b, w) ==
    /\ b = [p \in Pids |-> b[p]]
    /\ \A p \in Pids : b[p] \in Pids \cup {NoProcess}
    /\ \A p, q \in Pids : b[p] = q <=> w[q] = p

\* lifeBar tells the task states apart.
LEMMA LifeLemma ==
    ASSUME NEW s \in [Processes -> States],
           NEW l, l = [p \in Pids |-> CASE s[p] = "Unborn" -> "unborn"
                                        [] s[p] = "Runnable" -> "ready"
                                        [] s[p] = "Running" -> "running"
                                        [] s[p] = "Blocked" -> "blocked"
                                        [] s[p] = "Deleted" -> "dead"]
    PROVE  IsLifeOf(l, s)
<1>1. ASSUME NEW p \in Pids
      PROVE  /\ s[p] \in States
             /\ s[p] = "Unborn" => l[p] = "unborn"
             /\ s[p] = "Runnable" => l[p] = "ready"
             /\ s[p] = "Running" => l[p] = "running"
             /\ s[p] = "Blocked" => l[p] = "blocked"
             /\ s[p] = "Deleted" => l[p] = "dead"
  BY Names
<1> QED
  BY <1>1 DEF States, IsLifeOf

\* waitingBar is the inverse of m_waiter, which points to a process at most once.
LEMMA WaitingLemma ==
    ASSUME NEW w \in [Processes -> Pids \cup {NoProcess}],
           \A q, r \in Pids : w[q] = w[r] /\ w[q] # NoProcess => q = r,
           NEW b, b = [p \in Pids |-> IF \E q \in Pids : w[q] = p
                                      THEN CHOOSE q \in Pids : w[q] = p ELSE NoProcess]
    PROVE  IsInverseOf(b, w)
<1>1. ASSUME NEW p \in Pids
      PROVE  IF \E q \in Pids : w[q] = p THEN b[p] \in Pids /\ w[b[p]] = p
                                         ELSE b[p] = NoProcess
  <2>1. CASE \E q \in Pids : w[q] = p
    <3>1. b[p] = CHOOSE q \in Pids : w[q] = p
      BY <2>1
    <3> QED
      BY <2>1, <3>1
  <2>2. CASE ~ \E q \in Pids : w[q] = p
    BY <2>2
  <2> QED
    BY <2>1, <2>2
<1> QED
  BY <1>1, Names DEF IsInverseOf

\* The life of Multitasking is unchanged, or changes at p, as the task states do.
LEMMA LifeStep ==
    ASSUME NEW s, NEW t, NEW l, NEW m, IsLifeOf(l, s), IsLifeOf(m, t),
           s \in [Processes -> States]
    PROVE  /\ (\A q \in Pids : t[q] = s[q]) => m = l
           /\ \A p \in Pids : (\A q \in Pids : t[q] = IF q = p THEN "Runnable" ELSE s[q])
                              => \A q \in Pids : m[q] = IF q = p THEN "ready" ELSE l[q]
           /\ \A p \in Pids : (\A q \in Pids : t[q] = IF q = p THEN "Running" ELSE s[q])
                              => \A q \in Pids : m[q] = IF q = p THEN "running" ELSE l[q]
<1>1. ASSUME NEW q \in Pids, t[q] = s[q]
      PROVE  m[q] = l[q]
  <2>1. s[q] \in States
    BY Names
  <2> QED
    BY <1>1, <2>1 DEF IsLifeOf, States
<1>2. l = [q \in Pids |-> l[q]] /\ m = [q \in Pids |-> m[q]]
  BY DEF IsLifeOf
<1>3. (\A q \in Pids : t[q] = s[q]) => m = l
  BY <1>1, <1>2
<1>4. ASSUME NEW p \in Pids, \A q \in Pids : t[q] = IF q = p THEN "Runnable" ELSE s[q]
      PROVE  \A q \in Pids : m[q] = IF q = p THEN "ready" ELSE l[q]
  <2>1. m[p] = "ready"
    BY <1>4 DEF IsLifeOf
  <2>2. \A q \in Pids : q # p => m[q] = l[q]
    BY <1>1, <1>4
  <2> QED
    BY <1>2, <2>1, <2>2
<1>5. ASSUME NEW p \in Pids, \A q \in Pids : t[q] = IF q = p THEN "Running" ELSE s[q]
      PROVE  \A q \in Pids : m[q] = IF q = p THEN "running" ELSE l[q]
  <2>1. m[p] = "running"
    BY <1>5 DEF IsLifeOf
  <2>2. \A q \in Pids : q # p => m[q] = l[q]
    BY <1>1, <1>5
  <2> QED
    BY <1>2, <2>1, <2>2
<1> QED
  BY <1>3, <1>4, <1>5

\* What the mapping of Multitasking's variables means before and after a step.
LEMMA Bars ==
    /\ SchedulerInv => IsLifeOf(lifeBar, state) /\ IsInverseOf(waitingBar, waiter)
    /\ SchedulerInv' => IsLifeOf(lifeBar', state') /\ IsInverseOf(waitingBar', waiter')
<1>1. SchedulerInv => IsLifeOf(lifeBar, state)
  BY LifeLemma DEF lifeBar, SchedulerInv, TypeInv
<1>2. SchedulerInv' => IsLifeOf(lifeBar', state')
  BY LifeLemma DEF lifeBar, SchedulerInv, TypeInv
<1>3. SchedulerInv => IsInverseOf(waitingBar, waiter)
  BY WaitingLemma DEF waitingBar, SchedulerInv, TypeInv, WaitersAreWaiting
<1>4. SchedulerInv' => IsInverseOf(waitingBar', waiter')
  BY WaitingLemma DEF waitingBar, SchedulerInv, TypeInv, WaitersAreWaiting
<1> QED
  BY <1>1, <1>2, <1>3, <1>4

(***************************************************************************)
(* block_current and terminate_current end in pick_next_and_switch: the    *)
(* CPU goes from the running process, which blocks or dies, to a ready one *)
(* or to idle.                                                             *)
(***************************************************************************)
LEMMA HandOver ==
    ASSUME SchedulerInv, SchedulerInv', NEW st \in {"Blocked", "Deleted"}, NEW x,
           x = IF st = "Blocked" THEN "blocked" ELSE "dead",
           current \in Pids, current' \in Processes,
           current' \in Pids => state[current'] = "Runnable" /\ current' # current,
           \A p \in Pids : state'[p] = IF p = current' THEN "Running"
                                      ELSE IF p = current THEN st ELSE state[p]
    PROVE  \E n \in Pids \cup {NoProcess} :
              /\ Abstract!CanDispatch(n)
              /\ lifeBar' = Abstract!Dispatched([lifeBar EXCEPT ![current] = x], n)
<1> DEFINE n == IF current' \in Pids THEN current' ELSE NoProcess
<1>1. /\ IsLifeOf(lifeBar, state) /\ IsLifeOf(lifeBar', state')
      /\ state \in [Processes -> States] /\ state' \in [Processes -> States]
  BY Bars DEF SchedulerInv, TypeInv
<1>2. Abstract!CanDispatch(n)
  BY <1>1 DEF Abstract!CanDispatch, IsLifeOf
<1>3. /\ lifeBar' = [p \in Pids |-> lifeBar'[p]]
      /\ lifeBar = [p \in Pids |-> lifeBar[p]]
  BY <1>1 DEF IsLifeOf
<1>4. lifeBar'[current] = x
  BY <1>1 DEF IsLifeOf
<1>5. current' \in Pids => lifeBar'[current'] = "running"
  BY <1>1 DEF IsLifeOf
<1>6. ASSUME NEW q \in Pids, q # current, q # current'
      PROVE  lifeBar'[q] = lifeBar[q]
  <2>1. state'[q] = state[q] /\ state[q] \in States
    BY <1>1, <1>6, Names
  <2> QED
    BY <1>1, <2>1 DEF IsLifeOf, States
<1>7. CASE current' \in Pids
  <2>1. Abstract!Dispatched([lifeBar EXCEPT ![current] = x], n)
        = [[lifeBar EXCEPT ![current] = x] EXCEPT ![current'] = "running"]
    BY <1>7, Names DEF Abstract!Dispatched
  <2>2. lifeBar' = [[lifeBar EXCEPT ![current] = x] EXCEPT ![current'] = "running"]
    BY <1>3, <1>4, <1>5, <1>6, <1>7
  <2> QED
    BY <1>2, <1>7, <2>1, <2>2
<1>8. CASE current' \notin Pids
  <2>1. Abstract!Dispatched([lifeBar EXCEPT ![current] = x], n)
        = [lifeBar EXCEPT ![current] = x]
    BY <1>8 DEF Abstract!Dispatched
  <2>2. lifeBar' = [lifeBar EXCEPT ![current] = x]
    BY <1>3, <1>4, <1>6, <1>8
  <2> QED
    BY <1>2, <1>8, <2>1, <2>2
<1> QED
  BY <1>7, <1>8

\* The inverse of m_waiter only changes where m_waiter does.
LEMMA WaitingSame ==
    ASSUME SchedulerInv, SchedulerInv', UNCHANGED waiter
    PROVE  UNCHANGED waitingBar
  BY DEF waitingBar

(***************************************************************************)
(* Every step of the scheduler is a step of Multitasking or leaves its     *)
(* variables alone: one case per action.                                   *)
(***************************************************************************)
LEMMA StepRefines ==
    ASSUME SchedulerInv, SchedulerInv', [Next]_vars
    PROVE  [Abstract!Next]_<<lifeBar, waitingBar>>
<1> USE Names
<1>0. /\ IsLifeOf(lifeBar, state) /\ IsLifeOf(lifeBar', state')
      /\ IsInverseOf(waitingBar, waiter) /\ IsInverseOf(waitingBar', waiter')
      /\ state \in [Processes -> States] /\ state' \in [Processes -> States]
      /\ waiter \in [Processes -> Pids \cup {NoProcess}]
  BY Bars DEF SchedulerInv, TypeInv
<1>s. ASSUME UNCHANGED <<state, waiter>>
      PROVE  UNCHANGED <<lifeBar, waitingBar>>
  BY <1>s DEF lifeBar, waitingBar
<1>1. CASE Tick
  <2>1. UNCHANGED waitingBar
    BY <1>1, TickEffect, WaitingSame
  <2>2. CASE UNCHANGED state
    BY <1>1, <1>s, <2>2, TickEffect
  <2>3. CASE \A p \in Pids : state'[p] = IF p = current THEN "Runnable" ELSE state[p]
    <3>1. CASE current \in Pids
      <4>1. lifeBar' = [lifeBar EXCEPT ![current] = "ready"]
        <5>1. \A q \in Pids : lifeBar'[q] = IF q = current THEN "ready" ELSE lifeBar[q]
          BY <1>0, <2>3, <3>1, LifeStep
        <5> QED
          BY <1>0, <3>1, <5>1 DEF IsLifeOf
      <4>2. lifeBar[current] = "running"
        BY <1>0, <3>1 DEF IsLifeOf, SchedulerInv, ListsMatchStates
      <4> QED
        BY <2>1, <3>1, <4>1, <4>2
           DEF Abstract!Next, Abstract!Preempt, Abstract!Running
    <3>2. CASE current \notin Pids
      <4>1. \A p \in Pids : state'[p] = state[p]
        BY <2>3, <3>2
      <4> QED
        BY <1>0, <2>1, <4>1, LifeStep
    <3> QED
      BY <3>1, <3>2
  <2> QED
    BY <1>1, <2>2, <2>3, TickEffect
<1>2. CASE TryUnblock
  <2> DEFINE p == blocked[cursor]
  <2>1. UNCHANGED waitingBar
    BY <1>2, TryUnblockEffect, WaitingSame
  <2>2. CASE UNCHANGED state
    BY <1>2, <1>s, <2>2, TryUnblockEffect
  <2>3. CASE /\ p \in Pids /\ state[p] = "Blocked" /\ ~Waiting(p)
             /\ state' = [state EXCEPT ![p] = "Runnable"]
    <3>0. p \in Pids
      BY <2>3
    <3> HIDE DEF p
    <3>1. lifeBar' = [lifeBar EXCEPT ![p] = "ready"]
      <4>1. \A q \in Pids : state'[q] = IF q = p THEN "Runnable" ELSE state[q]
        BY <1>0, <2>3
      <4>2. \A q \in Pids : lifeBar'[q] = IF q = p THEN "ready" ELSE lifeBar[q]
        BY <1>0, <3>0, <4>1, LifeStep
      <4> QED
        BY <1>0, <2>3, <4>2 DEF IsLifeOf
    <3>2. waitingBar[p] = NoProcess
      <4>1. \A q \in Pids : waiter[q] # p
        BY <2>3 DEF SchedulerInv, WaitersAreWaiting
      <4> QED
        BY <1>0, <2>3, <4>1 DEF IsInverseOf
    <3>3. lifeBar[p] = "blocked"
      BY <1>0, <2>3 DEF IsLifeOf
    <3> QED
      BY <2>1, <2>3, <3>1, <3>2, <3>3 DEF Abstract!Next, Abstract!Wake
  <2> QED
    BY <1>2, <2>2, <2>3, TryUnblockEffect
<1>3. CASE TickSwitch
  <2>1. UNCHANGED waitingBar
    BY <1>3, TickSwitchEffect, WaitingSame
  <2>2. /\ current' \in Processes /\ current = NoProcess
        /\ current' \in Pids => state[current'] = "Runnable"
        /\ \A p \in Pids : state'[p] = IF p = current' THEN "Running" ELSE state[p]
    BY <1>3, TickSwitchEffect
  <2>3. CASE current' \in Pids
    <3>1. lifeBar' = [lifeBar EXCEPT ![current'] = "running"]
      <4>1. \A q \in Pids : lifeBar'[q] = IF q = current' THEN "running" ELSE lifeBar[q]
        BY <1>0, <2>2, <2>3, LifeStep
      <4> QED
        BY <1>0, <2>3, <4>1 DEF IsLifeOf
    <3>2. lifeBar[current'] = "ready"
      BY <1>0, <2>2, <2>3 DEF IsLifeOf
    <3>3. \A p \in Pids : lifeBar[p] # "running"
      BY <1>0, <2>2 DEF IsLifeOf, SchedulerInv, ListsMatchStates
    <3> QED
      BY <2>1, <2>3, <3>1, <3>2, <3>3 DEF Abstract!Next, Abstract!Dispatch, Abstract!Running
  <2>4. CASE current' \notin Pids
    <3>1. \A p \in Pids : state'[p] = state[p]
      BY <2>2, <2>4
    <3> QED
      BY <1>0, <2>1, <3>1, LifeStep
  <2> QED
    BY <2>3, <2>4
<1>4. CASE AddProcess
  <2>1. UNCHANGED waitingBar
    BY <1>4, AddProcessEffect, WaitingSame
  <2>2. /\ current \in Pids /\ state[current] = "Running"
        /\ next_pid \in Pids /\ state[next_pid] = "Unborn"
        /\ \A p \in Pids : state'[p] = IF p = next_pid THEN "Runnable" ELSE state[p]
    BY <1>4, AddProcessEffect
  <2>3. lifeBar' = [lifeBar EXCEPT ![next_pid] = "ready"]
    <3>1. \A q \in Pids : lifeBar'[q] = IF q = next_pid THEN "ready" ELSE lifeBar[q]
      BY <1>0, <2>2, LifeStep
    <3> QED
      BY <1>0, <2>2, <3>1 DEF IsLifeOf
  <2>4. lifeBar[current] = "running" /\ lifeBar[next_pid] = "unborn"
    BY <1>0, <2>2 DEF IsLifeOf
  <2> QED
    BY <2>1, <2>2, <2>3, <2>4 DEF Abstract!Next, Abstract!Create, Abstract!Running
<1>5. CASE BlockOnEvent
  <2>1. /\ InProcess /\ block_current("event") /\ current \in Pids
        /\ UNCHANGED <<waiter, next_pid>>
    BY <1>5 DEF BlockOnEvent, InProcess
  <2>2. /\ current' \in Processes
        /\ current' \in Pids => state[current'] = "Runnable" /\ current' # current
        /\ \A q \in Pids : state'[q] = IF q = current' THEN "Running"
                                      ELSE IF q = current THEN "Blocked" ELSE state[q]
    BY <2>1, BlockLemma
  <2>3. PICK n \in Pids \cup {NoProcess} :
              /\ Abstract!CanDispatch(n)
              /\ lifeBar' = Abstract!Dispatched([lifeBar EXCEPT ![current] = "blocked"], n)
    BY <2>1, <2>2, HandOver
  <2>4. UNCHANGED waitingBar /\ lifeBar[current] = "running"
    BY <1>0, <2>1, WaitingSame DEF IsLifeOf, SchedulerInv, ListsMatchStates
  <2> QED
    BY <2>1, <2>3, <2>4 DEF Abstract!Next, Abstract!Block, Abstract!Running
<1>6. ASSUME NEW pid \in Pids, Wait(pid)
      PROVE  [Abstract!Next]_<<lifeBar, waitingBar>>
  <2>1. CASE UNCHANGED <<lists, procs, current>>
    BY <1>s, <2>1 DEF procs
  <2>2. CASE /\ current' \in Processes /\ current \in Pids /\ state[current] = "Running"
             /\ state[pid] \in {"Runnable", "Blocked"} /\ waiter[pid] = NoProcess
             /\ current' \in Pids => state[current'] = "Runnable" /\ current' # current
             /\ \A p \in Pids : state'[p] = IF p = current' THEN "Running"
                                           ELSE IF p = current THEN "Blocked" ELSE state[p]
             /\ waiter' = [waiter EXCEPT ![pid] = current]
    <3>1. PICK n \in Pids \cup {NoProcess} :
              /\ Abstract!CanDispatch(n)
              /\ lifeBar' = Abstract!Dispatched([lifeBar EXCEPT ![current] = "blocked"], n)
      BY <2>2, HandOver
    <3>2. lifeBar[current] = "running" /\ lifeBar[pid] \in {"ready", "blocked"}
      BY <1>0, <2>2 DEF IsLifeOf
    <3>3. \A r \in Pids : waitingBar[r] # pid
      BY <1>0, <2>2 DEF IsInverseOf
    <3>4. waitingBar' = [waitingBar EXCEPT ![current] = pid]
      <4>1. waitingBar'[current] = pid
        BY <1>0, <2>2 DEF IsInverseOf
      <4>2. ASSUME NEW r \in Pids, r # current
            PROVE  waitingBar'[r] = waitingBar[r]
        <5>1. \A q \in Pids : waiter'[q] = r <=> waiter[q] = r
          BY <1>0, <2>2, <4>2
        <5> QED
          BY <1>0, <5>1 DEF IsInverseOf
      <4> QED
        BY <1>0, <2>2, <4>1, <4>2 DEF IsInverseOf
    <3> QED
      BY <2>2, <3>1, <3>2, <3>3, <3>4 DEF Abstract!Next, Abstract!Wait, Abstract!Running
  <2> QED
    BY <1>6, <2>1, <2>2, WaitEffect
<1>7. CASE Terminate
  <2>1. /\ current' \in Processes /\ current \in Pids /\ state[current] = "Running"
        /\ current' \in Pids => state[current'] = "Runnable" /\ current' # current
        /\ \A p \in Pids : state'[p] = IF p = current' THEN "Running"
                                      ELSE IF p = current THEN "Deleted" ELSE state[p]
        /\ waiter' = [waiter EXCEPT ![current] = NoProcess]
    BY <1>7, TerminateEffect
  <2>2. PICK n \in Pids \cup {NoProcess} :
              /\ Abstract!CanDispatch(n)
              /\ lifeBar' = Abstract!Dispatched([lifeBar EXCEPT ![current] = "dead"], n)
    BY <2>1, HandOver
  <2>3. lifeBar[current] = "running"
    BY <1>0, <2>1 DEF IsLifeOf
  <2>4. waitingBar' = [r \in Pids |-> IF waitingBar[r] = current THEN NoProcess ELSE waitingBar[r]]
    <3>1. ASSUME NEW r \in Pids
          PROVE  waitingBar'[r] = IF waitingBar[r] = current THEN NoProcess ELSE waitingBar[r]
      <4>1. \A q \in Pids : waiter'[q] = r <=> (waiter[q] = r /\ q # current)
        BY <1>0, <2>1
      <4> QED
        BY <1>0, <2>1, <4>1 DEF IsInverseOf
    <3> QED
      BY <1>0, <3>1 DEF IsInverseOf
  <2> QED
    BY <2>1, <2>2, <2>3, <2>4 DEF Abstract!Next, Abstract!Exit, Abstract!Running
<1>8. ASSUME NEW p \in Pids, EventOccurs(p) \/ EventWithdrawn(p)
      PROVE  UNCHANGED <<lifeBar, waitingBar>>
  BY <1>8, <1>s DEF EventOccurs, EventWithdrawn
<1>10. CASE IdleBlocks
  <2>1. UNCHANGED waitingBar
    BY <1>10, WaitingSame DEF IdleBlocks
  <2>2. \A p \in Pids : state'[p] = state[p]
    BY <1>0, <1>10
       DEF IdleBlocks, block_current, SwitchToNext, SchedulerInv, IdleWhenEmpty
  <2> QED
    BY <1>0, <2>1, <2>2, LifeStep
<1>9. CASE Hang \/ UNCHANGED vars
  BY <1>9, <1>s DEF Hang, vars, procs
<1> QED
  BY <1>1, <1>2, <1>3, <1>4, <1>5, <1>6, <1>7, <1>8, <1>9, <1>10 DEF Next

(***************************************************************************)
(* The scheduler implements Multitasking: with lists, time slices, the     *)
(* loop of try_unblock_tasks that may end early and a pointer per waitee,  *)
(* it still runs one process at a time, moves a process only along its     *)
(* life cycle and wakes no waiter before its waitee is dead.               *)
(***************************************************************************)
THEOREM Refinement == Spec => ImplementsMultitasking
<1>1. Init => Abstract!Init
  <2> SUFFICES ASSUME Init PROVE Abstract!Init
    OBVIOUS
  <2>1. SchedulerInv
    BY InitInv
  <2>2. IsLifeOf(lifeBar, state) /\ IsInverseOf(waitingBar, waiter)
    BY <2>1, Bars
  <2>3. lifeBar \in [Pids -> {"unborn", "ready"}]
    <3>1. ASSUME NEW p \in Pids
          PROVE  lifeBar[p] \in {"unborn", "ready"}
      <4>1. state[p] \in {"Unborn", "Runnable"}
        BY Names DEF Init
      <4> QED
        BY <2>2, <4>1 DEF IsLifeOf
    <3> QED
      BY <2>2, <3>1 DEF IsLifeOf
  <2>4. waitingBar = [p \in Pids |-> NoProcess]
    <3>1. \A q \in Pids : waiter[q] \notin Pids
      BY Names DEF Init
    <3>2. \A p \in Pids : waitingBar[p] = NoProcess
      BY <2>2, <3>1 DEF IsInverseOf
    <3> QED
      BY <2>2, <3>2 DEF IsInverseOf
  <2> QED
    BY <2>3, <2>4 DEF Abstract!Init
<1>2. SchedulerInv /\ SchedulerInv' /\ [Next]_vars => [Abstract!Next]_(Abstract!vars)
  BY StepRefines DEF Abstract!vars
<1> QED
  BY <1>1, <1>2, Invariance, PTL DEF Spec, ImplementsMultitasking, Abstract!Spec
=============================================================================
