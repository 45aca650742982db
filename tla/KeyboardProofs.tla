--------------------------- MODULE KeyboardProofs ---------------------------
(***************************************************************************)
(* Proofs about Keyboard, for any number of processes, any keys and any    *)
(* size of the buffer, with one reader and fewer than 256 key events       *)
(* (m_events_pending is a byte).                                           *)
(*                                                                         *)
(* The lock is held by the reader between lock and unlock or by a handler  *)
(* that had to wait for it, never by both, so the counter that consume has *)
(* read is the counter that it writes.  A reader that was unblocked has an *)
(* event: nobody else takes one.  The holder of the lock is blocked only   *)
(* while a handler sleeps on its stack; so a handler that finds the lock   *)
(* taken never runs on the stack of idle, and idle is never blocked.       *)
(***************************************************************************)
EXTENDS Keyboard, SchedulerProofs, FiniteSetTheorems

OneReader == \A p, q \in Readers : p = q
FewKeys   == MaxKeys < 256

Modifiers == [shift : BOOLEAN, caps : BOOLEAN]
Event     == [key : Keys, released : BOOLEAN, modifiers : Modifiers]
Slots     == 0..(KEYCODES_BUFFER_LEN - 1)
Inside    == {"read", "take", "unlock"}
Steps     == {"user", "wait", "lock"} \cup Inside

Sleeper   == [process : Pids, event : Event, locked : BOOLEAN]

-----------------------------------------------------------------------------
(* The events *)

DataTypes ==
    /\ buffer \in [Slots -> Event \cup {NoKey}]
    /\ head \in Slots /\ tail \in Slots
    /\ pending \in Nat
    /\ modifiers \in Modifiers
    /\ isr \in Sleeper \cup {NoIsr}
    /\ typed \in Seq(Event) /\ Len(typed) <= MaxKeys
    /\ got \in Seq(Event \cup {NoKey})
    /\ overrun \in BOOLEAN

EventsCounted == Len(got) + pending + (IF isr = NoIsr THEN 0 ELSE 1) = Len(typed)

\* The modifiers are those of the events typed; the event of a handler that
\* waits has yet to be counted in.
ModifiersRight ==
    ModifiersAfter(typed, down) = IF isr = NoIsr THEN modifiers ELSE Modified(modifiers, isr.event)

\* In a buffer b the n events from slot h on follow, in s, those of g.
Ring(h, t, n, b, g, s) ==
    /\ n <= KEYCODES_BUFFER_LEN
    /\ t = (h + n) % KEYCODES_BUFFER_LEN
    /\ \A i \in 1..Len(g) : s[i] = g[i]
    /\ \A i \in 1..n : s[Len(g) + i] = b[(h + i - 1) % KEYCODES_BUFFER_LEN]

\* Until the buffer overflows it holds the events that follow those taken,
\* and a handler that waits has the last one.
EventsKept ==
    \/ overrun
    \/ /\ Ring(head, tail, pending, buffer, got, typed)
       /\ isr # NoIsr => typed[Len(got) + pending + 1] = isr.event

Events == DataTypes /\ EventsCounted /\ ModifiersRight /\ EventsKept

-----------------------------------------------------------------------------
(* The lock and the reader *)

IsrHolds == isr # NoIsr /\ isr.locked

\* The lock is held from lock to unlock, and by nobody else.
LockIsHeld ==
    /\ \A p \in Pids : pc[p] \in Inside => lock = p /\ ~(IsrHolds /\ isr.process = p)
    /\ IsrHolds => lock = isr.process
    /\ lock # NoProcess => IsrHolds \/ pc[lock] \in Inside

\* The holder of the lock can run, unless a handler sleeps on its stack.
HolderRuns ==
    lock # NoProcess => state[lock] \in {"Running", "Runnable"} \/ isr.process = lock

\* A reader past its blocker finds an event, and what consume read is what it
\* writes back.
EventPending ==
    \A p \in Pids :
        /\ pc[p] # "user" => p \in Readers
        /\ pc[p] = "wait" => (state[p] = "Blocked" /\ p # isr.process) \/ pending # 0
        /\ pc[p] \in {"lock", "read", "take"} => pending # 0
        /\ pc[p] = "take" => seen[p] = pending

Reading ==
    /\ lock \in Pids \cup {NoProcess}
    /\ pc \in [Pids -> Steps]
    /\ seen \in [Pids -> Nat]
    /\ LockIsHeld
    /\ HolderRuns
    /\ EventPending

\* Nobody calls syscall_wait here.
NobodyWaits == \A p \in Pids : blocker[p] # "wait"

SchedPart == SchedulerInv /\ IdleNotBlocked /\ panic = NoPanic /\ NobodyWaits

\* The kernel hangs where can_consume found the lock taken by a handler.
Hung == phase = "hang" /\ panic = NoCurrent /\ isr.process = lock /\ isr.locked

KeyboardInv == OneReader /\ FewKeys /\ Events /\ ((SchedPart /\ Reading) \/ Hung)

-----------------------------------------------------------------------------
(* The scheduler under the driver *)

CanRun == {"Running", "Runnable"}

\* A step after which the same processes are blocked.
Steady == \A p \in Pids : /\ state'[p] = "Blocked" <=> state[p] = "Blocked"
                          /\ state[p] \in CanRun => state'[p] \in CanRun

\* A step that does not touch the scheduler, the timer, and the end of tick.
LEMMA ScheduleStep ==
    ASSUME SchedPart, UNCHANGED vars \/ Tick \/ TickSwitch
    PROVE  SchedPart' /\ Steady
<1> USE DEF SchedPart
<1>0. \A p \in Pids : p = current <=> state[p] = "Running"
  BY DEF SchedulerInv, ListsMatchStates
<1>1. IdleNotBlocked'
  BY IdleKept
<1>2. CASE UNCHANGED vars
  <2>1. UNCHANGED <<state, blocker, panic>>
    BY <1>2 DEF vars, procs, cpu
  <2> QED
    BY <1>1, <1>2, <2>1, StutterInv DEF NobodyWaits, Steady, CanRun
<1>3. CASE Tick
  <2>1. SchedulerInv' /\ UNCHANGED <<blocker, panic>>
    BY <1>3, TickInv, TickEffect
  <2>2. Steady
    BY <1>0, <1>3, TickEffect DEF Steady, CanRun
  <2> QED
    BY <1>1, <2>1, <2>2 DEF NobodyWaits
<1>4. CASE TickSwitch
  <2>1. SchedulerInv' /\ UNCHANGED blocker /\ panic' = NoPanic
    BY <1>4, TickSwitchInv, TickSwitchEffect
  <2>2. Steady
    BY <1>4, TickSwitchEffect DEF Steady, CanRun
  <2> QED
    BY <1>1, <2>1, <2>2 DEF NobodyWaits
<1> QED
  BY <1>2, <1>3, <1>4

\* A process that blocks, wherever it is: only it is blocked in addition.
LEMMA BlockStep ==
    ASSUME SchedPart, InProcess, Block
    PROVE  /\ SchedPart'
           /\ \A p \in Pids : /\ state'[p] = "Blocked" <=> (state[p] = "Blocked" \/ p = current)
                              /\ p # current /\ state[p] \in CanRun => state'[p] \in CanRun
<1> USE DEF SchedPart
<1>0. block_current("event") /\ UNCHANGED <<waiter, finished, ready, next_pid>>
  BY DEF Block
<1>1. SchedulerInv' /\ IdleNotBlocked'
  <2>1. BlockOnEvent
    BY <1>0 DEF BlockOnEvent
  <2> QED
    BY <2>1, BlockOnEventInv, IdleKept
<1>2. /\ panic' = NoPanic
      /\ blocker' = [blocker EXCEPT ![current] = "event"]
      /\ current' \in Pids => state[current'] = "Runnable" /\ current' # current
      /\ \A q \in Pids : state'[q] = IF q = current' THEN "Running"
                                    ELSE IF q = current THEN "Blocked" ELSE state[q]
  BY <1>0, BlockLemma
<1>3. NobodyWaits'
  BY <1>2, Names DEF NobodyWaits, SchedulerInv, TypeInv
<1>4. ASSUME NEW p \in Pids
      PROVE  /\ state'[p] = "Blocked" <=> (state[p] = "Blocked" \/ p = current)
             /\ p # current /\ state[p] \in CanRun => state'[p] \in CanRun
  BY <1>2 DEF CanRun
<1> QED
  BY <1>1, <1>2, <1>3, <1>4

\* A look of try_unblock_tasks: at most the process it looks at is unblocked.
LEMMA VisitStep ==
    ASSUME SchedPart, NEW can \in BOOLEAN, VisitBlocked(can)
    PROVE  /\ SchedPart'
           /\ \A p \in Pids : /\ state[p] \in CanRun => state'[p] \in CanRun
                              /\ state'[p] = "Blocked"
                                 <=> (state[p] = "Blocked" /\ ~(can /\ p = blocked[cursor]))
<1> USE DEF SchedPart
<1>1. blocked[cursor] \in Pids
  BY InBlockedList DEF VisitBlocked
<1>2. can => ~Waiting(blocked[cursor])
  BY <1>1 DEF NobodyWaits, Waiting
<1>3. /\ SchedulerInv' /\ IdleNotBlocked'
      /\ panic' = panic
      /\ \A q \in Pids : state'[q] = "Blocked" <=>
                            (state[q] = "Blocked" /\ ~(can /\ q = blocked[cursor]))
      /\ \A q \in Pids : blocker'[q] \in {blocker[q], "nullptr"}
  BY <1>1, <1>2, VisitBlockedInv, Names
<1>4. NobodyWaits'
  BY <1>3, Names DEF NobodyWaits
<1>5. ASSUME NEW p \in Pids, state[p] \in CanRun
      PROVE  state'[p] \in CanRun
  <2>1. state'[p] = state[p] \/ state'[p] = "Runnable"
    <3>1. PICK b \in Processes : b = blocked[cursor]
      BY <1>1, Names
    <3>2. state' = state \/ state' = [state EXCEPT ![b] = "Runnable"]
      BY <3>1 DEF VisitBlocked, Unblock, StayBlocked, Panic, procs
    <3>3. state \in [Processes -> States]
      BY DEF SchedulerInv, TypeInv
    <3> QED
      BY <3>2, <3>3, Names
  <2> QED
    BY <1>5, <2>1 DEF CanRun
<1> QED
  BY <1>3, <1>4, <1>5

-----------------------------------------------------------------------------
(* The ring buffer and the modifiers *)

\* Where the i-th slot from h on is.
LEMMA SlotAt ==
    ASSUME NEW L \in Nat \ {0}, NEW h \in 0..(L - 1), NEW i \in 0..L
    PROVE  (h + i) % L = (IF h + i < L THEN h + i ELSE h + i - L)
OBVIOUS

\* Two of L slots in a row from h on are different.
LEMMA SlotsDiffer ==
    ASSUME NEW L \in Nat \ {0}, NEW h \in 0..(L - 1), NEW i \in 0..(L - 1), NEW j \in 0..(L - 1),
           i # j
    PROVE  (h + i) % L # (h + j) % L
<1>0. i \in 0..L /\ j \in 0..L
  OBVIOUS
<1>1. (h + i) % L = (IF h + i < L THEN h + i ELSE h + i - L)
  BY <1>0, SlotAt
<1>2. (h + j) % L = (IF h + j < L THEN h + j ELSE h + j - L)
  BY <1>0, SlotAt
<1> QED
  BY <1>1, <1>2

\* insert_key_state into a buffer that is not full.
LEMMA RingInsert ==
    ASSUME NEW h \in Slots, NEW n \in Nat, n < KEYCODES_BUFFER_LEN, NEW t, NEW S,
           NEW b \in [Slots -> S], NEW g, NEW s, NEW e, Len(g) \in Nat,
           Ring(h, t, n, b, g, s), s[Len(g) + n + 1] = e
    PROVE  Ring(h, (t + 1) % KEYCODES_BUFFER_LEN, n + 1, [b EXCEPT ![t] = e], g, s)
<1> DEFINE L == KEYCODES_BUFFER_LEN
<1>1. L \in Nat \ {0} /\ h \in 0..(L - 1) /\ n + 1 <= L /\ n \in 0..(L - 1) /\ n \in 0..L
  BY KeyboardAssumption DEF Slots
<1>2. t = (h + n) % L
  BY DEF Ring
<1>3. t = (IF h + n < L THEN h + n ELSE h + n - L) /\ t \in Slots
  <2>1. (h + n) % L = (IF h + n < L THEN h + n ELSE h + n - L)
    BY <1>1, SlotAt
  <2> QED
    BY <1>1, <1>2, <2>1 DEF Slots
<1>4. (t + 1) % L = (h + (n + 1)) % L
  <2>1. n + 1 \in 0..L /\ t \in 0..(L - 1) /\ 1 \in 0..L
    BY <1>1, <1>3 DEF Slots
  <2>2. (h + (n + 1)) % L = (IF h + (n + 1) < L THEN h + (n + 1) ELSE h + (n + 1) - L)
    BY <1>1, <2>1, SlotAt
  <2>3. (t + 1) % L = (IF t + 1 < L THEN t + 1 ELSE t + 1 - L)
    BY <1>1, <2>1, SlotAt
  <2> QED
    BY <1>1, <1>3, <2>2, <2>3
<1>5. ASSUME NEW i \in 1..(n + 1)
      PROVE  s[Len(g) + i] = [b EXCEPT ![t] = e][(h + i - 1) % L]
  <2>1. CASE i = n + 1
    <3>1. (h + i - 1) = h + n /\ Len(g) + i = Len(g) + n + 1
      BY <1>1, <2>1
    <3>2. [b EXCEPT ![t] = e][t] = e
      BY <1>3
    <3> QED
      BY <1>2, <3>1, <3>2
  <2>2. CASE i # n + 1
    <3>1. i \in 1..n /\ i - 1 \in 0..(L - 1) /\ i - 1 # n /\ h + i - 1 = h + (i - 1)
      BY <1>1, <2>2
    <3>2. (h + (i - 1)) % L # t
      BY <1>1, <1>2, <3>1, SlotsDiffer
    <3>3. (h + (i - 1)) % L \in Slots
      BY <1>1, <3>1 DEF Slots
    <3>4. s[Len(g) + i] = b[(h + i - 1) % L]
      BY <3>1 DEF Ring
    <3> QED
      BY <3>1, <3>2, <3>3, <3>4
  <2> QED
    BY <2>1, <2>2
<1> QED
  BY <1>1, <1>4, <1>5 DEF Ring

\* consume from a buffer that is not empty.
LEMMA RingTake ==
    ASSUME NEW h \in Slots, NEW n \in Nat, n # 0, NEW t, NEW S, NEW b \in [Slots -> S],
           NEW g \in Seq(S), NEW s, Ring(h, t, n, b, g, s)
    PROVE  Ring((h + 1) % KEYCODES_BUFFER_LEN, t, n - 1, b, Append(g, b[h]), s)
<1> DEFINE L == KEYCODES_BUFFER_LEN
           k == (h + 1) % L
           a == Append(g, b[h])
<1>1. /\ L \in Nat \ {0} /\ h \in 0..(L - 1) /\ n <= L /\ n - 1 \in 0..L /\ n \in 0..L
      /\ 1 \in 0..L /\ n - 1 <= L
  BY KeyboardAssumption DEF Slots, Ring
<1>2. k = (IF h + 1 < L THEN h + 1 ELSE h + 1 - L) /\ k \in 0..(L - 1)
  <2>1. (h + 1) % L = (IF h + 1 < L THEN h + 1 ELSE h + 1 - L)
    BY <1>1, SlotAt
  <2> QED
    BY <1>1, <2>1
<1> HIDE DEF k
<1>3. ASSUME NEW i \in 0..(n - 1)
      PROVE  (k + i) % L = (h + (i + 1)) % L
  <2>1. i \in 0..L /\ i + 1 \in 0..L
    BY <1>1
  <2>2. (k + i) % L = (IF k + i < L THEN k + i ELSE k + i - L)
    BY <1>1, <1>2, <2>1, SlotAt
  <2>3. (h + (i + 1)) % L = (IF h + (i + 1) < L THEN h + (i + 1) ELSE h + (i + 1) - L)
    BY <1>1, <2>1, SlotAt
  <2> QED
    BY <1>1, <1>2, <2>1, <2>2, <2>3
<1>4. t = (k + (n - 1)) % L
  <2>1. n - 1 \in 0..(n - 1) /\ (n - 1) + 1 = n
    BY <1>1
  <2>2. (k + (n - 1)) % L = (h + ((n - 1) + 1)) % L
    BY <1>3, <2>1
  <2> QED
    BY <2>1, <2>2 DEF Ring
<1>5. /\ b[h] \in S
      /\ Len(a) = Len(g) + 1
      /\ \A i \in 1..Len(g) : a[i] = g[i]
      /\ a[Len(g) + 1] = b[h] /\ Len(g) \in Nat
  <2>1. b[h] \in S
    OBVIOUS
  <2> QED
    BY <2>1, AppendProperties
<1> HIDE DEF a
<1>6. ASSUME NEW i \in 1..Len(a)
      PROVE  s[i] = a[i]
  <2>1. CASE i = Len(g) + 1
    <3>1. 1 \in 1..n /\ h + 1 - 1 = h /\ h % L = h
      BY <1>1
    <3>2. s[Len(g) + 1] = b[(h + 1 - 1) % L]
      BY <3>1 DEF Ring
    <3> QED
      BY <1>5, <2>1, <3>1, <3>2
  <2>2. CASE i # Len(g) + 1
    <3>1. i \in 1..Len(g)
      BY <1>5, <2>2
    <3> QED
      BY <1>5, <3>1 DEF Ring
  <2> QED
    BY <2>1, <2>2
<1>7. ASSUME NEW i \in 1..(n - 1)
      PROVE  s[Len(a) + i] = b[(k + i - 1) % L]
  <2>1. /\ i + 1 \in 1..n /\ i - 1 \in 0..(n - 1) /\ (i - 1) + 1 = i
        /\ k + i - 1 = k + (i - 1) /\ h + (i + 1) - 1 = h + i /\ Len(a) + i = Len(g) + (i + 1)
    BY <1>1, <1>2, <1>5
  <2>2. s[Len(g) + (i + 1)] = b[(h + (i + 1) - 1) % L]
    BY <2>1 DEF Ring
  <2>3. (k + (i - 1)) % L = (h + ((i - 1) + 1)) % L
    BY <1>3, <2>1
  <2> QED
    BY <2>1, <2>2, <2>3
<1> QED
  BY <1>1, <1>4, <1>6, <1>7 DEF Ring, k, a

\* Typing one more event does not change what the buffer should hold.
LEMMA RingTyped ==
    ASSUME NEW h, NEW t, NEW n \in Nat, NEW b, NEW g, NEW S, NEW s \in Seq(S), NEW e \in S,
           Len(g) \in Nat, Len(g) + n <= Len(s), Ring(h, t, n, b, g, s)
    PROVE  Ring(h, t, n, b, g, Append(s, e))
<1> DEFINE a == Append(s, e)
<1>1. (\A i \in 1..Len(s) : a[i] = s[i]) /\ Len(s) \in Nat
  BY AppendProperties
<1> HIDE DEF a
<1>2. ASSUME NEW i \in 1..Len(g)
      PROVE  a[i] = g[i]
  <2>1. i \in 1..Len(s)
    BY <1>1
  <2> QED
    BY <1>1, <2>1 DEF Ring
<1>3. ASSUME NEW i \in 1..n
      PROVE  a[Len(g) + i] = b[(h + i - 1) % KEYCODES_BUFFER_LEN]
  <2>1. Len(g) + i \in 1..Len(s)
    BY <1>1
  <2> QED
    BY <1>1, <2>1 DEF Ring
<1> QED
  BY <1>2, <1>3 DEF Ring, a

\* Whether a shift key was let go last, after one more event.
LEMMA ShiftStep ==
    ASSUME NEW s \in Seq(Event), NEW e \in Event
    PROVE  ShiftLetGo(Append(s, e)) <=> IF e.key \in Shifts THEN e.released ELSE ShiftLetGo(s)
<1> DEFINE a == Append(s, e)
           LetGo(r, i) == /\ r[i].key \in Shifts /\ r[i].released
                          /\ \A j \in (i + 1)..Len(r) : r[j].key \notin Shifts
<1>1. /\ Len(a) = Len(s) + 1 /\ Len(s) \in Nat
      /\ \A i \in 1..Len(s) : a[i] = s[i]
      /\ a[Len(s) + 1] = e
  BY AppendProperties
<1>2. \A r : ShiftLetGo(r) <=> \E i \in 1..Len(r) : LetGo(r, i)
  BY DEF ShiftLetGo
<1> HIDE DEF a
<1>3. CASE e.key \in Shifts
  <2>1. ASSUME e.released
        PROVE  LetGo(a, Len(s) + 1)
    BY <1>1, <1>3, <2>1
  <2>2. ASSUME NEW i \in 1..Len(a), LetGo(a, i)
        PROVE  e.released
    <3>1. i = Len(s) + 1 \/ Len(s) + 1 \in (i + 1)..Len(a)
      BY <1>1
    <3> QED
      BY <1>1, <1>3, <2>2, <3>1
  <2> HIDE DEF LetGo
  <2>3. ShiftLetGo(a) <=> e.released
    BY <1>1, <1>2, <2>1, <2>2
  <2> QED
    BY <1>3, <2>3 DEF a
<1>4. CASE e.key \notin Shifts
  <2>1. ASSUME NEW i \in 1..Len(s)
        PROVE  LetGo(a, i) <=> LetGo(s, i)
    <3>1. a[i] = s[i] /\ \A j \in (i + 1)..Len(s) : a[j] = s[j]
      BY <1>1
    <3>2. \A j \in (i + 1)..Len(a) : j \in (i + 1)..Len(s) \/ a[j] = e
      BY <1>1
    <3>3. \A j \in (i + 1)..Len(s) : j \in (i + 1)..Len(a)
      BY <1>1
    <3> QED
      BY <1>4, <3>1, <3>2, <3>3
  <2>2. ~LetGo(a, Len(s) + 1)
    BY <1>1, <1>4
  <2> HIDE DEF LetGo
  <2>3. ShiftLetGo(a) <=> ShiftLetGo(s)
    <3>1. \A i : i \in 1..Len(a) <=> (i \in 1..Len(s) \/ i = Len(s) + 1)
      BY <1>1
    <3> QED
      BY <1>2, <2>1, <2>2, <3>1
  <2> QED
    BY <1>4, <2>3 DEF a
<1> QED
  BY <1>3, <1>4

\* Caps lock after one more event.
LEMMA CapsStep ==
    ASSUME NEW s \in Seq(Event), NEW e \in Event, NEW held, NEW after
    PROVE  ModifiersAfter(Append(s, e), after).caps
             = IF e.key = "caps" /\ e.released
               THEN ~ModifiersAfter(s, held).caps ELSE ModifiersAfter(s, held).caps
<1> DEFINE Caps(r) == {i \in 1..Len(r) : r[i].key = "caps" /\ r[i].released}
           a == Append(s, e)
           n == Cardinality(Caps(s))
<1>1. /\ Len(a) = Len(s) + 1 /\ Len(s) \in Nat
      /\ \A i \in 1..Len(s) : a[i] = s[i]
      /\ a[Len(s) + 1] = e
  BY AppendProperties
<1>2. IsFiniteSet(Caps(s)) /\ n \in Nat
  <2>1. IsFiniteSet(1..Len(s))
    <3>1. 1 \in Int /\ Len(s) \in Int
      BY <1>1
    <3> QED
      BY <3>1, FS_Interval
  <2>2. Caps(s) \subseteq 1..Len(s)
    OBVIOUS
  <2> HIDE DEF Caps
  <2> QED
    BY <2>1, <2>2, FS_Subset, FS_CardinalityType
<1>3. \A r, h : ModifiersAfter(r, h).caps = (Cardinality(Caps(r)) % 2 = 1)
  BY DEF ModifiersAfter
<1> HIDE DEF a
<1>4. CASE e.key = "caps" /\ e.released
  <2>1. Caps(a) = Caps(s) \cup {Len(s) + 1}
    BY <1>1, <1>4
  <2>2. Len(s) + 1 \notin Caps(s)
    BY <1>1
  <2> HIDE DEF Caps
  <2>3. Cardinality(Caps(a)) = n + 1
    BY <1>2, <2>1, <2>2, FS_AddElement
  <2>4. (Cardinality(Caps(a)) % 2 = 1) = ~(n % 2 = 1)
    BY <1>2, <2>3
  <2>5. ModifiersAfter(a, after).caps = ~ModifiersAfter(s, held).caps
    BY <1>3, <2>4, Zenon
  <2> QED
    BY <1>4, <2>5 DEF a
<1>5. CASE ~(e.key = "caps" /\ e.released)
  <2>1. Caps(a) = Caps(s)
    BY <1>1, <1>5
  <2> HIDE DEF Caps
  <2> QED
    BY <1>3, <1>5, <2>1 DEF a
<1> QED
  BY <1>4, <1>5

\* The update of the modifiers by on_scan_byte follows the keys.
LEMMA ModifiersStep ==
    ASSUME NEW s \in Seq(Event), NEW e \in Event, NEW held, NEW after,
           after = IF e.released THEN held \ {e.key} ELSE held \cup {e.key}
    PROVE  ModifiersAfter(Append(s, e), after) = Modified(ModifiersAfter(s, held), e)
<1> DEFINE new == ModifiersAfter(Append(s, e), after)
           old == ModifiersAfter(s, held)
<1>1. new.caps = IF e.key = "caps" /\ e.released THEN ~old.caps ELSE old.caps
  BY CapsStep
<1>2. /\ new.shift = (after \cap Shifts # {} /\ ~ShiftLetGo(Append(s, e)))
      /\ old.shift = (held \cap Shifts # {} /\ ~ShiftLetGo(s))
  BY DEF ModifiersAfter
<1>3. new.shift = IF e.key \in Shifts THEN ~e.released ELSE old.shift
  <2>1. e.released \in BOOLEAN
    BY DEF Event
  <2>2. CASE e.key \in Shifts
    <3>1. ShiftLetGo(Append(s, e)) <=> e.released
      BY <2>2, ShiftStep
    <3>2. ~e.released => after \cap Shifts # {}
      BY <2>2
    <3> QED
      BY <1>2, <2>1, <2>2, <3>1, <3>2
  <2>3. CASE e.key \notin Shifts
    <3>1. ShiftLetGo(Append(s, e)) <=> ShiftLetGo(s)
      BY <2>3, ShiftStep
    <3>2. after \cap Shifts = held \cap Shifts
      BY <2>3
    <3> QED
      BY <1>2, <2>3, <3>1, <3>2
  <2> QED
    BY <2>2, <2>3
<1>4. new = [shift |-> new.shift, caps |-> new.caps]
  BY DEF ModifiersAfter
<1> HIDE DEF new, old
<1>5. new = Modified(old, e)
  BY <1>1, <1>3, <1>4 DEF Modified
<1> QED
  BY <1>5 DEF new, old

-----------------------------------------------------------------------------
(* What the steps do to the events *)

\* A step that leaves the events alone.
LEMMA EventsSame ==
    ASSUME Events,
           UNCHANGED <<buffer, head, tail, pending, modifiers, isr, down, typed, got, overrun>>
    PROVE  Events'
BY DEF Events, DataTypes, EventsCounted, ModifiersRight, EventsKept

\* A handler that sleeps is told from no handler.
LEMMA IsrNames ==
    /\ NoIsr.process = NoProcess
    /\ \A r \in Sleeper : r # NoIsr /\ r.process \in Pids /\ r.process # NoProcess
    /\ DataTypes => (isr = NoIsr <=> isr.process = NoProcess)
<1>1. NoIsr.process = NoProcess
  BY DEF NoIsr
<1>2. ASSUME NEW r \in Sleeper
      PROVE  r # NoIsr /\ r.process \in Pids /\ r.process # NoProcess
  <2>1. r.process \in Pids
    BY DEF Sleeper
  <2> QED
    BY <1>1, <2>1, Names
<1> QED
  BY <1>1, <1>2 DEF DataTypes

\* The handler that waited gets the lock.
LEMMA EventsLocked ==
    ASSUME Events, isr \in Sleeper, current \in Pids,
           isr' = [process |-> current, event |-> isr.event, locked |-> TRUE],
           UNCHANGED <<buffer, head, tail, pending, modifiers, down, typed, got, overrun>>
    PROVE  Events'
<1>1. isr.event \in Event
  BY DEF Sleeper
<1>2. isr' \in Sleeper /\ isr'.event = isr.event
  BY <1>1 DEF Sleeper
<1>3. isr # NoIsr /\ isr' # NoIsr
  BY <1>2, IsrNames
<1> QED
  BY <1>2, <1>3 DEF Events, DataTypes, EventsCounted, ModifiersRight, EventsKept

\* insert_key_state with the event e that is next in s, the events typed.
LEMMA InsertNext ==
    ASSUME DataTypes, FewKeys, NEW e \in Event, Insert(e), NEW s \in Seq(Event),
           Len(s) <= MaxKeys, Len(got) + pending + 1 = Len(s),
           overrun \/ (/\ Ring(head, tail, pending, buffer, got, s)
                       /\ s[Len(got) + pending + 1] = e)
    PROVE  /\ pending' = pending + 1 /\ head' = head /\ tail' \in Slots
           /\ buffer' \in [Slots -> Event \cup {NoKey}]
           /\ modifiers' = Modified(modifiers, e) /\ modifiers' \in Modifiers
           /\ overrun' \in BOOLEAN
           /\ overrun' \/ Ring(head, tail', pending + 1, buffer', got, s)
<1>1. /\ KEYCODES_BUFFER_LEN \in Nat \ {0} /\ MaxKeys \in Nat /\ MaxKeys < 256
      /\ pending \in Nat /\ Len(got) \in Nat /\ Len(s) \in Nat
      /\ head \in Slots /\ tail \in Slots /\ buffer \in [Slots -> Event \cup {NoKey}]
      /\ overrun \in BOOLEAN
  BY KeyboardAssumption DEF DataTypes, FewKeys
<1>2. /\ pending' = (pending + 1) % 256
      /\ buffer' = [buffer EXCEPT ![tail] = e]
      /\ tail' = (tail + 1) % KEYCODES_BUFFER_LEN
      /\ overrun' = (overrun \/ pending >= KEYCODES_BUFFER_LEN)
      /\ modifiers' = Modified(modifiers, e) /\ head' = head
  BY DEF Insert
<1>3. pending' = pending + 1
  <2>1. pending + 1 < 256
    BY <1>1
  <2> QED
    BY <1>1, <1>2, <2>1
<1>4. tail' \in Slots
  BY <1>1, <1>2 DEF Slots
<1>5. buffer' \in [Slots -> Event \cup {NoKey}]
  BY <1>1, <1>2
<1>6. modifiers' \in Modifiers
  <2>1. modifiers.shift \in BOOLEAN /\ modifiers.caps \in BOOLEAN /\ e.released \in BOOLEAN
    BY DEF DataTypes, Modifiers, Event
  <2> QED
    BY <1>2, <2>1 DEF Modified, Modifiers
<1>7. ASSUME ~overrun'
      PROVE  Ring(head, tail', pending + 1, buffer', got, s)
  <2>1. ~overrun /\ pending < KEYCODES_BUFFER_LEN
    <3>1. ~overrun /\ ~(pending >= KEYCODES_BUFFER_LEN)
      BY <1>2, <1>7, Zenon
    <3> QED
      BY <1>1, <3>1
  <2>2. Ring(head, tail, pending, buffer, got, s) /\ s[Len(got) + pending + 1] = e
    BY <2>1
  <2> QED
    BY <1>1, <1>2, <2>1, <2>2, RingInsert
<1>8. overrun' \in BOOLEAN
  BY <1>1, <1>2
<1> QED
  BY <1>2, <1>3, <1>4, <1>5, <1>6, <1>7, <1>8

\* What on_scan_byte makes of a key is what was typed.
LEMMA KeyIsTyped ==
    ASSUME Events, isr = NoIsr, NEW k \in Keys, NEW released \in BOOLEAN, NEW e,
           e = [key |-> k, released |-> released, modifiers |-> modifiers],
           Len(typed) < MaxKeys,
           down' = IF released THEN down \ {k} ELSE down \cup {k},
           typed' = Append(typed, Typed(k, released))
    PROVE  /\ e \in Event
           /\ typed' = Append(typed, e)
           /\ typed' \in Seq(Event) /\ Len(typed') <= MaxKeys
           /\ Len(got) + pending + 1 = Len(typed')
           /\ typed'[Len(got) + pending + 1] = e
           /\ ModifiersAfter(typed, down)' = Modified(modifiers, e)
           /\ overrun \/ Ring(head, tail, pending, buffer, got, typed')
<1>1. /\ modifiers \in Modifiers /\ typed \in Seq(Event) /\ pending \in Nat
      /\ Len(got) \in Nat /\ Len(typed) \in Nat /\ MaxKeys \in Nat
  BY KeyboardAssumption DEF Events, DataTypes
<1>2. ModifiersAfter(typed, down) = modifiers
  BY DEF Events, ModifiersRight
<1>3. e = Typed(k, released)
  BY <1>2 DEF Typed
<1>4. e \in Event /\ e.key = k /\ e.released = released
  BY <1>1 DEF Event
<1>5. typed' = Append(typed, e)
  BY <1>3
<1>6. typed' \in Seq(Event) /\ Len(typed') = Len(typed) + 1 /\ typed'[Len(typed) + 1] = e
  BY <1>1, <1>4, <1>5, AppendProperties
<1>7. Len(got) + pending = Len(typed)
  BY <1>1 DEF Events, EventsCounted
<1>8. ModifiersAfter(typed, down)' = Modified(modifiers, e)
  <2>1. PICK after : after = down'
    OBVIOUS
  <2>2. ModifiersAfter(Append(typed, e), after) = Modified(ModifiersAfter(typed, down), e)
    <3>1. after = IF e.released THEN down \ {e.key} ELSE down \cup {e.key}
      BY <1>4, <2>1
    <3> QED
      BY <1>1, <1>4, <3>1, ModifiersStep
  <2>3. ModifiersAfter(typed', down') = ModifiersAfter(Append(typed, e), after)
    BY <1>5, <2>1
  <2> QED
    BY <1>2, <2>2, <2>3
<1>9. overrun \/ Ring(head, tail, pending, buffer, got, Append(typed, e))
  <2>1. overrun \/ Ring(head, tail, pending, buffer, got, typed)
    BY DEF Events, EventsKept
  <2>2. Len(got) + pending <= Len(typed)
    BY <1>1, <1>7
  <2> QED
    BY <1>1, <1>4, <2>1, <2>2, RingTyped
<1>10. Len(typed') <= MaxKeys
  BY <1>1, <1>6
<1>11. Len(got) + pending + 1 = Len(typed') /\ typed'[Len(got) + pending + 1] = e
  BY <1>1, <1>6, <1>7
<1> QED
  BY <1>4, <1>5, <1>6, <1>8, <1>9, <1>10, <1>11

\* A key whose handler does not have to wait.
LEMMA EventsTyped ==
    ASSUME Events, FewKeys, isr = NoIsr, NEW k \in Keys, NEW released \in BOOLEAN, NEW e,
           e = [key |-> k, released |-> released, modifiers |-> modifiers],
           Len(typed) < MaxKeys,
           down' = IF released THEN down \ {k} ELSE down \cup {k},
           typed' = Append(typed, Typed(k, released)),
           Insert(e), UNCHANGED <<isr, got>>
    PROVE  Events' /\ pending' # 0
<1>1. /\ e \in Event
      /\ typed' \in Seq(Event) /\ Len(typed') <= MaxKeys
      /\ Len(got) + pending + 1 = Len(typed')
      /\ typed'[Len(got) + pending + 1] = e
      /\ ModifiersAfter(typed, down)' = Modified(modifiers, e)
      /\ overrun \/ Ring(head, tail, pending, buffer, got, typed')
  BY KeyIsTyped
<1>2. PICK s : s = typed'
  OBVIOUS
<1>3. /\ pending' = pending + 1 /\ head' = head /\ tail' \in Slots
      /\ buffer' \in [Slots -> Event \cup {NoKey}]
      /\ modifiers' = Modified(modifiers, e) /\ modifiers' \in Modifiers
      /\ overrun' \in BOOLEAN
      /\ overrun' \/ Ring(head, tail', pending + 1, buffer', got, s)
  BY <1>1, <1>2, InsertNext DEF Events
<1>4. pending \in Nat /\ head \in Slots /\ got \in Seq(Event \cup {NoKey}) /\ Len(got) \in Nat
  BY DEF Events, DataTypes
<1>5. DataTypes'
  BY <1>1, <1>3, <1>4 DEF DataTypes
<1>6. EventsCounted'
  BY <1>1, <1>3, <1>4 DEF EventsCounted
<1>7. ModifiersRight'
  BY <1>1, <1>3 DEF ModifiersRight
<1>8. EventsKept'
  <2>1. overrun' \/ Ring(head', tail', pending', buffer', got', typed')
    BY <1>2, <1>3
  <2> QED
    BY <2>1 DEF EventsKept
<1>9. pending' # 0
  BY <1>3, <1>4
<1> QED
  BY <1>5, <1>6, <1>7, <1>8, <1>9 DEF Events

\* A key whose handler has to wait for the lock.
LEMMA EventsDelayed ==
    ASSUME Events, isr = NoIsr, NEW k \in Keys, NEW released \in BOOLEAN, NEW e,
           e = [key |-> k, released |-> released, modifiers |-> modifiers],
           Len(typed) < MaxKeys,
           down' = IF released THEN down \ {k} ELSE down \cup {k},
           typed' = Append(typed, Typed(k, released)), current \in Pids,
           isr' = [process |-> current, event |-> e, locked |-> FALSE],
           UNCHANGED <<buffer, head, tail, pending, modifiers, got, overrun>>
    PROVE  Events'
<1>1. /\ e \in Event
      /\ typed' \in Seq(Event) /\ Len(typed') <= MaxKeys
      /\ Len(got) + pending + 1 = Len(typed')
      /\ typed'[Len(got) + pending + 1] = e
      /\ ModifiersAfter(typed, down)' = Modified(modifiers, e)
      /\ overrun \/ Ring(head, tail, pending, buffer, got, typed')
  BY KeyIsTyped
<1>2. isr' \in Sleeper /\ isr'.event = e
  BY <1>1 DEF Sleeper
<1>3. isr' # NoIsr
  BY <1>2, IsrNames
<1>4. DataTypes'
  BY <1>1, <1>2 DEF Events, DataTypes
<1>5. EventsCounted' /\ ModifiersRight' /\ EventsKept'
  BY <1>1, <1>2, <1>3 DEF EventsCounted, ModifiersRight, EventsKept
<1> QED
  BY <1>4, <1>5 DEF Events

\* The handler that waited inserts its event.
LEMMA EventsInserted ==
    ASSUME Events, FewKeys, isr \in Sleeper, Insert(isr.event), isr' = NoIsr,
           UNCHANGED <<down, typed, got>>
    PROVE  Events' /\ pending' # 0
<1>1. PICK e : e = isr.event
  OBVIOUS
<1>2. e \in Event /\ isr # NoIsr /\ Insert(e)
  BY <1>1, IsrNames DEF Sleeper
<1>3. /\ pending \in Nat /\ head \in Slots /\ got \in Seq(Event \cup {NoKey}) /\ Len(got) \in Nat
      /\ typed \in Seq(Event) /\ Len(typed) <= MaxKeys /\ Len(typed) \in Nat
  BY DEF Events, DataTypes
<1>4. /\ Len(got) + pending + 1 = Len(typed)
      /\ overrun \/ (/\ Ring(head, tail, pending, buffer, got, typed)
                     /\ typed[Len(got) + pending + 1] = e)
  BY <1>1, <1>2 DEF Events, EventsCounted, EventsKept
<1>5. /\ pending' = pending + 1 /\ head' = head /\ tail' \in Slots
      /\ buffer' \in [Slots -> Event \cup {NoKey}]
      /\ modifiers' = Modified(modifiers, e) /\ modifiers' \in Modifiers
      /\ overrun' \in BOOLEAN
      /\ overrun' \/ Ring(head, tail', pending + 1, buffer', got, typed)
  BY <1>2, <1>3, <1>4, InsertNext DEF Events
<1>6. DataTypes'
  BY <1>3, <1>5 DEF DataTypes
<1>7. EventsCounted'
  BY <1>3, <1>4, <1>5 DEF EventsCounted
<1>8. ModifiersRight'
  BY <1>1, <1>2, <1>5 DEF Events, ModifiersRight
<1>9. EventsKept'
  <2>1. overrun' \/ Ring(head', tail', pending', buffer', got', typed')
    BY <1>5
  <2> QED
    BY <2>1 DEF EventsKept
<1>10. pending' # 0
  BY <1>3, <1>5
<1> QED
  BY <1>6, <1>7, <1>8, <1>9, <1>10 DEF Events

\* consume takes the oldest event.
LEMMA EventsTaken ==
    ASSUME Events, pending # 0, pending' = pending - 1, got' = Append(got, buffer[head]),
           head' = (head + 1) % KEYCODES_BUFFER_LEN,
           UNCHANGED <<buffer, tail, modifiers, isr, down, typed, overrun>>
    PROVE  Events'
<1>1. /\ pending \in Nat /\ head \in Slots /\ tail \in Slots
      /\ got \in Seq(Event \cup {NoKey}) /\ Len(got) \in Nat
      /\ buffer \in [Slots -> Event \cup {NoKey}] /\ KEYCODES_BUFFER_LEN \in Nat \ {0}
      /\ Len(typed) \in Nat
  BY KeyboardAssumption DEF Events, DataTypes
<1>2. buffer[head] \in Event \cup {NoKey}
  BY <1>1
<1>3. got' \in Seq(Event \cup {NoKey}) /\ Len(got') = Len(got) + 1
  BY <1>1, <1>2, AppendProperties
<1>4. head' \in Slots /\ pending' \in Nat
  BY <1>1 DEF Slots
<1>5. DataTypes'
  BY <1>3, <1>4 DEF Events, DataTypes
<1>6. Len(got') + pending' = Len(got) + pending
  BY <1>1, <1>3
<1>7. EventsCounted'
  BY <1>6 DEF Events, EventsCounted
<1>8. ModifiersRight'
  BY DEF Events, ModifiersRight
<1>9. EventsKept'
  <2>1. CASE overrun
    BY <2>1 DEF EventsKept
  <2>2. CASE ~overrun
    <3>1. /\ Ring(head, tail, pending, buffer, got, typed)
          /\ isr # NoIsr => typed[Len(got) + pending + 1] = isr.event
      BY <2>2 DEF Events, EventsKept
    <3>2. Ring((head + 1) % KEYCODES_BUFFER_LEN, tail, pending - 1, buffer,
               Append(got, buffer[head]), typed)
      BY <1>1, <3>1, RingTake
    <3>3. Ring(head', tail', pending', buffer', got', typed')
      BY <3>2
    <3> QED
      BY <1>6, <3>1, <3>3 DEF EventsKept
  <2> QED
    BY <2>1, <2>2
<1> QED
  BY <1>5, <1>7, <1>8, <1>9 DEF Events

-----------------------------------------------------------------------------
(* The invariant *)

\* What holds while the kernel has not panicked.
Working == OneReader /\ FewKeys /\ Events /\ SchedPart /\ Reading

\* The driver starts with an empty buffer and a free lock.
LEMMA KeyboardInitInv == KeyboardInit /\ OneReader /\ FewKeys => Working
<1> SUFFICES ASSUME KeyboardInit, OneReader, FewKeys PROVE Working
  OBVIOUS
<1>0. KEYCODES_BUFFER_LEN \in Nat \ {0} /\ MaxKeys \in Nat /\ 0 \in Slots
  BY KeyboardAssumption DEF Slots
<1>1. /\ buffer = [i \in Slots |-> NoKey] /\ head = 0 /\ tail = 0 /\ pending = 0
      /\ modifiers = Off /\ lock = NoProcess /\ isr = NoIsr
      /\ pc = [p \in Pids |-> "user"] /\ seen = [p \in Pids |-> 0]
      /\ down = {} /\ typed = <<>> /\ got = <<>> /\ overrun = FALSE
  BY DEF KeyboardInit, Slots
<1>2. SchedPart
  <2>1. SchedulerInv /\ IdleNotBlocked /\ panic = NoPanic
    BY InitInv, IdleInit DEF KeyboardInit, Init
  <2>2. NobodyWaits
    BY Names DEF KeyboardInit, Init, NobodyWaits
  <2> QED
    BY <2>1, <2>2 DEF SchedPart
<1>3. Reading
  BY <1>1, Names DEF Reading, LockIsHeld, HolderRuns, EventPending, IsrHolds, Steps, Inside
<1>4. DataTypes
  <2>1. buffer \in [Slots -> Event \cup {NoKey}]
    BY <1>1
  <2>2. head \in Slots /\ tail \in Slots /\ pending \in Nat /\ overrun \in BOOLEAN
    BY <1>0, <1>1
  <2>3. modifiers \in Modifiers
    BY <1>1 DEF Modifiers, Off
  <2>4. /\ typed \in Seq(Event) /\ Len(typed) <= MaxKeys
        /\ got \in Seq(Event \cup {NoKey})
    BY <1>0, <1>1
  <2> QED
    BY <1>1, <2>1, <2>2, <2>3, <2>4 DEF DataTypes
<1>5. EventsCounted
  BY <1>1 DEF EventsCounted
<1>6. ModifiersRight
  <2>1. {i \in 1..Len(typed) : typed[i].key = "caps" /\ typed[i].released} = {}
    BY <1>1
  <2>2. Cardinality({i \in 1..Len(typed) : typed[i].key = "caps" /\ typed[i].released}) = 0
    BY <2>1, FS_EmptySet
  <2>3. (down \cap Shifts # {}) = FALSE /\ (0 % 2 = 1) = FALSE
    BY <1>1
  <2> QED
    BY <1>1, <2>2, <2>3 DEF ModifiersRight, ModifiersAfter, Off
<1>7. EventsKept
  <2>1. Ring(0, 0, 0, buffer, <<>>, <<>>)
    BY <1>0 DEF Ring
  <2> QED
    BY <1>1, <2>1 DEF EventsKept
<1> QED
  BY <1>2, <1>3, <1>4, <1>5, <1>6, <1>7 DEF Working, Events

\* A process that runs is not blocked.
LEMMA RunningNow ==
    ASSUME SchedPart, current \in Pids
    PROVE  state[current] = "Running"
BY DEF SchedPart, SchedulerInv, ListsMatchStates

\* A step that unblocks nobody and neither takes nor uses the lock.
LEMMA ReadingSteady ==
    ASSUME Reading, Steady, UNCHANGED <<lock, isr, pc, seen>>,
           pending' = pending \/ (pending' # 0 /\ \A p \in Pids : pc[p] # "take")
    PROVE  Reading'
<1>1. LockIsHeld'
  BY DEF Reading, LockIsHeld, IsrHolds
<1>2. HolderRuns'
  <2>1. lock # NoProcess => lock \in Pids
    BY DEF Reading
  <2> QED
    BY <2>1 DEF Reading, HolderRuns, Steady, CanRun
<1>3. EventPending'
  BY DEF Reading, EventPending, Steady
<1> QED
  BY <1>1, <1>2, <1>3 DEF Reading

\* The two invariants in which OneReader and FewKeys are constant.
LEMMA WorkingNext == Working /\ Events' /\ SchedPart' /\ Reading' => Working'
BY DEF Working, OneReader, FewKeys

\* A key event of the keyboard.
LEMMA KeyByteInv ==
    ASSUME Working, NEW k \in Keys, NEW released \in BOOLEAN, KeyByte(k, released)
    PROVE  Working'
<1> USE DEF Working
<1>0. /\ isr = NoIsr /\ Len(typed) < MaxKeys /\ current # NoProcess /\ phase = "cpu"
      /\ down' = IF released THEN down \ {k} ELSE down \cup {k}
      /\ typed' = Append(typed, Typed(k, released))
      /\ UNCHANGED <<pc, seen, got>>
  BY DEF KeyByte, Interrupted, readers
<1>1. PICK e : e = [key |-> k, released |-> released, modifiers |-> modifiers]
  OBVIOUS
<1>2. WholeKeycode(e)
  BY <1>1 DEF KeyByte
<1>3. CASE lock = NoProcess
  <2>1. Insert(e) /\ UNCHANGED <<lock, isr, vars>>
    BY <1>2, <1>3 DEF WholeKeycode
  <2>2. Events' /\ pending' # 0
    BY <1>0, <1>1, <2>1, EventsTyped
  <2>3. SchedPart' /\ Steady
    BY <2>1, ScheduleStep
  <2>4. \A p \in Pids : pc[p] # "take"
    BY <1>3, Names DEF Reading, LockIsHeld, Inside
  <2>5. Reading'
    BY <1>0, <2>1, <2>2, <2>3, <2>4, ReadingSteady
  <2> QED
    BY <2>2, <2>3, <2>5, WorkingNext
<1>4. CASE lock # NoProcess
  <2>1. /\ isr' = [process |-> current, event |-> e, locked |-> FALSE]
        /\ Block
        /\ UNCHANGED <<buffer, head, tail, pending, modifiers, lock, overrun>>
    BY <1>2, <1>4 DEF WholeKeycode
  <2>2. lock \in Pids /\ isr.process = NoProcess /\ lock # isr.process
    BY <1>0, <1>4, IsrNames, Names DEF Reading
  <2>3. state[lock] \in {"Running", "Runnable"}
    BY <1>4, <2>2 DEF Reading, HolderRuns
  <2>4. current \in Pids
    <3>1. current \in Processes
      BY <1>0 DEF SchedPart, SchedulerInv, TypeInv
    <3>2. current # Idle
      <4> SUFFICES ASSUME current = Idle PROVE FALSE
        OBVIOUS
      <4>1. runnable = <<>>
        BY DEF SchedPart, SchedulerInv, IdleWhenEmpty
      <4>2. ~Contains(runnable, lock)
        BY <4>1 DEF Contains
      <4>3. current # lock
        BY <2>2, Names
      <4> QED
        BY <2>2, <2>3, <4>2, <4>3 DEF SchedPart, SchedulerInv, ListsMatchStates
    <3> QED
      BY <3>1, <3>2, SchedulerAssumption DEF Processes, Pids, Idle
  <2>5. PICK c \in Pids : c = current
    BY <2>4
  <2>6. Events'
    BY <1>0, <1>1, <2>1, <2>4, EventsDelayed
  <2>7. /\ SchedPart'
        /\ \A p \in Pids : /\ state'[p] = "Blocked" <=> (state[p] = "Blocked" \/ p = c)
                           /\ p # c /\ state[p] \in CanRun => state'[p] \in CanRun
    <3>1. InProcess
      BY <1>0, <2>4 DEF InProcess
    <3> QED
      BY <2>1, <2>5, <3>1, BlockStep
  <2>8. state[c] = "Running"
    BY <2>4, <2>5, RunningNow
  <2>9. isr'.process = c /\ ~isr'.locked
    BY <2>1, <2>5
  <2>10. ~IsrHolds /\ ~IsrHolds'
    BY <1>0, <2>9 DEF IsrHolds
  <2>11. LockIsHeld'
    BY <1>0, <2>1, <2>10 DEF Reading, LockIsHeld
  <2>12. HolderRuns'
    BY <2>1, <2>2, <2>3, <2>7, <2>9 DEF HolderRuns, CanRun
  <2>13. EventPending'
    <3> SUFFICES ASSUME NEW p \in Pids
                 PROVE  /\ pc'[p] # "user" => p \in Readers
                        /\ pc'[p] = "wait" => (state'[p] = "Blocked" /\ p # isr'.process)
                                              \/ pending' # 0
                        /\ pc'[p] \in {"lock", "read", "take"} => pending' # 0
                        /\ pc'[p] = "take" => seen'[p] = pending'
      BY DEF EventPending
    <3>1. /\ pc[p] # "user" => p \in Readers
          /\ pc[p] = "wait" => (state[p] = "Blocked" /\ p # isr.process) \/ pending # 0
          /\ pc[p] \in {"lock", "read", "take"} => pending # 0
          /\ pc[p] = "take" => seen[p] = pending
      BY DEF Reading, EventPending
    <3>2. pc'[p] = pc[p] /\ seen'[p] = seen[p] /\ pending' = pending
      BY <1>0, <2>1
    <3> QED
      BY <2>7, <2>8, <2>9, <3>1, <3>2
  <2>14. Reading'
    BY <1>0, <2>1, <2>11, <2>12, <2>13 DEF Reading
  <2> QED
    BY <2>6, <2>7, <2>14, WorkingNext
<1> QED
  BY <1>3, <1>4

\* A byte of a multibyte scan code.
LEMMA OtherByteInv ==
    ASSUME Working,
           MultibytePrefix \/ \E k \in Keys, released \in BOOLEAN : DropByte(k, released)
    PROVE  Working'
<1> USE DEF Working
<1>1. /\ UNCHANGED vars /\ UNCHANGED <<lock, isr, pc, seen>>
      /\ UNCHANGED <<buffer, head, tail, pending, modifiers, isr, down, typed, got, overrun>>
  BY DEF MultibytePrefix, DropByte, readers, history
<1>2. SchedPart' /\ Steady
  BY <1>1, ScheduleStep
<1> QED
  BY <1>1, <1>2, EventsSame, ReadingSteady, WorkingNext
-----------------------------------------------------------------------------
(* The lock *)

\* A process in the middle of a handler does not read, and one outside
\* consume has the lock only for its handler.
LEMMA LockElsewhere ==
    ASSUME Reading, NEW c \in Pids, c # isr.process, pc[c] \notin Inside
    PROVE  lock # c
BY Names DEF Reading, LockIsHeld

\* There is one reader, so that every other process is out of the driver.
LEMMA OthersAreOut ==
    ASSUME Reading, OneReader, NEW c \in Pids, c \in Readers
    PROVE  \A p \in Pids : p # c => pc[p] = "user"
BY DEF Reading, EventPending, OneReader

\* A handler that sleeps.
LEMMA IsrSleeps ==
    ASSUME Events, current \in Pids, isr.process = current
    PROVE  isr \in Sleeper /\ isr # NoIsr
<1>1. isr # NoIsr
  BY IsrNames, Names
<1> QED
  BY <1>1 DEF Events, DataTypes

\* A reader that goes on to l.
LEMMA ReaderMoves ==
    ASSUME Reading, OneReader, NEW c \in Pids, c \in Readers, NEW l \in Steps,
           pc' = [pc EXCEPT ![c] = l],
           l = "wait" => (state'[c] = "Blocked" /\ c # isr'.process) \/ pending' # 0,
           l \in {"lock", "read", "take"} => pending' # 0,
           l = "take" => seen'[c] = pending'
    PROVE  /\ EventPending'
           /\ pc' \in [Pids -> Steps]
           /\ pc'[c] = l
           /\ \A p \in Pids : p # c => pc[p] = "user" /\ pc'[p] = "user"
<1>1. \A p \in Pids : p # c => pc[p] = "user"
  BY OthersAreOut
<1>2. pc \in [Pids -> Steps]
  BY DEF Reading
<1>3. pc' \in [Pids -> Steps] /\ pc'[c] = l /\ \A p \in Pids : p # c => pc'[p] = "user"
  BY <1>1, <1>2
<1>4. EventPending'
  BY <1>3 DEF EventPending
<1> QED
  BY <1>1, <1>3, <1>4

\* A reader outside consume that blocks.
LEMMA ReaderBlocks ==
    ASSUME Working, NEW c \in Pids, c = current, c \in Readers, c # isr.process,
           pc[c] \in {"user", "wait", "lock"}, InProcess, Block,
           NEW l \in {"wait", "lock"}, pc' = [pc EXCEPT ![c] = l],
           l = "lock" => pending # 0,
           UNCHANGED <<buffer, head, tail, pending, modifiers, lock, isr, seen, down, typed, got,
                       overrun>>
    PROVE  Working'
<1> USE DEF Working
<1>1. /\ SchedPart'
      /\ \A p \in Pids : /\ state'[p] = "Blocked" <=> (state[p] = "Blocked" \/ p = c)
                         /\ p # c /\ state[p] \in CanRun => state'[p] \in CanRun
  BY BlockStep
<1>2. lock # c
  BY LockElsewhere DEF Inside
<1>3. l \in Steps /\ l \notin Inside /\ l # "take" /\ l # "read"
  BY DEF Steps, Inside
<1>4. state'[c] = "Blocked" /\ c # isr'.process
  BY <1>1
<1>5. /\ EventPending'
      /\ pc' \in [Pids -> Steps]
      /\ pc'[c] = l
      /\ \A p \in Pids : p # c => pc[p] = "user" /\ pc'[p] = "user"
  BY <1>3, <1>4, ReaderMoves
<1>6. LockIsHeld'
  <2>1. \A p \in Pids : pc[p] \notin Inside /\ pc'[p] \notin Inside
    BY <1>3, <1>5 DEF Inside
  <2>2. lock \in Pids \cup {NoProcess}
    BY DEF Reading
  <2> QED
    BY <2>1, <2>2 DEF Reading, LockIsHeld, IsrHolds
<1>7. HolderRuns'
  BY <1>1, <1>2 DEF Reading, HolderRuns, CanRun
<1>8. Reading'
  BY <1>5, <1>6, <1>7 DEF Reading
<1> QED
  BY <1>1, <1>8, EventsSame, WorkingNext

-----------------------------------------------------------------------------
(* The steps *)

\* keyboard_read blocks on its KeyboardReadBlocker.
LEMMA keyboard_readInv == Working /\ keyboard_read => Working'
<1> SUFFICES ASSUME Working, keyboard_read PROVE Working'
  OBVIOUS
<1>1. PICK c \in Pids : c = current
  BY DEF keyboard_read, At, InProcess
<1>2. /\ InProcess /\ c # isr.process /\ pc[c] = "user" /\ c \in Readers /\ Block
      /\ pc' = [pc EXCEPT ![c] = "wait"]
      /\ UNCHANGED <<buffer, head, tail, pending, modifiers, lock, isr, seen, down, typed, got,
                     overrun>>
  BY <1>1 DEF keyboard_read, At, Goto, driver, history
<1> QED
  BY <1>1, <1>2, ReaderBlocks

\* consume takes the lock, or sleeps and tries again.
LEMMA ConsumeLockInv == Working /\ ConsumeLock => Working'
<1> SUFFICES ASSUME Working, ConsumeLock PROVE Working'
  OBVIOUS
<1> USE DEF Working
<1>1. PICK c \in Pids : c = current
  BY DEF ConsumeLock, At, InProcess
<1>2. /\ InProcess /\ c # isr.process /\ pc[c] \in {"wait", "lock"}
      /\ UNCHANGED <<buffer, head, tail, pending, modifiers, isr, seen, down, typed, got, overrun>>
  BY <1>1 DEF ConsumeLock, At, history
<1>3. state[c] = "Running"
  BY <1>1, RunningNow
<1>4. c \in Readers /\ pending # 0
  BY <1>2, <1>3 DEF Reading, EventPending
<1>5. CASE lock # NoProcess
  <2>1. Block /\ pc' = [pc EXCEPT ![c] = "lock"] /\ UNCHANGED lock
    BY <1>1, <1>5 DEF ConsumeLock, Goto
  <2> QED
    BY <1>1, <1>2, <1>4, <2>1, ReaderBlocks
<1>6. CASE lock = NoProcess
  <2>1. lock' = c /\ pc' = [pc EXCEPT ![c] = "read"] /\ UNCHANGED vars
    BY <1>1, <1>6 DEF ConsumeLock, Goto
  <2>2. /\ EventPending'
        /\ pc' \in [Pids -> Steps]
        /\ pc'[c] = "read"
        /\ \A p \in Pids : p # c => pc[p] = "user" /\ pc'[p] = "user"
    <3>1. "read" \in Steps
      BY DEF Steps, Inside
    <3> QED
      BY <1>2, <1>4, <2>1, <3>1, ReaderMoves
  <2>3. ~IsrHolds
    <3>1. isr # NoIsr => isr.process # NoProcess
      BY IsrNames DEF Events
    <3> QED
      BY <1>6, <3>1 DEF Reading, LockIsHeld, IsrHolds
  <2>4. ~IsrHolds'
    BY <1>2, <2>3 DEF IsrHolds
  <2>5. LockIsHeld'
    <3>1. \A p \in Pids : pc'[p] \in Inside => p = c
      BY <2>2 DEF Inside
    <3>2. "read" \in Inside
      BY DEF Inside
    <3> QED
      BY <2>1, <2>2, <2>4, <3>1, <3>2 DEF LockIsHeld
  <2>6. SchedPart' /\ state' = state
    <3>1. state' = state
      BY <2>1 DEF vars, procs
    <3> QED
      BY <2>1, <3>1, ScheduleStep
  <2>7. HolderRuns'
    BY <1>3, <2>1, <2>6 DEF HolderRuns
  <2>8. Reading'
    BY <1>1, <1>2, <2>1, <2>2, <2>5, <2>7 DEF Reading
  <2> QED
    BY <1>2, <2>6, <2>8, EventsSame, WorkingNext
<1> QED
  BY <1>5, <1>6

\* The reader inside consume keeps the lock.
LEMMA ReaderInside ==
    ASSUME Working, NEW c \in Pids, c = current, c # isr.process, pc[c] \in Inside,
           c \in Readers, NEW l \in Inside,
           pc' = [pc EXCEPT ![c] = l], seen' \in [Pids -> Nat],
           l \in {"read", "take"} => pending' # 0,
           l = "take" => seen'[c] = pending',
           UNCHANGED vars, UNCHANGED <<lock, isr>>
    PROVE  Reading' /\ SchedPart'
<1> USE DEF Working
<1>0. l \in Steps /\ l # "wait" /\ l # "lock"
  BY DEF Inside, Steps
<1>1. /\ EventPending'
      /\ pc' \in [Pids -> Steps]
      /\ pc'[c] = l
      /\ \A p \in Pids : p # c => pc[p] = "user" /\ pc'[p] = "user"
  BY <1>0, ReaderMoves
<1>2. lock = c /\ ~(IsrHolds /\ isr.process = c)
  BY DEF Reading, LockIsHeld
<1>3. LockIsHeld'
  <2>1. \A p \in Pids : pc'[p] \in Inside => p = c
    BY <1>1 DEF Inside
  <2>2. IsrHolds' = IsrHolds /\ isr' = isr /\ lock' = c
    BY <1>2 DEF IsrHolds
  <2>3. IsrHolds => lock = isr.process
    BY DEF Reading, LockIsHeld
  <2> QED
    BY <1>1, <1>2, <2>1, <2>2, <2>3 DEF LockIsHeld
<1>4. state' = state
  BY DEF vars, procs
<1>5. HolderRuns'
  BY <1>4 DEF Reading, HolderRuns
<1>6. SchedPart'
  BY ScheduleStep
<1> QED
  BY <1>1, <1>3, <1>5, <1>6 DEF Reading

\* consume reads m_events_pending; it is not 0.
LEMMA ConsumeReadInv == Working /\ ConsumeRead => Working'
<1> SUFFICES ASSUME Working, ConsumeRead PROVE Working'
  OBVIOUS
<1> USE DEF Working
<1>1. PICK c \in Pids : c = current
  BY DEF ConsumeRead, At, InProcess
<1>2. /\ c # isr.process /\ pc[c] = "read"
      /\ UNCHANGED <<buffer, head, tail, pending, modifiers, lock, isr, down, typed, got, overrun>>
  BY <1>1 DEF ConsumeRead, At, history, driver
<1>3. c \in Readers /\ pending # 0 /\ pending \in Nat
  BY <1>2 DEF Reading, EventPending, Events, DataTypes
<1>4. /\ seen' = [seen EXCEPT ![c] = pending] /\ pc' = [pc EXCEPT ![c] = "take"]
      /\ UNCHANGED vars
  BY <1>1, <1>3 DEF ConsumeRead, Goto
<1>5. seen' \in [Pids -> Nat] /\ seen'[c] = pending'
  BY <1>2, <1>3, <1>4 DEF Reading
<1>6. "take" \in Inside /\ pc[c] \in Inside
  BY <1>2 DEF Inside
<1>7. Reading' /\ SchedPart'
  BY <1>1, <1>2, <1>3, <1>4, <1>5, <1>6, ReaderInside
<1> QED
  BY <1>2, <1>7, EventsSame, WorkingNext

\* consume writes the counter back and takes the oldest event.
LEMMA ConsumeTakeInv == Working /\ ConsumeTake => Working'
<1> SUFFICES ASSUME Working, ConsumeTake PROVE Working'
  OBVIOUS
<1> USE DEF Working
<1>1. PICK c \in Pids : c = current
  BY DEF ConsumeTake, At, InProcess
<1>2. /\ c # isr.process /\ pc[c] = "take"
      /\ pending' = seen[c] - 1
      /\ got' = Append(got, buffer[head])
      /\ head' = (head + 1) % KEYCODES_BUFFER_LEN
      /\ pc' = [pc EXCEPT ![c] = "unlock"]
      /\ UNCHANGED vars
      /\ UNCHANGED <<buffer, tail, modifiers, lock, isr, seen, down, typed, overrun>>
  BY <1>1 DEF ConsumeTake, At, Goto
<1>3. c \in Readers /\ pending # 0 /\ seen[c] = pending
  BY <1>2 DEF Reading, EventPending
<1>4. Events'
  BY <1>2, <1>3, EventsTaken
<1>5. "unlock" \in Inside /\ pc[c] \in Inside /\ seen' \in [Pids -> Nat]
  BY <1>2 DEF Inside, Reading
<1>6. Reading' /\ SchedPart'
  BY <1>1, <1>2, <1>3, <1>5, ReaderInside
<1> QED
  BY <1>4, <1>6, WorkingNext

\* consume releases the lock.
LEMMA ConsumeUnlockInv == Working /\ ConsumeUnlock => Working'
<1> SUFFICES ASSUME Working, ConsumeUnlock PROVE Working'
  OBVIOUS
<1> USE DEF Working
<1>1. PICK c \in Pids : c = current
  BY DEF ConsumeUnlock, At, InProcess
<1>2. /\ c # isr.process /\ pc[c] = "unlock"
      /\ lock' = NoProcess
      /\ pc' = [pc EXCEPT ![c] = "user"]
      /\ UNCHANGED vars
      /\ UNCHANGED <<buffer, head, tail, pending, modifiers, isr, seen, down, typed, got, overrun>>
  BY <1>1 DEF ConsumeUnlock, At, Goto, history
<1>3. c \in Readers /\ lock = c
  BY <1>2 DEF Reading, EventPending, LockIsHeld, Inside
<1>4. /\ EventPending'
      /\ pc' \in [Pids -> Steps]
      /\ pc'[c] = "user"
      /\ \A p \in Pids : p # c => pc[p] = "user" /\ pc'[p] = "user"
  <2>1. "user" \in Steps
    BY DEF Steps
  <2> QED
    BY <1>2, <1>3, <2>1, ReaderMoves
<1>5. ~IsrHolds'
  BY <1>2, <1>3 DEF Reading, LockIsHeld, IsrHolds
<1>6. LockIsHeld'
  <2>1. \A p \in Pids : pc'[p] \notin Inside
    BY <1>4 DEF Inside
  <2> QED
    BY <1>2, <1>5, <2>1 DEF LockIsHeld
<1>7. HolderRuns'
  BY <1>2 DEF HolderRuns
<1>8. Reading'
  BY <1>2, <1>4, <1>6, <1>7 DEF Reading
<1>9. SchedPart'
  BY <1>2, ScheduleStep
<1> QED
  BY <1>2, <1>8, <1>9, EventsSame, WorkingNext

\* A step of the reader.
LEMMA ReaderStepInv == Working /\ ReaderStep => Working'
BY keyboard_readInv, ConsumeLockInv, ConsumeReadInv, ConsumeTakeInv, ConsumeUnlockInv
   DEF ReaderStep

\* Another process blocks.
LEMMA OtherBlocksInv == Working /\ OtherBlocks => Working'
<1> SUFFICES ASSUME Working, OtherBlocks PROVE Working'
  OBVIOUS
<1> USE DEF Working
<1>1. PICK c \in Pids : c = current
  BY DEF OtherBlocks, At, InProcess
<1>2. /\ InProcess /\ c # isr.process /\ pc[c] = "user" /\ Block
      /\ UNCHANGED <<buffer, head, tail, pending, modifiers, lock, isr, pc, seen, down, typed, got,
                     overrun>>
  BY <1>1 DEF OtherBlocks, At, keyboard, driver, readers, history
<1>3. lock # c
  BY <1>2, LockElsewhere DEF Inside
<1>4. /\ SchedPart'
      /\ \A p \in Pids : /\ state'[p] = "Blocked" <=> (state[p] = "Blocked" \/ p = c)
                         /\ p # c /\ state[p] \in CanRun => state'[p] \in CanRun
  BY <1>1, <1>2, BlockStep
<1>5. LockIsHeld'
  BY <1>2 DEF Reading, LockIsHeld, IsrHolds
<1>6. HolderRuns'
  BY <1>2, <1>3, <1>4 DEF Reading, HolderRuns, CanRun
<1>7. EventPending'
  BY <1>2, <1>4 DEF Reading, EventPending
<1>8. Reading'
  BY <1>2, <1>5, <1>6, <1>7 DEF Reading
<1> QED
  BY <1>2, <1>4, <1>8, EventsSame, WorkingNext

\* A handler that slept takes the lock, or sleeps again.
LEMMA IsrLockInv == Working /\ IsrLock => Working'
<1> SUFFICES ASSUME Working, IsrLock PROVE Working'
  OBVIOUS
<1> USE DEF Working
<1>1. PICK c \in Pids : c = current
  BY DEF IsrLock, InProcess
<1>2. /\ InProcess /\ isr.process = c /\ ~isr.locked
      /\ UNCHANGED <<buffer, head, tail, pending, modifiers, pc, seen, down, typed, got, overrun>>
  BY <1>1 DEF IsrLock, readers, history
<1>3. isr \in Sleeper /\ isr # NoIsr
  BY <1>1, <1>2, IsrSleeps
<1>4. ~IsrHolds
  BY <1>2 DEF IsrHolds
<1>5. CASE lock # NoProcess
  <2>1. Block /\ UNCHANGED <<lock, isr>>
    BY <1>5 DEF IsrLock
  <2>2. /\ SchedPart'
        /\ \A p \in Pids : /\ state'[p] = "Blocked" <=> (state[p] = "Blocked" \/ p = c)
                           /\ p # c /\ state[p] \in CanRun => state'[p] \in CanRun
    BY <1>1, <1>2, <2>1, BlockStep
  <2>3. LockIsHeld'
    BY <1>2, <2>1 DEF Reading, LockIsHeld, IsrHolds
  <2>4. HolderRuns'
    BY <1>2, <2>1, <2>2 DEF Reading, HolderRuns, CanRun
  <2>5. EventPending'
    BY <1>2, <2>1, <2>2 DEF Reading, EventPending
  <2>6. Reading'
    BY <1>2, <2>1, <2>3, <2>4, <2>5 DEF Reading
  <2> QED
    BY <1>2, <2>1, <2>2, <2>6, EventsSame, WorkingNext
<1>6. CASE lock = NoProcess
  <2>1. /\ lock' = c /\ isr' = [process |-> current, event |-> isr.event, locked |-> TRUE]
        /\ UNCHANGED vars
    BY <1>1, <1>6 DEF IsrLock
  <2>2. isr'.process = c /\ isr'.locked
    BY <1>1, <2>1
  <2>3. Events'
    BY <1>1, <1>2, <1>3, <2>1, EventsLocked
  <2>4. \A p \in Pids : pc[p] \notin Inside
    BY <1>6, Names DEF Reading, LockIsHeld
  <2>5. IsrHolds'
    <3>1. isr' # NoIsr
      BY <2>2, IsrNames, Names
    <3> QED
      BY <2>2, <3>1 DEF IsrHolds
  <2>6. LockIsHeld'
    BY <1>2, <2>1, <2>2, <2>4, <2>5 DEF LockIsHeld
  <2>7. HolderRuns'
    BY <2>1, <2>2 DEF HolderRuns
  <2>8. state' = state
    BY <2>1 DEF vars, procs
  <2>9. EventPending'
    BY <1>2, <2>2, <2>8 DEF Reading, EventPending
  <2>10. Reading'
    BY <1>2, <2>1, <2>6, <2>7, <2>9 DEF Reading
  <2>11. SchedPart'
    BY <2>1, ScheduleStep
  <2> QED
    BY <2>3, <2>10, <2>11, WorkingNext
<1> QED
  BY <1>5, <1>6

\* A handler that slept inserts its event and ends.
LEMMA IsrInsertInv == Working /\ IsrInsert => Working'
<1> SUFFICES ASSUME Working, IsrInsert PROVE Working'
  OBVIOUS
<1> USE DEF Working
<1>1. PICK c \in Pids : c = current
  BY DEF IsrInsert, InProcess
<1>2. /\ isr.process = c /\ isr.locked /\ Insert(isr.event)
      /\ lock' = NoProcess /\ isr' = NoIsr
      /\ UNCHANGED vars
      /\ UNCHANGED <<pc, seen, down, typed, got>>
  BY <1>1 DEF IsrInsert, readers
<1>3. isr \in Sleeper /\ isr # NoIsr
  BY <1>1, <1>2, IsrSleeps
<1>4. IsrHolds /\ ~IsrHolds'
  BY <1>2, <1>3 DEF IsrHolds
<1>5. Events' /\ pending' # 0
  BY <1>2, <1>3, EventsInserted
<1>6. \A p \in Pids : pc[p] \notin Inside
  BY <1>2, <1>4 DEF Reading, LockIsHeld
<1>7. LockIsHeld'
  BY <1>2, <1>4, <1>6 DEF LockIsHeld
<1>8. HolderRuns'
  BY <1>2 DEF HolderRuns
<1>9. EventPending'
  BY <1>2, <1>5, <1>6 DEF Reading, EventPending, Inside
<1>10. Reading'
  BY <1>2, <1>7, <1>8, <1>9 DEF Reading
<1>11. SchedPart'
  BY <1>2, ScheduleStep
<1> QED
  BY <1>5, <1>10, <1>11, WorkingNext

\* A look of try_unblock_tasks unblocks a reader only if there is an event.
\* When can_consume finds the lock taken, a handler holds it.
LEMMA TryUnblockReaderInv == Working /\ TryUnblockReader => Working' \/ (Events' /\ Hung')
<1> SUFFICES ASSUME Working, TryUnblockReader PROVE Working' \/ (Events' /\ Hung')
  OBVIOUS
<1> USE DEF Working
<1>1. UNCHANGED <<buffer, head, tail, pending, modifiers, lock, isr, pc, seen, down, typed, got,
                  overrun>>
  BY DEF TryUnblockReader, keyboard, driver, readers, history
<1>2. Events'
  BY <1>1, EventsSame
<1>3. PICK b \in Pids : b = blocked[cursor]
  BY InBlockedList DEF TryUnblockReader, SchedPart
<1>4. CASE AwaitsKey(b) /\ lock # NoProcess
  <2>1. Panic(NoCurrent)
    BY <1>3, <1>4 DEF TryUnblockReader
  <2>2. b \in Readers
    BY <1>4 DEF AwaitsKey, Reading, EventPending
  <2>3. \A p \in Pids : pc[p] \notin Inside
    <3>1. \A p \in Pids : p # b => pc[p] = "user"
      BY <2>2, OthersAreOut
    <3> QED
      BY <1>4, <3>1 DEF AwaitsKey, Inside
  <2>4. IsrHolds /\ lock = isr.process
    BY <1>4, <2>3 DEF Reading, LockIsHeld
  <2> QED
    BY <1>1, <1>2, <2>1, <2>4 DEF Hung, IsrHolds, Panic
<1>5. ASSUME NEW can \in BOOLEAN, VisitBlocked(can),
             AwaitsKey(b) /\ can => pending # 0
      PROVE  Working'
  <2>1. /\ SchedPart'
        /\ \A p \in Pids : /\ state[p] \in CanRun => state'[p] \in CanRun
                           /\ state'[p] = "Blocked" <=> (state[p] = "Blocked" /\ ~(can /\ p = b))
    BY <1>3, <1>5, VisitStep
  <2>2. LockIsHeld'
    BY <1>1 DEF Reading, LockIsHeld, IsrHolds
  <2>3. HolderRuns'
    BY <1>1, <2>1 DEF Reading, HolderRuns, CanRun
  <2>4. EventPending'
    BY <1>1, <1>5, <2>1 DEF Reading, EventPending, AwaitsKey
  <2>5. Reading'
    BY <1>1, <2>2, <2>3, <2>4 DEF Reading
  <2> QED
    BY <1>2, <2>1, <2>5, WorkingNext
<1>6. CASE AwaitsKey(b) /\ lock = NoProcess
  <2>1. VisitBlocked(can_consume)
    BY <1>3, <1>6 DEF TryUnblockReader
  <2>2. PICK can \in BOOLEAN : can = can_consume
    BY DEF can_consume
  <2>3. VisitBlocked(can)
    BY <2>1, <2>2
  <2> QED
    BY <1>5, <2>2, <2>3 DEF can_consume
<1>7. CASE ~AwaitsKey(b)
  <2>1. PICK can \in BOOLEAN : VisitBlocked(can)
    BY <1>3, <1>7 DEF TryUnblockReader
  <2> QED
    BY <1>5, <1>7, <2>1
<1> QED
  BY <1>4, <1>6, <1>7

\* The timer, and a step of something else.
LEMMA ScheduleInv == Working /\ (Schedule \/ UNCHANGED kvars) => Working'
<1> SUFFICES ASSUME Working, Schedule \/ UNCHANGED kvars PROVE Working'
  OBVIOUS
<1> USE DEF Working
<1>1. /\ UNCHANGED vars \/ Tick \/ TickSwitch
      /\ UNCHANGED <<buffer, head, tail, pending, modifiers, lock, isr, pc, seen, down, typed, got,
                     overrun>>
  BY DEF Schedule, kvars, keyboard, driver, readers, history
<1>2. SchedPart' /\ Steady
  BY <1>1, ScheduleStep
<1> QED
  BY <1>1, <1>2, EventsSame, ReadingSteady, WorkingNext

\* A kernel that hangs does nothing more.
LEMMA HungInv == Events /\ Hung /\ [KeyboardNext]_kvars => Events' /\ Hung'
<1> SUFFICES ASSUME Events, Hung, [KeyboardNext]_kvars PROVE Events' /\ Hung'
  OBVIOUS
<1>1. phase = "hang"
  BY DEF Hung
<1>2. ~InProcess /\ ~Interrupted /\ phase # "unblock" /\ phase # "cpu"
  BY <1>1 DEF InProcess, Interrupted
<1>3. ~ReaderStep
  BY <1>2 DEF ReaderStep, keyboard_read, ConsumeLock, ConsumeRead, ConsumeTake, ConsumeUnlock, At
<1>4. ~OtherBlocks /\ ~IsrLock /\ ~IsrInsert /\ ~MultibytePrefix /\ ~TryUnblockReader
  BY <1>2 DEF OtherBlocks, At, IsrLock, IsrInsert, MultibytePrefix, TryUnblockReader
<1>5. ~Schedule
  BY <1>2 DEF Schedule, Tick, TickContinue, TickPreempt, TickSwitch
<1>6. ~\E k \in Keys, released \in BOOLEAN : KeyByte(k, released) \/ DropByte(k, released)
  BY <1>2 DEF KeyByte, DropByte
<1>7. UNCHANGED vars /\ UNCHANGED keyboard
  BY <1>3, <1>4, <1>5, <1>6 DEF KeyboardNext, Halt, Hang, kvars
<1>8. /\ UNCHANGED <<phase, panic, lock>>
      /\ UNCHANGED <<buffer, head, tail, pending, modifiers, isr, down, typed, got, overrun>>
  BY <1>7 DEF vars, cpu, keyboard, driver, history
<1> QED
  BY <1>8, EventsSame DEF Hung

\* The invariant is preserved by every step.
LEMMA KeyboardNextInv == KeyboardInv /\ [KeyboardNext]_kvars => KeyboardInv'
<1> SUFFICES ASSUME KeyboardInv, [KeyboardNext]_kvars PROVE KeyboardInv'
  OBVIOUS
<1>0. (OneReader /\ FewKeys)'
  BY DEF KeyboardInv, OneReader, FewKeys
<1>1. CASE Hung
  BY <1>0, <1>1, HungInv DEF KeyboardInv
<1>2. CASE Working
  <2>1. Halt => UNCHANGED kvars
    BY DEF Halt, Hang, kvars
  <2>2. Working' \/ (Events' /\ Hung')
    <3>1. ASSUME NEW k \in Keys, NEW released \in BOOLEAN,
                 KeyByte(k, released) \/ DropByte(k, released)
          PROVE  Working'
      BY <1>2, <3>1, KeyByteInv, OtherByteInv
    <3> QED
      BY <1>2, <2>1, <3>1, OtherByteInv, IsrLockInv, IsrInsertInv, ReaderStepInv, OtherBlocksInv,
         TryUnblockReaderInv, ScheduleInv
         DEF KeyboardNext
  <2> QED
    BY <1>0, <2>2 DEF KeyboardInv, Working
<1> QED
  BY <1>1, <1>2 DEF KeyboardInv, Working

-----------------------------------------------------------------------------
(* The theorems *)

(***************************************************************************)
(* The invariant of the keyboard driver: the lock has one holder, the ring *)
(* buffer of PS2Keyboard.cpp holds what was typed, and the kernel panics   *)
(* only where can_consume meets a handler that holds the lock.             *)
(***************************************************************************)
THEOREM KeyboardInvariance == OneReader /\ FewKeys /\ KeyboardSpec => []KeyboardInv
<1>1. OneReader /\ FewKeys /\ KeyboardInit => KeyboardInv
  BY KeyboardInitInv DEF KeyboardInv, Working
<1> QED
  BY <1>1, KeyboardNextInv, PTL DEF KeyboardSpec

(***************************************************************************)
(* The ASSERT of consume never fails for a single reader: the event that   *)
(* unblocked it is still there when it has the lock.                       *)
(***************************************************************************)
THEOREM EventIsFound == OneReader /\ FewKeys /\ KeyboardSpec => []ConsumeFindsEvent
<1>1. KeyboardInv => ConsumeFindsEvent
  BY SchedulerAssumption DEF KeyboardInv, SchedPart, Hung, ConsumeFindsEvent, NoPanic, NoEvent, NoCurrent
<1> QED
  BY <1>1, KeyboardInvariance, PTL

(***************************************************************************)
(* can_consume, called by try_unblock_tasks, finds the lock taken only     *)
(* when a handler that had to wait holds it.                               *)
(***************************************************************************)
THEOREM SchedulerFindsLockFree == OneReader /\ FewKeys /\ KeyboardSpec => []LockFreeInScheduler
<1>1. KeyboardInv => LockFreeInScheduler
  BY DEF KeyboardInv, SchedPart, Hung, LockFreeInScheduler, NoPanic, NoCurrent
<1> QED
  BY <1>1, KeyboardInvariance, PTL

\* The events consumed, those in the ring buffer and the delayed one are
\* those typed.
LEMMA EventsAddUp == Events => NoKeyLost
<1> SUFFICES ASSUME Events PROVE NoKeyLost
  OBVIOUS
<1>0. /\ got \in Seq(Event \cup {NoKey}) /\ Len(got) \in Nat /\ pending \in Nat
      /\ typed \in Seq(Event) /\ Len(typed) \in Nat
      /\ isr \in Sleeper \cup {NoIsr}
      /\ head \in Slots /\ buffer \in [Slots -> Event \cup {NoKey}]
      /\ KEYCODES_BUFFER_LEN \in Nat \ {0}
  BY KeyboardAssumption DEF Events, DataTypes
<1>1. PICK d : d = Delayed
  OBVIOUS
<1>2. /\ d \in Seq(Event \cup {NoKey})
      /\ Len(d) = (IF isr = NoIsr THEN 0 ELSE 1)
      /\ isr # NoIsr => d[1] = isr.event
  <2>1. CASE isr = NoIsr
    BY <1>1, <2>1 DEF Delayed
  <2>2. CASE isr # NoIsr
    <3>1. isr.event \in Event
      BY <1>0, <2>2 DEF Sleeper
    <3> QED
      BY <1>1, <2>2, <3>1 DEF Delayed
  <2> QED
    BY <2>1, <2>2
<1>3. Len(got) + pending + Len(d) = Len(typed)
  BY <1>2 DEF Events, EventsCounted
<1>4. ASSUME ~overrun
      PROVE  got \o Buffered \o d = typed
  <2>1. PICK b : b = Buffered
    OBVIOUS
  <2>2. /\ b \in Seq(Event \cup {NoKey}) /\ Len(b) = pending
        /\ \A i \in 1..pending : b[i] = buffer[(head + i - 1) % KEYCODES_BUFFER_LEN]
    <3>1. ASSUME NEW i \in 1..pending
          PROVE  buffer[(head + i - 1) % KEYCODES_BUFFER_LEN] \in Event \cup {NoKey}
      <4>1. (head + i - 1) % KEYCODES_BUFFER_LEN \in Slots
        BY <1>0 DEF Slots
      <4> QED
        BY <1>0, <4>1
    <3>2. b = [i \in 1..pending |-> buffer[(head + i - 1) % KEYCODES_BUFFER_LEN]]
      BY <2>1 DEF Buffered
    <3> HIDE <2>1
    <3> QED
      BY <1>0, <3>1, <3>2
  <2>3. /\ \A i \in 1..Len(got) : typed[i] = got[i]
        /\ \A i \in 1..pending : typed[Len(got) + i] = b[i]
        /\ isr # NoIsr => typed[Len(got) + pending + 1] = isr.event
    BY <1>4, <2>2 DEF Events, EventsKept, Ring
  <2>4. PICK gb : gb = got \o b
    OBVIOUS
  <2>5. /\ gb \in Seq(Event \cup {NoKey}) /\ Len(gb) = Len(got) + pending
        /\ \A i \in 1..Len(gb) : gb[i] = IF i <= Len(got) THEN got[i] ELSE b[i - Len(got)]
    <3>1. /\ got \o b \in Seq(Event \cup {NoKey}) /\ Len(got \o b) = Len(got) + Len(b)
          /\ \A i \in 1..(Len(got) + Len(b)) :
                (got \o b)[i] = IF i <= Len(got) THEN got[i] ELSE b[i - Len(got)]
      BY ONLY <1>0, <2>2, ConcatProperties
    <3> QED
      BY ONLY <2>2, <2>4, <3>1
  <2>6. PICK all : all = gb \o d
    OBVIOUS
  <2>7. /\ all \in Seq(Event \cup {NoKey}) /\ Len(all) = Len(gb) + Len(d)
        /\ \A i \in 1..Len(all) : all[i] = IF i <= Len(gb) THEN gb[i] ELSE d[i - Len(gb)]
    <3>1. /\ gb \o d \in Seq(Event \cup {NoKey}) /\ Len(gb \o d) = Len(gb) + Len(d)
          /\ \A i \in 1..(Len(gb) + Len(d)) :
                (gb \o d)[i] = IF i <= Len(gb) THEN gb[i] ELSE d[i - Len(gb)]
      BY ONLY <1>2, <2>5, ConcatProperties
    <3> QED
      BY ONLY <2>6, <3>1
  <2>8. Len(all) = Len(typed)
    BY <1>3, <2>5, <2>7
  <2>9. ASSUME NEW i \in 1..Len(typed)
        PROVE  all[i] = typed[i]
    <3>1. CASE i <= Len(got)
      <4>1. i \in 1..Len(gb) /\ i \in 1..Len(all) /\ i \in 1..Len(got)
        BY <1>0, <2>5, <2>8, <3>1
      <4> QED
        BY <2>3, <2>5, <2>7, <3>1, <4>1
    <3>2. CASE Len(got) < i /\ i <= Len(gb)
      <4>1. /\ i \in 1..Len(gb) /\ i \in 1..Len(all) /\ ~(i <= Len(got))
            /\ i - Len(got) \in 1..pending /\ Len(got) + (i - Len(got)) = i
        BY <1>0, <2>5, <2>8, <3>2
      <4>2. all[i] = b[i - Len(got)]
        BY <2>5, <2>7, <4>1
      <4>3. typed[Len(got) + (i - Len(got))] = b[i - Len(got)]
        BY <2>3, <4>1
      <4> QED
        BY <4>1, <4>2, <4>3
    <3>3. CASE Len(gb) < i
      <4>1. /\ isr # NoIsr /\ i = Len(got) + pending + 1 /\ i - Len(gb) = 1
            /\ ~(i <= Len(gb)) /\ i \in 1..Len(all)
        BY <1>0, <1>2, <1>3, <2>5, <2>8, <3>3
      <4> QED
        BY <1>2, <2>3, <2>7, <4>1
    <3> QED
      BY <1>0, <2>5, <3>1, <3>2, <3>3
  <2>10. all = typed
    BY <1>0, <2>7, <2>8, <2>9, SeqEqual
  <2> QED
    BY <2>1, <2>4, <2>6, <2>10
<1>5. isr = NoIsr => modifiers = ModifiersAfter(typed, down)
  BY DEF Events, ModifiersRight
<1> QED
  BY <1>1, <1>3, <1>4, <1>5 DEF NoKeyLost

(***************************************************************************)
(* No key event is lost, doubled or out of order between the interrupt     *)
(* handler and consume until the ring buffer overflows, for a buffer of    *)
(* any length.  Each has the modifiers of the moment it was typed, as one  *)
(* flag for two shift keys tells them: the shift key that is still held    *)
(* does not count once the other was let go.                               *)
(***************************************************************************)
THEOREM EveryKeyIsKept == OneReader /\ FewKeys /\ KeyboardSpec => []NoKeyLost
<1>1. KeyboardInv => NoKeyLost
  BY EventsAddUp DEF KeyboardInv
<1> QED
  BY <1>1, KeyboardInvariance, PTL
=============================================================================
