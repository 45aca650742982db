------------------------------ MODULE Keyboard ------------------------------
(***************************************************************************)
(* The keyboard: the interrupt handler and the event buffer of             *)
(* kernel/drivers/PS2Keyboard.cpp, keyboard_read and its blocker           *)
(* (kernel/HAL/KeyboardDevice.cpp), and the lock they share                *)
(* (kernel/lock.cpp), on top of the scheduler.                             *)
(*                                                                         *)
(* The handler runs with interrupts disabled in the context of whatever    *)
(* process is interrupted, and it takes the lock of the buffer.  When the  *)
(* lock is taken, Lock::lock sleeps: it blocks the interrupted process in  *)
(* the middle of the handler.  From then on the handler can be preempted,  *)
(* and no other keyboard interrupt comes in because PIC::eoi is its last   *)
(* call.  keyboard_read blocks first, so that consume always runs with     *)
(* interrupts enabled.                                                     *)
(*                                                                         *)
(* A scan code is the name of a key and whether it was released.  The one  *)
(* flag of the driver follows both shift keys.                             *)
(***************************************************************************)
EXTENDS Scheduler, FiniteSets

CONSTANTS Readers,              \* processes that read the keyboard
          Keys,                 \* scan codes; those of Shifts and "caps" are modifiers
          KEYCODES_BUFFER_LEN,
          MaxKeys               \* bound: scan codes the keyboard sends

ASSUME KeyboardAssumption ==
    /\ Readers \subseteq Pids
    /\ KEYCODES_BUFFER_LEN \in Nat \ {0}
    /\ MaxKeys \in Nat

Multibyte  == "SCAN_CODE_MULTIBYTE"
NoEvent    == "consume: m_events_pending is 0"
NoCurrent  == "block_current: m_current_process is nullptr"

VARIABLES
    buffer,     \* m_events_buffer
    head, tail, \* m_events_buffer_head, m_events_buffer_tail
    pending,    \* m_events_pending, a u8
    byte_idx,   \* m_current_keycode_byte_idx
    modifiers,  \* m_current_modifiers
    lock,       \* m_lock: the process that holds it
    isr,        \* a handler that had to wait: its process, its event and whether
                \* it holds the lock
    pc,         \* where in keyboard_read a process is
    seen,       \* m_events_pending as consume read it
    down,       \* keys that are held down
    typed,      \* history: key events, as they were typed
    got,        \* history: key events, as they were consumed
    overrun     \* history: an event that was not consumed has been overwritten

driver   == <<buffer, head, tail, pending, byte_idx, modifiers, lock, isr>>
readers  == <<pc, seen>>
history  == <<down, typed, got, overrun>>
keyboard == <<driver, readers, history>>
kvars    == <<vars, keyboard>>

NoIsr == [process |-> NoProcess]
Off   == [shift |-> FALSE, caps |-> FALSE]
NoKey == [key |-> "0", released |-> FALSE, modifiers |-> Off]

KeyboardInit ==
    /\ Init
    /\ buffer = [i \in 0..(KEYCODES_BUFFER_LEN - 1) |-> NoKey]
    /\ head = 0 /\ tail = 0 /\ pending = 0
    /\ byte_idx = 0
    /\ modifiers = Off
    /\ lock = NoProcess
    /\ isr = NoIsr
    /\ pc = [p \in Pids |-> "user"]
    /\ seen = [p \in Pids |-> 0]
    /\ down = {} /\ typed = <<>> /\ got = <<>> /\ overrun = FALSE

-----------------------------------------------------------------------------
(* The interrupt handler: isr_ps2_keyboard_handler and on_scan_byte *)

\* NonAsciiKeys::L_SHIFT and R_SHIFT.
Shifts == {"l_shift", "r_shift"}

\* The update of the modifiers in on_scan_byte.
Modified(m, e) ==
    [shift |-> IF e.key \in Shifts THEN ~e.released ELSE m.shift,
     caps  |-> IF e.key = "caps" /\ e.released THEN ~m.caps ELSE m.caps]

\* insert_key_state, under the lock, and what handle_whole_keycode and
\* on_scan_byte do after it.
Insert(e) ==
    /\ pending' = (pending + 1) % 256
    /\ buffer' = [buffer EXCEPT ![tail] = e]
    /\ tail' = (tail + 1) % KEYCODES_BUFFER_LEN
    /\ overrun' = (overrun \/ pending >= KEYCODES_BUFFER_LEN)
    /\ byte_idx' = 0
    /\ modifiers' = Modified(modifiers, e)
    /\ UNCHANGED head

\* The running process blocks and goes on where it is when it is unblocked.
Block ==
    /\ block_current("event")
    /\ UNCHANGED <<waiter, finished, ready, next_pid>>

Interrupted == phase = "cpu" /\ current # NoProcess /\ isr = NoIsr

\* The last thing that happened to a shift key in s is that it was let go.
ShiftLetGo(s) ==
    \E i \in 1..Len(s) : /\ s[i].key \in Shifts /\ s[i].released
                         /\ \A j \in (i + 1)..Len(s) : s[j].key \notin Shifts

\* The modifiers after the events of s, with the keys of held down: shift when
\* a shift key is held, and the other one was not let go since it was pressed;
\* caps lock when it was typed an odd number of times.
ModifiersAfter(s, held) ==
    [shift |-> held \cap Shifts # {} /\ ~ShiftLetGo(s),
     caps  |-> Cardinality({i \in 1..Len(s) : s[i].key = "caps" /\ s[i].released}) % 2 = 1]

\* What was typed: the key, with the modifiers that held before.
Typed(k, released) ==
    [key |-> k, released |-> released, modifiers |-> ModifiersAfter(typed, down)]

\* Mutant of WholeKeycode: the handler does not take the lock.
InsertWithoutLock(e) == Insert(e) /\ UNCHANGED <<lock, isr, vars>>

\* handle_whole_keycode: uncontended it is atomic, or the handler sleeps.
WholeKeycode(e) ==
    IF lock = NoProcess
    THEN Insert(e) /\ UNCHANGED <<lock, isr, vars>>
    ELSE /\ isr' = [process |-> current, event |-> e, locked |-> FALSE]
         /\ byte_idx' = byte_idx + 1
         /\ Block
         /\ UNCHANGED <<buffer, head, tail, pending, modifiers, lock, overrun>>

\* The first byte of a scan code, which is the only one for most keys.
KeyByte(k, released) ==
    /\ Interrupted
    /\ Len(typed) < MaxKeys
    /\ byte_idx = 0
    /\ released => k \in down
    /\ down' = IF released THEN down \ {k} ELSE down \cup {k}
    /\ typed' = Append(typed, Typed(k, released))
    /\ WholeKeycode([key |-> k, released |-> released, modifiers |-> modifiers])
    /\ UNCHANGED <<readers, got>>

\* An extended key: the prefix is remembered, the second byte is dropped
\* although it may be the scan code of another key.
MultibytePrefix ==
    /\ Interrupted
    /\ byte_idx = 0
    /\ byte_idx' = 1
    /\ UNCHANGED <<vars, buffer, head, tail, pending, modifiers, lock, isr,
                   readers, history>>

DropByte(k, released) ==
    /\ Interrupted
    /\ byte_idx = 1
    /\ byte_idx' = 0
    /\ UNCHANGED <<vars, buffer, head, tail, pending, modifiers, lock, isr,
                   readers, history>>

\* A handler that slept: Lock::lock tries again.
IsrLock ==
    /\ InProcess
    /\ isr.process = current /\ ~isr.locked
    /\ IF lock = NoProcess
       THEN /\ lock' = current
            /\ isr' = [process |-> current, event |-> isr.event, locked |-> TRUE]
            /\ UNCHANGED vars
       ELSE Block /\ UNCHANGED <<lock, isr>>
    /\ UNCHANGED <<buffer, head, tail, pending, byte_idx, modifiers, readers, history>>

\* It inserts the event, releases the lock and ends with PIC::eoi.
IsrInsert ==
    /\ InProcess
    /\ isr.process = current /\ isr.locked
    /\ Insert(isr.event)
    /\ lock' = NoProcess
    /\ isr' = NoIsr
    /\ UNCHANGED <<vars, readers, down, typed, got>>

-----------------------------------------------------------------------------
(* keyboard_read and consume *)

At(l) == InProcess /\ current # isr.process /\ pc[current] = l

Goto(l) == pc' = [pc EXCEPT ![current] = l]

keyboard_read ==
    /\ At("user")
    /\ current \in Readers
    /\ Goto("wait")
    /\ Block
    /\ UNCHANGED <<driver, seen, history>>

ConsumeLock ==
    /\ At("wait") \/ At("lock")
    /\ IF lock = NoProcess
       THEN lock' = current /\ Goto("read") /\ UNCHANGED vars
       ELSE Goto("lock") /\ Block /\ UNCHANGED lock
    /\ UNCHANGED <<buffer, head, tail, pending, byte_idx, modifiers, isr, seen, history>>

\* m_events_pending is read, and written in another step.
ConsumeRead ==
    /\ At("read")
    /\ IF pending = 0
       THEN Panic(NoEvent) /\ UNCHANGED readers
       ELSE seen' = [seen EXCEPT ![current] = pending] /\ Goto("take") /\ UNCHANGED vars
    /\ UNCHANGED <<driver, history>>

ConsumeTake ==
    /\ At("take")
    /\ pending' = seen[current] - 1
    /\ got' = Append(got, buffer[head])
    /\ head' = (head + 1) % KEYCODES_BUFFER_LEN
    /\ Goto("unlock")
    /\ UNCHANGED <<vars, buffer, tail, byte_idx, modifiers, lock, isr, seen,
                   down, typed, overrun>>

\* Mutant of ConsumeUnlock: the lock is left taken.
UnlockForgotten ==
    /\ At("unlock")
    /\ Goto("user")
    /\ UNCHANGED <<vars, driver, seen, history>>

ConsumeUnlock ==
    /\ At("unlock")
    /\ lock' = NoProcess
    /\ Goto("user")
    /\ UNCHANGED <<vars, buffer, head, tail, pending, byte_idx, modifiers, isr,
                   seen, history>>

ReaderStep == keyboard_read \/ ConsumeLock \/ ConsumeRead \/ ConsumeTake \/ ConsumeUnlock

\* Another process blocks, on something of its own.
OtherBlocks ==
    /\ At("user")
    /\ current \notin Readers
    /\ Block
    /\ UNCHANGED keyboard

-----------------------------------------------------------------------------
\* Mutant of can_consume: the buffer is taken for empty when it is full.
HeadIsNotTail == head # tail

can_consume == pending # 0

\* Mutant of AwaitsKey: a reader sleeps in place of waiting for an event.
NobodyAwaitsKey(p) == FALSE

\* p is blocked on its KeyboardReadBlocker, and not in a sleep_ms(1) or, for a
\* process that does not read the keyboard, on something else.
AwaitsKey(p) == p # isr.process /\ pc[p] = "wait"

\* One look of try_unblock_tasks at a blocked process.  A sleep may be over at
\* any look.  can_consume takes the lock too: when that is taken it sleeps,
\* in the scheduler, where there is no current process to block.
TryUnblockReader ==
    /\ phase = "unblock" /\ cursor <= Len(blocked)
    /\ IF AwaitsKey(blocked[cursor])
       THEN IF lock # NoProcess THEN Panic(NoCurrent) ELSE VisitBlocked(can_consume)
       ELSE \E can \in BOOLEAN : VisitBlocked(can)
    /\ UNCHANGED keyboard

Schedule == (Tick \/ TickSwitch) /\ UNCHANGED keyboard

Halt == Hang /\ UNCHANGED keyboard

KeyboardNext ==
    \/ \E k \in Keys, released \in BOOLEAN : KeyByte(k, released) \/ DropByte(k, released)
    \/ MultibytePrefix
    \/ IsrLock
    \/ IsrInsert
    \/ ReaderStep
    \/ OtherBlocks
    \/ TryUnblockReader
    \/ Schedule
    \/ Halt

KeyboardSpec == KeyboardInit /\ [][KeyboardNext]_kvars

\* The sleep_ms(1) of p in Lock::lock is over.
SleepOver(p) ==
    /\ pc[p] = "lock" \/ isr.process = p
    /\ TryUnblockReader
    /\ state'[p] = "Runnable" /\ state[p] = "Blocked"

(***************************************************************************)
(* The timer ticks, a sleep ends, and a process that gets the CPU again    *)
(* and again gets on with its handler or with reading the keyboard.        *)
(***************************************************************************)
KeyboardFairness ==
    /\ WF_kvars(Schedule)
    /\ WF_kvars(TryUnblockReader)
    /\ \A p \in Pids :
        /\ SF_kvars(SleepOver(p))
        /\ SF_kvars(current = p /\ (ReaderStep \/ IsrLock \/ IsrInsert))

FairKeyboardSpec == KeyboardSpec /\ KeyboardFairness

-----------------------------------------------------------------------------
\* The events that can be consumed, and the one whose handler waits.
Buffered == [i \in 1..pending |-> buffer[(head + i - 1) % KEYCODES_BUFFER_LEN]]

Delayed == IF isr = NoIsr THEN <<>> ELSE <<isr.event>>

(***************************************************************************)
(* No key event is lost, duplicated or reordered: what was consumed, what  *)
(* is in the buffer and what a handler waits to insert is what was typed,  *)
(* until more events are pending than the buffer holds.  Even then as many *)
(* can be consumed as were typed.  Each event has the modifiers of the     *)
(* moment it was typed, also when its handler had to wait, and so will the *)
(* next, as far as one flag tells them: while both shift keys are held and *)
(* one is let go, the one still held no longer counts (so ShiftIsHeld,     *)
(* below, does not hold).                                                  *)
(***************************************************************************)
NoKeyLost ==
    /\ Len(got) + pending + Len(Delayed) = Len(typed)
    /\ overrun \/ got \o Buffered \o Delayed = typed
    /\ isr = NoIsr => modifiers = ModifiersAfter(typed, down)

(***************************************************************************)
(* PS2Keyboard.h:43 says that m_current_modifiers stores the state of the  *)
(* modifiers: the shift flag would be set exactly while a shift key is     *)
(* held.  It is not: see on_scan_byte, PS2Keyboard.cpp:155.                *)
(***************************************************************************)
ShiftIsHeld == isr = NoIsr => (modifiers.shift <=> down \cap Shifts # {})

(***************************************************************************)
(* The ASSERT of consume: a reader that was unblocked because an event was *)
(* pending still finds one when it has the lock.                           *)
(***************************************************************************)
ConsumeFindsEvent == panic # NoEvent

(***************************************************************************)
(* try_unblock_tasks calls can_consume, which takes the lock; it finds it  *)
(* free, except when a handler that had to wait for the lock holds it.     *)
(* (When it is taken, sleep_ms dereferences a null m_current_process.)     *)
(***************************************************************************)
LockFreeInScheduler ==
    panic = NoCurrent => isr.process = lock /\ isr.locked

\* A handler waits for the lock that the process it interrupted holds.
SelfDeadlock == isr # NoIsr /\ isr.process = lock /\ ~isr.locked

(***************************************************************************)
(* A key that was typed is read, although a wake-up can come at any time   *)
(* and a handler may have to wait.  There are two excuses: the handler has *)
(* interrupted the holder of the lock, and waits for it forever, or the    *)
(* kernel has panicked.                                                    *)
(***************************************************************************)
KeyIsRead == pending # 0 ~> (pending = 0 \/ SelfDeadlock \/ phase = "hang")
=============================================================================
