----------------------------- MODULE SleepTimer -----------------------------
(***************************************************************************)
(* sleep_ms (kernel/sleep.cpp), the timer interrupt that drives the clock  *)
(* (kernel/drivers/PIT.cpp) and SleepBlocker::can_unblock                  *)
(* (kernel/TaskBlocker.cpp), on top of the scheduler.                      *)
(*                                                                         *)
(* Every interrupt of the timer first advances the clock and then calls    *)
(* Scheduler::tick.  All processes here block by sleeping only.  Time is   *)
(* counted in ticks; 1000, the milliseconds of a second, is both           *)
(* TICKS_PER_SECOND in PIT.cpp and the literal in sleep.cpp.               *)
(***************************************************************************)
EXTENDS Scheduler

CONSTANTS TICKS_PER_SECOND,
          SleepTimes,    \* bound: the sleeps asked for, in ticks
          MaxSeconds,    \* bound: the clock stops at the end of this second
          MaxLateness    \* ticks a sleeper may oversleep

ASSUME SleepAssumption ==
    /\ TICKS_PER_SECOND \in Nat \ {0}
    /\ SleepTimes \subseteq Nat
    /\ MaxSeconds \in Nat
    /\ MaxLateness \in Nat

VARIABLES
    sec,        \* s_seconds_since_boot
    ms,         \* s_ticks_this_second
    until_sec,  \* SleepBlocker::m_sleep_until_sec of each process
    leftover,   \* SleepBlocker::m_leftover_ms
    deadline    \* history: when the sleep that was asked for is over

clock    == <<sec, ms>>
sleeping == <<until_sec, leftover, deadline>>
tvars    == <<vars, clock, sleeping>>

SecondSkipped == "SleepBlocker: more than a second was skipped"

Now == sec * TICKS_PER_SECOND + ms

TimerInit ==
    /\ Init
    /\ sec = 0 /\ ms = 0
    /\ until_sec = [p \in Pids |-> 0]
    /\ leftover = [p \in Pids |-> 0]
    /\ deadline = [p \in Pids |-> 0]

\* isr_timer_handler
Timer ==
    /\ Now < (MaxSeconds + 1) * TICKS_PER_SECOND - 1
    /\ IF ms + 1 >= TICKS_PER_SECOND
       THEN sec' = sec + 1 /\ ms' = 0
       ELSE ms' = ms + 1 /\ UNCHANGED sec
    /\ Tick
    /\ UNCHANGED sleeping

\* Mutant of sleep_ms: no carry from the milliseconds to the seconds.
sleep_ms_no_carry(n) ==
    /\ InProcess
    /\ until_sec' = [until_sec EXCEPT ![current] = sec + (n \div TICKS_PER_SECOND)]
    /\ leftover' = [leftover EXCEPT ![current] =
                       (ms + (n % TICKS_PER_SECOND)) % TICKS_PER_SECOND]
    /\ deadline' = [deadline EXCEPT ![current] = Now + n]
    /\ block_current("event")
    /\ UNCHANGED <<waiter, finished, ready, next_pid, clock>>

\* sleep_ms; the test is > and not >=, so leftover can be a whole second.
sleep_ms(n) ==
    /\ InProcess
    /\ LET s == sec + (n \div TICKS_PER_SECOND)
           l == ms + (n % TICKS_PER_SECOND)
           over == l > TICKS_PER_SECOND
       IN  /\ until_sec' = [until_sec EXCEPT ![current] = IF over THEN s + 1 ELSE s]
           /\ leftover' = [leftover EXCEPT ![current] =
                              IF over THEN l % TICKS_PER_SECOND ELSE l]
    /\ deadline' = [deadline EXCEPT ![current] = Now + n]
    /\ block_current("event")
    /\ UNCHANGED <<waiter, finished, ready, next_pid, clock>>

\* Mutant of SleepOver: only the second the sleep ends in is looked at.
SleepOverInItsSecond(p) == sec = until_sec[p] /\ ms >= leftover[p]

\* Mutant of SleepOver: the tick of the deadline has to be met exactly.
SleepOverExactly(p) == sec > until_sec[p] \/ (sec = until_sec[p] /\ ms = leftover[p])

\* SleepBlocker::can_unblock
SleepOver(p) == sec > until_sec[p] \/ (sec = until_sec[p] /\ ms >= leftover[p])

\* One turn of the loop of try_unblock_tasks on a sleeper.
TryUnblockSleeper ==
    /\ phase = "unblock" /\ cursor <= Len(blocked)
    /\ IF sec > until_sec[blocked[cursor]] + 1
       THEN Panic(SecondSkipped)
       ELSE VisitBlocked(SleepOver(blocked[cursor]))
    /\ UNCHANGED <<clock, sleeping>>

\* The parts of the scheduler that leave the clock alone.
OtherStep ==
    /\ TickSwitch \/ AddProcess \/ Terminate
    /\ UNCHANGED <<clock, sleeping>>

\* Nobody asks for what happens after the bound on the clock.
ClockBound ==
    /\ Now = (MaxSeconds + 1) * TICKS_PER_SECOND - 1
    /\ UNCHANGED tvars

TimerNext ==
    \/ Timer
    \/ \E n \in SleepTimes : sleep_ms(n)
    \/ TryUnblockSleeper
    \/ OtherStep
    \/ ClockBound

TimerSpec == TimerInit /\ [][TimerNext]_tvars

-----------------------------------------------------------------------------
\* A sleeper is not woken before the time it asked for has passed.
NeverEarly ==
    [][\A p \in Pids : state[p] = "Blocked" /\ state'[p] = "Runnable"
                       => Now >= deadline[p]]_tvars

(***************************************************************************)
(* A sleeper is woken soon after its time: although a task that blocks     *)
(* hands the CPU on without looking at the sleepers, although a pass over  *)
(* the sleepers may end early, and although a pass is made only when a     *)
(* slice is used up, nobody oversleeps by more than MaxLateness ticks.     *)
(***************************************************************************)
NeverLate ==
    \A p \in Pids : state[p] = "Blocked" => Now <= deadline[p] + MaxLateness

\* The ASSERT of SleepBlocker::can_unblock: at most one second is skipped.
NoSecondSkipped == panic # SecondSkipped
=============================================================================
