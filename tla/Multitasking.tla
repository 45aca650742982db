---------------------------- MODULE Multitasking ----------------------------
(***************************************************************************)
(* What the scheduler promises to the rest of the kernel, without lists,   *)
(* task states, clocks or blockers: at most one process runs, a process    *)
(* only moves along its life cycle, and a process that waits for another   *)
(* is not woken before the other is dead.                                  *)
(*                                                                         *)
(* The CPU is given up and handed on in one step (block_current and        *)
(* terminate_current end in pick_next_and_switch), so Next combines what   *)
(* the running process does with the dispatch of another.                  *)
(***************************************************************************)
CONSTANTS Procs, None

VARIABLES
    life,     \* life[p]: where p is in its life cycle
    waiting   \* waiting[p]: the process that p waits for, or None

vars == <<life, waiting>>

Life == {"unborn", "ready", "running", "blocked", "dead"}

TypeOK ==
    /\ life \in [Procs -> Life]
    /\ waiting \in [Procs -> Procs \cup {None}]

Init ==
    /\ life \in [Procs -> {"unborn", "ready"}]
    /\ waiting = [p \in Procs |-> None]

Running(p) == life[p] = "running"

\* Hand the CPU to n, or leave it idle when n is None.
Dispatched(l, n) == IF n = None THEN l ELSE [l EXCEPT ![n] = "running"]

CanDispatch(n) == n = None \/ (n \in Procs /\ life[n] = "ready")

Dispatch(n) ==
    /\ \A p \in Procs : ~Running(p)
    /\ life[n] = "ready"
    /\ life' = [life EXCEPT ![n] = "running"]
    /\ UNCHANGED waiting

Preempt(p) ==
    /\ Running(p)
    /\ life' = [life EXCEPT ![p] = "ready"]
    /\ UNCHANGED waiting

Create(p, q) ==
    /\ Running(p)
    /\ life[q] = "unborn"
    /\ life' = [life EXCEPT ![q] = "ready"]
    /\ UNCHANGED waiting

\* p blocks on an event of its own choice.
Block(p, n) ==
    /\ Running(p)
    /\ CanDispatch(n)
    /\ life' = Dispatched([life EXCEPT ![p] = "blocked"], n)
    /\ UNCHANGED waiting

\* p blocks until q is dead.
Wait(p, q, n) ==
    /\ Running(p)
    /\ life[q] \in {"ready", "blocked"}
    /\ \A r \in Procs : waiting[r] # q
    /\ CanDispatch(n)
    /\ life' = Dispatched([life EXCEPT ![p] = "blocked"], n)
    /\ waiting' = [waiting EXCEPT ![p] = q]

Wake(p) ==
    /\ life[p] = "blocked"
    /\ waiting[p] = None
    /\ life' = [life EXCEPT ![p] = "ready"]
    /\ UNCHANGED waiting

\* p ends, and whoever waits for it no longer does.
Exit(p, n) ==
    /\ Running(p)
    /\ CanDispatch(n)
    /\ life' = Dispatched([life EXCEPT ![p] = "dead"], n)
    /\ waiting' = [r \in Procs |-> IF waiting[r] = p THEN None ELSE waiting[r]]

Next ==
    \/ \E p \in Procs : Dispatch(p) \/ Preempt(p) \/ Wake(p)
    \/ \E p, q \in Procs : Create(p, q)
    \/ \E p \in Procs, n \in Procs \cup {None} : Block(p, n) \/ Exit(p, n)
    \/ \E p, q \in Procs, n \in Procs \cup {None} : Wait(p, q, n)

Spec == Init /\ [][Next]_vars

-----------------------------------------------------------------------------
\* One CPU: at most one process runs.
OneRuns == \A p, q \in Procs : Running(p) /\ Running(q) => p = q

\* Whoever waits is blocked, and what it waits for is alive.
WaitersBlocked ==
    \A p \in Procs : waiting[p] # None =>
        life[p] = "blocked" /\ life[waiting[p]] \in {"ready", "running", "blocked"}
=============================================================================
