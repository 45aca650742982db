------------------------------ MODULE ForkExec ------------------------------
(***************************************************************************)
(* Starting a program: Process::syscall_ForkAndExec and auxiliary_loader   *)
(* (kernel/process.cpp) with load_and_jump_userspace                       *)
(* (kernel/Loader/loader.cpp), on top of the scheduler.                    *)
(*                                                                         *)
(* The path and the arguments of the new program travel from the parent to *)
(* the child through one global, userspace_loader_data, guarded by one     *)
(* global flag.  The parent's side is a system call and atomic.  The child *)
(* starts with interrupts enabled, so it can be preempted between the      *)
(* clearing of the flag, its use of the path (which reads the program from *)
(* the disk) and its use of the arguments.                                 *)
(*                                                                         *)
(* The data of a fork are named by the pid of the child they are meant for.*)
(***************************************************************************)
EXTENDS Scheduler

CONSTANTS Roots,         \* processes started at boot that fork
          ForkAfterChild \* TRUE: nobody forks again or ends before its last child ended

ASSUME ForkAssumption ==
    /\ Roots \subseteq 1..NumBoot
    /\ ForkAfterChild \in BOOLEAN

VARIABLES
    locked,       \* glob_userspace_loader_locked
    loader_data,  \* userspace_loader_data: the child it was last written for
    loader_pc,    \* "start", "path", "argv": in auxiliary_loader; "user": past it
    path,         \* the path a process was loaded from
    argv,         \* the arguments it was given
    child         \* the last child of a process

loader == <<locked, loader_data, loader_pc, path, argv, child>>
fvars  == <<vars, loader>>

LoaderLocked == "syscall_ForkAndExec: glob_userspace_loader_locked"

ForkInit ==
    /\ Init
    /\ locked = FALSE
    /\ loader_data = NoProcess
    /\ loader_pc = [p \in Pids |-> "user"]
    /\ path = [p \in Pids |-> NoProcess]
    /\ argv = [p \in Pids |-> NoProcess]
    /\ child = [p \in Pids |-> NoProcess]

InUser == InProcess /\ loader_pc[current] = "user"

\* The shell and TextTerminal wait for the child they started, GuiTerminal
\* forks once and runs for ever.
ChildEnded == ForkAfterChild => child[current] \notin {p \in Pids : Alive(p)}

MayFork == (current \in Roots \/ current > NumBoot) /\ ChildEnded

\* Mutant of ForkAndExec: the buffers keep what an earlier fork left in them.
ForkWithoutCopy ==
    /\ InUser
    /\ MayFork
    /\ next_pid <= MaxPid
    /\ locked' = TRUE
    /\ loader_data' = IF loader_data = NoProcess THEN next_pid ELSE loader_data
    /\ loader_pc' = [loader_pc EXCEPT ![next_pid] = "start"]
    /\ child' = [child EXCEPT ![current] = next_pid]
    /\ AddProcess
    /\ UNCHANGED <<path, argv>>

ForkAndExec ==
    /\ InUser
    /\ MayFork
    /\ next_pid <= MaxPid
    /\ IF locked
       THEN /\ Panic(LoaderLocked)
            /\ UNCHANGED loader
       ELSE /\ locked' = TRUE
            /\ loader_data' = next_pid
            /\ loader_pc' = [loader_pc EXCEPT ![next_pid] = "start"]
            /\ child' = [child EXCEPT ![current] = next_pid]
            /\ AddProcess
            /\ UNCHANGED <<path, argv>>

\* Mutant of LoaderUnlock: the flag is never cleared.
LoaderKeepsLock ==
    /\ InProcess
    /\ loader_pc[current] = "start"
    /\ loader_pc' = [loader_pc EXCEPT ![current] = "path"]
    /\ UNCHANGED <<vars, locked, loader_data, path, argv, child>>

\* auxiliary_loader gives up the flag first.
LoaderUnlock ==
    /\ InProcess
    /\ loader_pc[current] = "start"
    /\ locked' = FALSE
    /\ loader_pc' = [loader_pc EXCEPT ![current] = "path"]
    /\ UNCHANGED <<vars, loader_data, path, argv, child>>

\* read_elf_from_path(data.glob_load_path, ...)
LoaderReadPath ==
    /\ InProcess
    /\ loader_pc[current] = "path"
    /\ path' = [path EXCEPT ![current] = loader_data]
    /\ loader_pc' = [loader_pc EXCEPT ![current] = "argv"]
    /\ UNCHANGED <<vars, locked, loader_data, argv, child>>

\* The image is mapped, data.argv is copied to its stack and it is entered.
LoaderReadArgv ==
    /\ InProcess
    /\ loader_pc[current] = "argv"
    /\ argv' = [argv EXCEPT ![current] = loader_data]
    /\ loader_pc' = [loader_pc EXCEPT ![current] = "user"]
    /\ UNCHANGED <<vars, locked, loader_data, path, child>>

Load == LoaderUnlock \/ LoaderReadPath \/ LoaderReadArgv

\* A running program waits for its child or ends; the timer interrupts it.
ProgramStep ==
    /\ InUser
    /\ (ChildEnded /\ Terminate) \/ (child[current] \in Pids /\ Wait(child[current]))
    /\ UNCHANGED loader

Schedule == (Tick \/ TryUnblock \/ TickSwitch) /\ UNCHANGED loader

ForkNext == ForkAndExec \/ Load \/ ProgramStep \/ Schedule

ForkSpec == ForkInit /\ [][ForkNext]_fvars

(***************************************************************************)
(* The timer ticks, and a process that gets the CPU again and again gets   *)
(* on with loading: a time slice is longer than an instruction.            *)
(***************************************************************************)
ForkFairness ==
    /\ WF_fvars(Tick /\ UNCHANGED loader)
    /\ WF_fvars(TryUnblock /\ UNCHANGED loader)
    /\ WF_fvars(TickSwitch /\ UNCHANGED loader)
    /\ \A p \in Pids : SF_fvars(current = p /\ Load)

FairForkSpec == ForkSpec /\ ForkFairness

-----------------------------------------------------------------------------
\* The ASSERT of syscall_ForkAndExec: no fork finds the loader data in use.
LoaderDataFree == panic # LoaderLocked

(***************************************************************************)
(* A child runs the program it was started for with the arguments it was   *)
(* started with: what its parent copied to userspace_loader_data is still  *)
(* there when the child reads it.                                          *)
(***************************************************************************)
ChildRunsItsProgram ==
    \A p \in Pids : /\ path[p] \in {NoProcess, p}
                    /\ argv[p] \in {NoProcess, p}

\* The loader data do not stay locked: the child gets to clear the flag.
LoaderIsReleased == locked ~> (~locked \/ phase = "hang")
=============================================================================
