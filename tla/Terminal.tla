------------------------------ MODULE Terminal ------------------------------
(***************************************************************************)
(* A terminal session: GuiTerminal, the shell and the program it runs,     *)
(* with the pipes between them (kernel/Pipe.cpp, FileSystem/PtsFS.cpp) and *)
(* the calls they make on descriptors, paths and the current directory     *)
(* (kernel/process.cpp, FileSystem/VFS.cpp, DevFS.cpp, libc path.cpp).     *)
(*                                                                         *)
(* GuiTerminal writes every key to the pipe stdin and shows what comes out *)
(* of the pipe stdout; the shell echoes keys and runs commands; a program  *)
(* inherits descriptors and directory.  A system call is one step, except  *)
(* that Pipe::read goes on with interrupts enabled after it slept, and can *)
(* be preempted while it holds a pointer into the data of the pipe.        *)
(*                                                                         *)
(* A path string is a sequence of "/" and names.  The text of a whole      *)
(* command is one key.  FAT32 is the set of its files and directories;     *)
(* module Fat32 has the rest of it.                                        *)
(***************************************************************************)
EXTENDS Naturals, Sequences, SequencesExt, FiniteSets

CONSTANTS Scripts,      \* what the user may type: sequences of keys
          FatDirs,      \* directories on the disk, sequences of names
          FatFiles,     \* files on the disk
          NumFds,       \* NUM_FILE_DESCRIPTORS
          InitCapacity, \* DEFAULT_VECTOR_CAPACITY
          ReadMax       \* characters GuiTerminal reads at once

ASSUME TerminalAssumption ==
    /\ {NumFds, InitCapacity, ReadMax} \subseteq Nat \ {0}
    /\ <<>> \in FatDirs

VARIABLES
    messages,  \* key events the window server sent to GuiTerminal
    pts,       \* PtsFS: the pair of pipes was created
    stdin,     \* Pipe: [data, idx, cap, moved], moved: the buffer was replaced
    stdout,    \* Pipe
    pc,        \* where a process is
    print,     \* what a process has still to print
    fds,       \* m_file_descriptors: "" or the file
    cwd,       \* m_current_directory, a path string
    prompt,    \* ShellManager::m_current_directory
    command,   \* the keys of the command so far
    char,      \* the character getchar returned
    prog,      \* the command the program was started with
    dirs,      \* directories on the disk
    files,     \* files on the disk
    panic,     \* an assertion of the kernel or of a program failed
    screen,    \* what GuiTerminal shows
    garbled,   \* history: a character was read from a buffer that was freed
    keys,      \* the keys the user has still to press
    session    \* history: what the keys mean, see SessionKey

vars == <<messages, pts, stdin, stdout, pc, print, fds, cwd, prompt, command, char, prog, dirs, files, panic, screen, garbled, keys, session>>

ghosts == <<garbled, keys, session>>

Procs == {"gui", "shell", "child"}
Enter == [prog |-> "enter", arg |-> <<>>]
Back  == [prog |-> "back", arg |-> <<>>]
Apps  == {"ls", "touch", "cat"}

NewLine      == <<"newline", <<>>>>
Prompt(path) == <<"prompt", path>>

(***************************************************************************)
(* Path                                                                    *)
(***************************************************************************)
\* parts_from_string: the text between separators; a leading one is skipped,
\* and one at the end ends the loop.
parts_from_string(s) == SelectSeq(s, LAMBDA t : t # "/")

\* An empty part makes String::substr assert that its end is past its start.
EmptyPart(s) == \E i \in 1..(Len(s) - 1) : s[i] = "/" /\ s[i + 1] = "/"

\* to_string puts a separator between two parts, and none in front.
to_string(a) == [i \in 1..(IF a = <<>> THEN 0 ELSE 2 * Len(a) - 1) |-> IF i % 2 = 0 THEN "/" ELSE a[(i + 1) \div 2]]

is_prefix_of(a, b) == Len(a) <= Len(b) /\ \A i \in 1..Len(a) : a[i] = b[i]
is_parent_of(a, b) == is_prefix_of(a, b) /\ Len(a) + 1 = Len(b)

dirname(a) == IF Len(a) < 2 THEN <<>> ELSE Front(a)

remove_mount_prefix(a, at) == SubSeq(a, Len(at) + 1, Len(a))

\* Position of the last separator, 0 when there is none.
find_last_of(s) ==
    LET at == {i \in 1..Len(s) : s[i] = "/"} IN IF at = {} THEN 0 ELSE CHOOSE i \in at : \A j \in at : j <= i

\* Mutant of get_full_path: ".." cuts the path at its first separator.
FullPathToRoot(dir, path) ==
    CASE path = <<".">> -> dir
      [] path = <<"..">> -> <<"/">>
      [] Len(path) > 0 /\ path[1] = "/" -> path
      [] OTHER -> dir \o (IF Last(dir) = "/" THEN <<>> ELSE <<"/">>) \o path

\* Process::get_full_path; substr with an end of 0 would assert, but the
\* current directory starts with a separator.
get_full_path(dir, path) ==
    CASE path = <<".">> -> dir
      [] path = <<"..">> -> IF find_last_of(dir) = 1 THEN <<"/">>
                            ELSE SubSeq(dir, 1, find_last_of(dir) - 1)
      [] Len(path) > 0 /\ path[1] = "/" -> path
      [] OTHER -> dir \o (IF Last(dir) = "/" THEN <<>> ELSE <<"/">>) \o path

(***************************************************************************)
(* VFS, DevFS, PtsFS                                                       *)
(***************************************************************************)
\* In the order of init_VFS.
Mounts == << [fs |-> "dev", at |-> <<"dev">>],
             [fs |-> "fat", at |-> <<>>],
             [fs |-> "pts", at |-> <<"dev", "pts">>] >>

Devices == {"keyboard", "vgatty"}

\* The mount point with the most parts, the last one of several.
get_fs(a) ==
    LET hits == {i \in 1..Len(Mounts) : is_prefix_of(Mounts[i].at, a)}
    IN  Mounts[CHOOSE i \in hits : \A j \in hits :
                  \/ Len(Mounts[j].at) < Len(Mounts[i].at)
                  \/ Len(Mounts[j].at) = Len(Mounts[i].at) /\ j <= i]

Inside(a) == remove_mount_prefix(a, get_fs(a).at)

\* Fat32FS::find_file, which also finds the root.
FatFound(a) == a = <<>> \/ a \in files

\* VFS::open: the name of a file, or "" for none.
DevOpen(a) == IF Len(a) = 1 /\ a[1] \in Devices THEN a[1] ELSE ""
PtsOpen(a) == IF Len(a) = 2 /\ a[1] = "0" /\ pts /\ a[2] \in {"in", "out"} THEN a[2] ELSE ""
FatOpen(a) == IF FatFound(a) THEN "file" ELSE ""

VfsOpen(a) ==
    CASE get_fs(a).fs = "dev" -> DevOpen(Inside(a))
      [] get_fs(a).fs = "pts" -> PtsOpen(Inside(a))
      [] OTHER -> FatOpen(Inside(a))

\* DevFS::open asserts that there is one part.
OpenPanics(s) ==
    EmptyPart(s) \/ (get_fs(parts_from_string(s)).fs = "dev" /\ Len(Inside(parts_from_string(s))) # 1)

VfsIsDirectory(a) == a = <<>> \/ (get_fs(a).fs = "fat" /\ Inside(a) \in dirs)
VfsIsFile(a)      == get_fs(a).fs = "fat" /\ FatFound(Inside(a))

\* DevFS::list_directory succeeds for any path.
DevList(a) == IF a = <<>> THEN {<<d>> : d \in Devices}
              ELSE {<<d>> : d \in {x \in Devices : a = <<x>>}}
FatList(a) == {<<Last(e)>> : e \in {x \in dirs \cup files : x # <<>> /\ is_parent_of(a, x)}}

\* VFS::list_directory: the mount points below the path, and what its file
\* system lists; PtsFS lists nothing.
MountsBelow(a) == {Mounts[i].at : i \in {j \in 1..Len(Mounts) : is_parent_of(a, Mounts[j].at)}}

ListFound(a) ==
    \/ get_fs(a).fs = "dev"
    \/ get_fs(a).fs = "fat" /\ Inside(a) \in dirs

\* A DirectoryEntry goes from the kernel to a program as a path string.
serialize(e)   == to_string(e)
deserialize(s) == parts_from_string(s)

VfsList(a) == MountsBelow(a) \cup (IF get_fs(a).fs = "dev" THEN DevList(Inside(a)) ELSE FatList(Inside(a)))

(***************************************************************************)
(* Pipes and descriptors                                                   *)
(***************************************************************************)
NoPipe == [data |-> <<>>, idx |-> 0, cap |-> InitCapacity, moved |-> FALSE]

\* Mutant of can_read: the last character does not count.
CanReadLate(pipe) == pipe.idx + 1 < Len(pipe.data)

can_read(pipe) == pipe.idx < Len(pipe.data)

\* Vector::ensure_capacity: a full buffer is replaced by one twice as large,
\* and freed.
ensure_capacity(pipe, n) ==
    IF n <= pipe.cap THEN pipe ELSE [pipe EXCEPT !.cap = 2 * @, !.moved = TRUE]

\* Vector::concat of one character; printf and putc write them one by one.
concat(pipe, c) == [ensure_capacity(pipe, Len(pipe.data) + 1) EXCEPT !.data = Append(@, c)]

PipeWrite(pipe, c) == concat(pipe, c)

NumToRead(pipe, count) ==
    IF count < Len(pipe.data) - pipe.idx THEN count ELSE Len(pipe.data) - pipe.idx

\* Descriptors are numbered from 0; NumFds when the table is full.
FreeFd(p) ==
    LET free == {i \in 0..(NumFds - 1) : fds[p][i] = ""}
    IN  IF free = {} THEN NumFds ELSE CHOOSE i \in free : \A j \in free : i <= j

\* Process::allocate_fd; on a full table the file is deleted.
allocate_fd(p, f) ==
    fds' = IF FreeFd(p) = NumFds THEN fds ELSE [fds EXCEPT ![p][FreeFd(p)] = f]

\* Process::syscall_write: nothing happens to a descriptor that is not open.
syscall_write(p, fd, c) ==
    /\ stdin' = IF fds[p][fd] = "in" THEN PipeWrite(stdin, c) ELSE stdin
    /\ stdout' = IF fds[p][fd] = "out" THEN PipeWrite(stdout, c) ELSE stdout

\* Process::syscall_listdir: E_NOTFOUND, or the entries as strings.
syscall_listdir(p, path) ==
    LET a == parts_from_string(get_full_path(cwd[p], path))
    IN  [found |-> ListFound(a), entries |-> {serialize(e) : e \in VfsList(a)}]

\* Process::syscall_get_current_directory.
get_current_directory(p) == cwd[p]

(***************************************************************************)
(* What the keys mean: the session a user expects, with directories as     *)
(* sequences of names and one command after the other.                     *)
(***************************************************************************)
Names(path) == SelectSeq(path, LAMBDA t : t # "/")

Resolve(dir, path) ==
    CASE path = <<".">> -> dir
      [] path = <<"..">> -> IF dir = <<>> THEN <<>> ELSE Front(dir)
      [] path # <<>> /\ path[1] = "/" -> Names(path)
      [] OTHER -> dir \o Names(path)

Below(s, dir) == {e \in s.dirs \cup s.files \cup {<<"dev">>} : e # <<>> /\ Front(e) = dir}

\* A directory given with a separator at its end is refused.
SessionCd(s, path) ==
    LET to == Resolve(s.dir, path) IN
    IF to \in s.dirs /\ Last(path) # "/" THEN [s EXCEPT !.dir = to]
    ELSE [s EXCEPT !.out = Append(@, <<"invalid path", path>>)]

SessionLs(s, path) ==
    LET to == Resolve(s.dir, IF path = <<>> THEN <<".">> ELSE path) IN
    [s EXCEPT !.out = Append(@,
        CASE to \in s.dirs -> <<"entries", {<<Last(e)>> : e \in Below(s, to)}>>
          [] to = <<"dev">> -> <<"entries", {<<d>> : d \in Devices} \cup {<<"dev", "pts">>}>>
          [] OTHER -> <<"directory not found", <<>>>>)]

SessionTouch(s, path) ==
    LET to == Resolve(s.dir, path) IN
    IF dirname(to) \in s.dirs THEN [s EXCEPT !.files = @ \cup {to}]
    ELSE [s EXCEPT !.out = Append(@, <<"error", path>>)]

SessionCat(s, path) ==
    LET to == Resolve(s.dir, path) IN
    [s EXCEPT !.out = Append(@, IF to \in s.files \cup {<<>>} THEN <<"content", path>> ELSE <<"error", path>>)]

Shows(s, out) == [s EXCEPT !.out = @ \o out]

SessionPrompt(s) == Shows(s, <<Prompt(s.dir)>>)

SessionRun(s, cmd) ==
    CASE Len(cmd) # 1 -> Shows(s, <<<<"not found", <<>>>>>>)
      [] cmd[1].prog = "cd" -> Shows(SessionCd(s, cmd[1].arg), <<NewLine>>)
      [] cmd[1].prog = "ls" -> Shows(SessionLs(s, cmd[1].arg), <<NewLine>>)
      [] cmd[1].prog = "touch" -> Shows(SessionTouch(s, cmd[1].arg), <<NewLine>>)
      [] cmd[1].prog = "cat" -> SessionCat(s, cmd[1].arg)
      [] OTHER -> Shows(s, <<<<"not found", <<>>>>>>)

SessionKey(s, k) ==
    CASE k = Enter ->
           LET t == Shows([s EXCEPT !.cmd = <<>>], <<NewLine>>)
           IN  SessionPrompt(IF s.cmd = <<>> THEN t ELSE SessionRun(t, s.cmd))
      [] k = Back ->
           IF s.cmd = <<>> THEN s ELSE Shows([s EXCEPT !.cmd = Front(@)], <<<<"echo", k>>>>)
      [] OTHER -> Shows([s EXCEPT !.cmd = Append(@, k)], <<<<"echo", k>>>>)

Hello == <<"content", <<"/", "init", "/", "hello">>>>

Init ==
    /\ messages = <<>>
    /\ pts = FALSE
    /\ stdin = NoPipe /\ stdout = NoPipe
    /\ pc = [p \in Procs |-> IF p = "gui" THEN "create" ELSE "none"]
    /\ print = [p \in Procs |-> <<>>]
    /\ fds = [p \in Procs |-> [i \in 0..(NumFds - 1) |-> ""]]
    /\ cwd = [p \in Procs |-> <<"/">>]
    /\ prompt = <<"/">>
    /\ command = <<>>
    /\ char = Enter
    /\ prog = Enter
    /\ dirs = FatDirs /\ files = FatFiles
    /\ panic = FALSE
    /\ screen = <<>>
    /\ garbled = FALSE
    /\ keys \in Scripts
    /\ session = [dir |-> <<>>, cmd |-> <<>>, dirs |-> FatDirs, files |-> FatFiles,
                  out |-> <<Hello, Prompt(<<>>)>>]

\* What follows a failed assertion, or a character that is not one of the
\* keys, is not modelled.
At(p, l) == ~panic /\ ~garbled /\ pc[p] = l
Go(p, l) == pc' = [pc EXCEPT ![p] = l]

\* The user presses a key; the window server sends it to GuiTerminal, which
\* has its window once it has started the shell.
KeyPressed ==
    /\ ~panic /\ ~garbled
    /\ keys # <<>>
    /\ pc["gui"] \in {"loop", "key", "show"}
    /\ keys' = Tail(keys)
    /\ messages' = Append(messages, Head(keys))
    /\ session' = SessionKey(session, Head(keys))
    /\ UNCHANGED <<pts, stdin, stdout, pc, print, fds, cwd, prompt, command, char, prog, dirs, files, panic, screen, garbled>>

\* printf writes to descriptor 1 and goes on, at l when all is written.
Printing(p, l) ==
    /\ print[p] # <<>>
    /\ print' = [print EXCEPT ![p] = Tail(@)]
    /\ syscall_write(p, 1, Head(print[p]))
    /\ IF Len(print[p]) = 1 THEN Go(p, l) ELSE UNCHANGED pc
    /\ UNCHANGED <<messages, pts, fds, cwd, prompt, command, char, prog, dirs, files, panic, screen, ghosts>>

(***************************************************************************)
(* GuiTerminal                                                             *)
(***************************************************************************)
\* create_terminal: PtsFS::create_new takes the first pair that is free.
CreateTerminal ==
    /\ At("gui", "create")
    /\ pts' = TRUE
    /\ Go("gui", "open in")
    /\ UNCHANGED <<messages, stdin, stdout, print, fds, cwd, prompt, command, char, prog, dirs, files, panic, screen, ghosts>>

\* std::open; the descriptor is asserted to be fd.
GuiOpen(l, path, fd, next) ==
    /\ At("gui", l)
    /\ LET s == get_full_path(cwd["gui"], path)
           f == VfsOpen(parts_from_string(s))
       IN  /\ panic' = (OpenPanics(s) \/ f = "" \/ FreeFd("gui") # fd)
           /\ allocate_fd("gui", f)
    /\ Go("gui", next)
    /\ UNCHANGED <<messages, pts, stdin, stdout, cwd, prompt, command, char, prog, dirs, files, screen, ghosts>>

\* The path of the terminal with the name that create_terminal returned.
terminal_path == Append(parts_from_string(<<"/", "dev", "/", "pts", "/">>), "0")

OpenIn == GuiOpen("open in", to_string(Append(terminal_path, "in")), 0, "open out") /\ UNCHANGED print

OpenOut == GuiOpen("open out", to_string(Append(terminal_path, "out")), 1, "open hello") /\ UNCHANGED print

OpenHello ==
    /\ GuiOpen("open hello", <<"/", "init", "/", "hello">>, 2, "print hello")
    /\ print' = [print EXCEPT !["gui"] = <<Hello>>]

PrintHello == At("gui", "print hello") /\ Printing("gui", "fork")

\* ForkAndExec: the child gets the descriptors and the current directory.
Inherit(p, child) ==
    /\ fds' = [fds EXCEPT ![child] = fds[p]]
    /\ cwd' = [cwd EXCEPT ![child] = cwd[p]]

ForkShell ==
    /\ At("gui", "fork")
    /\ Inherit("gui", "shell")
    /\ pc' = [pc EXCEPT !["gui"] = "loop", !["shell"] = "print"]
    /\ print' = [print EXCEPT !["shell"] = <<Prompt(<<>>)>>]
    /\ UNCHANGED <<messages, pts, stdin, stdout, prompt, command, char, prog, dirs, files, panic, screen, ghosts>>

\* PendingInputBlocker::can_unblock: a message is looked for first.
BlockUntilPending ==
    /\ At("gui", "loop")
    /\ messages # <<>> \/ can_read(stdout)
    /\ Go("gui", IF messages # <<>> THEN "key" ELSE "show")
    /\ UNCHANGED <<messages, pts, stdin, stdout, print, fds, cwd, prompt, command, char, prog, dirs, files, panic, screen, ghosts>>

GuiKey ==
    /\ At("gui", "key")
    /\ messages' = Tail(messages)
    /\ syscall_write("gui", 0, Head(messages))
    /\ Go("gui", "loop")
    /\ UNCHANGED <<pts, print, fds, cwd, prompt, command, char, prog, dirs, files, panic, screen, ghosts>>

\* stdout does not block; GuiTerminal asserts that it got something.
GuiShow ==
    LET n == NumToRead(stdout, ReadMax) IN
    /\ At("gui", "show")
    /\ panic' = (n = 0)
    /\ screen' = screen \o SubSeq(stdout.data, stdout.idx + 1, stdout.idx + n)
    /\ stdout' = [stdout EXCEPT !.idx = @ + n]
    /\ Go("gui", "loop")
    /\ UNCHANGED <<messages, pts, stdin, print, fds, cwd, prompt, command, char, prog, dirs, files, ghosts>>

GuiStep == CreateTerminal \/ OpenIn \/ OpenOut \/ OpenHello \/ PrintHello \/ ForkShell
           \/ BlockUntilPending \/ GuiKey \/ GuiShow

(***************************************************************************)
(* The shell                                                               *)
(***************************************************************************)
ShellPrint == At("shell", "print") /\ Printing("shell", "getchar")

\* Printing that ends in a wait for the program that was started.
ShellPrintAndFork == At("shell", "print and fork") /\ Printing("shell", "run")

\* getchar when there is something: Pipe::read is one step.
GetChar ==
    /\ At("shell", "getchar")
    /\ can_read(stdin)
    /\ char' = stdin.data[stdin.idx + 1]
    /\ stdin' = [stdin EXCEPT !.idx = @ + NumToRead(stdin, 1)]
    /\ Go("shell", "handle")
    /\ UNCHANGED <<messages, pts, stdout, print, fds, cwd, prompt, command, prog, dirs, files, panic, screen, ghosts>>

\* block_until_can_read; FileReadableBlocker asks can_read.
GetCharBlocks ==
    /\ At("shell", "getchar")
    /\ ~can_read(stdin)
    /\ Go("shell", "blocked")
    /\ UNCHANGED <<messages, pts, stdin, stdout, print, fds, cwd, prompt, command, char, prog, dirs, files, panic, screen, ghosts>>

\* Unblocked, with interrupts enabled: the address of the data is taken.
GetCharWoken ==
    /\ At("shell", "blocked")
    /\ can_read(stdin)
    /\ stdin' = [stdin EXCEPT !.moved = FALSE]
    /\ Go("shell", "copy")
    /\ UNCHANGED <<messages, pts, stdout, print, fds, cwd, prompt, command, char, prog, dirs, files, panic, screen, ghosts>>

GetCharCopy ==
    /\ At("shell", "copy")
    /\ char' = stdin.data[stdin.idx + 1]
    /\ stdin' = [stdin EXCEPT !.idx = @ + 1]
    /\ Go("shell", "handle")
    /\ UNCHANGED <<messages, pts, stdout, print, fds, cwd, prompt, command, prog, dirs, files, panic, screen, ghosts>>

\* The buffer was freed in between and may hold anything.
GetCharFreed ==
    /\ At("shell", "copy")
    /\ stdin.moved
    /\ garbled' = TRUE
    /\ UNCHANGED <<messages, pts, stdin, stdout, pc, print, fds, cwd, prompt, command, char, prog, dirs, files, panic, screen, keys, session>>

\* What the shell prints next, and where it goes on.
Say(out, l) == print' = [print EXCEPT !["shell"] = out] /\ Go("shell", l)

\* A character that is not the end of the command is kept and echoed.
HandleText ==
    /\ At("shell", "handle")
    /\ char \notin {Enter, Back}
    /\ command' = Append(command, char)
    /\ Say(<<<<"echo", char>>>>, "print")
    /\ UNCHANGED <<messages, pts, stdin, stdout, fds, cwd, prompt, char, prog, dirs, files, panic, screen, ghosts>>

HandleBackspace ==
    /\ At("shell", "handle")
    /\ char = Back
    /\ IF command = <<>> THEN Go("shell", "getchar") /\ UNCHANGED <<command, print>>
       ELSE command' = Front(command) /\ Say(<<<<"echo", char>>>>, "print")
    /\ UNCHANGED <<messages, pts, stdin, stdout, fds, cwd, prompt, char, prog, dirs, files, panic, screen, ghosts>>

HandleEnter == At("shell", "handle") /\ char = Enter

Program == IF Len(command) = 1 THEN command[1].prog ELSE "unknown"

\* find_app: is_file of a path that to_string made relative; the system call
\* does not look at the current directory.
find_app(name) == VfsIsFile(parts_from_string(to_string(<<"bin", name>>)))

EmptyCommand ==
    /\ HandleEnter
    /\ command = <<>>
    /\ Say(<<NewLine, Prompt(parts_from_string(prompt))>>, "print")
    /\ UNCHANGED <<messages, pts, stdin, stdout, fds, cwd, prompt, command, char, prog, dirs, files, panic, screen, ghosts>>

\* Process::syscall_set_current_directory.
CdFails(path) ==
    LET s == get_full_path(cwd["shell"], path) IN
    ~VfsIsDirectory(parts_from_string(s)) \/ find_last_of(path) = Len(path)

Cd ==
    /\ HandleEnter
    /\ Program = "cd"
    /\ LET path == command[1].arg
           to   == get_full_path(cwd["shell"], path)
       IN  /\ panic' = EmptyPart(to)
           /\ IF CdFails(path)
              THEN /\ Say(<<NewLine, <<"invalid path", path>>, NewLine, Prompt(parts_from_string(prompt))>>, "print")
                   /\ UNCHANGED cwd
              ELSE /\ cwd' = [cwd EXCEPT !["shell"] = to]
                   /\ Go("shell", "get cwd")
                   /\ UNCHANGED print
    /\ command' = <<>>
    /\ UNCHANGED <<messages, pts, stdin, stdout, fds, prompt, char, prog, dirs, files, screen, ghosts>>

\* The prompt is the directory the kernel reports.
GetCwd ==
    /\ At("shell", "get cwd")
    /\ prompt' = get_current_directory("shell")
    /\ Say(<<NewLine, NewLine, Prompt(parts_from_string(get_current_directory("shell")))>>, "print")
    /\ UNCHANGED <<messages, pts, stdin, stdout, fds, cwd, command, char, prog, dirs, files, panic, screen, ghosts>>

NoSuchProgram ==
    /\ HandleEnter
    /\ command # <<>>
    /\ Program # "cd" /\ ~find_app(Program)
    /\ Say(<<NewLine, <<"not found", <<>>>>, Prompt(parts_from_string(prompt))>>, "print")
    /\ command' = <<>>
    /\ UNCHANGED <<messages, pts, stdin, stdout, fds, cwd, prompt, char, prog, dirs, files, panic, screen, ghosts>>

RunProgram ==
    /\ HandleEnter
    /\ Program \in Apps /\ find_app(Program)
    /\ Say(<<NewLine>>, "print and fork")
    /\ prog' = command[1]
    /\ command' = <<>>
    /\ UNCHANGED <<messages, pts, stdin, stdout, fds, cwd, prompt, char, dirs, files, panic, screen, ghosts>>

ForkChild ==
    /\ At("shell", "run")
    /\ Inherit("shell", "child")
    /\ pc' = [pc EXCEPT !["shell"] = "wait", !["child"] = prog.prog]
    /\ UNCHANGED <<messages, pts, stdin, stdout, print, prompt, command, char, prog, dirs, files, panic, screen, ghosts>>

Wait ==
    /\ At("shell", "wait")
    /\ pc["child"] = "none"
    /\ Say(<<Prompt(parts_from_string(prompt))>>, "print")
    /\ UNCHANGED <<messages, pts, stdin, stdout, fds, cwd, prompt, command, char, prog, dirs, files, panic, screen, ghosts>>

ShellStep == ShellPrint \/ ShellPrintAndFork \/ GetChar \/ GetCharBlocks \/ GetCharWoken
             \/ GetCharCopy \/ GetCharFreed
             \/ HandleText \/ HandleBackspace \/ EmptyCommand \/ Cd \/ GetCwd \/ NoSuchProgram
             \/ RunProgram \/ ForkChild \/ Wait

(***************************************************************************)
(* The programs                                                            *)
(***************************************************************************)
ChildPath(path) == get_full_path(cwd["child"], path)
ChildParts(path) == parts_from_string(ChildPath(path))

\* A step of the child that makes a call and then prints.
ChildCall(next, out) ==
    /\ print' = [print EXCEPT !["child"] = out]
    /\ Go("child", next)
    /\ UNCHANGED <<messages, pts, stdin, stdout, cwd, prompt, command, char, prog, screen, ghosts>>

LsPath == IF prog.arg = <<>> THEN <<".">> ELSE prog.arg

\* do_ls asks for the size first; the second call must then succeed.
LsSize ==
    /\ At("child", "ls")
    /\ panic' = EmptyPart(ChildPath(LsPath))
    /\ IF syscall_listdir("child", LsPath).found THEN ChildCall("ls fetch", <<>>)
       ELSE ChildCall("print", <<<<"directory not found", <<>>>>, NewLine>>)
    /\ UNCHANGED <<fds, dirs, files>>

LsFetch ==
    LET list == syscall_listdir("child", LsPath) IN
    /\ At("child", "ls fetch")
    /\ panic' = ~list.found
    /\ ChildCall("print", <<<<"entries", {deserialize(e) : e \in list.entries}>>, NewLine>>)
    /\ UNCHANGED <<fds, dirs, files>>

\* touch: create_entry in FAT32, which would make a second entry of a name
\* that exists (one element of the set here); the other file systems do not
\* implement it.
Touch ==
    LET a  == ChildParts(prog.arg)
        ok == dirname(Inside(a)) \in dirs
    IN  /\ At("child", "touch")
        /\ panic' = (EmptyPart(ChildPath(prog.arg)) \/ get_fs(a).fs # "fat")
        /\ files' = IF get_fs(a).fs = "fat" /\ ok THEN files \cup {Inside(a)} ELSE files
        /\ ChildCall("print", (IF ok THEN <<>> ELSE <<<<"error", prog.arg>>>>) \o <<NewLine>>)
        /\ UNCHANGED <<fds, dirs>>

\* cat: open, size, read; a full table of descriptors is an error as well.
Cat ==
    LET f == VfsOpen(ChildParts(prog.arg)) IN
    /\ At("child", "cat")
    /\ panic' = OpenPanics(ChildPath(prog.arg))
    /\ IF f = "" THEN UNCHANGED fds ELSE allocate_fd("child", f)
    /\ ChildCall("print",
                 IF f = "" \/ FreeFd("child") = NumFds THEN <<<<"error", prog.arg>>>> ELSE <<<<"content", prog.arg>>>>)
    /\ UNCHANGED <<dirs, files>>

ChildPrint == At("child", "print") /\ Printing("child", "exit")

ChildExit ==
    /\ At("child", "exit")
    /\ Go("child", "none")
    /\ UNCHANGED <<messages, pts, stdin, stdout, print, fds, cwd, prompt, command, char, prog, dirs, files, panic, screen, ghosts>>

ChildStep == LsSize \/ LsFetch \/ Touch \/ Cat \/ ChildPrint \/ ChildExit

Next == KeyPressed \/ GuiStep \/ ShellStep \/ ChildStep

\* A process that can run gets the CPU again and again (Scheduler).
Spec == Init /\ [][Next]_vars /\ WF_vars(GuiStep) /\ WF_vars(ShellStep) /\ WF_vars(ChildStep)

(***************************************************************************)
(* Properties                                                              *)
(***************************************************************************)
\* What GuiTerminal shows is at any time a prefix of what the keys mean, and
\* no assertion of the kernel or of a program fails, unless a character was
\* read from a buffer of the pipe that was freed: no key is lost, doubled or
\* reordered by the pipes, ".." and relative paths lead where a user expects
\* them to, programs inherit the directory and the terminal of the shell,
\* and nothing is printed before a program has ended that belongs after it.
ScreenIsSession == ~garbled => ~panic /\ IsPrefix(screen, session.out)

\* The screen catches up with the keys: no key is left in a pipe with its
\* reader asleep, and neither GuiTerminal nor the shell waits for ever.
ScreenCatchesUp == []<>(garbled \/ screen = session.out)
=============================================================================
