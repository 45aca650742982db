---------------------------- MODULE WindowServer ----------------------------
(***************************************************************************)
(* The window server (userspace/WindowServer) and its clients              *)
(* (userspace/LibGui and the programs that use it), which talk through     *)
(* userspace/LibWindowServer.                                              *)
(*                                                                         *)
(* Every request, answer and input event is two messages, a code and a     *)
(* body, sent and received by two system calls each.  Processes can be     *)
(* preempted between system calls, so each call is an action.  What the    *)
(* kernel does with messages is taken from module Messages: one queue per  *)
(* process, in the order of the sends, none lost.                          *)
(*                                                                         *)
(* Where windows are on the screen is left open: a press of the button may *)
(* hit the banner or the body of any set of windows.                       *)
(***************************************************************************)
EXTENDS Integers, Sequences, FiniteSets, SequencesExt

CONSTANTS Clients,       \* processes that use LibGui
          Mortal,        \* clients that may be ended by a fault at any time
          MaxWindows,    \* bound: windows a client creates
          MaxDraws,      \* bound: draws a client asks for on its own account
          MaxEvents,     \* bound: input events
          DragIds        \* values of the u16 in which set_drag passes a window id

Server == "WindowServer"

ASSUME WindowServerAssumption ==
    /\ Server \notin Clients
    /\ Mortal \subseteq Clients
    /\ {MaxWindows, MaxDraws, MaxEvents} \subseteq Nat
    /\ DragIds \in Nat \ {0}

Procs    == Clients \cup {Server}
NoWindow == [id |-> 0, owner |-> Server, focused |-> FALSE]
Normal   == 0       \* MouseStateType::Normal, where window_id is 0

VARIABLES
    inbox,      \* the queue of messages of each process
    life,       \* "alive", "asserted": ended by an ASSERT, "died": by a fault
    pc,         \* the system call a process is about to make
    windows,    \* m_windows
    focus,      \* m_current_focused_window_idx + 1
    drag,       \* m_mouse_state: the id of the window that is dragged
    guid,       \* guid of kernel/syscall.cpp
    from,       \* pid of the request that is handled
    opening,    \* the window that is being created
    outbox,     \* sends that remain of the handler that runs
    keyboard, mouse,    \* events that can be read from the devices
    events,     \* input events so far
    mine,       \* ids of the windows of a client, in the order of creation
    draws       \* draws of a client

server  == <<windows, focus, drag, guid, from, opening, outbox>>
devices == <<keyboard, mouse, events>>
client  == <<mine, draws>>
vars    == <<inbox, life, pc, server, devices, client>>

Init ==
    /\ inbox = [p \in Procs |-> <<>>]
    /\ life = [p \in Procs |-> "alive"]
    /\ pc = [p \in Procs |-> IF p = Server THEN "block" ELSE "create code"]
    /\ windows = <<>> /\ focus = 0 /\ drag = Normal
    /\ guid = 1
    /\ from = Server /\ opening = NoWindow /\ outbox = <<>>
    /\ keyboard = 0 /\ mouse = 0 /\ events = 0
    /\ mine = [c \in Clients |-> <<>>]
    /\ draws = [c \in Clients |-> 0]

-----------------------------------------------------------------------------
At(p, l) == life[p] = "alive" /\ pc[p] = l

Goto(p, l) == pc' = [pc EXCEPT ![p] = l]

\* ASSERT in a program: std::exit.
Fail(p) == life' = [life EXCEPT ![p] = "asserted"] /\ UNCHANGED pc

\* std::send_message; E_NOTFOUND when the receiver has ended.
Found(to) == life[to] = "alive"

Put(to, m) == inbox' = [inbox EXCEPT ![to] = Append(@, m)]

Msg(p, kind, arg) == [from |-> p, kind |-> kind, arg |-> arg]

\* std::get_message blocks until there is one.
Pending(p) == inbox[p] # <<>>

Pop(p) == inbox' = [inbox EXCEPT ![p] = Tail(@)]

-----------------------------------------------------------------------------
(* The server: WindowServerHandler *)

\* Mutant of Unblock: a pending message does not unblock the server.
UnblockForFiles ==
    /\ At(Server, "block")
    /\ \/ keyboard > 0 /\ Goto(Server, "keyboard")
       \/ keyboard = 0 /\ mouse > 0 /\ Goto(Server, "mouse")
    /\ UNCHANGED <<inbox, life, server, devices, client>>

\* run: block_until_pending looks for a message first, then at the files.
Unblock ==
    /\ At(Server, "block")
    /\ \/ Pending(Server) /\ Goto(Server, "code")
       \/ ~Pending(Server) /\ keyboard > 0 /\ Goto(Server, "keyboard")
       \/ ~Pending(Server) /\ keyboard = 0 /\ mouse > 0 /\ Goto(Server, "mouse")
    /\ UNCHANGED <<inbox, life, server, devices, client>>

\* run and the switch of handle_message_code.
ReadCode ==
    /\ At(Server, "code")
    /\ Pending(Server)
    /\ LET m == Head(inbox[Server]) IN
       /\ from' = m.from
       /\ CASE m.kind = "CreateWindowRequest" -> Goto(Server, "request") /\ UNCHANGED life
            [] m.kind = "DrawWindow" -> Goto(Server, "draw") /\ UNCHANGED life
            [] OTHER -> Fail(Server)
    /\ Pop(Server)
    /\ UNCHANGED <<windows, focus, drag, guid, opening, outbox, devices, client>>

\* Mutant of CreateWindow: the answer names the buffer instead of the window.
AnswerWithBuffer ==
    /\ At(Server, "request")
    /\ Pending(Server)
    /\ guid' = guid + 2
    /\ opening' = [id |-> guid, owner |-> from, focused |-> FALSE]
    /\ outbox' = << <<from, Msg(Server, "CreateWindowResponse", 0)>>,
                    <<from, Msg(Server, "response", guid + 1)>> >>
    /\ Goto(Server, "send")
    /\ Pop(Server)
    /\ UNCHANGED <<life, windows, focus, drag, from, devices, client>>

\* recv_create_window_request, which checks the sender of the body, and the
\* constructor of Window, which takes two guids.
CreateWindow ==
    /\ At(Server, "request")
    /\ Pending(Server)
    /\ IF Head(inbox[Server]).from # from
       THEN Fail(Server) /\ UNCHANGED <<guid, opening, outbox>>
       ELSE /\ guid' = guid + 2
            /\ opening' = [id |-> guid, owner |-> from, focused |-> FALSE]
            /\ outbox' = << <<from, Msg(Server, "CreateWindowResponse", 0)>>,
                            <<from, Msg(Server, "response", guid)>> >>
            /\ Goto(Server, "send")
            /\ UNCHANGED life
    /\ Pop(Server)
    /\ UNCHANGED <<windows, focus, drag, from, devices, client>>

\* Mutant of set_focused_window: the window that loses the focus keeps its flag.
FocusWithoutUnset(s, i) == [windows |-> [s.windows EXCEPT ![i].focused = TRUE], focus |-> i]

set_focused_window(s, i) ==
    LET unset == IF s.focus = 0 THEN s.windows
                 ELSE [s.windows EXCEPT ![s.focus].focused = FALSE]
    IN  [windows |-> [unset EXCEPT ![i].focused = TRUE], focus |-> i]

\* The next send of the handler that runs.  An answer to a request must be
\* delivered, an event need not; a window is appended and gets the focus
\* once its creation has been answered.
Send ==
    /\ At(Server, "send")
    /\ LET to == Head(outbox)[1]
           last == Len(outbox) = 1
           s == set_focused_window([windows |-> Append(windows, opening), focus |-> focus],
                                   Len(windows) + 1)
       IN  IF opening # NoWindow /\ ~Found(to)
           THEN Fail(Server) /\ UNCHANGED <<inbox, windows, focus, opening, outbox>>
           ELSE /\ IF Found(to) THEN Put(to, Head(outbox)[2]) ELSE UNCHANGED inbox
                /\ outbox' = Tail(outbox)
                /\ Goto(Server, IF last THEN "block" ELSE "send")
                /\ IF last /\ opening # NoWindow
                   THEN windows' = s.windows /\ focus' = s.focus /\ opening' = NoWindow
                   ELSE UNCHANGED <<windows, focus, opening>>
                /\ UNCHANGED life
    /\ UNCHANGED <<drag, guid, from, devices, client>>

\* get_window ends in ASSERT_NOT_REACHED when there is no such window.
HasWindow(id) == \E i \in 1..Len(windows) : windows[i].id = id

\* recv_draw_request and get_window.
DrawWindow ==
    /\ At(Server, "draw")
    /\ Pending(Server)
    /\ LET m == Head(inbox[Server]) IN
       IF m.from # from \/ ~HasWindow(m.arg)
       THEN Fail(Server)
       ELSE Goto(Server, "block") /\ UNCHANGED life
    /\ Pop(Server)
    /\ UNCHANGED <<server, devices, client>>

\* Mutant of Event: the body is sent before the code.
EventBodyFirst(owner) == << <<owner, Msg(Server, "io_event", 0)>>,
                            <<owner, Msg(Server, "SendIOEvent", 0)>> >>

\* The two sends of an input event.
Event(owner) == << <<owner, Msg(Server, "SendIOEvent", 0)>>,
                   <<owner, Msg(Server, "io_event", 0)>> >>

SendOrBlock == Goto(Server, IF outbox' = <<>> THEN "block" ELSE "send")

handle_pending_keyboard_event ==
    /\ At(Server, "keyboard")
    /\ keyboard' = keyboard - 1
    /\ outbox' = IF focus = 0 THEN <<>> ELSE Event(windows[focus].owner)
    /\ SendOrBlock
    /\ UNCHANGED <<inbox, life, windows, focus, drag, guid, from, opening, mouse,
                   events, client>>

\* What handle_mouse_event does with window i, of which the press hits the parts hit.
HitWindow(s, i, hit) ==
    IF hit = {} THEN s
    ELSE LET f == set_focused_window(s, i)
         IN  [windows |-> f.windows, focus |-> f.focus,
              drag |-> IF "banner" \in hit THEN windows[i].id % DragIds ELSE s.drag,
              outbox |-> IF "body" \in hit THEN s.outbox \o Event(windows[i].owner) ELSE s.outbox]

\* handle_mouse_event, when the press hits hits[i] of window i.
Press(hits) ==
    LET after[i \in 0..Len(windows)] ==
            IF i = 0 THEN [windows |-> windows, focus |-> focus, drag |-> drag, outbox |-> <<>>]
            ELSE HitWindow(after[i - 1], i, hits[i])
        s == after[Len(windows)]
    IN  /\ windows' = s.windows /\ focus' = s.focus /\ drag' = s.drag /\ outbox' = s.outbox
        /\ UNCHANGED life

\* handle_pending_mouse_event; left tells whether the button is down.
handle_pending_mouse_event(left) ==
    /\ At(Server, "mouse")
    /\ mouse' = mouse - 1
    /\ IF drag # Normal
       THEN /\ drag' = IF left THEN drag ELSE Normal
            /\ IF left /\ ~HasWindow(drag)
               THEN Fail(Server)
               ELSE Goto(Server, "block") /\ UNCHANGED life
            /\ UNCHANGED <<windows, focus, outbox>>
       ELSE /\ IF left
               THEN \E hits \in [1..Len(windows) -> SUBSET {"banner", "body"}] : Press(hits)
               ELSE outbox' = <<>> /\ UNCHANGED <<life, windows, focus, drag>>
            /\ SendOrBlock
    /\ UNCHANGED <<inbox, guid, from, opening, keyboard, events, client>>

ServerNext ==
    \/ Unblock \/ ReadCode \/ CreateWindow \/ Send \/ DrawWindow
    \/ handle_pending_keyboard_event
    \/ \E left \in BOOLEAN : handle_pending_mouse_event(left)

-----------------------------------------------------------------------------
(* A client: GuiManager and the programs *)

\* One of the two sends of a request; ASSERT(rc) when the server has ended.
ClientSend(c, kind, arg, next) ==
    /\ IF Found(Server)
       THEN Put(Server, Msg(c, kind, arg)) /\ Goto(c, next) /\ UNCHANGED life
       ELSE Fail(c) /\ UNCHANGED inbox
    /\ UNCHANGED <<server, devices>>

\* One of the two receives of an answer or event; ASSERT(rc) when the
\* message is not the one that is expected.
ClientRecv(c, kind, next) ==
    /\ Pending(c)
    /\ IF Head(inbox[c]).kind = kind /\ Head(inbox[c]).from = Server
       THEN Goto(c, next) /\ UNCHANGED life
       ELSE Fail(c)
    /\ Pop(c)
    /\ UNCHANGED <<server, devices>>

\* GuiManager::create_window
CreateSend(c) ==
    /\ \/ At(c, "create code") /\ ClientSend(c, "CreateWindowRequest", 0, "create body")
       \/ At(c, "create body") /\ ClientSend(c, "request", 0, "response code")
    /\ UNCHANGED client

CreateRecv(c) ==
    \/ /\ At(c, "response code")
       /\ ClientRecv(c, "CreateWindowResponse", "response body")
       /\ UNCHANGED client
    \/ /\ At(c, "response body")
       /\ ClientRecv(c, "response", "draw code")
       /\ mine' = [mine EXCEPT ![c] = Append(@, Head(inbox[c]).arg)]
       /\ UNCHANGED draws

\* GuiManager::draw, of the last window created
Draw(c) ==
    /\ \/ At(c, "draw code") /\ ClientSend(c, "DrawWindow", 0, "draw body")
       \/ At(c, "draw body") /\ ClientSend(c, "window", Last(mine[c]), "idle")
    /\ UNCHANGED client

\* GuiManager::get_io_event, after which the programs draw again
GetEvent(c) ==
    /\ \/ At(c, "idle") /\ ClientRecv(c, "SendIOEvent", "event body")
       \/ At(c, "event body") /\ ClientRecv(c, "io_event", "draw code")
    /\ UNCHANGED client

\* The program has something new to show (GuiTerminal), or opens a window.
OwnAccount(c) ==
    /\ At(c, "idle")
    /\ \/ /\ draws[c] < MaxDraws
          /\ draws' = [draws EXCEPT ![c] = @ + 1]
          /\ Goto(c, "draw code")
       \/ /\ Len(mine[c]) < MaxWindows
          /\ Goto(c, "create code")
          /\ UNCHANGED draws
    /\ UNCHANGED <<inbox, life, server, devices, mine>>

\* A page fault in a program ends it.
Die(c) ==
    /\ c \in Mortal
    /\ life[c] = "alive"
    /\ life' = [life EXCEPT ![c] = "died"]
    /\ UNCHANGED <<inbox, pc, server, devices, client>>

ClientStep(c) == CreateSend(c) \/ CreateRecv(c) \/ Draw(c) \/ GetEvent(c)

\* The keyboard and mouse interrupts put an event in the device's buffer.
Input ==
    /\ events < MaxEvents
    /\ events' = events + 1
    /\ \/ keyboard' = keyboard + 1 /\ UNCHANGED mouse
       \/ mouse' = mouse + 1 /\ UNCHANGED keyboard
    /\ UNCHANGED <<inbox, life, pc, server, client>>

Next ==
    \/ ServerNext
    \/ \E c \in Clients : ClientStep(c) \/ OwnAccount(c) \/ Die(c)
    \/ Input

Spec == Init /\ [][Next]_vars

\* Server and clients get on with what they do, input and faults may happen.
FairSpec == Spec /\ WF_vars(ServerNext) /\ \A c \in Clients : WF_vars(ClientStep(c))

-----------------------------------------------------------------------------
(***************************************************************************)
(* The ASSERTs of the server hold: the body of a request comes from the    *)
(* client that sent the code, an answer reaches its client, and a window   *)
(* that is drawn or dragged exists.  The one excuse: a client that was     *)
(* sent an answer has ended (ASSERT(rc) after send_create_window_response).*)
(***************************************************************************)
ServerAssertionsHold ==
    life[Server] = "asserted" => opening # NoWindow /\ life[opening.owner] # "alive"

(***************************************************************************)
(* The ASSERTs of LibGui hold: a client that waits for the answer to its   *)
(* request, or for an event, reads that and nothing else, although the     *)
(* server sends it events as soon as it has a window.  There are two       *)
(* excuses: the server has ended, and a client that opens another window   *)
(* may read an event for its first one in place of the answer.             *)
(***************************************************************************)
ClientAssertionsHold ==
    \A c \in Clients : life[c] = "asserted" =>
        \/ ~Found(Server)
        \/ pc[c] = "response code" /\ mine[c] # <<>>

(***************************************************************************)
(* Exactly the window that gets the keys is drawn as focused, although a   *)
(* press may hit several windows and windows are created and dragged       *)
(* meanwhile.                                                              *)
(***************************************************************************)
OneFocused == \A i \in 1..Len(windows) : windows[i].focused <=> i = focus

\* A client that asks for a window gets one.
WindowIsCreated ==
    \A c \in Clients : pc[c] = "response code" ~> (pc[c] # "response code" \/ life[c] # "alive")
=============================================================================
