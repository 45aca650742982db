------------------------- MODULE WindowServerProofs -------------------------
(***************************************************************************)
(* Proofs about WindowServer, for any number of windows, draws and input   *)
(* events.                                                                 *)
(*                                                                         *)
(* OneFocused holds for any number of clients, and needs only that the     *)
(* focus is at a window and that a new window comes without its flag.      *)
(*                                                                         *)
(* The assertions of the two sides hold for one client, and as long as the *)
(* ids of windows fit the u16 of set_drag.  In each direction a code and   *)
(* its body alternate, whoever is half way through a pair (Linked); what   *)
(* is drawn or dragged has a window, as an id reaches the client only with *)
(* the answer that ends its creation; and at most one creation is on its   *)
(* way, as a request, with the server or as an answer (OneCreation).       *)
(***************************************************************************)
EXTENDS WindowServer, SequenceTheorems, WellFoundedInduction, TLAPS

Requests == {"CreateWindowRequest", "request", "DrawWindow", "window"}
Answers  == {"CreateWindowResponse", "response", "SendIOEvent", "io_event"}
Codes    == {"CreateWindowRequest", "DrawWindow", "CreateWindowResponse", "SendIOEvent"}

Request == [from : Clients, kind : Requests, arg : Nat]
Answer  == [from : {Server}, kind : Answers, arg : Nat]
Window  == [id : Nat \ {0}, owner : Clients, focused : BOOLEAN]

ServerPlaces == {"block", "code", "request", "draw", "send", "keyboard", "mouse"}
Opened       == {"draw code", "draw body", "idle", "event body"}
ClientPlaces == Opened \cup {"create code", "create body", "response code", "response body"}

-----------------------------------------------------------------------------
(* The windows *)

QueueTypes ==
    /\ inbox \in [Procs -> Seq(Request) \cup Seq(Answer)]
    /\ inbox[Server] \in Seq(Request)
    /\ \A c \in Clients : inbox[c] \in Seq(Answer)

LifeTypes == life \in [Procs -> {"alive", "asserted", "died"}]

PlaceTypes ==
    /\ pc \in [Procs -> ServerPlaces \cup ClientPlaces]
    /\ pc[Server] \in ServerPlaces
    /\ \A c \in Clients : pc[c] \in ClientPlaces

ServerTypes ==
    /\ windows \in Seq(Window) /\ focus \in 0..Len(windows)
    /\ drag \in Nat /\ guid \in Nat \ {0}
    /\ from \in Procs
    /\ outbox \in Seq(Clients \X Answer)

MineTypes == mine \in [Clients -> Seq(Nat)]

WindowTypes == QueueTypes /\ LifeTypes /\ PlaceTypes /\ ServerTypes /\ MineTypes

\* A window that is not yet in m_windows has no focus.
OpeningHasNoFocus ==
    /\ opening \in Window \cup {NoWindow} /\ opening.focused = FALSE
    /\ opening # NoWindow => pc[Server] = "send"

\* The server sends while something is left to send, and handles what a client sent.
Sending ==
    /\ pc[Server] = "send" <=> outbox # <<>>
    /\ pc[Server] \in {"request", "draw"} => from \in Clients

DrawsItsOwn == \A c \in Clients : pc[c] \in Opened => mine[c] # <<>>

WindowsInv == WindowTypes /\ OpeningHasNoFocus /\ Sending /\ DrawsItsOwn /\ OneFocused

-----------------------------------------------------------------------------
(* The protocol *)

BodyOf(kind) == CASE kind = "CreateWindowRequest" -> "request" [] kind = "DrawWindow" -> "window"
                  [] kind = "CreateWindowResponse" -> "response" [] OTHER -> "io_event"

\* What is sent after m, and whether m is what is expected.
After(m) == IF m.kind \in Codes THEN BodyOf(m.kind) ELSE "code"

Fits(e, m) == IF e = "code" THEN m.kind \in Codes ELSE m.kind = e

\* The messages s of a queue take the reader from r to w, where the writer is.
Linked(s, r, w) ==
    /\ s = <<>> => r = w
    /\ s # <<>> => Fits(r, s[1]) /\ After(s[Len(s)]) = w
    /\ \A i \in 1..(Len(s) - 1) : Fits(After(s[i]), s[i + 1])

\* What the server and a client read and write next.
ServerReads == CASE pc[Server] = "request" -> "request" [] pc[Server] = "draw" -> "window"
                 [] OTHER -> "code"
NextSent(ob) == IF ob # <<>> /\ Head(ob)[2].kind \notin Codes THEN Head(ob)[2].kind ELSE "code"
ServerWrites == NextSent(outbox)
ClientReads(c) == CASE pc[c] = "response body" -> "response" [] pc[c] = "event body" -> "io_event"
                    [] OTHER -> "code"
ClientWrites(c) == CASE pc[c] = "create body" -> "request" [] pc[c] = "draw body" -> "window"
                     [] OTHER -> "code"

\* What remains to be sent ends with the body of a message.
WholeMessages(ob) ==
    /\ ob # <<>> => After(ob[Len(ob)][2]) = "code"
    /\ \A i \in 1..(Len(ob) - 1) : Fits(After(ob[i][2]), ob[i + 1][2])

Alternating(c) ==
    /\ Linked(inbox[Server], ServerReads, ClientWrites(c))
    /\ life[c] = "alive" => Linked(inbox[c], ClientReads(c), ServerWrites)
    /\ WholeMessages(outbox)

\* The answer to a creation, whole or in half, or events.
AnswerOf(w) == << <<w.owner, Msg(Server, "CreateWindowResponse", 0)>>,
                  <<w.owner, Msg(Server, "response", w.id)>> >>

Answered == opening # NoWindow => outbox = AnswerOf(opening) \/ outbox = Tail(AnswerOf(opening))

EventsOnly ==
    opening = NoWindow =>
        \A i \in 1..Len(outbox) : outbox[i][2].kind \in {"SendIOEvent", "io_event"}

\* Every id a client has or is sent, draws or drags is that of a window.
WindowIds == {windows[i].id : i \in 1..Len(windows)}

AllIn(s, kind, ids) == \A i \in 1..Len(s) : s[i].kind = kind => s[i].arg \in ids

IdsHaveWindows(c) ==
    /\ AllIn(inbox[Server], "window", WindowIds)
    /\ AllIn(inbox[c], "response", WindowIds)
    /\ life[c] = "alive" => \A i \in 1..Len(mine[c]) : mine[c][i] \in WindowIds
    /\ drag # Normal => drag \in WindowIds

IdsAreOld ==
    /\ \A id \in WindowIds : id < guid
    /\ opening # NoWindow => opening.id < guid

AtMostOne(s, kind) == \A i, j \in 1..Len(s) : s[i].kind = kind /\ s[j].kind = kind => i = j
None(s, kind) == \A i \in 1..Len(s) : s[i].kind # kind

Asking(c)     == pc[c] \in {"create body", "response code"}
Asked         == ~None(inbox[Server], "CreateWindowRequest")
Answering     == outbox # <<>> /\ Head(outbox)[2].kind = "CreateWindowResponse"
AnswerIsIn(c) == ~None(inbox[c], "CreateWindowResponse")

\* A client that is alive has asked for at most one window that it has not got.
OneCreation(c) ==
    life[c] = "alive" =>
        /\ AtMostOne(inbox[Server], "CreateWindowRequest")
        /\ AtMostOne(inbox[c], "CreateWindowResponse")
        /\ Asked => Asking(c) /\ pc[Server] # "request" /\ ~Answering /\ ~AnswerIsIn(c)
        /\ pc[Server] = "request" => Asking(c) /\ ~AnswerIsIn(c)
        /\ Answering => Asking(c) /\ ~AnswerIsIn(c)
        /\ AnswerIsIn(c) => Asking(c)

\* Before its first window a client is sent nothing but the answer.
FirstIsAnswer(c) ==
    life[c] = "alive" /\ mine[c] = <<>> /\ pc[c] \in {"create code", "create body", "response code"} =>
        \/ windows = <<>> /\ inbox[c] = <<>> /\ (outbox = <<>> \/ Answering)
        \/ inbox[c] # <<>> /\ inbox[c][1].kind = "CreateWindowResponse"

Protocol(c) ==
    /\ Alternating(c) /\ Answered /\ EventsOnly /\ IdsHaveWindows(c) /\ IdsAreOld
    /\ OneCreation(c) /\ FirstIsAnswer(c)
    /\ ServerAssertionsHold /\ ClientAssertionsHold

\* set_drag takes an id of 16 bits; window ids are guids.
IdsFit == guid <= DragIds

ProtocolInv == WindowsInv /\ (IdsFit => \A c \in Clients : Protocol(c))

-----------------------------------------------------------------------------
(* The loop of handle_mouse_event *)

\* A set of the numbers up to n that has 0 and with each the next has all of them.
LEMMA CountingUp ==
    ASSUME NEW n \in Nat, NEW T, 0 \in T, \A i \in 0..(n - 1) : i \in T => i + 1 \in T
    PROVE  \A i \in 0..n : i \in T
<1> DEFINE R == OpToRel(<, Nat)
           U == {i \in 0..n : i \notin T}
<1> SUFFICES ASSUME U # {} PROVE FALSE
  OBVIOUS
<1>1. PICK m \in U : \A y \in U : ~(<<y, m>> \in R)
  <2>1. IsWellFoundedOn(R, Nat)
    BY NatLessThanWellFounded
  <2>2. U \subseteq Nat
    OBVIOUS
  <2> HIDE DEF R, U
  <2> QED
    BY <2>1, <2>2, WFMin
<1>2. m \in 0..n /\ m # 0 /\ m \notin T
  BY <1>1
<1>3. m - 1 \in 0..(n - 1) /\ (m - 1) + 1 = m
  BY <1>2
<1>4. m - 1 \in U
  BY <1>2, <1>3
<1>5. <<m - 1, m>> \in R
  <2>1. <<m - 1, m>> \in Nat \X Nat /\ <<m - 1, m>>[1] < <<m - 1, m>>[2]
    BY <1>2, <1>3
  <2> QED
    BY <2>1 DEF OpToRel
<1> QED
  BY <1>1, <1>4, <1>5

\* The state of the loop before window 1.
Unpressed == [windows |-> windows, focus |-> focus, drag |-> drag, outbox |-> <<>>]

\* One turn after the other, up to window n.
Turns(g, n, hits) ==
    [i \in 0..n |-> IF i = 0 THEN Unpressed ELSE HitWindow(g[i - 1], i, hits[i])]

\* There is a way through the loop.
LEMMA LoopExists ==
    ASSUME NEW hits, NEW n \in Nat
    PROVE  \E g : g = Turns(g, n, hits)
<1> DEFINE T == {m \in 0..n : \E g : g = Turns(g, m, hits)}
<1>1. 0 \in T
  <2> DEFINE g == [i \in 0..0 |-> Unpressed]
  <2>1. g = Turns(g, 0, hits)
    BY DEF Turns
  <2> QED
    BY <2>1
<1>2. ASSUME NEW m \in 0..(n - 1), m \in T
      PROVE  m + 1 \in T
  <2>1. PICK g : g = Turns(g, m, hits)
    BY <1>2
  <2> DEFINE h == [i \in 0..(m + 1) |-> IF i = m + 1 THEN HitWindow(g[m], m + 1, hits[m + 1])
                                        ELSE g[i]]
  <2>2. g[0] = Unpressed /\ \A i \in 1..m : g[i] = HitWindow(g[i - 1], i, hits[i])
    BY <2>1 DEF Turns
  <2>3. ASSUME NEW i \in 0..(m + 1)
        PROVE  h[i] = IF i = 0 THEN Unpressed ELSE HitWindow(h[i - 1], i, hits[i])
    <3>1. CASE i = 0
      BY <2>2, <3>1
    <3>2. CASE i \in 1..m
      <4>1. i # 0 /\ i # m + 1 /\ i - 1 \in 0..(m + 1) /\ i - 1 # m + 1
        BY <3>2
      <4>2. h[i] = g[i] /\ h[i - 1] = g[i - 1]
        BY <4>1
      <4> QED
        BY <2>2, <3>2, <4>1, <4>2
    <3>3. CASE i = m + 1
      <4>1. i # 0 /\ i - 1 = m /\ m \in 0..(m + 1) /\ m # m + 1
        BY <3>3
      <4>2. h[i] = HitWindow(g[m], m + 1, hits[m + 1]) /\ h[m] = g[m]
        BY <3>3, <4>1
      <4> QED
        BY <3>3, <4>1, <4>2
    <3> QED
      BY <3>1, <3>2, <3>3
  <2>4. h = Turns(h, m + 1, hits)
    BY <2>3 DEF Turns
  <2> QED
    BY <2>4
<1> HIDE DEF T
<1>3. \A i \in 0..n : i \in T
  BY <1>1, <1>2, CountingUp
<1> QED
  BY <1>3 DEF T

\* What Press does, by the turns of its loop.
LEMMA PressTurns ==
    ASSUME NEW hits, Press(hits), windows \in Seq(Window)
    PROVE  \E g : /\ g = Turns(g, Len(windows), hits)
                  /\ windows' = g[Len(windows)].windows /\ focus' = g[Len(windows)].focus
                  /\ drag' = g[Len(windows)].drag /\ outbox' = g[Len(windows)].outbox
<1> DEFINE n == Len(windows)
           Loop(g) == [i \in 0..n |-> IF i = 0 THEN Unpressed ELSE HitWindow(g[i - 1], i, hits[i])]
           after == CHOOSE g : g = Loop(g)
<1>1. /\ windows' = after[n].windows /\ focus' = after[n].focus
      /\ drag' = after[n].drag /\ outbox' = after[n].outbox
  BY DEF Press, Unpressed
<1>2. n \in Nat
  OBVIOUS
<1>3. after = Loop(after)
  <2>1. \E g : g = Loop(g)
    BY <1>2, LoopExists DEF Turns
  <2> QED
    BY <2>1
<1> HIDE DEF after
<1> QED
  BY <1>1, <1>3 DEF Turns

\* The windows w are those of v but for the flags, of which window f has the only one.
Placed(v, w, f) ==
    /\ w \in [1..Len(v) -> Window]
    /\ \A j \in 1..Len(v) : w[j].id = v[j].id /\ w[j].owner = v[j].owner
    /\ f \in 0..Len(v)
    /\ \A j \in 1..Len(v) : w[j].focused <=> j = f

\* An id that set_drag makes of that of a window.
Dragged(d) == d \in Nat /\ (d # Normal => \E j \in 1..Len(windows) : d = windows[j].id % DragIds)

\* The sends ob are events, each of them whole.
SendsEvents(ob) ==
    /\ ob \in Seq(Clients \X Answer) /\ WholeMessages(ob)
    /\ \A j \in 1..Len(ob) : ob[j][2].kind \in {"SendIOEvent", "io_event"}
    /\ ob # <<>> => ob[1][2].kind = "SendIOEvent"

\* What the loop keeps of its state.
Pressed(s) ==
    /\ Placed(windows, s.windows, s.focus) /\ Dragged(s.drag) /\ SendsEvents(s.outbox)
    /\ s.outbox # <<>> => windows # <<>>

\* A flag of one window.
Flagged(w, k, b) == [w EXCEPT ![k].focused = b]

OnlyFlag(n, w, k, b, y) ==
    /\ y \in [1..n -> Window]
    /\ \A j \in 1..n : /\ y[j].id = w[j].id /\ y[j].owner = w[j].owner
                       /\ j # k => y[j].focused = w[j].focused
    /\ y[k].focused = b

\* An EXCEPT of a flag changes that flag alone.
LEMMA SetFlag ==
    ASSUME NEW n \in Nat, NEW w \in [1..n -> Window], NEW k \in 1..n, NEW b \in BOOLEAN
    PROVE  OnlyFlag(n, w, k, b, Flagged(w, k, b))
<1> DEFINE x == [w[k] EXCEPT !.focused = b]
<1>1. Flagged(w, k, b) = [w EXCEPT ![k] = x]
  BY DEF Flagged
<1>2. x \in Window /\ x.id = w[k].id /\ x.owner = w[k].owner /\ x.focused = b
  <2>1. w[k] \in Window
    OBVIOUS
  <2> QED
    BY <2>1 DEF Window
<1> HIDE DEF x
<1> QED
  BY <1>1, <1>2 DEF OnlyFlag

\* set_focused_window moves the one flag.
LEMMA SetFocus ==
    ASSUME NEW v, Len(v) \in Nat, NEW s, Placed(v, s.windows, s.focus), NEW k \in 1..Len(v)
    PROVE  Placed(v, set_focused_window(s, k).windows, set_focused_window(s, k).focus)
<1> DEFINE n == Len(v)
           u == IF s.focus = 0 THEN s.windows ELSE Flagged(s.windows, s.focus, FALSE)
           y == Flagged(u, k, TRUE)
<1>0. /\ s.windows \in [1..n -> Window] /\ s.focus \in 0..n
      /\ \A j \in 1..n : /\ s.windows[j].id = v[j].id /\ s.windows[j].owner = v[j].owner
                         /\ s.windows[j].focused <=> j = s.focus
                         /\ s.windows[j].focused \in BOOLEAN
  BY DEF Placed, Window
<1>1. /\ u \in [1..n -> Window]
      /\ \A j \in 1..n : u[j].id = v[j].id /\ u[j].owner = v[j].owner /\ u[j].focused = FALSE
  <2>1. CASE s.focus = 0
    BY <1>0, <2>1
  <2>2. CASE s.focus # 0
    <3>1. s.focus \in 1..n /\ u = Flagged(s.windows, s.focus, FALSE)
      BY <1>0, <2>2
    <3> HIDE DEF u
    <3>2. /\ u \in [1..n -> Window]
          /\ \A j \in 1..n : /\ u[j].id = s.windows[j].id /\ u[j].owner = s.windows[j].owner
                             /\ j # s.focus => u[j].focused = s.windows[j].focused
          /\ u[s.focus].focused = FALSE
      <4>1. s.windows \in [1..n -> Window] /\ FALSE \in BOOLEAN /\ n \in Nat /\ s.focus \in 1..n
        BY <1>0, <3>1
      <4>2. OnlyFlag(n, s.windows, s.focus, FALSE, Flagged(s.windows, s.focus, FALSE))
        BY ONLY <4>1, SetFlag
      <4> QED
        BY <3>1, <4>2 DEF OnlyFlag
    <3>3. \A j \in 1..n : j # s.focus => u[j].focused = FALSE
      BY <1>0, <3>2
    <3> QED
      BY <1>0, <3>2, <3>3
  <2> QED
    BY <2>1, <2>2
<1>2. set_focused_window(s, k).windows = y /\ set_focused_window(s, k).focus = k
  BY DEF set_focused_window, Flagged
<1> HIDE DEF u
<1>3. /\ y \in [1..n -> Window]
      /\ \A j \in 1..n : /\ y[j].id = u[j].id /\ y[j].owner = u[j].owner
                         /\ j # k => y[j].focused = u[j].focused
      /\ y[k].focused = TRUE
  <2>1. u \in [1..n -> Window] /\ TRUE \in BOOLEAN /\ n \in Nat /\ k \in 1..n
    BY <1>1
  <2>2. OnlyFlag(n, u, k, TRUE, Flagged(u, k, TRUE))
    BY ONLY <2>1, SetFlag
  <2> QED
    BY <2>2 DEF OnlyFlag
<1> HIDE DEF y
<1>4. \A j \in 1..n : y[j].focused <=> j = k
  BY <1>1, <1>3
<1>5. Placed(v, y, k)
  BY <1>1, <1>3, <1>4 DEF Placed
<1> QED
  BY <1>2, <1>5

\* Two more sends of an event.
LEMMA EventAppended ==
    ASSUME NEW ob, SendsEvents(ob), NEW c \in Clients
    PROVE  SendsEvents(ob \o Event(c))
<1> DEFINE e1 == <<c, Msg(Server, "SendIOEvent", 0)>>
           e2 == <<c, Msg(Server, "io_event", 0)>>
           t == ob \o <<e1, e2>>
<1>0. /\ ob \in Seq(Clients \X Answer) /\ WholeMessages(ob)
      /\ \A j \in 1..Len(ob) : ob[j][2].kind \in {"SendIOEvent", "io_event"}
      /\ ob # <<>> => ob[1][2].kind = "SendIOEvent"
  BY DEF SendsEvents
<1>1. /\ e1 \in Clients \X Answer /\ e2 \in Clients \X Answer
      /\ e1[2].kind = "SendIOEvent" /\ e2[2].kind = "io_event"
  BY DEF Msg, Answer, Answers
<1>2. Event(c) = <<e1, e2>>
  BY DEF Event
<1> HIDE DEF e1, e2
<1>3. /\ t \in Seq(Clients \X Answer) /\ Len(t) = Len(ob) + 2 /\ Len(ob) \in Nat
      /\ \A j \in 1..Len(ob) : t[j] = ob[j]
      /\ t[Len(ob) + 1] = e1 /\ t[Len(ob) + 2] = e2
  BY <1>0, <1>1
<1> HIDE DEF t
<1>4. \A j \in 1..Len(t) : j \in 1..Len(ob) \/ j = Len(ob) + 1 \/ j = Len(ob) + 2
  BY <1>3
<1>5. \A j \in 1..Len(t) : t[j][2].kind \in {"SendIOEvent", "io_event"}
  BY <1>0, <1>1, <1>3, <1>4
<1>6. t[1][2].kind = "SendIOEvent"
  <2>1. CASE ob = <<>>
    <3>1. t[1] = e1
      BY <1>3, <2>1
    <3> QED
      BY <1>1, <3>1
  <2>2. CASE ob # <<>>
    <3>1. 1 \in 1..Len(ob) /\ t[1] = ob[1]
      BY <1>0, <1>3, <2>2
    <3> QED
      BY <1>0, <2>2, <3>1
  <2> QED
    BY <2>1, <2>2
<1>7. WholeMessages(t)
  <2>1. After(t[Len(t)][2]) = "code"
    BY <1>1, <1>3 DEF After, Codes
  <2>2. ASSUME NEW j \in 1..(Len(t) - 1)
        PROVE  Fits(After(t[j][2]), t[j + 1][2])
    <3>1. CASE j + 1 \in 1..Len(ob)
      <4>1. j \in 1..(Len(ob) - 1) /\ t[j] = ob[j] /\ t[j + 1] = ob[j + 1]
        BY <1>3, <3>1
      <4> QED
        BY <1>0, <4>1 DEF WholeMessages
    <3>2. CASE j = Len(ob)
      <4>1. ob # <<>> /\ t[j] = ob[Len(ob)] /\ t[j + 1] = e1
        BY <1>3, <3>2
      <4>2. After(t[j][2]) = "code"
        BY <1>0, <4>1 DEF WholeMessages
      <4> QED
        BY <1>1, <4>1, <4>2 DEF Fits, Codes
    <3>3. CASE j = Len(ob) + 1
      <4>1. t[j] = e1 /\ t[j + 1] = e2
        BY <1>3, <3>3
      <4>2. After(t[j][2]) = "io_event"
        BY <1>1, <4>1 DEF After, Codes, BodyOf
      <4> QED
        BY <1>1, <4>1, <4>2 DEF Fits
    <3> QED
      BY <1>3, <3>1, <3>2, <3>3
  <2> QED
    BY <2>1, <2>2 DEF WholeMessages
<1> QED
  BY <1>2, <1>3, <1>5, <1>6, <1>7 DEF t, SendsEvents

\* One turn of the loop.
LEMMA HitKeeps ==
    ASSUME NEW s, NEW hit, NEW k \in 1..Len(windows), windows \in Seq(Window), Pressed(s)
    PROVE  Pressed(HitWindow(s, k, hit))
<1> DEFINE f == set_focused_window(s, k)
           r == HitWindow(s, k, hit)
<1>0. Len(windows) \in Nat /\ windows[k] \in Window /\ windows # <<>>
  OBVIOUS
<1>1. CASE hit = {}
  BY <1>1 DEF HitWindow
<1>2. CASE hit # {}
  <2>1. Placed(windows, f.windows, f.focus)
    BY <1>0, SetFocus DEF Pressed
  <2>2. /\ r.windows = f.windows /\ r.focus = f.focus
        /\ r.drag = IF "banner" \in hit THEN windows[k].id % DragIds ELSE s.drag
        /\ r.outbox = IF "body" \in hit THEN s.outbox \o Event(windows[k].owner) ELSE s.outbox
    BY <1>2 DEF HitWindow
  <2> HIDE DEF f, r
  <2>3. Dragged(r.drag)
    <3>1. CASE "banner" \in hit
      <4>1. windows[k].id \in Nat /\ DragIds \in Nat \ {0}
        BY <1>0, WindowServerAssumption DEF Window
      <4>2. windows[k].id % DragIds \in Nat
        BY <4>1
      <4> QED
        BY <2>2, <3>1, <4>2 DEF Dragged
    <3>2. CASE "banner" \notin hit
      BY <2>2, <3>2 DEF Pressed
    <3> QED
      BY <3>1, <3>2
  <2>4. SendsEvents(r.outbox)
    <3>0. SendsEvents(s.outbox)
      BY DEF Pressed
    <3>1. CASE "body" \in hit
      <4>1. windows[k].owner \in Clients
        BY <1>0 DEF Window
      <4>2. r.outbox = s.outbox \o Event(windows[k].owner)
        BY <2>2, <3>1
      <4>3. SendsEvents(s.outbox \o Event(windows[k].owner))
        BY <3>0, <4>1, EventAppended
      <4> QED
        BY <4>2, <4>3
    <3>2. CASE "body" \notin hit
      BY <2>2, <3>0, <3>2
    <3> QED
      BY <3>1, <3>2
  <2>5. Placed(windows, r.windows, r.focus)
    BY <2>1, <2>2
  <2>6. Pressed(r)
    BY <1>0, <2>3, <2>4, <2>5 DEF Pressed
  <2> QED
    BY <2>6 DEF r
<1> QED
  BY <1>1, <1>2

\* The whole loop.
LEMMA PressKeeps ==
    ASSUME NEW hits, Press(hits), WindowsInv, drag = Normal
    PROVE  /\ Placed(windows, windows', focus') /\ Dragged(drag') /\ SendsEvents(outbox')
           /\ outbox' # <<>> => windows # <<>>
<1> DEFINE n == Len(windows)
<1>0. windows \in Seq(Window) /\ n \in Nat /\ windows \in [1..n -> Window]
  BY DEF WindowsInv, WindowTypes, ServerTypes
<1>1. PICK g : /\ g = Turns(g, n, hits)
               /\ windows' = g[n].windows /\ focus' = g[n].focus
               /\ drag' = g[n].drag /\ outbox' = g[n].outbox
  BY <1>0, PressTurns
<1>2. g[0] = Unpressed /\ \A i \in 1..n : g[i] = HitWindow(g[i - 1], i, hits[i])
  BY <1>0, <1>1 DEF Turns
<1> DEFINE T == {i \in 0..n : Pressed(g[i])}
<1>3. 0 \in T
  <2>1. /\ g[0].windows = windows /\ g[0].focus = focus /\ g[0].drag = 0
        /\ g[0].outbox = <<>>
    BY <1>2 DEF Unpressed, Normal
  <2>2. SendsEvents(<<>>)
    BY DEF SendsEvents, WholeMessages
  <2>3. Placed(windows, windows, focus)
    BY <1>0 DEF Placed, WindowsInv, WindowTypes, ServerTypes, OneFocused
  <2>4. Dragged(0)
    BY DEF Dragged, Normal
  <2>5. Pressed(g[0])
    BY <2>1, <2>2, <2>3, <2>4 DEF Pressed
  <2> QED
    BY <1>0, <2>5
<1>4. ASSUME NEW i \in 0..(n - 1), i \in T
      PROVE  i + 1 \in T
  <2>1. i + 1 \in 1..n /\ (i + 1) - 1 = i /\ i + 1 \in 0..n
    BY <1>0
  <2>2. g[i + 1] = HitWindow(g[i], i + 1, hits[i + 1])
    BY <1>2, <2>1
  <2>3. Pressed(g[i])
    BY <1>4
  <2>4. Pressed(HitWindow(g[i], i + 1, hits[i + 1]))
    BY <1>0, <2>1, <2>3, HitKeeps
  <2> QED
    BY <2>1, <2>2, <2>4
<1> HIDE DEF T
<1>5. \A i \in 0..n : i \in T
  BY <1>0, <1>3, <1>4, CountingUp
<1>6. Pressed(g[n])
  BY <1>0, <1>5 DEF T
<1> QED
  BY <1>1, <1>6 DEF Pressed

-----------------------------------------------------------------------------
(* What a step does to the queues and places *)

\* A message is put at the end of the queue of the process it is for.
LEMMA PutKeeps ==
    ASSUME QueueTypes, NEW to \in Procs, NEW m, Put(to, m),
           \/ to = Server /\ m \in Request
           \/ to \in Clients /\ m \in Answer
    PROVE  /\ QueueTypes' /\ inbox'[to] = Append(inbox[to], m)
           /\ \A p \in Procs : p # to => inbox'[p] = inbox[p]
<1>1. /\ inbox'[to] = Append(inbox[to], m)
      /\ \A p \in Procs : p # to => inbox'[p] = inbox[p]
      /\ inbox' = [p \in Procs |-> inbox'[p]]
  BY DEF Put, QueueTypes
<1>2. Server \in Procs /\ Server \notin Clients /\ \A c \in Clients : c \in Procs
  BY WindowServerAssumption DEF Procs
<1>3. inbox'[Server] \in Seq(Request)
  BY <1>1, <1>2 DEF QueueTypes
<1>4. ASSUME NEW c \in Clients PROVE inbox'[c] \in Seq(Answer)
  <2>1. CASE to = c
    <3>1. inbox[c] \in Seq(Answer) /\ m \in Answer /\ inbox'[c] = Append(inbox[c], m)
      BY <1>1, <1>2, <2>1 DEF QueueTypes
    <3> QED
      BY <3>1
  <2>2. CASE to # c
    BY <1>1, <1>2, <2>2 DEF QueueTypes
  <2> QED
    BY <2>1, <2>2
<1>5. \A p \in Procs : inbox'[p] \in Seq(Request) \cup Seq(Answer)
  BY <1>3, <1>4 DEF Procs
<1> QED
  BY <1>1, <1>3, <1>4, <1>5 DEF QueueTypes

\* A message is taken from the front of a queue.
LEMMA PopKeeps ==
    ASSUME QueueTypes, NEW p \in Procs, Pending(p), Pop(p)
    PROVE  /\ QueueTypes' /\ inbox'[p] = Tail(inbox[p])
           /\ \A q \in Procs : q # p => inbox'[q] = inbox[q]
<1>1. /\ inbox'[p] = Tail(inbox[p])
      /\ \A q \in Procs : q # p => inbox'[q] = inbox[q]
      /\ inbox' = [q \in Procs |-> inbox'[q]]
  BY DEF Pop, QueueTypes
<1>2. Server \in Procs /\ \A c \in Clients : c \in Procs
  BY DEF Procs
<1>3. inbox'[Server] \in Seq(Request)
  <2>1. CASE p = Server
    BY <1>1, <2>1 DEF QueueTypes, Pending
  <2>2. CASE p # Server
    BY <1>1, <1>2, <2>2 DEF QueueTypes
  <2> QED
    BY <2>1, <2>2
<1>4. ASSUME NEW c \in Clients PROVE inbox'[c] \in Seq(Answer)
  <2>1. CASE p = c
    BY <1>1, <2>1 DEF QueueTypes, Pending
  <2>2. CASE p # c
    BY <1>1, <1>2, <2>2 DEF QueueTypes
  <2> QED
    BY <2>1, <2>2
<1>5. \A q \in Procs : inbox'[q] \in Seq(Request) \cup Seq(Answer)
  BY <1>3, <1>4 DEF Procs
<1> QED
  BY <1>1, <1>3, <1>4, <1>5 DEF QueueTypes

\* The first message in a queue.
LEMMA HeadTypes ==
    ASSUME QueueTypes, NEW p \in Procs, Pending(p)
    PROVE  /\ p = Server => Head(inbox[p]) \in Request
           /\ p \in Clients => Head(inbox[p]) \in Answer
BY DEF QueueTypes, Pending

\* The server goes on.
LEMMA ServerGoes ==
    ASSUME PlaceTypes, NEW l \in ServerPlaces, Goto(Server, l)
    PROVE  PlaceTypes' /\ pc'[Server] = l /\ \A c \in Clients : pc'[c] = pc[c]
BY WindowServerAssumption DEF PlaceTypes, Goto, Procs

\* A client goes on.
LEMMA ClientGoes ==
    ASSUME PlaceTypes, NEW c \in Clients, NEW l \in ClientPlaces, Goto(c, l)
    PROVE  /\ PlaceTypes' /\ pc'[c] = l /\ pc'[Server] = pc[Server]
           /\ \A d \in Clients : d # c => pc'[d] = pc[d]
BY WindowServerAssumption DEF PlaceTypes, Goto, Procs

\* An assertion fails.
LEMMA FailKeeps ==
    ASSUME LifeTypes, PlaceTypes, NEW p \in Procs, Fail(p)
    PROVE  /\ LifeTypes' /\ PlaceTypes' /\ pc' = pc /\ life'[p] = "asserted"
           /\ \A q \in Procs : q # p => life'[q] = life[q]
BY DEF LifeTypes, PlaceTypes, Fail

-----------------------------------------------------------------------------
(* The windows, step by step *)

\* A step of the server leaves the clients where they are.
LEMMA ServerStepKeeps ==
    ASSUME WindowsInv, QueueTypes', LifeTypes', PlaceTypes', ServerTypes',
           UNCHANGED mine, \A c \in Clients : pc'[c] = pc[c],
           OpeningHasNoFocus', Sending', OneFocused'
    PROVE  WindowsInv'
BY DEF WindowsInv, WindowTypes, DrawsItsOwn, MineTypes

\* Types and named parts of the invariant.
LEMMA WindowsFacts ==
    ASSUME WindowsInv
    PROVE  /\ QueueTypes /\ LifeTypes /\ PlaceTypes /\ ServerTypes /\ MineTypes
           /\ OpeningHasNoFocus /\ Sending /\ DrawsItsOwn /\ OneFocused
           /\ Server \in Procs /\ Server \notin Clients /\ Clients \subseteq Procs
BY WindowServerAssumption DEF WindowsInv, WindowTypes, Procs

\* run looks for a message or an event.
LEMMA UnblockWindows ==
    ASSUME WindowsInv, Unblock
    PROVE  WindowsInv'
<1>1. PICK l \in {"code", "keyboard", "mouse"} : Goto(Server, l)
  BY DEF Unblock
<1>2. PlaceTypes' /\ pc'[Server] = l /\ \A c \in Clients : pc'[c] = pc[c]
  BY <1>1, WindowsFacts, ServerGoes DEF ServerPlaces
<1>3. UNCHANGED <<inbox, life, server, client>> /\ pc[Server] = "block"
  BY DEF Unblock, At
<1>4. outbox = <<>> /\ opening = NoWindow
  BY <1>3, WindowsFacts DEF Sending, OpeningHasNoFocus
<1>5. OpeningHasNoFocus' /\ Sending' /\ OneFocused'
  BY <1>1, <1>2, <1>3, <1>4, WindowsFacts DEF OpeningHasNoFocus, Sending, OneFocused, server
<1>6. QueueTypes' /\ LifeTypes' /\ ServerTypes' /\ UNCHANGED mine
  BY <1>3, WindowsFacts DEF QueueTypes, LifeTypes, ServerTypes, server, client
<1> QED
  BY <1>2, <1>5, <1>6, ServerStepKeeps

\* What m_windows and the sends keep when none of them is touched.
LEMMA SameWindows ==
    ASSUME WindowsInv, UNCHANGED <<windows, focus, opening, outbox>>,
           pc'[Server] = "send" <=> pc[Server] = "send",
           pc'[Server] \in {"request", "draw"} => from' \in Clients
    PROVE  OpeningHasNoFocus' /\ Sending' /\ OneFocused'
BY DEF WindowsInv, OpeningHasNoFocus, Sending, OneFocused

\* The code of a message, and the switch.
LEMMA ReadCodeWindows ==
    ASSUME WindowsInv, ReadCode
    PROVE  WindowsInv'
<1> DEFINE m == Head(inbox[Server])
<1>0. /\ pc[Server] = "code" /\ Pending(Server) /\ Pop(Server) /\ from' = m.from
      /\ UNCHANGED <<windows, focus, drag, guid, opening, outbox, mine>>
      /\ \/ Goto(Server, "request") /\ UNCHANGED life
         \/ Goto(Server, "draw") /\ UNCHANGED life
         \/ Fail(Server)
  BY DEF ReadCode, At, client
<1>1. QueueTypes'
  BY <1>0, WindowsFacts, PopKeeps
<1>2. from' \in Clients
  BY <1>0, WindowsFacts, HeadTypes DEF Request
<1>3. /\ PlaceTypes' /\ LifeTypes' /\ \A c \in Clients : pc'[c] = pc[c]
      /\ pc'[Server] \in {"request", "draw", "code"}
  <2>1. CASE Goto(Server, "request") /\ UNCHANGED life
    BY <2>1, WindowsFacts, ServerGoes DEF ServerPlaces, LifeTypes
  <2>2. CASE Goto(Server, "draw") /\ UNCHANGED life
    BY <2>2, WindowsFacts, ServerGoes DEF ServerPlaces, LifeTypes
  <2>3. CASE Fail(Server)
    BY <1>0, <2>3, WindowsFacts, FailKeeps
  <2> QED
    BY <1>0, <2>1, <2>2, <2>3
<1>4. ServerTypes'
  BY <1>0, <1>2, WindowsFacts DEF ServerTypes
<1>5. OpeningHasNoFocus' /\ Sending' /\ OneFocused'
  BY <1>0, <1>2, <1>3, SameWindows
<1> QED
  BY <1>0, <1>1, <1>3, <1>4, <1>5, ServerStepKeeps

\* The body of a request for a window.
LEMMA CreateWindowWindows ==
    ASSUME WindowsInv, CreateWindow
    PROVE  WindowsInv'
<1>0. /\ pc[Server] = "request" /\ Pending(Server) /\ Pop(Server)
      /\ UNCHANGED <<windows, focus, drag, from, mine>>
  BY DEF CreateWindow, At, client
<1>1. QueueTypes'
  BY <1>0, WindowsFacts, PopKeeps
<1>2. CASE Fail(Server) /\ UNCHANGED <<guid, opening, outbox>>
  <2>1. /\ PlaceTypes' /\ LifeTypes' /\ pc' = pc
    BY <1>2, WindowsFacts, FailKeeps
  <2>2. ServerTypes'
    BY <1>0, <1>2, WindowsFacts DEF ServerTypes
  <2>3. OpeningHasNoFocus' /\ Sending' /\ OneFocused'
    BY <1>0, <1>2, <2>1, WindowsFacts, SameWindows DEF Sending
  <2> QED
    BY <1>0, <1>1, <2>1, <2>2, <2>3, ServerStepKeeps
<1>3. CASE /\ guid' = guid + 2
           /\ opening' = [id |-> guid, owner |-> from, focused |-> FALSE]
           /\ outbox' = << <<from, Msg(Server, "CreateWindowResponse", 0)>>,
                           <<from, Msg(Server, "response", guid)>> >>
           /\ Goto(Server, "send")
           /\ UNCHANGED life
  <2>1. /\ PlaceTypes' /\ LifeTypes' /\ \A c \in Clients : pc'[c] = pc[c]
        /\ pc'[Server] = "send"
    BY <1>3, WindowsFacts, ServerGoes DEF ServerPlaces, LifeTypes
  <2>2. from \in Clients /\ guid \in Nat \ {0}
    BY <1>0, WindowsFacts DEF Sending, ServerTypes
  <2>3. opening' \in Window /\ opening'.focused = FALSE
    BY <1>3, <2>2 DEF Window
  <2>4. outbox' \in Seq(Clients \X Answer) /\ outbox' # <<>>
    <3>1. /\ Msg(Server, "CreateWindowResponse", 0) \in Answer
          /\ Msg(Server, "response", guid) \in Answer
      BY <2>2 DEF Msg, Answer, Answers
    <3> QED
      BY <1>3, <2>2, <3>1
  <2>5. ServerTypes'
    BY <1>0, <1>3, <2>2, <2>4, WindowsFacts DEF ServerTypes
  <2>6. OpeningHasNoFocus'
    BY <2>1, <2>3 DEF OpeningHasNoFocus
  <2>7. Sending'
    BY <2>1, <2>4 DEF Sending
  <2>8. OneFocused'
    BY <1>0, WindowsFacts DEF OneFocused
  <2> QED
    BY <1>0, <1>1, <2>1, <2>5, <2>6, <2>7, <2>8, ServerStepKeeps
<1> QED
  BY <1>2, <1>3 DEF CreateWindow

\* A draw.
LEMMA DrawWindowWindows ==
    ASSUME WindowsInv, DrawWindow
    PROVE  WindowsInv'
<1>0. /\ pc[Server] = "draw" /\ Pending(Server) /\ Pop(Server)
      /\ UNCHANGED <<windows, focus, drag, guid, from, opening, outbox, mine>>
      /\ \/ Fail(Server)
         \/ Goto(Server, "block") /\ UNCHANGED life
  BY DEF DrawWindow, At, client, server
<1>1. QueueTypes'
  BY <1>0, WindowsFacts, PopKeeps
<1>2. /\ PlaceTypes' /\ LifeTypes' /\ \A c \in Clients : pc'[c] = pc[c]
      /\ pc'[Server] \in {"draw", "block"}
  <2>1. CASE Fail(Server)
    BY <1>0, <2>1, WindowsFacts, FailKeeps
  <2>2. CASE Goto(Server, "block") /\ UNCHANGED life
    BY <2>2, WindowsFacts, ServerGoes DEF ServerPlaces, LifeTypes
  <2> QED
    BY <1>0, <2>1, <2>2
<1>3. ServerTypes'
  BY <1>0, WindowsFacts DEF ServerTypes
<1>4. OpeningHasNoFocus' /\ Sending' /\ OneFocused'
  BY <1>0, <1>2, WindowsFacts, SameWindows DEF Sending
<1> QED
  BY <1>0, <1>1, <1>2, <1>3, <1>4, ServerStepKeeps

\* A function over 1..m is a sequence of that length.
LEMMA AsSequence ==
    ASSUME NEW S, NEW m \in Nat, NEW w \in [1..m -> S]
    PROVE  w \in Seq(S) /\ Len(w) = m
<1>1. w \in Seq(S)
  BY SeqDef
<1>2. Len(w) \in Nat /\ 1..m = 1..Len(w)
  BY <1>1, LenProperties
<1>3. m = Len(w)
  <2>1. CASE m = 0
    <3>1. ~(1 \in 1..Len(w))
      BY <1>2, <2>1
    <3> QED
      BY <1>2, <2>1, <3>1
  <2>2. CASE m # 0
    <3>1. m \in 1..Len(w) /\ Len(w) >= 1
      BY <1>2, <2>2
    <3>2. Len(w) \in 1..m
      BY <1>2, <3>1
    <3> QED
      BY <1>2, <3>1, <3>2
  <2> QED
    BY <2>1, <2>2
<1> QED
  BY <1>1, <1>3

\* A new window gets the focus.
LEMMA WindowOpened ==
    ASSUME WindowsInv, opening \in Window, opening.focused = FALSE,
           windows' = set_focused_window([windows |-> Append(windows, opening), focus |-> focus],
                                         Len(windows) + 1).windows,
           focus' = Len(windows) + 1
    PROVE  /\ windows' \in Seq(Window) /\ Len(windows') = Len(windows) + 1
           /\ \A i \in 1..Len(windows) : windows'[i].id = windows[i].id
           /\ windows'[Len(windows) + 1].id = opening.id
           /\ OneFocused'
<1> DEFINE n == Len(windows)
           v == Append(windows, opening)
           s == [windows |-> v, focus |-> focus]
<1>1. /\ windows \in Seq(Window) /\ n \in Nat /\ focus \in 0..n
      /\ \A i \in 1..n : windows[i].focused <=> i = focus
  BY WindowsFacts DEF ServerTypes, OneFocused
<1>2. /\ v \in Seq(Window) /\ Len(v) = n + 1 /\ v[n + 1] = opening
      /\ \A i \in 1..n : v[i] = windows[i]
  BY <1>1
<1>3. s.windows = v /\ s.focus = focus
  OBVIOUS
<1> HIDE DEF s, v
<1>4. \A i \in 1..(n + 1) : v[i].focused <=> i = focus
  <2>1. ASSUME NEW i \in 1..(n + 1) PROVE v[i].focused <=> i = focus
    <3>1. CASE i \in 1..n
      BY <1>1, <1>2, <3>1
    <3>2. CASE i = n + 1
      <4>1. v[i].focused = FALSE /\ i # focus
        BY <1>1, <1>2, <3>2
      <4> QED
        BY <4>1
    <3> QED
      BY <1>1, <3>1, <3>2
  <2> QED
    BY <2>1
<1>5. Placed(v, s.windows, s.focus)
  <2>1. v \in [1..(n + 1) -> Window] /\ focus \in 0..(n + 1)
    BY <1>1, <1>2
  <2> QED
    BY <1>2, <1>3, <1>4, <2>1 DEF Placed
<1>6. n + 1 \in 1..Len(v) /\ Len(v) \in Nat
  BY <1>1, <1>2
<1>7. Placed(v, set_focused_window(s, n + 1).windows, set_focused_window(s, n + 1).focus)
  BY <1>5, <1>6, SetFocus
<1>8. set_focused_window(s, n + 1).focus = n + 1
  BY DEF set_focused_window
<1>9. PICK w : w = windows' /\ Placed(v, w, n + 1)
  BY <1>7, <1>8 DEF s, v
<1>10. /\ w \in [1..(n + 1) -> Window]
       /\ \A j \in 1..(n + 1) : w[j].id = v[j].id /\ (w[j].focused <=> j = n + 1)
  BY <1>2, <1>9 DEF Placed
<1>11. w \in Seq(Window) /\ Len(w) = n + 1
  <2>1. n + 1 \in Nat
    BY <1>1
  <2> QED
    BY <1>10, <2>1, AsSequence
<1>12. OneFocused'
  <2>1. \A i \in 1..Len(w) : w[i].focused <=> i = n + 1
    BY <1>10, <1>11
  <2> QED
    BY <1>9, <2>1 DEF OneFocused
<1>13. \A i \in 1..n : w[i].id = windows[i].id
  <2>1. \A i \in 1..n : i \in 1..(n + 1)
    BY <1>1
  <2> QED
    BY <1>2, <1>10, <2>1
<1>14. w[n + 1].id = opening.id
  BY <1>1, <1>2, <1>10
<1> QED
  BY <1>9, <1>11, <1>12, <1>13, <1>14

\* What Send does: it fails, or sends the first of the outbox.
LEMMA SendCases ==
    ASSUME WindowsInv, Send
    PROVE  LET to == Head(outbox)[1]
               last == Len(outbox) = 1
           IN  /\ life[Server] = "alive" /\ pc[Server] = "send"
               /\ UNCHANGED <<drag, guid, from, keyboard, mouse, events, mine, draws>>
               /\ \/ /\ opening # NoWindow /\ ~Found(to) /\ Fail(Server)
                     /\ UNCHANGED <<inbox, windows, focus, opening, outbox>>
                  \/ /\ \/ Found(to) /\ Put(to, Head(outbox)[2])
                        \/ ~Found(to) /\ opening = NoWindow /\ UNCHANGED inbox
                     /\ outbox' = Tail(outbox)
                     /\ UNCHANGED life
                     /\ \/ ~last /\ Goto(Server, "send") /\ UNCHANGED <<windows, focus, opening>>
                        \/ /\ last /\ Goto(Server, "block") /\ opening = NoWindow
                           /\ UNCHANGED <<windows, focus, opening>>
                        \/ /\ last /\ Goto(Server, "block") /\ opening # NoWindow
                           /\ windows' = set_focused_window(
                                  [windows |-> Append(windows, opening), focus |-> focus],
                                  Len(windows) + 1).windows
                           /\ focus' = Len(windows) + 1 /\ opening' = NoWindow
BY DEF Send, At, devices, client, set_focused_window

\* The first of the outbox.
LEMMA OutboxFacts ==
    ASSUME WindowsInv, pc[Server] = "send"
    PROVE  /\ outbox # <<>> /\ Head(outbox)[1] \in Clients /\ Head(outbox)[2] \in Answer
           /\ Tail(outbox) \in Seq(Clients \X Answer)
           /\ Len(outbox) = 1 <=> Tail(outbox) = <<>>
<1>1. outbox # <<>> /\ outbox \in Seq(Clients \X Answer)
  BY WindowsFacts DEF Sending, ServerTypes
<1>2. Head(outbox) \in Clients \X Answer
  BY <1>1
<1>3. /\ Tail(outbox) \in Seq(Clients \X Answer)
      /\ Len(Tail(outbox)) = Len(outbox) - 1 /\ Len(outbox) \in Nat
  BY <1>1
<1>4. Head(outbox)[1] \in Clients /\ Head(outbox)[2] \in Answer
  BY <1>2
<1>5. Len(outbox) = 1 <=> Tail(outbox) = <<>>
  BY <1>3, EmptySeq
<1> QED
  BY <1>1, <1>3, <1>4, <1>5

\* A send.
LEMMA SendWindows ==
    ASSUME WindowsInv, Send
    PROVE  WindowsInv'
<1> DEFINE to == Head(outbox)[1]
<1>0. /\ pc[Server] = "send" /\ UNCHANGED <<drag, guid, from, mine>>
  BY SendCases
<1>1. CASE /\ opening # NoWindow /\ ~Found(to) /\ Fail(Server)
           /\ UNCHANGED <<inbox, windows, focus, opening, outbox>>
  <2>1. /\ PlaceTypes' /\ LifeTypes' /\ pc' = pc
    BY <1>1, WindowsFacts, FailKeeps
  <2>2. ServerTypes' /\ QueueTypes'
    BY <1>0, <1>1, WindowsFacts DEF ServerTypes, QueueTypes
  <2>3. OpeningHasNoFocus' /\ Sending' /\ OneFocused'
    BY <1>0, <1>1, <2>1, WindowsFacts, SameWindows
  <2> QED
    BY <1>0, <2>1, <2>2, <2>3, ServerStepKeeps
<1>2. CASE /\ \/ Found(to) /\ Put(to, Head(outbox)[2])
              \/ ~Found(to) /\ opening = NoWindow /\ UNCHANGED inbox
           /\ outbox' = Tail(outbox)
           /\ UNCHANGED life
           /\ \/ Len(outbox) # 1 /\ Goto(Server, "send") /\ UNCHANGED <<windows, focus, opening>>
              \/ /\ Len(outbox) = 1 /\ Goto(Server, "block") /\ opening = NoWindow
                 /\ UNCHANGED <<windows, focus, opening>>
              \/ /\ Len(outbox) = 1 /\ Goto(Server, "block") /\ opening # NoWindow
                 /\ windows' = set_focused_window(
                        [windows |-> Append(windows, opening), focus |-> focus],
                        Len(windows) + 1).windows
                 /\ focus' = Len(windows) + 1 /\ opening' = NoWindow
  <2>1. /\ outbox # <<>> /\ to \in Clients /\ Head(outbox)[2] \in Answer
        /\ outbox' \in Seq(Clients \X Answer) /\ (Len(outbox) = 1 <=> outbox' = <<>>)
    BY <1>0, <1>2, OutboxFacts
  <2>2. QueueTypes'
    <3>1. CASE Put(to, Head(outbox)[2])
      BY <2>1, <3>1, WindowsFacts, PutKeeps
    <3>2. CASE UNCHANGED inbox
      BY <3>2, WindowsFacts DEF QueueTypes
    <3> QED
      BY <1>2, <3>1, <3>2
  <2>3. LifeTypes'
    BY <1>2, WindowsFacts DEF LifeTypes
  <2>4. CASE Len(outbox) # 1 /\ Goto(Server, "send") /\ UNCHANGED <<windows, focus, opening>>
    <3>1. PlaceTypes' /\ pc'[Server] = "send" /\ \A c \in Clients : pc'[c] = pc[c]
      BY <2>4, WindowsFacts, ServerGoes DEF ServerPlaces
    <3>2. ServerTypes'
      BY <1>0, <2>1, <2>4, WindowsFacts DEF ServerTypes
    <3>3. OpeningHasNoFocus' /\ Sending' /\ OneFocused'
      BY <1>0, <2>1, <2>4, <3>1, WindowsFacts DEF OpeningHasNoFocus, Sending, OneFocused
    <3> QED
      BY <1>0, <2>2, <2>3, <3>1, <3>2, <3>3, ServerStepKeeps
  <2>5. CASE /\ Len(outbox) = 1 /\ Goto(Server, "block") /\ opening = NoWindow
             /\ UNCHANGED <<windows, focus, opening>>
    <3>1. PlaceTypes' /\ pc'[Server] = "block" /\ \A c \in Clients : pc'[c] = pc[c]
      BY <2>5, WindowsFacts, ServerGoes DEF ServerPlaces
    <3>2. ServerTypes'
      BY <1>0, <2>1, <2>5, WindowsFacts DEF ServerTypes
    <3>3. OpeningHasNoFocus' /\ Sending' /\ OneFocused'
      BY <1>0, <2>1, <2>5, <3>1, WindowsFacts DEF OpeningHasNoFocus, Sending, OneFocused
    <3> QED
      BY <1>0, <2>2, <2>3, <3>1, <3>2, <3>3, ServerStepKeeps
  <2>6. CASE /\ Len(outbox) = 1 /\ Goto(Server, "block") /\ opening # NoWindow
             /\ windows' = set_focused_window(
                    [windows |-> Append(windows, opening), focus |-> focus],
                    Len(windows) + 1).windows
             /\ focus' = Len(windows) + 1 /\ opening' = NoWindow
    <3>1. PlaceTypes' /\ pc'[Server] = "block" /\ \A c \in Clients : pc'[c] = pc[c]
      BY <2>6, WindowsFacts, ServerGoes DEF ServerPlaces
    <3>2. opening \in Window /\ opening.focused = FALSE
      BY <2>6, WindowsFacts DEF OpeningHasNoFocus
    <3>3. windows' \in Seq(Window) /\ Len(windows') = Len(windows) + 1 /\ OneFocused'
      BY <2>6, <3>2, WindowOpened
    <3>4. Len(windows) \in Nat
      BY WindowsFacts DEF ServerTypes
    <3>5. ServerTypes'
      BY <1>0, <2>1, <2>6, <3>3, <3>4, WindowsFacts DEF ServerTypes
    <3>6. OpeningHasNoFocus' /\ Sending'
      BY <2>1, <2>6, <3>1 DEF OpeningHasNoFocus, Sending, NoWindow
    <3> QED
      BY <1>0, <2>2, <2>3, <3>1, <3>3, <3>5, <3>6, ServerStepKeeps
  <2> QED
    BY <1>2, <2>4, <2>5, <2>6
<1> QED
  BY <1>1, <1>2, SendCases

\* SendOrBlock keeps Sending.
LEMMA SendOrBlockKeeps ==
    ASSUME WindowsInv, SendOrBlock
    PROVE  /\ PlaceTypes' /\ Sending' /\ \A c \in Clients : pc'[c] = pc[c]
           /\ pc'[Server] \in {"block", "send"}
<1>1. CASE outbox' = <<>>
  <2>1. Goto(Server, "block")
    BY <1>1 DEF SendOrBlock
  <2>2. PlaceTypes' /\ pc'[Server] = "block" /\ \A c \in Clients : pc'[c] = pc[c]
    BY <2>1, WindowsFacts, ServerGoes DEF ServerPlaces
  <2> QED
    BY <1>1, <2>2 DEF Sending
<1>2. CASE outbox' # <<>>
  <2>1. Goto(Server, "send")
    BY <1>2 DEF SendOrBlock
  <2>2. PlaceTypes' /\ pc'[Server] = "send" /\ \A c \in Clients : pc'[c] = pc[c]
    BY <2>1, WindowsFacts, ServerGoes DEF ServerPlaces
  <2> QED
    BY <1>2, <2>2 DEF Sending
<1> QED
  BY <1>1, <1>2

\* The two sends of one event.
LEMMA EventSends ==
    ASSUME NEW c \in Clients
    PROVE  SendsEvents(Event(c)) /\ Event(c) # <<>>
<1>1. SendsEvents(<<>>)
  BY DEF SendsEvents, WholeMessages
<1>2. SendsEvents(<<>> \o Event(c))
  BY <1>1, EventAppended
<1>3. Event(c) \in Seq(Clients \X Answer) /\ Event(c) # <<>>
  BY DEF Event, Msg, Answer, Answers
<1>4. <<>> \o Event(c) = Event(c)
  BY <1>3
<1> QED
  BY <1>2, <1>3, <1>4

\* The keyboard event that the server sends, if any.
LEMMA KeyboardSends ==
    ASSUME WindowsInv, handle_pending_keyboard_event
    PROVE  SendsEvents(outbox') /\ (outbox' # <<>> => windows # <<>>)
<1>1. CASE focus = 0
  <2>1. outbox' = <<>>
    BY <1>1 DEF handle_pending_keyboard_event
  <2> QED
    BY <2>1 DEF SendsEvents, WholeMessages
<1>2. CASE focus # 0
  <2>1. outbox' = Event(windows[focus].owner)
    BY <1>2 DEF handle_pending_keyboard_event
  <2>2. windows[focus] \in Window /\ windows # <<>>
    BY <1>2, WindowsFacts DEF ServerTypes
  <2>3. windows[focus].owner \in Clients
    BY <2>2 DEF Window
  <2> QED
    BY <2>1, <2>2, <2>3, EventSends
<1> QED
  BY <1>1, <1>2

\* A key.
LEMMA KeyboardWindows ==
    ASSUME WindowsInv, handle_pending_keyboard_event
    PROVE  WindowsInv'
<1>0. /\ pc[Server] = "keyboard" /\ SendOrBlock
      /\ UNCHANGED <<inbox, life, windows, focus, drag, guid, from, opening, mine>>
  BY DEF handle_pending_keyboard_event, At, client
<1>1. /\ PlaceTypes' /\ Sending' /\ \A c \in Clients : pc'[c] = pc[c]
      /\ pc'[Server] \in {"block", "send"}
  BY <1>0, SendOrBlockKeeps
<1>2. ServerTypes'
  BY <1>0, KeyboardSends, WindowsFacts DEF ServerTypes, SendsEvents
<1>3. OpeningHasNoFocus' /\ OneFocused' /\ QueueTypes' /\ LifeTypes'
  BY <1>0, WindowsFacts DEF OpeningHasNoFocus, OneFocused, QueueTypes, LifeTypes
<1> QED
  BY <1>0, <1>1, <1>2, <1>3, ServerStepKeeps

\* What handle_pending_mouse_event does.
LEMMA MouseCases ==
    ASSUME WindowsInv, NEW left \in BOOLEAN, handle_pending_mouse_event(left)
    PROVE  /\ life[Server] = "alive" /\ pc[Server] = "mouse" /\ outbox = <<>> /\ opening = NoWindow
           /\ UNCHANGED <<inbox, guid, from, opening, mine>>
           /\ \/ /\ drag # Normal /\ drag' \in {drag, Normal}
                 /\ \/ ~HasWindow(drag) /\ Fail(Server)
                    \/ Goto(Server, "block") /\ UNCHANGED life
                 /\ UNCHANGED <<windows, focus, outbox>>
              \/ /\ drag = Normal /\ SendOrBlock /\ UNCHANGED life
                 /\ Placed(windows, windows', focus') /\ Dragged(drag') /\ SendsEvents(outbox')
                 /\ outbox' # <<>> => windows # <<>>
<1>1. /\ life[Server] = "alive" /\ pc[Server] = "mouse"
      /\ UNCHANGED <<inbox, guid, from, opening, mine>>
  BY DEF handle_pending_mouse_event, At, client
<1>2. outbox = <<>> /\ opening = NoWindow
  BY <1>1, WindowsFacts DEF Sending, OpeningHasNoFocus
<1>3. CASE drag # Normal
  <2>1. /\ drag' = IF left THEN drag ELSE Normal
        /\ IF left /\ ~HasWindow(drag)
           THEN Fail(Server)
           ELSE Goto(Server, "block") /\ UNCHANGED life
        /\ UNCHANGED <<windows, focus, outbox>>
    BY <1>3 DEF handle_pending_mouse_event
  <2> QED
    BY <1>1, <1>2, <1>3, <2>1
<1>4. CASE drag = Normal
  <2>1. /\ SendOrBlock
        /\ IF left
           THEN \E hits \in [1..Len(windows) -> SUBSET {"banner", "body"}] : Press(hits)
           ELSE outbox' = <<>> /\ UNCHANGED <<life, windows, focus, drag>>
    BY <1>4 DEF handle_pending_mouse_event
  <2>2. CASE left
    <3>1. PICK hits : Press(hits)
      BY <2>1, <2>2
    <3>2. UNCHANGED life
      BY <3>1 DEF Press
    <3> QED
      BY <1>1, <1>2, <1>4, <2>1, <3>1, <3>2, PressKeeps
  <2>3. CASE ~left
    <3>1. outbox' = <<>> /\ UNCHANGED <<life, windows, focus, drag>>
      BY <2>1, <2>3
    <3>2. SendsEvents(<<>>)
      BY DEF SendsEvents, WholeMessages
    <3>3. Placed(windows, windows, focus)
      BY WindowsFacts DEF Placed, ServerTypes, OneFocused
    <3>4. Dragged(drag)
      BY <1>4, WindowsFacts DEF Dragged, ServerTypes
    <3> QED
      BY <1>1, <1>2, <1>4, <2>1, <3>1, <3>2, <3>3, <3>4
  <2> QED
    BY <2>2, <2>3
<1> QED
  BY <1>3, <1>4

\* The windows after a press are the windows, with other flags.
LEMMA PlacedWindows ==
    ASSUME WindowsInv, Placed(windows, windows', focus')
    PROVE  /\ windows' \in Seq(Window) /\ Len(windows') = Len(windows) /\ focus' \in 0..Len(windows)
           /\ \A i \in 1..Len(windows) : windows'[i].id = windows[i].id
           /\ OneFocused'
<1>1. PICK w : w = windows' /\ Placed(windows, w, focus')
  OBVIOUS
<1>2. /\ w \in [1..Len(windows) -> Window] /\ focus' \in 0..Len(windows)
      /\ \A j \in 1..Len(windows) : w[j].id = windows[j].id /\ (w[j].focused <=> j = focus')
  BY <1>1 DEF Placed
<1>3. w \in Seq(Window) /\ Len(w) = Len(windows)
  <2>1. Len(windows) \in Nat
    BY WindowsFacts DEF ServerTypes
  <2> QED
    BY <1>2, <2>1, AsSequence
<1>4. OneFocused'
  BY <1>1, <1>2, <1>3 DEF OneFocused
<1> QED
  BY <1>1, <1>2, <1>3, <1>4

\* A mouse event.
LEMMA MouseWindows ==
    ASSUME WindowsInv, NEW left \in BOOLEAN, handle_pending_mouse_event(left)
    PROVE  WindowsInv'
<1>0. /\ pc[Server] = "mouse" /\ outbox = <<>> /\ opening = NoWindow
      /\ UNCHANGED <<inbox, guid, from, opening, mine>>
  BY MouseCases
<1>1. OpeningHasNoFocus' /\ QueueTypes'
  BY <1>0, WindowsFacts DEF OpeningHasNoFocus, QueueTypes
<1>2. CASE /\ drag # Normal /\ drag' \in {drag, Normal}
           /\ \/ ~HasWindow(drag) /\ Fail(Server)
              \/ Goto(Server, "block") /\ UNCHANGED life
           /\ UNCHANGED <<windows, focus, outbox>>
  <2>1. /\ PlaceTypes' /\ LifeTypes' /\ \A c \in Clients : pc'[c] = pc[c]
        /\ pc'[Server] \in {"mouse", "block"}
    <3>1. CASE Fail(Server)
      BY <1>0, <3>1, WindowsFacts, FailKeeps
    <3>2. CASE Goto(Server, "block") /\ UNCHANGED life
      BY <3>2, WindowsFacts, ServerGoes DEF ServerPlaces, LifeTypes
    <3> QED
      BY <1>2, <3>1, <3>2
  <2>2. ServerTypes'
    BY <1>0, <1>2, WindowsFacts DEF ServerTypes, Normal
  <2>3. Sending' /\ OneFocused'
    BY <1>0, <1>2, <2>1, WindowsFacts DEF Sending, OneFocused
  <2> QED
    BY <1>0, <1>1, <2>1, <2>2, <2>3, ServerStepKeeps
<1>3. CASE /\ drag = Normal /\ SendOrBlock /\ UNCHANGED life
           /\ Placed(windows, windows', focus') /\ Dragged(drag') /\ SendsEvents(outbox')
           /\ outbox' # <<>> => windows # <<>>
  <2>1. /\ PlaceTypes' /\ Sending' /\ \A c \in Clients : pc'[c] = pc[c]
    BY <1>3, SendOrBlockKeeps
  <2>2. LifeTypes'
    BY <1>3, WindowsFacts DEF LifeTypes
  <2>3. /\ windows' \in Seq(Window) /\ Len(windows') = Len(windows)
        /\ focus' \in 0..Len(windows) /\ OneFocused'
    BY <1>3, PlacedWindows
  <2>4. ServerTypes'
    BY <1>0, <1>3, <2>3, WindowsFacts DEF ServerTypes, Dragged, SendsEvents
  <2> QED
    BY <1>0, <1>1, <2>1, <2>2, <2>3, <2>4, ServerStepKeeps
<1> QED
  BY <1>2, <1>3, MouseCases

\* A step of client c leaves the server and the other clients where they are.
LEMMA ClientStepKeeps ==
    ASSUME WindowsInv, NEW c \in Clients, QueueTypes', LifeTypes', PlaceTypes', MineTypes',
           UNCHANGED server, pc'[Server] = pc[Server],
           \A d \in Clients : d # c => pc'[d] = pc[d] /\ mine'[d] = mine[d],
           pc'[c] \in Opened => mine'[c] # <<>>
    PROVE  WindowsInv'
<1>1. ServerTypes'
  BY WindowsFacts DEF ServerTypes, server
<1>2. OpeningHasNoFocus' /\ Sending' /\ OneFocused'
  BY WindowsFacts DEF OpeningHasNoFocus, Sending, OneFocused, server
<1>3. DrawsItsOwn'
  BY WindowsFacts DEF DrawsItsOwn
<1> QED
  BY <1>1, <1>2, <1>3 DEF WindowsInv, WindowTypes

\* One of the two sends of a request.
LEMMA ClientSendWindows ==
    ASSUME WindowsInv, NEW c \in Clients, NEW kind \in Requests, NEW arg \in Nat,
           NEW next \in ClientPlaces, next \in Opened => mine[c] # <<>>,
           ClientSend(c, kind, arg, next), UNCHANGED mine
    PROVE  WindowsInv'
<1>1. UNCHANGED server
  BY DEF ClientSend
<1>2. MineTypes'
  BY WindowsFacts DEF MineTypes
<1>3. CASE Put(Server, Msg(c, kind, arg)) /\ Goto(c, next) /\ UNCHANGED life
  <2>1. Msg(c, kind, arg) \in Request
    BY DEF Msg, Request
  <2>2. QueueTypes'
    BY <1>3, <2>1, WindowsFacts, PutKeeps
  <2>3. /\ PlaceTypes' /\ pc'[c] = next /\ pc'[Server] = pc[Server]
        /\ \A d \in Clients : d # c => pc'[d] = pc[d]
    BY <1>3, WindowsFacts, ClientGoes
  <2>4. LifeTypes'
    BY <1>3, WindowsFacts DEF LifeTypes
  <2> QED
    BY <1>1, <1>2, <2>2, <2>3, <2>4, ClientStepKeeps
<1>4. CASE Fail(c) /\ UNCHANGED inbox
  <2>1. LifeTypes' /\ PlaceTypes' /\ pc' = pc
    BY <1>4, WindowsFacts, FailKeeps
  <2>2. QueueTypes'
    BY <1>4, WindowsFacts DEF QueueTypes
  <2>3. pc'[c] \in Opened => mine'[c] # <<>>
    BY <2>1, WindowsFacts DEF DrawsItsOwn
  <2> QED
    BY <1>1, <1>2, <2>1, <2>2, <2>3, ClientStepKeeps
<1> QED
  BY <1>3, <1>4 DEF ClientSend

\* One of the two receives of an answer or event.
LEMMA ClientRecvWindows ==
    ASSUME WindowsInv, NEW c \in Clients, NEW kind,
           NEW next \in ClientPlaces, next \in Opened => mine'[c] # <<>>,
           ClientRecv(c, kind, next),
           MineTypes', \A d \in Clients : d # c => mine'[d] = mine[d],
           mine[c] # <<>> => mine'[c] # <<>>
    PROVE  WindowsInv'
<1>1. UNCHANGED server /\ Pending(c) /\ Pop(c)
  BY DEF ClientRecv
<1>2. QueueTypes'
  BY <1>1, WindowsFacts, PopKeeps
<1>3. CASE Goto(c, next) /\ UNCHANGED life
  <2>1. /\ PlaceTypes' /\ pc'[c] = next /\ pc'[Server] = pc[Server]
        /\ \A d \in Clients : d # c => pc'[d] = pc[d]
    BY <1>3, WindowsFacts, ClientGoes
  <2>2. LifeTypes'
    BY <1>3, WindowsFacts DEF LifeTypes
  <2> QED
    BY <1>1, <1>2, <2>1, <2>2, ClientStepKeeps
<1>4. CASE Fail(c)
  <2>1. LifeTypes' /\ PlaceTypes' /\ pc' = pc
    BY <1>4, WindowsFacts, FailKeeps
  <2>2. pc'[c] \in Opened => mine'[c] # <<>>
    BY <2>1, WindowsFacts DEF DrawsItsOwn
  <2> QED
    BY <1>1, <1>2, <2>1, <2>2, ClientStepKeeps
<1> QED
  BY <1>3, <1>4 DEF ClientRecv

\* The steps of a client that take or send a message.
LEMMA ClientWindows ==
    ASSUME WindowsInv, NEW c \in Clients, ClientStep(c)
    PROVE  WindowsInv'
<1>0. /\ MineTypes /\ mine[c] \in Seq(Nat) /\ (pc[c] \in Opened => mine[c] # <<>>)
      /\ UNCHANGED mine => MineTypes'
  BY WindowsFacts DEF MineTypes, DrawsItsOwn
<1>1. CASE CreateSend(c)
  <2>1. UNCHANGED mine
    BY <1>1 DEF CreateSend, client
  <2>2. CASE ClientSend(c, "CreateWindowRequest", 0, "create body")
    BY <2>1, <2>2, ClientSendWindows DEF Requests, ClientPlaces, Opened
  <2>3. CASE ClientSend(c, "request", 0, "response code")
    BY <2>1, <2>3, ClientSendWindows DEF Requests, ClientPlaces, Opened
  <2> QED
    BY <1>1, <2>2, <2>3 DEF CreateSend
<1>2. CASE CreateRecv(c)
  <2>1. CASE ClientRecv(c, "CreateWindowResponse", "response body") /\ UNCHANGED client
    <3>1. UNCHANGED mine
      BY <2>1 DEF client
    <3> QED
      BY <1>0, <2>1, <3>1, ClientRecvWindows DEF ClientPlaces, Opened
  <2>2. CASE /\ ClientRecv(c, "response", "draw code")
             /\ mine' = [mine EXCEPT ![c] = Append(@, Head(inbox[c]).arg)]
    <3>1. Head(inbox[c]).arg \in Nat
      BY <2>2, WindowsFacts, HeadTypes DEF ClientRecv, Answer
    <3>2. Append(mine[c], Head(inbox[c]).arg) \in Seq(Nat) /\ Append(mine[c], Head(inbox[c]).arg) # <<>>
      BY <1>0, <3>1
    <3>3. /\ MineTypes' /\ mine'[c] # <<>>
          /\ \A d \in Clients : d # c => mine'[d] = mine[d]
      BY <1>0, <2>2, <3>2 DEF MineTypes
    <3> QED
      BY <2>2, <3>3, ClientRecvWindows DEF ClientPlaces, Opened
  <2> QED
    BY <1>2, <2>1, <2>2 DEF CreateRecv
<1>3. CASE Draw(c)
  <2>1. UNCHANGED mine
    BY <1>3 DEF Draw, client
  <2>2. CASE At(c, "draw code") /\ ClientSend(c, "DrawWindow", 0, "draw body")
    BY <1>0, <2>1, <2>2, ClientSendWindows DEF Requests, ClientPlaces, Opened, At
  <2>3. CASE At(c, "draw body") /\ ClientSend(c, "window", Last(mine[c]), "idle")
    <3>1. mine[c] # <<>>
      BY <1>0, <2>3 DEF At, Opened
    <3>2. Last(mine[c]) \in Nat
      BY <1>0, <3>1 DEF Last
    <3> QED
      BY <2>1, <2>3, <3>1, <3>2, ClientSendWindows DEF Requests, ClientPlaces, Opened
  <2> QED
    BY <1>3, <2>2, <2>3 DEF Draw
<1>4. CASE GetEvent(c)
  <2>1. UNCHANGED mine
    BY <1>4 DEF GetEvent, client
  <2>2. CASE At(c, "idle") /\ ClientRecv(c, "SendIOEvent", "event body")
    BY <1>0, <2>1, <2>2, ClientRecvWindows DEF ClientPlaces, Opened, At
  <2>3. CASE At(c, "event body") /\ ClientRecv(c, "io_event", "draw code")
    BY <1>0, <2>1, <2>3, ClientRecvWindows DEF ClientPlaces, Opened, At
  <2> QED
    BY <1>4, <2>2, <2>3 DEF GetEvent
<1> QED
  BY <1>1, <1>2, <1>3, <1>4 DEF ClientStep

\* A program draws or opens a window on its own account.
LEMMA OwnAccountWindows ==
    ASSUME WindowsInv, NEW c \in Clients, OwnAccount(c)
    PROVE  WindowsInv'
<1>0. /\ pc[c] = "idle" /\ UNCHANGED <<inbox, life, server, mine>>
      /\ Goto(c, "draw code") \/ Goto(c, "create code")
  BY DEF OwnAccount, At
<1>1. PICK l \in {"draw code", "create code"} : Goto(c, l)
  BY <1>0
<1>2. /\ PlaceTypes' /\ pc'[c] = l /\ pc'[Server] = pc[Server]
      /\ \A d \in Clients : d # c => pc'[d] = pc[d]
  BY <1>1, WindowsFacts, ClientGoes DEF ClientPlaces, Opened
<1>3. QueueTypes' /\ LifeTypes' /\ MineTypes'
  BY <1>0, WindowsFacts DEF QueueTypes, LifeTypes, MineTypes
<1>4. mine'[c] # <<>>
  BY <1>0, WindowsFacts DEF DrawsItsOwn, Opened
<1> QED
  BY <1>0, <1>2, <1>3, <1>4, ClientStepKeeps

\* A program that ends by a fault, and an interrupt.
LEMMA DieWindows ==
    ASSUME WindowsInv, NEW c \in Clients, Die(c)
    PROVE  WindowsInv'
<1>1. UNCHANGED <<inbox, pc, server, mine>> /\ life' = [life EXCEPT ![c] = "died"]
  BY DEF Die, client
<1>2. QueueTypes' /\ LifeTypes' /\ PlaceTypes' /\ MineTypes'
  BY <1>1, WindowsFacts DEF QueueTypes, LifeTypes, PlaceTypes, MineTypes
<1>3. pc'[c] \in Opened => mine'[c] # <<>>
  BY <1>1, WindowsFacts DEF DrawsItsOwn
<1> QED
  BY <1>1, <1>2, <1>3, ClientStepKeeps

\* Every step keeps the invariant.
LEMMA NextWindows ==
    ASSUME WindowsInv, [Next]_vars
    PROVE  WindowsInv'
<1>1. CASE ServerNext
  BY <1>1, UnblockWindows, ReadCodeWindows, CreateWindowWindows, SendWindows, DrawWindowWindows,
     KeyboardWindows, MouseWindows DEF ServerNext
<1>2. CASE \E c \in Clients : ClientStep(c) \/ OwnAccount(c) \/ Die(c)
  BY <1>2, ClientWindows, OwnAccountWindows, DieWindows
<1>3. CASE Input \/ UNCHANGED vars
  <2>1. UNCHANGED <<inbox, life, pc, server, mine>>
    BY <1>3 DEF Input, vars, client
  <2>2. QueueTypes' /\ LifeTypes' /\ PlaceTypes' /\ MineTypes' /\ ServerTypes'
    BY <2>1, WindowsFacts DEF QueueTypes, LifeTypes, PlaceTypes, MineTypes, ServerTypes, server
  <2>3. OpeningHasNoFocus' /\ Sending' /\ OneFocused'
    BY <2>1, WindowsFacts DEF OpeningHasNoFocus, Sending, OneFocused, server
  <2> QED
    BY <2>1, <2>2, <2>3, ServerStepKeeps
<1> QED
  BY <1>1, <1>2, <1>3 DEF Next

\* The first states.
LEMMA InitWindows ==
    ASSUME Init
    PROVE  WindowsInv
<1>1. Server \in Procs /\ Server \notin Clients /\ \A c \in Clients : c \in Procs
  BY WindowServerAssumption DEF Procs
<1>2. QueueTypes
  <2>1. <<>> \in Seq(Request) /\ <<>> \in Seq(Answer)
    OBVIOUS
  <2>2. inbox = [p \in Procs |-> <<>>]
    BY DEF Init
  <2> QED
    <3>1. \A p \in Procs : inbox[p] = <<>>
      BY <2>2
    <3>2. inbox[Server] \in Seq(Request) /\ \A c \in Clients : inbox[c] \in Seq(Answer)
      BY <1>1, <2>1, <3>1
    <3>3. inbox \in [Procs -> Seq(Request) \cup Seq(Answer)]
      <4>1. <<>> \in Seq(Request) \cup Seq(Answer)
        BY <2>1
      <4> QED
        BY <2>2, <4>1
    <3> QED
      BY <3>2, <3>3 DEF QueueTypes
<1>3. LifeTypes /\ MineTypes
  <2>1. LifeTypes
    <3>1. life = [p \in Procs |-> "alive"]
      BY DEF Init
    <3> QED
      BY <3>1 DEF LifeTypes
  <2>2. mine = [c \in Clients |-> <<>>]
    BY DEF Init
  <2>3. MineTypes
    <3>1. <<>> \in Seq(Nat)
      OBVIOUS
    <3> QED
      BY <2>2, <3>1 DEF MineTypes
  <2> QED
    BY <2>1, <2>3
<1>4. PlaceTypes
  BY <1>1 DEF Init, PlaceTypes, ServerPlaces, ClientPlaces
<1>5. /\ pc[Server] = "block" /\ windows = <<>> /\ focus = 0 /\ drag = 0 /\ guid = 1
      /\ from = Server /\ outbox = <<>> /\ opening = NoWindow
  BY <1>1 DEF Init, Normal
<1>6. ServerTypes
  <2>1. <<>> \in Seq(Window) /\ <<>> \in Seq(Clients \X Answer) /\ Len(<<>>) = 0
    OBVIOUS
  <2> QED
    BY <1>1, <1>5, <2>1 DEF ServerTypes
<1>7. OpeningHasNoFocus /\ Sending
  BY <1>5 DEF OpeningHasNoFocus, Sending, NoWindow
<1>8. OneFocused
  BY <1>5 DEF OneFocused
<1>9. DrawsItsOwn
  BY <1>1 DEF Init, DrawsItsOwn, Opened
<1> QED
  BY <1>2, <1>3, <1>4, <1>6, <1>7, <1>8, <1>9 DEF WindowsInv, WindowTypes

\* Types, the focus, and what the server sends and handles, for any number of clients.
THEOREM WindowsInvariance == Spec => []WindowsInv
<1> QED
  BY InitWindows, NextWindows, PTL DEF Spec

\* Exactly the window that gets the keys is drawn as focused, whatever is
\* pressed, created and dragged: set_focused_window moves the one flag.
THEOREM OneWindowFocused == Spec => []OneFocused
<1>1. WindowsInv => OneFocused
  BY DEF WindowsInv
<1> QED
  BY <1>1, WindowsInvariance, PTL

-----------------------------------------------------------------------------
(* Queues of codes and bodies *)

\* What an append does to a sequence.
LEMMA AppendFacts ==
    ASSUME NEW S, NEW s \in Seq(S), NEW m \in S
    PROVE  /\ Append(s, m) \in Seq(S) /\ Len(Append(s, m)) = Len(s) + 1 /\ Len(s) \in Nat
           /\ \A i \in 1..Len(s) : Append(s, m)[i] = s[i]
           /\ Append(s, m)[Len(s) + 1] = m
OBVIOUS

\* What a tail is.
LEMMA TailFacts ==
    ASSUME NEW S, NEW s \in Seq(S), s # <<>>
    PROVE  /\ Tail(s) \in Seq(S) /\ Len(Tail(s)) = Len(s) - 1 /\ Len(s) \in Nat \ {0}
           /\ \A i \in 1..Len(Tail(s)) : Tail(s)[i] = s[i + 1]
           /\ Head(s) = s[1] /\ Head(s) \in S
<1>1. Len(s) \in Nat \ {0}
  BY EmptySeq
<1>2. Tail(s) \in Seq(S) /\ Len(Tail(s)) = Len(s) - 1 /\ Head(s) = s[1]
  BY <1>1
<1>3. s[1] \in S
  BY <1>1, ElementOfSeq
<1>4. \A i \in 1..Len(Tail(s)) : Tail(s)[i] = s[i + 1]
  BY <1>1, <1>2
<1> QED
  BY <1>1, <1>2, <1>3, <1>4

\* The writer puts what is expected.
LEMMA LinkAppend ==
    ASSUME NEW S, NEW s \in Seq(S), NEW m \in S, NEW r, NEW w, Linked(s, r, w), Fits(w, m)
    PROVE  Linked(Append(s, m), r, After(m))
<1> DEFINE t == Append(s, m)
<1>1. /\ Len(t) = Len(s) + 1 /\ Len(s) \in Nat /\ t[Len(s) + 1] = m
      /\ \A i \in 1..Len(s) : t[i] = s[i]
  BY AppendFacts
<1> HIDE DEF t
<1>2. s = <<>> \/ Len(s) \in Nat \ {0}
  BY EmptySeq
<1>3. t # <<>> /\ After(t[Len(t)]) = After(m)
  BY <1>1, EmptySeq
<1>4. Fits(r, t[1])
  <2>1. CASE s = <<>>
    <3>1. r = w /\ t[1] = m
      BY <1>1, <2>1 DEF Linked
    <3> QED
      BY <3>1
  <2>2. CASE s # <<>>
    <3>1. t[1] = s[1]
      BY <1>1, <1>2, <2>2
    <3> QED
      BY <2>2, <3>1 DEF Linked
  <2> QED
    BY <2>1, <2>2
<1>5. ASSUME NEW i \in 1..(Len(t) - 1)
      PROVE  Fits(After(t[i]), t[i + 1])
  <2>1. CASE i \in 1..(Len(s) - 1)
    <3>1. t[i] = s[i] /\ t[i + 1] = s[i + 1]
      BY <1>1, <2>1
    <3> QED
      BY <2>1, <3>1 DEF Linked
  <2>2. CASE i = Len(s)
    <3>1. s # <<>> /\ t[i] = s[Len(s)] /\ t[i + 1] = m
      BY <1>1, <2>2
    <3>2. After(t[i]) = w
      BY <3>1 DEF Linked
    <3> QED
      BY <3>1, <3>2
  <2> QED
    BY <1>1, <2>1, <2>2
<1>6. Linked(t, r, After(m))
  BY <1>3, <1>4, <1>5 DEF Linked
<1> QED
  BY <1>6 DEF t

\* The reader finds what it expects.
LEMMA LinkHead ==
    ASSUME NEW S, NEW s \in Seq(S), s # <<>>, NEW r, NEW w, Linked(s, r, w)
    PROVE  Fits(r, Head(s))
BY TailFacts DEF Linked

\* Reading the first message takes the reader to what comes after it.
LEMMA LinkTail ==
    ASSUME NEW S, NEW s \in Seq(S), s # <<>>, NEW r, NEW w, Linked(s, r, w)
    PROVE  Linked(Tail(s), After(Head(s)), w)
<1> DEFINE t == Tail(s)
<1>1. /\ Len(t) = Len(s) - 1 /\ Len(s) \in Nat \ {0} /\ t \in Seq(S)
      /\ \A i \in 1..Len(t) : t[i] = s[i + 1]
      /\ Head(s) = s[1]
  BY TailFacts
<1> HIDE DEF t
<1>2. t = <<>> \/ Len(t) \in Nat \ {0}
  BY <1>1, EmptySeq
<1>3. CASE t = <<>>
  <2>1. Len(s) = 1
    BY <1>1, <1>3
  <2>2. After(Head(s)) = w
    BY <1>1, <2>1 DEF Linked
  <2>3. \A i \in 1..(Len(t) - 1) : Fits(After(t[i]), t[i + 1])
    BY <1>1, <2>1
  <2> QED
    BY <1>3, <2>2, <2>3 DEF Linked, t
<1>4. CASE t # <<>>
  <2>1. t[1] = s[2] /\ t[Len(t)] = s[Len(s)] /\ 1 \in 1..(Len(s) - 1)
    BY <1>1, <1>2, <1>4
  <2>2. Fits(After(Head(s)), t[1])
    BY <1>1, <2>1 DEF Linked
  <2>3. After(t[Len(t)]) = w
    BY <2>1 DEF Linked
  <2>4. ASSUME NEW i \in 1..(Len(t) - 1)
        PROVE  Fits(After(t[i]), t[i + 1])
    <3>1. i + 1 \in 1..(Len(s) - 1) /\ t[i] = s[i + 1] /\ t[i + 1] = s[(i + 1) + 1]
      BY <1>1
    <3> QED
      BY <3>1 DEF Linked
  <2> QED
    BY <1>4, <2>2, <2>3, <2>4 DEF Linked, t
<1> QED
  BY <1>3, <1>4

\* The next send fits, and what remains is whole.
LEMMA OutboxStep ==
    ASSUME NEW ob \in Seq(Clients \X Answer), ob # <<>>, WholeMessages(ob)
    PROVE  /\ Fits(NextSent(ob), Head(ob)[2])
           /\ After(Head(ob)[2]) = NextSent(Tail(ob))
           /\ WholeMessages(Tail(ob))
<1> DEFINE t == Tail(ob)
<1>1. /\ Len(t) = Len(ob) - 1 /\ Len(ob) \in Nat \ {0} /\ t \in Seq(Clients \X Answer)
      /\ \A i \in 1..Len(t) : t[i] = ob[i + 1]
      /\ Head(ob) = ob[1]
  BY TailFacts
<1> HIDE DEF t
<1>2. t = <<>> \/ Len(t) \in Nat \ {0}
  BY <1>1, EmptySeq
<1>3. Fits(NextSent(ob), Head(ob)[2])
  <2>1. Head(ob) \in Clients \X Answer
    BY TailFacts
  <2>2. Head(ob)[2].kind \in {"CreateWindowResponse", "response", "SendIOEvent", "io_event"}
    BY <2>1 DEF Answer, Answers
  <2> QED
    BY <2>2 DEF Fits, NextSent, Codes
<1>4. CASE t = <<>>
  <2>1. Len(ob) = 1
    BY <1>1, <1>4
  <2>2. After(Head(ob)[2]) = "code"
    BY <1>1, <2>1 DEF WholeMessages
  <2>3. NextSent(t) = "code" /\ WholeMessages(t)
    BY <1>4 DEF NextSent, WholeMessages
  <2> QED
    BY <1>3, <2>2, <2>3 DEF t
<1>5. CASE t # <<>>
  <2>1. /\ t[1] = ob[2] /\ t[Len(t)] = ob[Len(ob)] /\ 1 \in 1..(Len(ob) - 1)
        /\ Head(t) = t[1]
    BY <1>1, <1>2, <1>5
  <2>2. Fits(After(Head(ob)[2]), t[1][2])
    BY <1>1, <2>1 DEF WholeMessages
  <2>3. After(Head(ob)[2]) = NextSent(t)
    <3>1. After(Head(ob)[2]) \in {"code", "request", "window", "response", "io_event"}
      BY DEF After, BodyOf
    <3> QED
      BY <1>5, <2>1, <2>2, <3>1 DEF Fits, NextSent, Codes
  <2>4. WholeMessages(t)
    <3>1. After(t[Len(t)][2]) = "code"
      BY <1>1, <2>1 DEF WholeMessages
    <3>2. ASSUME NEW i \in 1..(Len(t) - 1)
          PROVE  Fits(After(t[i][2]), t[i + 1][2])
      <4>1. i + 1 \in 1..(Len(ob) - 1) /\ t[i] = ob[i + 1] /\ t[i + 1] = ob[(i + 1) + 1]
        BY <1>1
      <4> QED
        BY <4>1 DEF WholeMessages
    <3> QED
      BY <3>1, <3>2 DEF WholeMessages
  <2> QED
    BY <1>3, <2>3, <2>4 DEF t
<1> QED
  BY <1>4, <1>5

\* A message more, a message less.
LEMMA NoneAppend ==
    ASSUME NEW S, NEW s \in Seq(S), NEW m \in S, NEW kind
    PROVE  None(Append(s, m), kind) <=> None(s, kind) /\ m.kind # kind
<1> DEFINE t == Append(s, m)
<1>1. /\ Len(t) = Len(s) + 1 /\ Len(s) \in Nat /\ t[Len(s) + 1] = m
      /\ \A i \in 1..Len(s) : t[i] = s[i]
  BY AppendFacts
<1> HIDE DEF t
<1>2. \A i \in 1..Len(t) : i \in 1..Len(s) \/ i = Len(s) + 1
  BY <1>1
<1>3. Len(s) + 1 \in 1..Len(t) /\ \A i \in 1..Len(s) : i \in 1..Len(t)
  BY <1>1
<1>4. None(t, kind) <=> None(s, kind) /\ m.kind # kind
  BY <1>1, <1>2, <1>3 DEF None
<1> QED
  BY <1>4 DEF t

\* A queue without a kind has none after its first message is read.
LEMMA NoneTail ==
    ASSUME NEW S, NEW s \in Seq(S), s # <<>>, NEW kind
    PROVE  None(s, kind) <=> None(Tail(s), kind) /\ Head(s).kind # kind
<1> DEFINE t == Tail(s)
<1>1. /\ Len(t) = Len(s) - 1 /\ Len(s) \in Nat \ {0}
      /\ \A i \in 1..Len(t) : t[i] = s[i + 1]
      /\ Head(s) = s[1]
  BY TailFacts
<1> HIDE DEF t
<1>2. ASSUME None(s, kind) PROVE None(t, kind) /\ Head(s).kind # kind
  <2>1. \A i \in 1..Len(t) : i + 1 \in 1..Len(s)
    BY <1>1
  <2>2. 1 \in 1..Len(s)
    BY <1>1
  <2> QED
    BY <1>1, <1>2, <2>1, <2>2 DEF None
<1>3. ASSUME None(t, kind), Head(s).kind # kind PROVE None(s, kind)
  <2>1. ASSUME NEW i \in 1..Len(s) PROVE s[i].kind # kind
    <3>1. CASE i = 1
      BY <1>1, <1>3, <3>1
    <3>2. CASE i # 1
      <4>1. i - 1 \in 1..Len(t) /\ (i - 1) + 1 = i
        BY <1>1, <3>2
      <4>2. t[i - 1] = s[i]
        BY <1>1, <4>1
      <4> QED
        BY <1>3, <4>1, <4>2 DEF None
    <3> QED
      BY <3>1, <3>2
  <2> QED
    BY <2>1 DEF None
<1>4. None(s, kind) <=> None(t, kind) /\ Head(s).kind # kind
  BY <1>2, <1>3
<1> QED
  BY <1>4 DEF t

\* Sending a message of a kind that is not there leaves at most one.
LEMMA OneAppend ==
    ASSUME NEW S, NEW s \in Seq(S), NEW m \in S, NEW kind,
           AtMostOne(s, kind), m.kind = kind => None(s, kind)
    PROVE  AtMostOne(Append(s, m), kind)
<1> DEFINE t == Append(s, m)
<1>1. /\ Len(t) = Len(s) + 1 /\ Len(s) \in Nat /\ t[Len(s) + 1] = m
      /\ \A i \in 1..Len(s) : t[i] = s[i]
  BY AppendFacts
<1> HIDE DEF t
<1>2. \A i \in 1..Len(t) : i \in 1..Len(s) \/ i = Len(s) + 1
  BY <1>1
<1>3. ASSUME NEW i \in 1..Len(t), NEW j \in 1..Len(t), t[i].kind = kind, t[j].kind = kind
      PROVE  i = j
  <2>1. CASE i \in 1..Len(s) /\ j \in 1..Len(s)
    BY <1>1, <1>3, <2>1 DEF AtMostOne
  <2>2. CASE i = Len(s) + 1 \/ j = Len(s) + 1
    BY <1>1, <1>2, <1>3, <2>2 DEF None
  <2> QED
    BY <1>2, <2>1, <2>2
<1>4. AtMostOne(t, kind)
  BY <1>3 DEF AtMostOne
<1> QED
  BY <1>4 DEF t

\* Reading leaves at most one, and none if it was the one read.
LEMMA OneTail ==
    ASSUME NEW S, NEW s \in Seq(S), s # <<>>, NEW kind, AtMostOne(s, kind)
    PROVE  AtMostOne(Tail(s), kind) /\ (Head(s).kind = kind => None(Tail(s), kind))
<1> DEFINE t == Tail(s)
<1>1. /\ Len(t) = Len(s) - 1 /\ Len(s) \in Nat \ {0}
      /\ \A i \in 1..Len(t) : t[i] = s[i + 1]
      /\ Head(s) = s[1]
  BY TailFacts
<1> HIDE DEF t
<1>2. \A i \in 1..Len(t) : i + 1 \in 1..Len(s) /\ i + 1 # 1
  BY <1>1
<1>3. ASSUME NEW i \in 1..Len(t), NEW j \in 1..Len(t), t[i].kind = kind, t[j].kind = kind
      PROVE  i = j
  <2>1. i + 1 = j + 1
    BY <1>1, <1>2, <1>3 DEF AtMostOne
  <2> QED
    BY <2>1
<1>4. AtMostOne(t, kind)
  BY <1>3 DEF AtMostOne
<1>5. ASSUME Head(s).kind = kind, NEW i \in 1..Len(t)
      PROVE  t[i].kind # kind
  <2>1. 1 \in 1..Len(s)
    BY <1>1
  <2> QED
    BY <1>1, <1>2, <1>5, <2>1 DEF AtMostOne
<1> QED
  BY <1>4, <1>5 DEF t, None

\* Sending keeps that all ids are known, if that of the message is.
LEMMA AllAppend ==
    ASSUME NEW S, NEW s \in Seq(S), NEW m \in S, NEW kind, NEW ids, NEW more,
           AllIn(s, kind, ids), ids \subseteq more, m.kind = kind => m.arg \in more
    PROVE  AllIn(Append(s, m), kind, more)
<1> DEFINE t == Append(s, m)
<1>1. /\ Len(t) = Len(s) + 1 /\ Len(s) \in Nat /\ t[Len(s) + 1] = m
      /\ \A i \in 1..Len(s) : t[i] = s[i]
  BY AppendFacts
<1> HIDE DEF t
<1>2. \A i \in 1..Len(t) : i \in 1..Len(s) \/ i = Len(s) + 1
  BY <1>1
<1>3. AllIn(t, kind, more)
  BY <1>1, <1>2 DEF AllIn
<1> QED
  BY <1>3 DEF t

\* Reading keeps that all ids are known.
LEMMA AllTail ==
    ASSUME NEW S, NEW s \in Seq(S), s # <<>>, NEW kind, NEW ids, AllIn(s, kind, ids)
    PROVE  AllIn(Tail(s), kind, ids) /\ (Head(s).kind = kind => Head(s).arg \in ids)
<1> DEFINE t == Tail(s)
<1>1. /\ Len(t) = Len(s) - 1 /\ Len(s) \in Nat \ {0}
      /\ \A i \in 1..Len(t) : t[i] = s[i + 1]
      /\ Head(s) = s[1]
  BY TailFacts
<1> HIDE DEF t
<1>2. 1 \in 1..Len(s) /\ \A i \in 1..Len(t) : i + 1 \in 1..Len(s)
  BY <1>1
<1>3. AllIn(t, kind, ids) /\ (Head(s).kind = kind => Head(s).arg \in ids)
  BY <1>1, <1>2 DEF AllIn
<1> QED
  BY <1>3 DEF t

-----------------------------------------------------------------------------
(* The protocol, step by step, for one client *)

OneClient == \E c : Clients = {c}

\* The parts of the protocol, with the types its proofs need.
LEMMA ProtocolFacts ==
    ASSUME WindowsInv, NEW c \in Clients, Protocol(c)
    PROVE  /\ Linked(inbox[Server], ServerReads, ClientWrites(c))
           /\ life[c] = "alive" => Linked(inbox[c], ClientReads(c), NextSent(outbox))
           /\ WholeMessages(outbox) /\ Answered /\ EventsOnly /\ IdsHaveWindows(c) /\ IdsAreOld
           /\ OneCreation(c) /\ FirstIsAnswer(c) /\ ServerAssertionsHold /\ ClientAssertionsHold
           /\ inbox[Server] \in Seq(Request) /\ inbox[c] \in Seq(Answer)
           /\ c # Server /\ c \in Procs /\ Server \in Procs
BY WindowsFacts DEF Protocol, Alternating, QueueTypes, ServerWrites

\* The ids of windows are numbers.
LEMMA IdsArePositive ==
    ASSUME WindowsInv
    PROVE  \A id \in WindowIds : id \in Nat \ {0}
<1>1. windows \in Seq(Window)
  BY WindowsFacts DEF ServerTypes
<1>2. \A i \in 1..Len(windows) : windows[i] \in Window
  BY <1>1, ElementOfSeq
<1>3. \A i \in 1..Len(windows) : windows[i].id \in Nat \ {0}
  BY <1>2 DEF Window
<1> QED
  BY <1>3 DEF WindowIds

\* A step that takes and sends nothing, after which the server expects what it did.
LEMMA ProtocolSame ==
    ASSUME NEW c \in Clients, Protocol(c),
           UNCHANGED <<inbox, life, windows, drag, guid, opening, outbox, mine>>,
           UNCHANGED <<pc[c], ServerReads>>,
           pc'[Server] = "request" <=> pc[Server] = "request",
           \A d \in Clients : pc'[d] = pc[d]
    PROVE  Protocol(c)'
<1>1. Alternating(c)'
  BY DEF Protocol, Alternating, ServerWrites, NextSent, ClientReads, ClientWrites, Linked, WholeMessages
<1>2. Answered' /\ EventsOnly' /\ IdsHaveWindows(c)' /\ IdsAreOld'
  BY DEF Protocol, Answered, AnswerOf, EventsOnly, IdsHaveWindows, AllIn, WindowIds, IdsAreOld
<1>3. OneCreation(c)' /\ FirstIsAnswer(c)'
  BY DEF Protocol, OneCreation, AtMostOne, None, Asking, Asked, Answering, AnswerIsIn, FirstIsAnswer
<1>4. ServerAssertionsHold' /\ ClientAssertionsHold'
  BY DEF Protocol, ServerAssertionsHold, ClientAssertionsHold, Found
<1> QED
  BY <1>1, <1>2, <1>3, <1>4 DEF Protocol

\* run looks for a message or an event.
LEMMA UnblockProtocol ==
    ASSUME WindowsInv, NEW c \in Clients, Protocol(c), Unblock
    PROVE  Protocol(c)'
<1>1. PICK l \in {"code", "keyboard", "mouse"} : Goto(Server, l)
  BY DEF Unblock
<1>2. PlaceTypes' /\ pc'[Server] = l /\ \A d \in Clients : pc'[d] = pc[d]
  BY <1>1, WindowsFacts, ServerGoes DEF ServerPlaces
<1>3. UNCHANGED <<inbox, life, windows, drag, guid, opening, outbox, mine>> /\ pc[Server] = "block"
  BY DEF Unblock, At, server, client
<1>4. UNCHANGED ServerReads
  BY <1>1, <1>2, <1>3 DEF ServerReads
<1> QED
  BY <1>1, <1>2, <1>3, <1>4, ProtocolSame

\* What a step of the server that sends nothing and fails nothing keeps.
LEMMA AssertionsKept ==
    ASSUME NEW c \in Clients, Protocol(c), UNCHANGED life, life[Server] = "alive",
           \A d \in Clients : pc'[d] = pc[d], UNCHANGED mine
    PROVE  ServerAssertionsHold' /\ ClientAssertionsHold'
BY DEF Protocol, ServerAssertionsHold, ClientAssertionsHold, Found

\* The server finds the code of a request.
LEMMA ReadCodeProtocol ==
    ASSUME WindowsInv, NEW c \in Clients, Protocol(c), ReadCode
    PROVE  Protocol(c)'
<1> DEFINE q == inbox[Server]
           m == Head(q)
<1>0. /\ life[Server] = "alive" /\ pc[Server] = "code" /\ q # <<>> /\ Pending(Server) /\ Pop(Server)
      /\ UNCHANGED <<windows, drag, guid, opening, outbox, mine>>
      /\ CASE m.kind = "CreateWindowRequest" -> Goto(Server, "request") /\ UNCHANGED life
           [] m.kind = "DrawWindow" -> Goto(Server, "draw") /\ UNCHANGED life
           [] OTHER -> Fail(Server)
  BY DEF ReadCode, At, client, Pending
<1>1. q \in Seq(Request) /\ Linked(q, "code", ClientWrites(c)) /\ m \in Request
  BY <1>0, ProtocolFacts, TailFacts DEF ServerReads
<1>2. m.kind \in {"CreateWindowRequest", "DrawWindow"}
  <2>1. Fits("code", m)
    BY <1>0, <1>1, LinkHead
  <2> QED
    BY <1>1, <2>1 DEF Fits, Codes, Request, Requests
<1>3. inbox'[Server] = Tail(q) /\ inbox'[c] = inbox[c]
  BY <1>0, WindowsFacts, PopKeeps DEF Procs
<1>4. /\ UNCHANGED life /\ \A d \in Clients : pc'[d] = pc[d]
      /\ pc'[Server] = IF m.kind = "CreateWindowRequest" THEN "request" ELSE "draw"
  <2>1. CASE m.kind = "CreateWindowRequest"
    BY <1>0, <2>1, WindowsFacts, ServerGoes DEF ServerPlaces
  <2>2. CASE m.kind = "DrawWindow"
    BY <1>0, <2>2, WindowsFacts, ServerGoes DEF ServerPlaces
  <2> QED
    BY <1>2, <2>1, <2>2
<1> HIDE DEF q, m
<1>5. Alternating(c)'
  <2>1. Linked(Tail(q), After(m), ClientWrites(c))
    BY <1>0, <1>1, LinkTail DEF m
  <2>2. ServerReads' = After(m)
    BY <1>2, <1>4 DEF ServerReads, After, Codes, BodyOf
  <2>3. ClientWrites(c)' = ClientWrites(c) /\ ClientReads(c)' = ClientReads(c)
    BY <1>4 DEF ClientWrites, ClientReads
  <2>4. ServerWrites' = NextSent(outbox) /\ WholeMessages(outbox)'
    BY <1>0, ProtocolFacts DEF ServerWrites
  <2> QED
    BY <1>3, <1>4, <2>1, <2>2, <2>3, <2>4, ProtocolFacts DEF Alternating
<1>6. Answered' /\ EventsOnly' /\ IdsAreOld'
  BY <1>0, ProtocolFacts DEF Answered, AnswerOf, EventsOnly, IdsAreOld, WindowIds
<1>7. IdsHaveWindows(c)'
  <2>1. AllIn(Tail(q), "window", WindowIds)
    BY <1>0, <1>1, ProtocolFacts, AllTail DEF IdsHaveWindows, q
  <2>2. WindowIds' = WindowIds
    BY <1>0 DEF WindowIds
  <2> QED
    BY <1>0, <1>3, <1>4, <2>1, <2>2, ProtocolFacts DEF IdsHaveWindows
<1>8. OneCreation(c)'
  <2>1. SUFFICES ASSUME life[c] = "alive" PROVE OneCreation(c)'
    BY <1>4 DEF OneCreation
  <2>2. /\ AtMostOne(Tail(q), "CreateWindowRequest")
        /\ m.kind = "CreateWindowRequest" => None(Tail(q), "CreateWindowRequest")
        /\ None(q, "CreateWindowRequest")
              <=> None(Tail(q), "CreateWindowRequest") /\ m.kind # "CreateWindowRequest"
    BY <1>0, <1>1, <2>1, ProtocolFacts, OneTail, NoneTail DEF OneCreation, q, m
  <2>3. /\ Answering' <=> Answering
        /\ AnswerIsIn(c)' <=> AnswerIsIn(c)
        /\ Asking(c)' <=> Asking(c)
        /\ Asked' <=> ~None(Tail(q), "CreateWindowRequest")
        /\ Asked <=> ~None(q, "CreateWindowRequest")
    BY <1>0, <1>3, <1>4 DEF Answering, AnswerIsIn, Asking, Asked, None, q
  <2> QED
    BY <1>0, <1>2, <1>3, <1>4, <2>1, <2>2, <2>3, ProtocolFacts DEF OneCreation
<1>9. FirstIsAnswer(c)'
  BY <1>0, <1>3, <1>4, ProtocolFacts DEF FirstIsAnswer, Answering
<1>10. ServerAssertionsHold' /\ ClientAssertionsHold'
  BY <1>0, <1>4, AssertionsKept
<1> QED
  BY <1>5, <1>6, <1>7, <1>8, <1>9, <1>10 DEF Protocol

\* The body the server takes is the one of the code it took.
LEMMA BodyTaken ==
    ASSUME WindowsInv, NEW c \in Clients, Clients = {c}, Protocol(c), Pending(Server), Pop(Server),
           pc[Server] \in {"request", "draw"},
           UNCHANGED <<windows, mine, drag, life>>, UNCHANGED <<pc[c], ClientWrites(c)>>,
           pc'[Server] \notin {"request", "draw"}
    PROVE  /\ inbox'[c] = inbox[c] /\ Linked(inbox'[Server], ServerReads', ClientWrites(c)')
           /\ IdsHaveWindows(c)'
           /\ AtMostOne(inbox[Server], "CreateWindowRequest")
                => AtMostOne(inbox'[Server], "CreateWindowRequest")
           /\ Asked' <=> Asked
<1> DEFINE q == inbox[Server]
           m == Head(q)
<1>1. q \in Seq(Request) /\ Linked(q, ServerReads, ClientWrites(c)) /\ m \in Request /\ q # <<>>
  BY ProtocolFacts, TailFacts DEF Pending
<1>2. m.kind \in {"request", "window"}
  <2>1. Fits(ServerReads, m)
    BY <1>1, LinkHead
  <2> QED
    BY <1>1, <2>1 DEF Fits, ServerReads
<1>3. inbox'[Server] = Tail(q) /\ inbox'[c] = inbox[c]
  BY WindowsFacts, PopKeeps DEF Procs
<1> HIDE DEF q, m
<1>4. Linked(inbox'[Server], ServerReads', ClientWrites(c)')
  <2>1. Linked(Tail(q), After(m), ClientWrites(c))
    BY <1>1, LinkTail DEF m
  <2>2. ServerReads' = After(m)
    BY <1>2 DEF ServerReads, After, Codes
  <2> QED
    BY <1>3, <2>1, <2>2
<1>5. IdsHaveWindows(c)'
  <2>1. AllIn(Tail(q), "window", WindowIds)
    BY <1>1, ProtocolFacts, AllTail DEF IdsHaveWindows, q
  <2>2. WindowIds' = WindowIds
    BY DEF WindowIds
  <2> QED
    BY <1>3, <2>1, <2>2, ProtocolFacts DEF IdsHaveWindows
<1>6. AtMostOne(q, "CreateWindowRequest") => AtMostOne(Tail(q), "CreateWindowRequest")
  BY <1>1, OneTail
<1>7. None(q, "CreateWindowRequest") <=> None(Tail(q), "CreateWindowRequest")
  <2>1. m.kind # "CreateWindowRequest"
    BY <1>2
  <2> QED
    BY <1>1, <2>1, NoneTail DEF m
<1>8. Asked' <=> Asked
  <2>1. Asked <=> ~None(q, "CreateWindowRequest")
    BY DEF Asked, q
  <2>2. Asked' <=> ~None(Tail(q), "CreateWindowRequest")
    BY <1>3 DEF Asked
  <2> QED
    BY <1>7, <2>1, <2>2
<1> QED
  BY <1>3, <1>4, <1>5, <1>6, <1>8 DEF q

\* The request is answered.
LEMMA CreateWindowProtocol ==
    ASSUME WindowsInv, NEW c \in Clients, Clients = {c}, Protocol(c), CreateWindow
    PROVE  Protocol(c)'
<1>0. /\ life[Server] = "alive" /\ pc[Server] = "request" /\ Pending(Server) /\ Pop(Server)
      /\ UNCHANGED <<windows, focus, drag, from, mine>>
  BY DEF CreateWindow, At, client
<1>1. from = c /\ Head(inbox[Server]).from = c
  <2>1. Head(inbox[Server]) \in Request
    BY <1>0, WindowsFacts, HeadTypes
  <2> QED
    BY <1>0, <2>1, WindowsFacts DEF Sending, Request
<1>2. /\ guid' = guid + 2
      /\ opening' = [id |-> guid, owner |-> from, focused |-> FALSE]
      /\ outbox' = << <<from, Msg(Server, "CreateWindowResponse", 0)>>,
                      <<from, Msg(Server, "response", guid)>> >>
      /\ Goto(Server, "send") /\ UNCHANGED life
  BY <1>1 DEF CreateWindow
<1>3. pc'[Server] = "send" /\ \A d \in Clients : pc'[d] = pc[d]
  BY <1>2, WindowsFacts, ServerGoes DEF ServerPlaces
<1>4. outbox = <<>> /\ opening = NoWindow /\ guid \in Nat \ {0}
  BY <1>0, WindowsFacts DEF Sending, OpeningHasNoFocus, ServerTypes
<1>5. UNCHANGED ClientWrites(c) /\ UNCHANGED ClientReads(c)
  BY <1>3 DEF ClientWrites, ClientReads
<1>6. /\ inbox'[c] = inbox[c] /\ Linked(inbox'[Server], ServerReads', ClientWrites(c)')
      /\ IdsHaveWindows(c)'
      /\ AtMostOne(inbox[Server], "CreateWindowRequest")
            => AtMostOne(inbox'[Server], "CreateWindowRequest")
      /\ Asked' <=> Asked
  BY <1>0, <1>2, <1>3, <1>5, BodyTaken
<1>7. outbox' = AnswerOf(opening')
  BY <1>2 DEF AnswerOf
<1>8. /\ outbox' # <<>> /\ Len(outbox') = 2 /\ Head(outbox')[2].kind = "CreateWindowResponse"
      /\ outbox'[1][2].kind = "CreateWindowResponse" /\ outbox'[2][2].kind = "response"
  BY <1>2 DEF Msg
<1>9. Alternating(c)'
  <2>1. NextSent(outbox) = "code" /\ NextSent(outbox') = "code"
    BY <1>4, <1>8 DEF NextSent, Codes
  <2>2. WholeMessages(outbox')
    <3>1. After(outbox'[1][2]) = "response" /\ After(outbox'[2][2]) = "code"
      BY <1>8 DEF After, Codes, BodyOf
    <3>2. Fits(After(outbox'[1][2]), outbox'[2][2])
      BY <1>8, <3>1 DEF Fits
    <3>3. \A i \in 1..(Len(outbox') - 1) : i = 1
      BY <1>8
    <3> QED
      BY <1>8, <3>1, <3>2, <3>3 DEF WholeMessages
  <2> QED
    BY <1>2, <1>5, <1>6, <2>1, <2>2, ProtocolFacts DEF Alternating, ServerWrites
<1>10. Answered' /\ EventsOnly'
  <2>1. opening' # NoWindow
    BY <1>2, <1>4 DEF NoWindow
  <2> QED
    BY <1>7, <2>1 DEF Answered, EventsOnly
<1>11. IdsAreOld'
  <2>1. \A id \in WindowIds : id \in Nat
    BY IdsArePositive
  <2>2. \A id \in WindowIds : id < guid + 2
    BY <1>4, <2>1, ProtocolFacts DEF IdsAreOld
  <2>3. WindowIds' = WindowIds /\ opening'.id = guid
    BY <1>0, <1>2 DEF WindowIds
  <2> QED
    BY <1>2, <1>4, <2>2, <2>3 DEF IdsAreOld
<1>12. OneCreation(c)'
  <2>1. SUFFICES ASSUME life[c] = "alive" PROVE OneCreation(c)'
    BY <1>2 DEF OneCreation
  <2>2. ~Asked /\ Asking(c) /\ ~AnswerIsIn(c)
    BY <1>0, <2>1, ProtocolFacts DEF OneCreation
  <2>3. (AnswerIsIn(c)' <=> AnswerIsIn(c)) /\ (Asking(c)' <=> Asking(c))
    BY <1>3, <1>6 DEF AnswerIsIn, Asking, None
  <2> QED
    BY <1>3, <1>6, <2>1, <2>2, <2>3, ProtocolFacts DEF OneCreation
<1>13. FirstIsAnswer(c)'
  <2>1. Answering'
    BY <1>8 DEF Answering
  <2> QED
    BY <1>0, <1>2, <1>3, <1>6, <2>1, ProtocolFacts DEF FirstIsAnswer
<1>14. ServerAssertionsHold' /\ ClientAssertionsHold'
  BY <1>0, <1>2, <1>3, AssertionsKept
<1> QED
  BY <1>6, <1>9, <1>10, <1>11, <1>12, <1>13, <1>14 DEF Protocol

\* The window that is drawn exists.
LEMMA DrawWindowProtocol ==
    ASSUME WindowsInv, NEW c \in Clients, Clients = {c}, Protocol(c), DrawWindow
    PROVE  Protocol(c)'
<1> DEFINE m == Head(inbox[Server])
<1>0. /\ life[Server] = "alive" /\ pc[Server] = "draw" /\ Pending(Server) /\ Pop(Server)
      /\ UNCHANGED <<windows, focus, drag, guid, from, opening, outbox, mine>>
  BY DEF DrawWindow, At, client, server
<1>1. from = c /\ m.from = c
  <2>1. m \in Request
    BY <1>0, WindowsFacts, HeadTypes
  <2> QED
    BY <1>0, <2>1, WindowsFacts DEF Sending, Request
<1>2. HasWindow(m.arg)
  <2>1. /\ inbox[Server] \in Seq(Request) /\ inbox[Server] # <<>>
        /\ Linked(inbox[Server], "window", ClientWrites(c))
    BY <1>0, ProtocolFacts DEF ServerReads, Pending
  <2>2. Fits("window", m)
    BY <2>1, LinkHead
  <2>3. m.kind = "window"
    BY <2>2 DEF Fits
  <2>4. m.arg \in WindowIds
    BY <2>1, <2>3, ProtocolFacts, AllTail DEF IdsHaveWindows
  <2> QED
    BY <2>4 DEF WindowIds, HasWindow
<1>3. Goto(Server, "block") /\ UNCHANGED life
  BY <1>1, <1>2 DEF DrawWindow
<1>4. pc'[Server] = "block" /\ \A d \in Clients : pc'[d] = pc[d]
  BY <1>3, WindowsFacts, ServerGoes DEF ServerPlaces
<1>5. UNCHANGED ClientWrites(c) /\ UNCHANGED ClientReads(c)
  BY <1>4 DEF ClientWrites, ClientReads
<1>6. /\ inbox'[c] = inbox[c] /\ Linked(inbox'[Server], ServerReads', ClientWrites(c)')
      /\ IdsHaveWindows(c)'
      /\ AtMostOne(inbox[Server], "CreateWindowRequest")
            => AtMostOne(inbox'[Server], "CreateWindowRequest")
      /\ Asked' <=> Asked
  BY <1>0, <1>3, <1>4, <1>5, BodyTaken
<1>7. Alternating(c)'
  BY <1>0, <1>3, <1>5, <1>6, ProtocolFacts DEF Alternating, ServerWrites
<1>8. Answered' /\ EventsOnly' /\ IdsAreOld'
  BY <1>0, ProtocolFacts DEF Answered, AnswerOf, EventsOnly, IdsAreOld, WindowIds
<1>9. OneCreation(c)'
  <2>1. SUFFICES ASSUME life[c] = "alive" PROVE OneCreation(c)'
    BY <1>3 DEF OneCreation
  <2>2. /\ AnswerIsIn(c)' <=> AnswerIsIn(c)
        /\ Asking(c)' <=> Asking(c)
        /\ Answering' <=> Answering
    BY <1>0, <1>4, <1>6 DEF AnswerIsIn, Asking, None, Answering
  <2> QED
    BY <1>4, <1>6, <2>1, <2>2, ProtocolFacts DEF OneCreation
<1>10. FirstIsAnswer(c)'
  BY <1>0, <1>3, <1>4, <1>6, ProtocolFacts DEF FirstIsAnswer, Answering
<1>11. ServerAssertionsHold' /\ ClientAssertionsHold'
  BY <1>0, <1>3, <1>4, AssertionsKept
<1> QED
  BY <1>6, <1>7, <1>8, <1>9, <1>10, <1>11 DEF Protocol

\* A key or a press: the server gets events to send, and the windows keep their ids.
LEMMA EventsProtocol ==
    ASSUME WindowsInv, NEW c \in Clients, Protocol(c), life[Server] = "alive",
           pc[Server] \in {"keyboard", "mouse"}, outbox = <<>>, opening = NoWindow,
           UNCHANGED <<inbox, life, guid, opening, mine>>, WindowIds' = WindowIds,
           windows = <<>> => windows' = <<>>,
           pc'[Server] \in {"block", "send"}, \A d \in Clients : pc'[d] = pc[d],
           SendsEvents(outbox'), outbox' # <<>> => windows # <<>>,
           drag' # Normal => drag' \in WindowIds
    PROVE  Protocol(c)'
<1>1. /\ WholeMessages(outbox') /\ outbox' \in Seq(Clients \X Answer)
      /\ \A i \in 1..Len(outbox') : outbox'[i][2].kind \in {"SendIOEvent", "io_event"}
      /\ outbox' # <<>> => Head(outbox')[2].kind = "SendIOEvent"
  <2>1. /\ WholeMessages(outbox') /\ outbox' \in Seq(Clients \X Answer)
        /\ \A i \in 1..Len(outbox') : outbox'[i][2].kind \in {"SendIOEvent", "io_event"}
        /\ outbox' # <<>> => outbox'[1][2].kind = "SendIOEvent"
    BY DEF SendsEvents
  <2>2. outbox' # <<>> => Head(outbox') = outbox'[1]
    BY <2>1, TailFacts
  <2> QED
    BY <2>1, <2>2
<1>2. Alternating(c)'
  <2>1. NextSent(outbox) = "code" /\ NextSent(outbox') = "code"
    BY <1>1 DEF NextSent, Codes
  <2>2. ServerReads' = ServerReads /\ ClientWrites(c)' = ClientWrites(c) /\ ClientReads(c)' = ClientReads(c)
    BY DEF ServerReads, ClientWrites, ClientReads
  <2> QED
    BY <1>1, <2>1, <2>2, ProtocolFacts DEF Alternating, ServerWrites
<1>3. Answered' /\ EventsOnly'
  BY <1>1 DEF Answered, EventsOnly
<1>4. IdsAreOld' /\ IdsHaveWindows(c)'
  BY ProtocolFacts DEF IdsAreOld, IdsHaveWindows
<1>5. ~Answering /\ ~Answering'
  BY <1>1 DEF Answering
<1>6. OneCreation(c)'
  <2>1. SUFFICES ASSUME life[c] = "alive" PROVE OneCreation(c)'
    BY DEF OneCreation
  <2>2. /\ AnswerIsIn(c)' <=> AnswerIsIn(c)
        /\ Asking(c)' <=> Asking(c)
        /\ Asked' <=> Asked
    BY DEF AnswerIsIn, Asking, None, Asked
  <2> QED
    BY <1>5, <2>1, <2>2, ProtocolFacts DEF OneCreation
<1>7. FirstIsAnswer(c)'
  BY <1>5, ProtocolFacts DEF FirstIsAnswer
<1>8. ServerAssertionsHold' /\ ClientAssertionsHold'
  BY AssertionsKept
<1> QED
  BY <1>2, <1>3, <1>4, <1>6, <1>7, <1>8 DEF Protocol

\* A key is sent to the window that is focused.
LEMMA KeyboardProtocol ==
    ASSUME WindowsInv, NEW c \in Clients, Protocol(c), handle_pending_keyboard_event
    PROVE  Protocol(c)'
<1>0. /\ life[Server] = "alive" /\ pc[Server] = "keyboard" /\ SendOrBlock
      /\ UNCHANGED <<inbox, life, windows, focus, drag, guid, from, opening, mine>>
  BY DEF handle_pending_keyboard_event, At, client
<1>1. outbox = <<>> /\ opening = NoWindow
  BY <1>0, WindowsFacts DEF Sending, OpeningHasNoFocus
<1>2. pc'[Server] \in {"block", "send"} /\ \A d \in Clients : pc'[d] = pc[d]
  BY <1>0, SendOrBlockKeeps
<1>3. SendsEvents(outbox') /\ (outbox' # <<>> => windows # <<>>)
  BY KeyboardSends
<1>4. WindowIds' = WindowIds
  BY <1>0 DEF WindowIds
<1>5. drag' # Normal => drag' \in WindowIds
  BY <1>0, ProtocolFacts DEF IdsHaveWindows
<1> QED
  BY <1>0, <1>1, <1>2, <1>3, <1>4, <1>5, EventsProtocol

\* The window that is dragged exists: set_drag keeps ids whole while they fit.
LEMMA MouseProtocol ==
    ASSUME WindowsInv, NEW c \in Clients, Protocol(c), IdsFit,
           NEW left \in BOOLEAN, handle_pending_mouse_event(left)
    PROVE  Protocol(c)'
<1>0. /\ life[Server] = "alive" /\ pc[Server] = "mouse" /\ outbox = <<>> /\ opening = NoWindow
      /\ UNCHANGED <<inbox, guid, from, opening, mine>>
  BY MouseCases
<1>1. CASE /\ drag # Normal /\ drag' \in {drag, Normal}
           /\ \/ ~HasWindow(drag) /\ Fail(Server)
              \/ Goto(Server, "block") /\ UNCHANGED life
           /\ UNCHANGED <<windows, focus, outbox>>
  <2>1. HasWindow(drag)
    BY <1>1, ProtocolFacts DEF IdsHaveWindows, WindowIds, HasWindow
  <2>2. Goto(Server, "block") /\ UNCHANGED life
    BY <1>1, <2>1
  <2>3. pc'[Server] = "block" /\ \A d \in Clients : pc'[d] = pc[d]
    BY <2>2, WindowsFacts, ServerGoes DEF ServerPlaces
  <2>4. WindowIds' = WindowIds
    BY <1>1 DEF WindowIds
  <2>5. drag' # Normal => drag' \in WindowIds
    BY <1>1, ProtocolFacts DEF IdsHaveWindows
  <2>6. SendsEvents(outbox') /\ outbox' = <<>>
    BY <1>0, <1>1 DEF SendsEvents, WholeMessages
  <2> QED
    BY <1>0, <1>1, <2>2, <2>3, <2>4, <2>5, <2>6, EventsProtocol
<1>2. CASE /\ drag = Normal /\ SendOrBlock /\ UNCHANGED life
           /\ Placed(windows, windows', focus') /\ Dragged(drag') /\ SendsEvents(outbox')
           /\ outbox' # <<>> => windows # <<>>
  <2>1. pc'[Server] \in {"block", "send"} /\ \A d \in Clients : pc'[d] = pc[d]
    BY <1>2, SendOrBlockKeeps
  <2>2. /\ windows' \in Seq(Window) /\ Len(windows') = Len(windows)
        /\ \A i \in 1..Len(windows) : windows'[i].id = windows[i].id
    BY <1>2, PlacedWindows
  <2>3. WindowIds' = WindowIds
    BY <2>2 DEF WindowIds
  <2>4. windows = <<>> => windows' = <<>>
    BY <2>2, EmptySeq
  <2>5. drag' # Normal => drag' \in WindowIds
    <3>1. SUFFICES ASSUME drag' # Normal PROVE drag' \in WindowIds
      OBVIOUS
    <3>2. PICK j \in 1..Len(windows) : drag' = windows[j].id % DragIds
      BY <1>2, <3>1 DEF Dragged
    <3>3. windows[j].id \in WindowIds
      BY DEF WindowIds
    <3>4. windows[j].id \in Nat /\ windows[j].id < guid /\ guid \in Nat
      BY <3>3, IdsArePositive, ProtocolFacts, WindowsFacts DEF IdsAreOld, ServerTypes
    <3>5. windows[j].id % DragIds = windows[j].id
      <4>1. DragIds \in Nat \ {0} /\ windows[j].id < DragIds
        BY <3>4, WindowServerAssumption DEF IdsFit
      <4> QED
        BY <3>4, <4>1
    <3> QED
      BY <3>2, <3>3, <3>5
  <2> QED
    BY <1>0, <1>2, <2>1, <2>3, <2>4, <2>5, EventsProtocol
<1> QED
  BY <1>1, <1>2, MouseCases

\* What the server has left to send, and what the first of it is.
LEMMA AnswerParts ==
    ASSUME NEW w
    PROVE  /\ AnswerOf(w) # <<>> /\ Len(AnswerOf(w)) = 2 /\ Len(Tail(AnswerOf(w))) = 1
           /\ Head(AnswerOf(w)) = <<w.owner, Msg(Server, "CreateWindowResponse", 0)>>
           /\ Tail(AnswerOf(w)) # <<>>
           /\ Head(Tail(AnswerOf(w))) = <<w.owner, Msg(Server, "response", w.id)>>
           /\ Tail(Tail(AnswerOf(w))) = <<>>
BY DEF AnswerOf

\* What the server sends first: one half of an answer, or of an event.
LEMMA SendFirst ==
    ASSUME WindowsInv, NEW c \in Clients, Protocol(c), pc[Server] = "send"
    PROVE  LET m == Head(outbox)[2] IN
           \/ /\ opening # NoWindow /\ outbox = AnswerOf(opening)
              /\ m.kind = "CreateWindowResponse" /\ Len(outbox) # 1
              /\ Tail(outbox) # <<>> /\ Head(Tail(outbox))[2].kind = "response"
           \/ /\ opening # NoWindow /\ outbox = Tail(AnswerOf(opening))
              /\ m.kind = "response" /\ m.arg = opening.id /\ Tail(outbox) = <<>> /\ Len(outbox) = 1
           \/ /\ opening = NoWindow /\ m.kind \in {"SendIOEvent", "io_event"}
              /\ \A i \in 1..Len(Tail(outbox)) :
                    Tail(outbox)[i][2].kind \in {"SendIOEvent", "io_event"}
              /\ Tail(outbox) # <<>> => Head(Tail(outbox))[2].kind \in {"SendIOEvent", "io_event"}
<1>1. outbox # <<>> /\ outbox \in Seq(Clients \X Answer)
  BY WindowsFacts DEF Sending, ServerTypes
<1>2. CASE opening # NoWindow /\ outbox = AnswerOf(opening)
  <2>1. /\ Head(outbox) = <<opening.owner, Msg(Server, "CreateWindowResponse", 0)>>
        /\ Len(outbox) = 2 /\ Tail(outbox) # <<>>
        /\ Head(Tail(outbox)) = <<opening.owner, Msg(Server, "response", opening.id)>>
    BY <1>2, AnswerParts
  <2>2. Head(outbox)[2].kind = "CreateWindowResponse" /\ Head(Tail(outbox))[2].kind = "response"
    BY <2>1 DEF Msg
  <2> QED
    BY <1>2, <2>1, <2>2
<1>3. CASE opening # NoWindow /\ outbox = Tail(AnswerOf(opening))
  <2>1. /\ Head(outbox) = <<opening.owner, Msg(Server, "response", opening.id)>>
        /\ Len(outbox) = 1 /\ Tail(outbox) = <<>>
    BY <1>3, AnswerParts
  <2>2. Head(outbox)[2].kind = "response" /\ Head(outbox)[2].arg = opening.id
    BY <2>1 DEF Msg
  <2> QED
    BY <1>3, <2>1, <2>2
<1>4. CASE opening = NoWindow
  <2>1. \A i \in 1..Len(outbox) : outbox[i][2].kind \in {"SendIOEvent", "io_event"}
    BY <1>4, ProtocolFacts DEF EventsOnly
  <2>2. /\ Len(Tail(outbox)) = Len(outbox) - 1 /\ Len(outbox) \in Nat \ {0}
        /\ Tail(outbox) \in Seq(Clients \X Answer)
        /\ \A i \in 1..Len(Tail(outbox)) : Tail(outbox)[i] = outbox[i + 1]
        /\ Head(outbox) = outbox[1]
    BY <1>1, TailFacts
  <2>3. Head(outbox)[2].kind \in {"SendIOEvent", "io_event"}
    <3>1. 1 \in 1..Len(outbox)
      BY <2>2
    <3> QED
      BY <2>1, <2>2, <3>1
  <2>4. ASSUME NEW i \in 1..Len(Tail(outbox))
        PROVE  Tail(outbox)[i][2].kind \in {"SendIOEvent", "io_event"}
    <3>1. i + 1 \in 1..Len(outbox)
      BY <2>2
    <3> QED
      BY <2>1, <2>2, <3>1
  <2>5. Tail(outbox) # <<>> => Head(Tail(outbox))[2].kind \in {"SendIOEvent", "io_event"}
    <3>1. SUFFICES ASSUME Tail(outbox) # <<>>
                   PROVE  Head(Tail(outbox))[2].kind \in {"SendIOEvent", "io_event"}
      OBVIOUS
    <3>2. Head(Tail(outbox))[2].kind \in {"SendIOEvent", "io_event"}
      <4> DEFINE t == Tail(outbox)
      <4>1. t \in Seq(Clients \X Answer) /\ t # <<>>
        BY <2>2, <3>1
      <4> HIDE DEF t
      <4>2. Head(t) = t[1] /\ Len(t) \in Nat \ {0}
        BY <4>1, EmptySeq
      <4>3. 1 \in 1..Len(t)
        BY <4>2
      <4>4. t[1][2].kind \in {"SendIOEvent", "io_event"}
        BY <2>4, <4>3 DEF t
      <4> QED
        BY <4>2, <4>4 DEF t
    <3> QED
      BY <3>2
  <2> QED
    BY <1>4, <2>3, <2>4, <2>5
<1> QED
  BY <1>2, <1>3, <1>4, ProtocolFacts DEF Answered

\* The server ends as the client it answers has ended.
LEMMA SendFails ==
    ASSUME WindowsInv, NEW c \in Clients, Clients = {c}, Protocol(c), pc[Server] = "send",
           opening # NoWindow, ~Found(Head(outbox)[1]), Fail(Server),
           UNCHANGED <<inbox, windows, focus, opening, outbox, drag, guid, from, mine>>
    PROVE  Protocol(c)'
<1>1. /\ pc' = pc /\ life'[Server] = "asserted" /\ life'[c] = life[c]
  <2>1. c \in Procs /\ c # Server /\ Server \in Procs
    BY ProtocolFacts
  <2> QED
    BY <2>1, WindowsFacts, FailKeeps
<1>2. Alternating(c)'
  BY <1>1, ProtocolFacts
     DEF Alternating, ServerWrites, ServerReads, ClientReads, ClientWrites
<1>3. Answered' /\ EventsOnly' /\ IdsHaveWindows(c)' /\ IdsAreOld'
  BY <1>1, ProtocolFacts DEF Answered, AnswerOf, EventsOnly, IdsHaveWindows, WindowIds, IdsAreOld
<1>4. OneCreation(c)' /\ FirstIsAnswer(c)'
  BY <1>1, ProtocolFacts
     DEF OneCreation, AtMostOne, None, Asking, Asked, Answering, AnswerIsIn, FirstIsAnswer
<1>5. ServerAssertionsHold'
  <2>1. opening.owner \in Clients
    BY WindowsFacts DEF OpeningHasNoFocus, Window
  <2>2. Head(outbox)[1] \in Clients
    BY OutboxFacts
  <2>3. Head(outbox)[1] = c /\ opening.owner = c
    BY <2>1, <2>2
  <2> QED
    BY <1>1, <2>3 DEF ServerAssertionsHold, Found
<1>6. ClientAssertionsHold'
  BY <1>1 DEF ClientAssertionsHold, Found
<1> QED
  BY <1>2, <1>3, <1>4, <1>5, <1>6 DEF Protocol

\* Nothing is left to send.
LEMMA NothingLeft ==
    ASSUME opening' = NoWindow => outbox' = <<>>
    PROVE  EventsOnly'
<1>1. CASE outbox' = <<>>
  BY <1>1 DEF EventsOnly
<1>2. CASE opening' # NoWindow
  BY <1>2 DEF EventsOnly
<1> QED
  BY <1>1, <1>2

\* An answer or event is sent.
LEMMA SendGoes ==
    ASSUME WindowsInv, NEW c \in Clients, Clients = {c}, Protocol(c),
           pc[Server] = "send", life[Server] = "alive",
           UNCHANGED <<drag, guid, from, mine, life>>,
           \/ life[c] = "alive" /\ Put(c, Head(outbox)[2])
           \/ life[c] # "alive" /\ UNCHANGED inbox,
           outbox' = Tail(outbox),
           pc'[Server] \in {"send", "block"}, \A d \in Clients : pc'[d] = pc[d],
           WindowIds \subseteq WindowIds',
           opening' = IF Len(outbox) = 1 THEN NoWindow ELSE opening,
           opening # NoWindow /\ Len(outbox) = 1 => WindowIds' = WindowIds \cup {opening.id},
           opening = NoWindow \/ Len(outbox) # 1 => UNCHANGED windows
    PROVE  Protocol(c)'
<1> DEFINE m == Head(outbox)[2]
<1>0. /\ outbox \in Seq(Clients \X Answer) /\ outbox # <<>> /\ m \in Answer
      /\ outbox' \in Seq(Clients \X Answer)
  BY WindowsFacts, OutboxFacts DEF ServerTypes
<1>1. \/ /\ opening # NoWindow /\ outbox = AnswerOf(opening)
         /\ m.kind = "CreateWindowResponse" /\ Len(outbox) # 1
         /\ outbox' # <<>> /\ Head(outbox')[2].kind = "response"
      \/ /\ opening # NoWindow /\ outbox = Tail(AnswerOf(opening))
         /\ m.kind = "response" /\ m.arg = opening.id /\ outbox' = <<>> /\ Len(outbox) = 1
      \/ /\ opening = NoWindow /\ m.kind \in {"SendIOEvent", "io_event"}
         /\ \A i \in 1..Len(outbox') : outbox'[i][2].kind \in {"SendIOEvent", "io_event"}
         /\ outbox' # <<>> => Head(outbox')[2].kind \in {"SendIOEvent", "io_event"}
  BY SendFirst
<1>2. /\ inbox'[Server] = inbox[Server]
      /\ life[c] = "alive" => inbox'[c] = Append(inbox[c], m)
      /\ life[c] # "alive" => inbox'[c] = inbox[c]
  <2>1. CASE life[c] = "alive" /\ Put(c, m)
    BY <1>0, <2>1, ProtocolFacts, WindowsFacts, PutKeeps
  <2>2. CASE life[c] # "alive" /\ UNCHANGED inbox
    BY <2>2
  <2> QED
    BY <2>1, <2>2
<1>3. inbox[c] \in Seq(Answer)
  BY ProtocolFacts
<1>4. ~Answering'
  BY <1>1 DEF Answering
<1>5. Answering <=> m.kind = "CreateWindowResponse"
  BY <1>0 DEF Answering
<1>6. /\ Fits(NextSent(outbox), m) /\ After(m) = NextSent(outbox') /\ WholeMessages(outbox')
  BY <1>0, ProtocolFacts, OutboxStep
<1> HIDE DEF m
<1>7. Alternating(c)'
  <2>1. ServerReads' = ServerReads /\ ClientWrites(c)' = ClientWrites(c) /\ ClientReads(c)' = ClientReads(c)
    BY DEF ServerReads, ClientWrites, ClientReads
  <2>2. ASSUME life[c] = "alive"
        PROVE  Linked(inbox'[c], ClientReads(c), NextSent(outbox'))
    <3>1. Linked(Append(inbox[c], m), ClientReads(c), After(m))
      BY <1>0, <1>3, <1>6, <2>2, ProtocolFacts, LinkAppend
    <3> QED
      BY <1>2, <1>6, <2>2, <3>1
  <2> QED
    BY <1>2, <1>6, <2>1, <2>2, ProtocolFacts DEF Alternating, ServerWrites
<1>8. Answered'
  <2>1. opening' # NoWindow => opening' = opening /\ outbox' = Tail(AnswerOf(opening))
    BY <1>1
  <2> QED
    BY <2>1 DEF Answered
<1>9. EventsOnly'
  <2>1. CASE opening = NoWindow
    BY <1>1, <2>1 DEF EventsOnly
  <2>2. CASE opening # NoWindow
    <3>1. Len(outbox) # 1 \/ outbox' = <<>>
      BY <1>1, <2>2
    <3>2. Len(outbox) # 1 => opening' = opening
      OBVIOUS
    <3>3. opening' = NoWindow => outbox' = <<>>
      BY <2>2, <3>1, <3>2
    <3> QED
      BY ONLY <3>3, NothingLeft
  <2> QED
    BY <2>1, <2>2
<1>10. IdsHaveWindows(c)'
  <2>1. AllIn(inbox'[Server], "window", WindowIds')
    BY <1>2, ProtocolFacts DEF IdsHaveWindows, AllIn
  <2>2. AllIn(inbox'[c], "response", WindowIds')
    <3>1. AllIn(inbox[c], "response", WindowIds)
      BY ProtocolFacts DEF IdsHaveWindows
    <3>2. CASE life[c] = "alive"
      <4>1. m.kind = "response" => m.arg = opening.id /\ opening # NoWindow /\ Len(outbox) = 1
        BY <1>1
      <4>2. m.kind = "response" => m.arg \in WindowIds'
        BY <4>1
      <4>3. AllIn(Append(inbox[c], m), "response", WindowIds')
        BY <1>0, <1>3, <3>1, <4>2, AllAppend
      <4> QED
        BY <1>2, <3>2, <4>3
    <3>3. CASE life[c] # "alive"
      BY <1>2, <3>1, <3>3 DEF AllIn
    <3> QED
      BY <3>2, <3>3
  <2>3. /\ life'[c] = "alive" => \A i \in 1..Len(mine'[c]) : mine'[c][i] \in WindowIds'
        /\ drag' # Normal => drag' \in WindowIds'
    BY ProtocolFacts DEF IdsHaveWindows
  <2> QED
    BY <2>1, <2>2, <2>3 DEF IdsHaveWindows
<1>11. IdsAreOld'
  <2>1. CASE opening # NoWindow /\ Len(outbox) = 1
    <3>1. WindowIds' = WindowIds \cup {opening.id} /\ opening' = NoWindow
      BY <2>1
    <3> QED
      BY <2>1, <3>1, ProtocolFacts DEF IdsAreOld
  <2>2. CASE opening = NoWindow \/ Len(outbox) # 1
    <3>1. WindowIds' = WindowIds
      BY <2>2 DEF WindowIds
    <3>2. opening' # NoWindow => opening' = opening
      OBVIOUS
    <3> QED
      BY <3>1, <3>2, ProtocolFacts DEF IdsAreOld
  <2> QED
    BY <2>1, <2>2
<1>12. OneCreation(c)'
  <2>1. SUFFICES ASSUME life[c] = "alive" PROVE OneCreation(c)'
    BY DEF OneCreation
  <2>2. inbox'[c] = Append(inbox[c], m)
    BY <1>2, <2>1
  <2>3. AnswerIsIn(c)' <=> AnswerIsIn(c) \/ Answering
    <3>1. None(Append(inbox[c], m), "CreateWindowResponse")
             <=> None(inbox[c], "CreateWindowResponse") /\ m.kind # "CreateWindowResponse"
      BY <1>0, <1>3, NoneAppend
    <3>2. AnswerIsIn(c)' <=> ~None(Append(inbox[c], m), "CreateWindowResponse")
      BY <2>2 DEF AnswerIsIn
    <3> QED
      BY <1>5, <3>1, <3>2 DEF AnswerIsIn
  <2>4. AtMostOne(inbox'[c], "CreateWindowResponse")
    <3>1. AtMostOne(inbox[c], "CreateWindowResponse")
      BY <2>1, ProtocolFacts DEF OneCreation
    <3>2. m.kind = "CreateWindowResponse" => None(inbox[c], "CreateWindowResponse")
      BY <1>5, <2>1, ProtocolFacts DEF OneCreation, AnswerIsIn
    <3>3. AtMostOne(Append(inbox[c], m), "CreateWindowResponse")
      BY <1>0, <1>3, <3>1, <3>2, OneAppend
    <3> QED
      BY <2>2, <3>3
  <2>5. (Asked' <=> Asked) /\ (Asking(c)' <=> Asking(c))
    BY <1>2 DEF Asked, Asking, None
  <2>6. AtMostOne(inbox'[Server], "CreateWindowRequest")
    BY <1>2, <2>1, ProtocolFacts DEF OneCreation
  <2> QED
    BY <1>4, <2>1, <2>3, <2>4, <2>5, <2>6, ProtocolFacts DEF OneCreation
<1>13. FirstIsAnswer(c)'
  <2>1. SUFFICES ASSUME life[c] = "alive", mine[c] = <<>>,
                        pc[c] \in {"create code", "create body", "response code"}
                 PROVE  inbox'[c] # <<>> /\ inbox'[c][1].kind = "CreateWindowResponse"
    BY DEF FirstIsAnswer
  <2>2. /\ inbox'[c] = Append(inbox[c], m) /\ Len(inbox'[c]) = Len(inbox[c]) + 1
        /\ Len(inbox[c]) \in Nat /\ inbox'[c][Len(inbox[c]) + 1] = m
        /\ \A i \in 1..Len(inbox[c]) : inbox'[c][i] = inbox[c][i]
    <3>1. m \in Answer /\ inbox[c] \in Seq(Answer) /\ inbox'[c] = Append(inbox[c], m)
      BY <1>0, <1>2, <1>3, <2>1
    <3> QED
      BY ONLY <3>1, AppendFacts
  <2>3. inbox'[c] # <<>>
    <3>1. Len(inbox'[c]) # 0 /\ Len(<<>>) = 0
      BY <2>2
    <3> QED
      BY <3>1
  <2>4. CASE inbox[c] = <<>> /\ (outbox = <<>> \/ Answering)
    <3>1. m.kind = "CreateWindowResponse"
      BY <1>0, <1>5, <2>4
    <3>2. Len(inbox[c]) = 0
      BY <2>4
    <3>3. inbox'[c][1] = m
      BY <2>2, <3>2
    <3> QED
      BY <2>3, <3>1, <3>3
  <2>5. CASE inbox[c] # <<>> /\ inbox[c][1].kind = "CreateWindowResponse"
    <3>1. Len(inbox[c]) \in Nat \ {0}
      BY <1>3, <2>5, EmptySeq
    <3>2. inbox'[c][1] = inbox[c][1]
      BY <2>2, <3>1
    <3> QED
      BY <2>5, <2>3, <3>2
  <2>6. FirstIsAnswer(c)
    BY ProtocolFacts
  <2>7. \/ inbox[c] = <<>> /\ (outbox = <<>> \/ Answering)
        \/ inbox[c] # <<>> /\ inbox[c][1].kind = "CreateWindowResponse"
    BY <2>1, <2>6 DEF FirstIsAnswer
  <2> QED
    BY <2>3, <2>4, <2>5, <2>7
<1>14. ServerAssertionsHold' /\ ClientAssertionsHold'
  BY AssertionsKept
<1> QED
  BY <1>7, <1>8, <1>9, <1>10, <1>11, <1>12, <1>13, <1>14 DEF Protocol

\* A send of the server.
LEMMA SendProtocol ==
    ASSUME WindowsInv, NEW c \in Clients, Clients = {c}, Protocol(c), Send
    PROVE  Protocol(c)'
<1> DEFINE to == Head(outbox)[1]
<1>0. /\ pc[Server] = "send" /\ life[Server] = "alive" /\ UNCHANGED <<drag, guid, from, mine>>
  BY SendCases
<1>1. to = c
  BY <1>0, OutboxFacts
<1>2. CASE /\ opening # NoWindow /\ ~Found(to) /\ Fail(Server)
           /\ UNCHANGED <<inbox, windows, focus, opening, outbox>>
  BY <1>0, <1>2, SendFails
<1>3. CASE /\ \/ Found(to) /\ Put(to, Head(outbox)[2])
              \/ ~Found(to) /\ opening = NoWindow /\ UNCHANGED inbox
           /\ outbox' = Tail(outbox)
           /\ UNCHANGED life
           /\ \/ Len(outbox) # 1 /\ Goto(Server, "send") /\ UNCHANGED <<windows, focus, opening>>
              \/ /\ Len(outbox) = 1 /\ Goto(Server, "block") /\ opening = NoWindow
                 /\ UNCHANGED <<windows, focus, opening>>
              \/ /\ Len(outbox) = 1 /\ Goto(Server, "block") /\ opening # NoWindow
                 /\ windows' = set_focused_window(
                        [windows |-> Append(windows, opening), focus |-> focus],
                        Len(windows) + 1).windows
                 /\ focus' = Len(windows) + 1 /\ opening' = NoWindow
  <2>1. \/ life[c] = "alive" /\ Put(c, Head(outbox)[2])
        \/ life[c] # "alive" /\ UNCHANGED inbox
    BY <1>1, <1>3 DEF Found
  <2>2. pc'[Server] \in {"send", "block"} /\ \A d \in Clients : pc'[d] = pc[d]
    BY <1>3, WindowsFacts, ServerGoes DEF ServerPlaces
  <2>3. /\ opening' = IF Len(outbox) = 1 THEN NoWindow ELSE opening
        /\ opening = NoWindow \/ Len(outbox) # 1 => UNCHANGED windows
    BY <1>3
  <2>4. opening # NoWindow /\ Len(outbox) = 1 => WindowIds' = WindowIds \cup {opening.id}
    <3>1. SUFFICES ASSUME opening # NoWindow, Len(outbox) = 1
                   PROVE  WindowIds' = WindowIds \cup {opening.id}
      OBVIOUS
    <3>2. opening \in Window /\ opening.focused = FALSE
      BY <3>1, WindowsFacts DEF OpeningHasNoFocus
    <3>3. /\ windows' = set_focused_window(
                 [windows |-> Append(windows, opening), focus |-> focus], Len(windows) + 1).windows
          /\ focus' = Len(windows) + 1
      BY <1>3, <3>1
    <3>4. /\ Len(windows') = Len(windows) + 1
          /\ \A i \in 1..Len(windows) : windows'[i].id = windows[i].id
          /\ windows'[Len(windows) + 1].id = opening.id
      BY <3>2, <3>3, WindowOpened
    <3>5. Len(windows) \in Nat
      BY WindowsFacts DEF ServerTypes
    <3> DEFINE n == Len(windows)
    <3>6. /\ \A i \in 1..(n + 1) : i \in 1..n \/ i = n + 1
          /\ n + 1 \in 1..(n + 1) /\ \A i \in 1..n : i \in 1..(n + 1)
      BY <3>5
    <3> QED
      BY <3>4, <3>6 DEF WindowIds
  <2>5. WindowIds \subseteq WindowIds'
    <3>1. CASE opening # NoWindow /\ Len(outbox) = 1
      BY <2>4, <3>1
    <3>2. CASE opening = NoWindow \/ Len(outbox) # 1
      BY <2>3, <3>2 DEF WindowIds
    <3> QED
      BY <3>1, <3>2
  <2> QED
    BY <1>0, <1>3, <2>1, <2>2, <2>3, <2>4, <2>5, SendGoes
<1> QED
  BY <1>2, <1>3, SendCases

\* While its one client is alive the server has not ended.
LEMMA ServerIsThere ==
    ASSUME WindowsInv, NEW c \in Clients, Clients = {c}, Protocol(c), life[c] = "alive"
    PROVE  life[Server] # "asserted"
<1>1. SUFFICES ASSUME life[Server] = "asserted" PROVE FALSE
  OBVIOUS
<1>2. opening # NoWindow /\ life[opening.owner] # "alive"
  BY <1>1, ProtocolFacts DEF ServerAssertionsHold
<1>3. opening.owner \in Clients
  BY <1>2, WindowsFacts DEF OpeningHasNoFocus, Window
<1> QED
  BY <1>2, <1>3

\* The client asserts as the server has ended, or has read another window's event.
LEMMA ClientFails ==
    ASSUME WindowsInv, NEW c \in Clients, Clients = {c}, Protocol(c), life[c] = "alive", Fail(c),
           UNCHANGED <<server, mine>>, inbox'[Server] = inbox[Server],
           AllIn(inbox[c], "response", WindowIds) => AllIn(inbox'[c], "response", WindowIds),
           ~Found(Server) \/ (pc[c] = "response code" /\ mine[c] # <<>>)
    PROVE  Protocol(c)'
<1>1. pc' = pc /\ life'[c] = "asserted" /\ life'[Server] = life[Server]
  <2>1. c \in Procs /\ c # Server /\ Server \in Procs
    BY ProtocolFacts
  <2> QED
    BY <2>1, WindowsFacts, FailKeeps
<1>2. UNCHANGED <<windows, focus, drag, guid, from, opening, outbox>>
  BY DEF server
<1>3. Alternating(c)'
  BY <1>1, <1>2, ProtocolFacts DEF Alternating, ServerWrites, ServerReads, ClientWrites
<1>4. Answered' /\ EventsOnly' /\ IdsAreOld'
  BY <1>2, ProtocolFacts DEF Answered, AnswerOf, EventsOnly, WindowIds, IdsAreOld
<1>5. IdsHaveWindows(c)'
  <2>1. WindowIds' = WindowIds
    BY <1>2 DEF WindowIds
  <2> QED
    BY <1>1, <1>2, <2>1, ProtocolFacts DEF IdsHaveWindows
<1>6. OneCreation(c)' /\ FirstIsAnswer(c)'
  BY <1>1 DEF OneCreation, FirstIsAnswer
<1>7. ServerAssertionsHold'
  BY <1>1, ServerIsThere DEF ServerAssertionsHold
<1>8. ClientAssertionsHold'
  BY <1>1 DEF ClientAssertionsHold, Found
<1> QED
  BY <1>3, <1>4, <1>5, <1>6, <1>7, <1>8 DEF Protocol

\* One of the two sends of a request.
LEMMA ClientSendProtocol ==
    ASSUME WindowsInv, NEW c \in Clients, Clients = {c}, Protocol(c), life[c] = "alive",
           NEW kind, NEW arg \in Nat, NEW next, ClientSend(c, kind, arg, next), UNCHANGED mine,
           \/ pc[c] = "create code" /\ kind = "CreateWindowRequest" /\ next = "create body"
           \/ pc[c] = "create body" /\ kind = "request" /\ next = "response code"
           \/ pc[c] = "draw code" /\ kind = "DrawWindow" /\ next = "draw body"
           \/ pc[c] = "draw body" /\ kind = "window" /\ arg \in WindowIds /\ next = "idle"
    PROVE  Protocol(c)'
<1> DEFINE m == Msg(c, kind, arg)
<1>0. UNCHANGED server /\ UNCHANGED <<windows, focus, drag, guid, from, opening, outbox>>
  BY DEF ClientSend, server
<1>1. CASE ~Found(Server)
  <2>1. Fail(c) /\ UNCHANGED inbox
    BY <1>1 DEF ClientSend
  <2> QED
    BY <1>0, <1>1, <2>1, ClientFails
<1>2. CASE Found(Server)
  <2>1. Put(Server, m) /\ Goto(c, next) /\ UNCHANGED life
    BY <1>2 DEF ClientSend
  <2>2. m \in Request /\ m.kind = kind /\ m.arg = arg
    <3>1. kind \in Requests
      BY DEF Requests
    <3> QED
      BY <3>1 DEF Msg, Request
  <2>3. pc'[c] = next /\ pc'[Server] = pc[Server]
    <3>1. next \in ClientPlaces
      BY DEF ClientPlaces, Opened
    <3> QED
      BY <2>1, <3>1, WindowsFacts, ClientGoes
  <2>4. inbox'[Server] = Append(inbox[Server], m) /\ inbox'[c] = inbox[c]
    <3>1. c \in Procs /\ c # Server /\ Server \in Procs
      BY ProtocolFacts
    <3> QED
      BY <2>1, <2>2, <3>1, WindowsFacts, PutKeeps
  <2> HIDE DEF m
  <2>5. inbox[Server] \in Seq(Request)
    BY ProtocolFacts
  <2>6. Alternating(c)'
    <3>1. Fits(ClientWrites(c), m)
      BY <2>2 DEF Fits, ClientWrites, Codes
    <3>2. After(m) = ClientWrites(c)'
      BY <2>2, <2>3 DEF After, ClientWrites, Codes, BodyOf
    <3>3. Linked(Append(inbox[Server], m), ServerReads, After(m))
      BY <2>2, <2>5, <3>1, ProtocolFacts, LinkAppend
    <3>4. ServerReads' = ServerReads /\ ClientReads(c)' = ClientReads(c)
      BY <2>3 DEF ServerReads, ClientReads
    <3> QED
      BY <1>0, <2>1, <2>4, <3>2, <3>3, <3>4, ProtocolFacts DEF Alternating, ServerWrites
  <2>7. Answered' /\ EventsOnly' /\ IdsAreOld'
    BY <1>0, ProtocolFacts DEF Answered, AnswerOf, EventsOnly, WindowIds, IdsAreOld
  <2>8. IdsHaveWindows(c)'
    <3>1. WindowIds' = WindowIds
      BY <1>0 DEF WindowIds
    <3>2. AllIn(inbox[Server], "window", WindowIds) /\ (m.kind = "window" => m.arg \in WindowIds)
      BY <2>2, ProtocolFacts DEF IdsHaveWindows
    <3>3. AllIn(Append(inbox[Server], m), "window", WindowIds)
      BY <2>2, <2>5, <3>2, AllAppend
    <3> QED
      BY <1>0, <2>1, <2>4, <3>1, <3>3, ProtocolFacts DEF IdsHaveWindows
  <2>9. OneCreation(c)'
    <3>1. /\ Answering' <=> Answering
          /\ AnswerIsIn(c)' <=> AnswerIsIn(c)
      BY <1>0, <2>4 DEF Answering, AnswerIsIn, None
    <3>2. Asked' <=> Asked \/ kind = "CreateWindowRequest"
      <4>1. None(Append(inbox[Server], m), "CreateWindowRequest")
               <=> None(inbox[Server], "CreateWindowRequest") /\ m.kind # "CreateWindowRequest"
        BY <2>2, <2>5, NoneAppend
      <4>2. Asked' <=> ~None(Append(inbox[Server], m), "CreateWindowRequest")
        BY <2>4 DEF Asked
      <4> QED
        BY <2>2, <4>1, <4>2 DEF Asked
    <3>3. kind = "CreateWindowRequest" =>
             ~Asked /\ pc[Server] # "request" /\ ~Answering /\ ~AnswerIsIn(c)
      BY ProtocolFacts DEF OneCreation, Asking
    <3>4. /\ AtMostOne(inbox'[Server], "CreateWindowRequest")
          /\ AtMostOne(inbox'[c], "CreateWindowResponse")
      <4>1. /\ AtMostOne(inbox[Server], "CreateWindowRequest")
            /\ AtMostOne(inbox[c], "CreateWindowResponse")
        BY ProtocolFacts DEF OneCreation
      <4>2. m.kind = "CreateWindowRequest" => None(inbox[Server], "CreateWindowRequest")
        BY <2>2, <3>3 DEF Asked
      <4>3. AtMostOne(Append(inbox[Server], m), "CreateWindowRequest")
        BY <2>2, <2>5, <4>1, <4>2, OneAppend
      <4> QED
        BY <2>4, <4>1, <4>3
    <3>5. (kind # "CreateWindowRequest" => (Asking(c)' <=> Asking(c)))
          /\ (kind = "CreateWindowRequest" => Asking(c)')
      BY <2>3 DEF Asking
    <3> QED
      BY <2>3, <3>1, <3>2, <3>3, <3>4, <3>5, ProtocolFacts DEF OneCreation
  <2>10. FirstIsAnswer(c)'
    <3>1. pc'[c] \in {"create code", "create body", "response code"}
             => pc[c] \in {"create code", "create body", "response code"}
      BY <2>3
    <3> QED
      BY <1>0, <2>1, <2>4, <3>1, ProtocolFacts DEF FirstIsAnswer, Answering
  <2>11. ServerAssertionsHold' /\ ClientAssertionsHold'
    BY <2>1, ServerIsThere DEF ServerAssertionsHold, ClientAssertionsHold
  <2> QED
    BY <2>6, <2>7, <2>8, <2>9, <2>10, <2>11 DEF Protocol
<1> QED
  BY <1>1, <1>2

\* One of the two receives of an answer or event.
LEMMA ClientRecvProtocol ==
    ASSUME WindowsInv, NEW c \in Clients, Clients = {c}, Protocol(c), life[c] = "alive",
           NEW kind, NEW next, ClientRecv(c, kind, next),
           \/ /\ pc[c] = "response code" /\ kind = "CreateWindowResponse" /\ next = "response body"
              /\ UNCHANGED mine
           \/ /\ pc[c] = "response body" /\ kind = "response" /\ next = "draw code"
              /\ mine'[c] = Append(mine[c], Head(inbox[c]).arg)
           \/ /\ pc[c] = "idle" /\ kind = "SendIOEvent" /\ next = "event body"
              /\ UNCHANGED mine
           \/ /\ pc[c] = "event body" /\ kind = "io_event" /\ next = "draw code"
              /\ UNCHANGED mine
    PROVE  Protocol(c)'
<1> DEFINE q == inbox[c]
           m == Head(q)
<1>0. /\ UNCHANGED <<windows, focus, drag, guid, from, opening, outbox>> /\ UNCHANGED server
      /\ Pending(c) /\ Pop(c) /\ q # <<>>
      /\ c \in Procs /\ c # Server /\ Server \in Procs
  BY ProtocolFacts DEF ClientRecv, server, Pending
<1>1. q \in Seq(Answer) /\ Linked(q, ClientReads(c), NextSent(outbox)) /\ m \in Answer
  BY <1>0, ProtocolFacts, TailFacts
<1>2. Fits(ClientReads(c), m)
  BY <1>0, <1>1, LinkHead
<1>3. inbox'[c] = Tail(q) /\ inbox'[Server] = inbox[Server]
  BY <1>0, WindowsFacts, PopKeeps
<1>4. m.from = Server /\ m.kind \in Answers /\ m.arg \in Nat
  BY <1>1 DEF Answer
<1> HIDE DEF q, m
<1>5. m.kind = kind \/ (pc[c] = "response code" /\ m.kind = "SendIOEvent")
  <2>1. CASE pc[c] = "response code"
    BY <1>2, <1>4, <2>1 DEF ClientReads, Fits, Codes, Answers
  <2>2. CASE pc[c] = "response body"
    BY <1>2, <2>2 DEF ClientReads, Fits
  <2>3. CASE pc[c] = "idle"
    <3>1. m.kind \in {"CreateWindowResponse", "SendIOEvent"}
      BY <1>2, <1>4, <2>3 DEF ClientReads, Fits, Codes, Answers
    <3>2. None(q, "CreateWindowResponse")
      BY <2>3, ProtocolFacts DEF OneCreation, Asking, AnswerIsIn, q
    <3>3. m.kind # "CreateWindowResponse"
      BY <1>0, <1>1, <3>2, NoneTail DEF m
    <3> QED
      BY <2>3, <3>1, <3>3
  <2>4. CASE pc[c] = "event body"
    BY <1>2, <2>4 DEF ClientReads, Fits
  <2> QED
    BY <2>1, <2>2, <2>3, <2>4
<1>6. /\ AllIn(q, "response", WindowIds) /\ AllIn(Tail(q), "response", WindowIds)
      /\ m.kind = "response" => m.arg \in WindowIds
  <2>1. AllIn(q, "response", WindowIds)
    BY ProtocolFacts DEF IdsHaveWindows, q
  <2> QED
    BY <1>0, <1>1, <2>1, AllTail DEF m
<1>7. CASE m.kind # kind
  <2>1. Fail(c)
    BY <1>7 DEF ClientRecv, m, q
  <2>2. pc[c] = "response code" /\ m.kind = "SendIOEvent" /\ UNCHANGED mine
    BY <1>5, <1>7
  <2>3. mine[c] # <<>>
    <3>1. SUFFICES ASSUME mine[c] = <<>> PROVE FALSE
      OBVIOUS
    <3>2. q[1].kind = "CreateWindowResponse"
      BY <1>0, <2>2, <3>1, ProtocolFacts DEF FirstIsAnswer, q
    <3>3. m = q[1]
      BY <1>0, <1>1, TailFacts DEF m
    <3> QED
      BY <2>2, <3>2, <3>3
  <2> QED
    BY <1>0, <1>3, <1>6, <2>1, <2>2, <2>3, ClientFails
<1>8. CASE m.kind = kind
  <2>1. Goto(c, next) /\ UNCHANGED life
    BY <1>4, <1>8 DEF ClientRecv, m, q
  <2>2. pc'[c] = next /\ pc'[Server] = pc[Server]
    <3>1. next \in ClientPlaces
      BY DEF ClientPlaces, Opened
    <3> QED
      BY <2>1, <3>1, WindowsFacts, ClientGoes
  <2>3. Alternating(c)'
    <3>1. Linked(Tail(q), After(m), NextSent(outbox))
      BY <1>0, <1>1, LinkTail DEF m
    <3>2. After(m) = ClientReads(c)'
      BY <1>8, <2>2 DEF After, ClientReads, Codes, BodyOf
    <3>3. ServerReads' = ServerReads /\ ClientWrites(c)' = ClientWrites(c)
      BY <2>2 DEF ServerReads, ClientWrites
    <3> QED
      BY <1>0, <1>3, <2>1, <3>1, <3>2, <3>3, ProtocolFacts DEF Alternating, ServerWrites
  <2>4. Answered' /\ EventsOnly' /\ IdsAreOld'
    BY <1>0, ProtocolFacts DEF Answered, AnswerOf, EventsOnly, WindowIds, IdsAreOld
  <2>5. IdsHaveWindows(c)'
    <3>1. WindowIds' = WindowIds
      BY <1>0 DEF WindowIds
    <3>2. \A i \in 1..Len(mine[c]) : mine[c][i] \in WindowIds
      BY ProtocolFacts DEF IdsHaveWindows
    <3>3. \A i \in 1..Len(mine'[c]) : mine'[c][i] \in WindowIds
      <4>1. CASE UNCHANGED mine
        BY <3>2, <4>1
      <4>2. CASE kind = "response" /\ mine'[c] = Append(mine[c], m.arg)
        <5>1. mine[c] \in Seq(Nat) /\ m.arg \in WindowIds /\ m.arg \in Nat
          BY <1>4, <1>6, <1>8, <4>2, WindowsFacts DEF MineTypes
        <5>2. /\ Len(mine'[c]) = Len(mine[c]) + 1 /\ Len(mine[c]) \in Nat
              /\ mine'[c][Len(mine[c]) + 1] = m.arg
              /\ \A i \in 1..Len(mine[c]) : mine'[c][i] = mine[c][i]
          <6>1. mine[c] \in Seq(Nat) /\ m.arg \in Nat /\ mine'[c] = Append(mine[c], m.arg)
            BY <4>2, <5>1
          <6> QED
            BY ONLY <6>1, AppendFacts
        <5>3. \A i \in 1..Len(mine'[c]) : i \in 1..Len(mine[c]) \/ i = Len(mine[c]) + 1
          BY ONLY <5>2
        <5> QED
          BY <3>2, <5>1, <5>2, <5>3
      <4> QED
        BY <4>1, <4>2 DEF m, q
    <3> QED
      BY <1>0, <1>3, <1>6, <3>1, <3>3, ProtocolFacts DEF IdsHaveWindows
  <2>6. OneCreation(c)'
    <3>1. /\ Answering' <=> Answering
          /\ Asked' <=> Asked
      BY <1>0, <1>3 DEF Answering, Asked, None
    <3>2. /\ AtMostOne(inbox[Server], "CreateWindowRequest") /\ AtMostOne(q, "CreateWindowResponse")
      BY ProtocolFacts DEF OneCreation, q
    <3>3. /\ AtMostOne(inbox'[Server], "CreateWindowRequest")
          /\ AtMostOne(inbox'[c], "CreateWindowResponse")
          /\ kind = "CreateWindowResponse" => None(Tail(q), "CreateWindowResponse")
      BY <1>0, <1>1, <1>3, <1>8, <3>2, OneTail DEF m
    <3>4. None(q, "CreateWindowResponse")
             <=> None(Tail(q), "CreateWindowResponse") /\ kind # "CreateWindowResponse"
      BY <1>0, <1>1, <1>8, NoneTail DEF m
    <3>5. /\ AnswerIsIn(c) <=> ~None(q, "CreateWindowResponse")
          /\ AnswerIsIn(c)' <=> ~None(Tail(q), "CreateWindowResponse")
      BY <1>3 DEF AnswerIsIn, q
    <3>6. CASE kind = "CreateWindowResponse"
      <4>1. AnswerIsIn(c) /\ ~AnswerIsIn(c)'
        BY <3>3, <3>4, <3>5, <3>6
      <4>2. ~Asked /\ pc[Server] # "request" /\ ~Answering
        BY <4>1, ProtocolFacts DEF OneCreation
      <4> QED
        BY <2>2, <3>1, <3>3, <4>1, <4>2 DEF OneCreation
    <3>7. CASE kind # "CreateWindowResponse"
      <4>1. AnswerIsIn(c)' <=> AnswerIsIn(c)
        BY <3>4, <3>5, <3>7
      <4>2. ~Asking(c) /\ ~Asking(c)'
        BY <2>2, <3>7 DEF Asking
      <4> QED
        BY <2>1, <2>2, <3>1, <3>3, <4>1, <4>2, ProtocolFacts DEF OneCreation
    <3> QED
      BY <3>6, <3>7
  <2>7. FirstIsAnswer(c)'
    BY <2>2 DEF FirstIsAnswer
  <2>8. ServerAssertionsHold' /\ ClientAssertionsHold'
    BY <2>1, ServerIsThere DEF ServerAssertionsHold, ClientAssertionsHold
  <2> QED
    BY <2>3, <2>4, <2>5, <2>6, <2>7, <2>8 DEF Protocol
<1> QED
  BY <1>7, <1>8

\* The steps of a client that take or send a message.
LEMMA ClientProtocol ==
    ASSUME WindowsInv, NEW c \in Clients, Clients = {c}, Protocol(c), ClientStep(c)
    PROVE  Protocol(c)'
<1>1. CASE CreateSend(c)
  <2>1. UNCHANGED mine
    BY <1>1 DEF CreateSend, client
  <2>2. CASE At(c, "create code") /\ ClientSend(c, "CreateWindowRequest", 0, "create body")
    <3>1. pc[c] = "create code" /\ life[c] = "alive" /\ 0 \in Nat
      BY <2>2 DEF At
    <3> QED
      BY <2>1, <2>2, <3>1, ClientSendProtocol
  <2>3. CASE At(c, "create body") /\ ClientSend(c, "request", 0, "response code")
    <3>1. pc[c] = "create body" /\ life[c] = "alive" /\ 0 \in Nat
      BY <2>3 DEF At
    <3> QED
      BY <2>1, <2>3, <3>1, ClientSendProtocol
  <2> QED
    BY <1>1, <2>2, <2>3 DEF CreateSend
<1>2. CASE CreateRecv(c)
  <2>1. CASE /\ At(c, "response code") /\ UNCHANGED client
             /\ ClientRecv(c, "CreateWindowResponse", "response body")
    <3>1. pc[c] = "response code" /\ life[c] = "alive" /\ UNCHANGED mine
      BY <2>1 DEF At, client
    <3> QED
      BY <2>1, <3>1, ClientRecvProtocol
  <2>2. CASE /\ At(c, "response body") /\ ClientRecv(c, "response", "draw code")
             /\ mine' = [mine EXCEPT ![c] = Append(@, Head(inbox[c]).arg)]
    <3>1. pc[c] = "response body" /\ life[c] = "alive"
      BY <2>2 DEF At
    <3>2. mine'[c] = Append(mine[c], Head(inbox[c]).arg)
      BY <2>2, WindowsFacts DEF MineTypes
    <3> QED
      BY <2>2, <3>1, <3>2, ClientRecvProtocol
  <2> QED
    BY <1>2, <2>1, <2>2 DEF CreateRecv
<1>3. CASE Draw(c)
  <2>1. UNCHANGED mine
    BY <1>3 DEF Draw, client
  <2>2. CASE At(c, "draw code") /\ ClientSend(c, "DrawWindow", 0, "draw body")
    <3>1. pc[c] = "draw code" /\ life[c] = "alive" /\ 0 \in Nat
      BY <2>2 DEF At
    <3> QED
      BY <2>1, <2>2, <3>1, ClientSendProtocol
  <2>3. CASE At(c, "draw body") /\ ClientSend(c, "window", Last(mine[c]), "idle")
    <3>1. pc[c] = "draw body" /\ life[c] = "alive"
      BY <2>3 DEF At
    <3>2. mine[c] \in Seq(Nat) /\ mine[c] # <<>>
      BY <3>1, WindowsFacts DEF MineTypes, DrawsItsOwn, Opened
    <3>3. Len(mine[c]) \in 1..Len(mine[c]) /\ Last(mine[c]) = mine[c][Len(mine[c])]
      BY <3>2, EmptySeq DEF Last
    <3>4. Last(mine[c]) \in Nat
      BY <3>2, <3>3, ElementOfSeq
    <3>5. Last(mine[c]) \in WindowIds
      BY <3>1, <3>3, ProtocolFacts DEF IdsHaveWindows
    <3> QED
      BY <2>1, <2>3, <3>1, <3>4, <3>5, ClientSendProtocol
  <2> QED
    BY <1>3, <2>2, <2>3 DEF Draw
<1>4. CASE GetEvent(c)
  <2>1. UNCHANGED mine
    BY <1>4 DEF GetEvent, client
  <2>2. CASE At(c, "idle") /\ ClientRecv(c, "SendIOEvent", "event body")
    <3>1. pc[c] = "idle" /\ life[c] = "alive"
      BY <2>2 DEF At
    <3> QED
      BY <2>1, <2>2, <3>1, ClientRecvProtocol
  <2>3. CASE At(c, "event body") /\ ClientRecv(c, "io_event", "draw code")
    <3>1. pc[c] = "event body" /\ life[c] = "alive"
      BY <2>3 DEF At
    <3> QED
      BY <2>1, <2>3, <3>1, ClientRecvProtocol
  <2> QED
    BY <1>4, <2>2, <2>3 DEF GetEvent
<1> QED
  BY <1>1, <1>2, <1>3, <1>4 DEF ClientStep

\* A program draws or opens a window on its own account.
LEMMA OwnAccountProtocol ==
    ASSUME WindowsInv, NEW c \in Clients, Clients = {c}, Protocol(c), OwnAccount(c)
    PROVE  Protocol(c)'
<1>0. /\ pc[c] = "idle" /\ UNCHANGED <<inbox, life, mine>> /\ UNCHANGED server
      /\ UNCHANGED <<windows, drag, guid, opening, outbox>>
      /\ mine[c] # <<>>
  <2>1. pc[c] = "idle" /\ UNCHANGED <<inbox, life, mine>> /\ UNCHANGED server
    BY DEF OwnAccount, At
  <2> QED
    BY <2>1, WindowsFacts DEF server, DrawsItsOwn, Opened
<1>1. PICK l \in {"draw code", "create code"} : Goto(c, l)
  BY DEF OwnAccount
<1>2. pc'[c] = l /\ pc'[Server] = pc[Server]
  BY <1>1, WindowsFacts, ClientGoes DEF ClientPlaces, Opened
<1>3. /\ ServerReads' = ServerReads /\ ClientWrites(c)' = ClientWrites(c)
      /\ ClientReads(c)' = ClientReads(c)
  BY <1>0, <1>1, <1>2 DEF ServerReads, ClientWrites, ClientReads
<1>4. Alternating(c)'
  BY <1>0, <1>3, ProtocolFacts DEF Alternating, ServerWrites
<1>5. Answered' /\ EventsOnly' /\ IdsHaveWindows(c)' /\ IdsAreOld'
  BY <1>0, ProtocolFacts DEF Answered, AnswerOf, EventsOnly, IdsHaveWindows, WindowIds, IdsAreOld
<1>6. OneCreation(c)'
  <2>1. ~Asking(c) /\ ~Asking(c)'
    BY <1>0, <1>1, <1>2 DEF Asking
  <2>2. /\ Asked' <=> Asked
        /\ Answering' <=> Answering
        /\ AnswerIsIn(c)' <=> AnswerIsIn(c)
    BY <1>0 DEF Asked, Answering, AnswerIsIn, None
  <2> QED
    BY <1>0, <1>2, <2>1, <2>2, ProtocolFacts DEF OneCreation
<1>7. FirstIsAnswer(c)'
  BY <1>0 DEF FirstIsAnswer
<1>8. ServerAssertionsHold' /\ ClientAssertionsHold'
  <2>1. life[c] = "alive"
    BY DEF OwnAccount, At
  <2> QED
    BY <1>0, <2>1, ServerIsThere DEF ServerAssertionsHold, ClientAssertionsHold
<1> QED
  BY <1>4, <1>5, <1>6, <1>7, <1>8 DEF Protocol

\* A program that ends by a fault reads and answers nothing any more.
LEMMA DieProtocol ==
    ASSUME WindowsInv, NEW c \in Clients, Clients = {c}, Protocol(c), Die(c)
    PROVE  Protocol(c)'
<1>0. /\ UNCHANGED <<inbox, pc, mine, windows, drag, guid, opening, outbox>>
      /\ life'[c] = "died" /\ life'[Server] = life[Server] /\ life[c] = "alive"
  BY ProtocolFacts, WindowsFacts DEF Die, server, client, LifeTypes
<1>1. Alternating(c)'
  BY <1>0, ProtocolFacts DEF Alternating, ServerWrites, ServerReads, ClientWrites
<1>2. Answered' /\ EventsOnly' /\ IdsHaveWindows(c)' /\ IdsAreOld'
  BY <1>0, ProtocolFacts DEF Answered, AnswerOf, EventsOnly, IdsHaveWindows, WindowIds, IdsAreOld
<1>3. OneCreation(c)' /\ FirstIsAnswer(c)'
  BY <1>0 DEF OneCreation, FirstIsAnswer
<1>4. ServerAssertionsHold' /\ ClientAssertionsHold'
  BY <1>0, ServerIsThere DEF ServerAssertionsHold, ClientAssertionsHold
<1> QED
  BY <1>1, <1>2, <1>3, <1>4 DEF Protocol

\* The counter of ids only grows.
LEMMA IdsFittedBefore ==
    ASSUME WindowsInv, [Next]_vars, IdsFit'
    PROVE  IdsFit
<1>1. guid \in Nat /\ DragIds \in Nat
  BY WindowsFacts, WindowServerAssumption DEF ServerTypes
<1>2. guid' = guid \/ guid' = guid + 2
  <2>1. CASE ServerNext
    <3>1. CASE Unblock \/ DrawWindow
      BY <3>1 DEF Unblock, DrawWindow, server
    <3>2. CASE ReadCode \/ Send
      BY <3>2 DEF ReadCode, Send
    <3>3. CASE CreateWindow
      BY <3>3 DEF CreateWindow
    <3>4. CASE handle_pending_keyboard_event
      BY <3>4 DEF handle_pending_keyboard_event
    <3>5. CASE \E left \in BOOLEAN : handle_pending_mouse_event(left)
      BY <3>5 DEF handle_pending_mouse_event
    <3> QED
      BY <2>1, <3>1, <3>2, <3>3, <3>4, <3>5 DEF ServerNext
  <2>2. CASE \E c \in Clients : ClientStep(c) \/ OwnAccount(c) \/ Die(c)
    <3>1. PICK c \in Clients : ClientStep(c) \/ OwnAccount(c) \/ Die(c)
      BY <2>2
    <3>2. UNCHANGED server
      BY <3>1 DEF ClientStep, CreateSend, CreateRecv, Draw, GetEvent, ClientSend, ClientRecv,
                  OwnAccount, Die
    <3> QED
      BY <3>2 DEF server
  <2>3. CASE Input \/ UNCHANGED vars
    BY <2>3 DEF Input, vars, server
  <2> QED
    BY <2>1, <2>2, <2>3 DEF Next
<1> QED
  BY <1>1, <1>2 DEF IdsFit

\* Every step keeps the protocol.
LEMMA NextProtocol ==
    ASSUME WindowsInv, NEW c \in Clients, Clients = {c}, Protocol(c), IdsFit, [Next]_vars
    PROVE  Protocol(c)'
<1>1. CASE ServerNext
  BY <1>1, UnblockProtocol, ReadCodeProtocol, CreateWindowProtocol, SendProtocol,
     DrawWindowProtocol, KeyboardProtocol, MouseProtocol DEF ServerNext
<1>2. CASE \E d \in Clients : ClientStep(d) \/ OwnAccount(d) \/ Die(d)
  <2>1. ClientStep(c) \/ OwnAccount(c) \/ Die(c)
    BY <1>2
  <2> QED
    BY <2>1, ClientProtocol, OwnAccountProtocol, DieProtocol
<1>3. CASE Input \/ UNCHANGED vars
  <2>1. UNCHANGED <<inbox, life, pc, windows, drag, guid, opening, outbox, mine>>
    BY <1>3 DEF Input, vars, client, server
  <2>2. UNCHANGED <<pc[c], ServerReads>> /\ \A d \in Clients : pc'[d] = pc[d]
    BY <2>1 DEF ServerReads
  <2> QED
    BY <2>1, <2>2, ProtocolSame
<1> QED
  BY <1>1, <1>2, <1>3 DEF Next

\* The first states.
LEMMA InitProtocol ==
    ASSUME Init, NEW c \in Clients, Clients = {c}
    PROVE  Protocol(c)
<1>1. c # Server /\ c \in Procs /\ Server \in Procs
  BY WindowServerAssumption DEF Procs
<1>2. /\ inbox[Server] = <<>> /\ inbox[c] = <<>> /\ life[Server] = "alive" /\ life[c] = "alive"
      /\ pc[Server] = "block" /\ pc[c] = "create code" /\ mine[c] = <<>>
      /\ windows = <<>> /\ drag = Normal /\ opening = NoWindow /\ outbox = <<>>
  BY <1>1 DEF Init
<1>3. Alternating(c)
  <2>1. /\ ServerReads = "code" /\ ClientWrites(c) = "code" /\ ClientReads(c) = "code"
        /\ ServerWrites = "code"
    BY <1>2 DEF ServerReads, ClientWrites, ClientReads, ServerWrites, NextSent
  <2>2. Linked(<<>>, "code", "code") /\ WholeMessages(<<>>)
    BY DEF Linked, WholeMessages
  <2> QED
    BY <1>2, <2>1, <2>2 DEF Alternating
<1>4. Answered /\ EventsOnly /\ IdsAreOld
  <2>1. 1..Len(<<>>) = {}
    OBVIOUS
  <2>2. WindowIds = {}
    BY <1>2, <2>1 DEF WindowIds
  <2>3. EventsOnly
    BY <1>2, <2>1 DEF EventsOnly
  <2>4. Answered
    BY <1>2 DEF Answered
  <2>5. IdsAreOld
    BY <1>2, <2>2 DEF IdsAreOld
  <2> QED
    BY <2>3, <2>4, <2>5
<1>5. IdsHaveWindows(c)
  <2>1. \A kind : AllIn(<<>>, kind, WindowIds)
    BY DEF AllIn
  <2>2. \A i \in 1..Len(<<>>) : FALSE
    OBVIOUS
  <2>3. \A i \in 1..Len(mine[c]) : mine[c][i] \in WindowIds
    BY <1>2, <2>2
  <2> QED
    BY <1>2, <2>1, <2>3 DEF IdsHaveWindows
<1>6. OneCreation(c) /\ FirstIsAnswer(c)
  <2>1. \A kind : None(<<>>, kind) /\ AtMostOne(<<>>, kind)
    BY DEF None, AtMostOne
  <2>2. ~Asked /\ ~Answering /\ ~AnswerIsIn(c)
    BY <1>2, <2>1 DEF Asked, Answering, AnswerIsIn
  <2>3. OneCreation(c)
    BY <1>2, <2>1, <2>2 DEF OneCreation
  <2>4. FirstIsAnswer(c)
    BY <1>2 DEF FirstIsAnswer
  <2> QED
    BY <2>3, <2>4
<1>7. ServerAssertionsHold /\ ClientAssertionsHold
  BY <1>2 DEF ServerAssertionsHold, ClientAssertionsHold
<1> QED
  BY <1>3, <1>4, <1>5, <1>6, <1>7 DEF Protocol

\* Codes and bodies alternate both ways, ids have windows, and one creation
\* is on its way at a time, as long as the ids of windows fit 16 bits.
THEOREM ProtocolInvariance == OneClient /\ Spec => []ProtocolInv
<1>1. ASSUME OneClient, Init
      PROVE  ProtocolInv
  <2>1. PICK c : Clients = {c}
    BY <1>1 DEF OneClient
  <2>2. Protocol(c)
    BY <1>1, <2>1, InitProtocol
  <2> QED
    BY <1>1, <2>1, <2>2, InitWindows DEF ProtocolInv
<1>2. ASSUME OneClient, ProtocolInv, [Next]_vars
      PROVE  ProtocolInv'
  <2>1. PICK c : Clients = {c}
    BY <1>2 DEF OneClient
  <2>2. WindowsInv /\ WindowsInv'
    BY <1>2, NextWindows DEF ProtocolInv
  <2>3. ASSUME IdsFit' PROVE Protocol(c)'
    <3>1. IdsFit
      BY <1>2, <2>2, <2>3, IdsFittedBefore
    <3>2. Protocol(c)
      BY <1>2, <2>1, <3>1 DEF ProtocolInv
    <3> QED
      BY <1>2, <2>1, <2>2, <3>1, <3>2, NextProtocol
  <2> QED
    BY <2>1, <2>2, <2>3 DEF ProtocolInv
<1>3. OneClient' <=> OneClient
  BY DEF OneClient
<1>4. CASE OneClient
  <2>1. Init => ProtocolInv
    BY <1>1, <1>4
  <2>2. ProtocolInv /\ [Next]_vars => ProtocolInv'
    BY <1>2, <1>4
  <2> QED
    BY <2>1, <2>2, PTL DEF Spec
<1> QED
  BY <1>4

\* The assertions of the server hold with one client: the body it reads is the
\* one of the code it read, and what is drawn or dragged has a window.
THEOREM ServerAssertions == OneClient /\ Spec => [](IdsFit => ServerAssertionsHold)
<1>1. ASSUME OneClient, ProtocolInv, IdsFit
      PROVE  ServerAssertionsHold
  BY <1>1 DEF OneClient, ProtocolInv, Protocol
<1>2. CASE OneClient
  <2>1. ProtocolInv => (IdsFit => ServerAssertionsHold)
    BY <1>1, <1>2
  <2>2. Spec => []ProtocolInv
    BY <1>2, ProtocolInvariance
  <2> QED
    BY <2>1, <2>2, PTL
<1> QED
  BY <1>2

\* The assertions of the client hold: what it reads is what it waits for, but
\* for the event that may come before the answer of a further creation.
THEOREM ClientAssertions == OneClient /\ Spec => [](IdsFit => ClientAssertionsHold)
<1>1. ASSUME OneClient, ProtocolInv, IdsFit
      PROVE  ClientAssertionsHold
  BY <1>1 DEF OneClient, ProtocolInv, Protocol
<1>2. CASE OneClient
  <2>1. ProtocolInv => (IdsFit => ClientAssertionsHold)
    BY <1>1, <1>2
  <2>2. Spec => []ProtocolInv
    BY <1>2, ProtocolInvariance
  <2> QED
    BY <2>1, <2>2, PTL
<1> QED
  BY <1>2
=============================================================================
