---------------------------- MODULE NetworkProofs ----------------------------
(***************************************************************************)
(* Proofs about Network, for any number of echo requests, frames and send  *)
(* buffers.                                                                *)
(*                                                                         *)
(* A frame moves from the ring to m_rx_queue, to the hands of the task, to *)
(* the socket and to ping, and each step takes the first of one place to   *)
(* the end of the next, so the line of all of them stays as it is; a frame *)
(* that leaves the line is no echo reply.  Echo replies come only once an  *)
(* echo request was sent, and by then the socket is registered.            *)
(*                                                                         *)
(* The task is the only one that takes from m_rx_queue, and ping the only  *)
(* one that takes from its socket, so what a blocker has seen is still     *)
(* there under the lock.  That the task runs only when its blocker let it  *)
(* is a fact about the scheduler; here, unlike in SchedulerInv, the blocked*)
(* list may contain idle.                                                  *)
(***************************************************************************)
EXTENDS Network, SchedulerProofs, WellFoundedInduction

Kinds   == {"arp_reply", "arp_request", "echo", "other"}
Frame   == [kind : Kinds, n : Nat]
Holding == {"handle", "icmp", "sock", "append"}
Places  == Holding \cup
           {"loop", "wait", "lock", "pop", "arp", "sock_unlock", "unlock", "copy", "start", "next",
            "user", "register", "ready", "sent", "recv", "recv_lock", "take", "recv_unlock", "back",
            "done"}
Slots   == 0..(NUM_SEND_BUFFERS - 1)
Sends   == {"none", "arp_request", "arp_response", "echo_request"}

-----------------------------------------------------------------------------
(* The frames *)

DataTypes ==
    /\ ring \in Seq(Frame) /\ rx_queue \in Seq(Frame) /\ got \in Seq(Frame)
    /\ hand \in Frame \cup {NoFrame}
    /\ socket \in [registered : BOOLEAN, pending : Seq(Frame), lock : Pids \cup {NoProcess}]
    /\ arrived \in [frames : Nat, echoes : Nat, noise : Nat]
    /\ requested \in BOOLEAN
    /\ isr \in [process : Processes \cup {NoProcess}, locked : BOOLEAN]
    /\ tx_index \in Slots /\ tx_buf \in [Slots -> Sends]
    /\ sending \in [Pids -> [kind : Sends, buffer : Slots]]
    /\ pc \in [Pids -> Places]

\* A handler that sleeps has a frame to hand over.
HandlerHasFrame == isr # NoIsr => ring # <<>>

\* What the task holds between pop and the socket.
HandIsFrame ==
    /\ pc[Rx] \in Holding => hand \in Frame
    /\ pc[Rx] \in Holding \ {"handle"} => hand.kind = "echo"

\* No echo request is on its way before the socket is registered.
Registered ==
    socket.registered \/
        /\ ~requested /\ arrived.echoes = 0
        /\ pc[Ping] \in {"user", "register"}
        /\ \A i \in Slots : tx_buf[i] # "echo_request"
        /\ \A p \in Pids : sending[p].kind # "echo_request"

Asked == arrived.echoes # 0 => requested

Frames == DataTypes /\ HandlerHasFrame /\ HandIsFrame /\ Registered /\ Asked /\ RepliesInOrder

-----------------------------------------------------------------------------
(* The readers *)

\* What is left of SchedulerInv when idle may be in the blocked list: a
\* process that is blocked does not run and is not next to run.
SchedTypes ==
    /\ runnable \in Seq(Pids) /\ blocked \in Seq(Processes)
    /\ cursor \in Nat \ {0}
    /\ current \in Processes \cup {NoProcess}
    /\ state \in [Processes -> States]

RunnableOnce == IsInjective(runnable)

RunnableCanRun == \A p \in Pids : Contains(runnable, p) => state[p] = "Runnable"

CurrentRuns ==
    /\ phase = "unblock" => current = NoProcess
    /\ current \in Pids => state[current] = "Running"
    /\ current = Idle => runnable = <<>>
    /\ state[Idle] # "Blocked"

SchedPart == SchedTypes /\ RunnableOnce /\ RunnableCanRun /\ CurrentRuns

\* A reader past its blocker finds a packet.
RxHasPacket ==
    /\ pc[Rx] = "wait" => rx_queue # <<>> \/ (state[Rx] = "Blocked" /\ isr.process # Rx)
    /\ pc[Rx] \in {"lock", "pop"} => rx_queue # <<>>

PingHasPacket == pc[Ping] \in {"recv_lock", "take"} => socket.pending # <<>>

Readers == SchedPart /\ RxHasPacket /\ PingHasPacket /\ NetAssertionsHold

NetworkInv == Frames /\ Readers

-----------------------------------------------------------------------------
(* The line of the frames *)

\* A set of the numbers up to n that has 0 and with each the next has all of them.
LEMMA Counting ==
    ASSUME NEW n \in Nat, NEW T, 0 \in T, \A i \in 0..(n - 1) : i \in T => i + 1 \in T
    PROVE  \A i \in 0..n : i \in T
<1> DEFINE R == OpToRel(<, Nat)
           U == {i \in 0..n : i \notin T}
<1> SUFFICES ASSUME U # {} PROVE FALSE
  OBVIOUS
<1>1. PICK m \in U : \A y \in U : ~(<<y, m>> \in R)
  <2>1. IsWellFoundedOn(R, Nat)
    BY NatLessThanWellFounded
  <2>2. U \subseteq Nat
    OBVIOUS
  <2> HIDE DEF R, U
  <2> QED
    BY <2>1, <2>2, WFMin
<1>2. m \in 0..n /\ m # 0 /\ m \notin T
  BY <1>1
<1>3. m - 1 \in 0..(n - 1) /\ (m - 1) + 1 = m
  BY <1>2
<1>4. m - 1 \in U
  BY <1>2, <1>3
<1>5. <<m - 1, m>> \in R
  <2>1. <<m - 1, m>> \in Nat \X Nat /\ <<m - 1, m>>[1] < <<m - 1, m>>[2]
    BY <1>2, <1>3
  <2> QED
    BY <2>1 DEF OpToRel
<1> QED
  BY <1>1, <1>4, <1>5

\* The handler leaves all frames of the ring behind those of m_rx_queue.
LEMMA ReceiveAllIs ==
    ASSUME NEW S, NEW q \in Seq(S), NEW frames \in Seq(S)
    PROVE  ReceiveAll(q, frames) = q \o frames
<1> DEFINE n == Len(frames)
           Loop(g) == [i \in 0..n |-> IF i = 0 THEN q ELSE Append(g[i - 1], frames[i])]
           after == CHOOSE g : g = Loop(g)
           w == [i \in 0..n |-> q \o SubSeq(frames, 1, i)]
<1>0. n \in Nat
  OBVIOUS
<1>1. ASSUME NEW i \in 1..n
      PROVE  Append(q \o SubSeq(frames, 1, i - 1), frames[i]) = q \o SubSeq(frames, 1, i)
  OBVIOUS
<1>2. q \o SubSeq(frames, 1, 0) = q /\ SubSeq(frames, 1, n) = frames
  OBVIOUS
<1>3. w = Loop(w)
  <2>1. ASSUME NEW i \in 0..n
        PROVE  w[i] = IF i = 0 THEN q ELSE Append(w[i - 1], frames[i])
    <3>1. CASE i = 0
      BY <1>2, <3>1
    <3>2. CASE i # 0
      <4>1. i \in 1..n /\ i - 1 \in 0..n
        BY <1>0, <3>2
      <4>2. w[i - 1] = q \o SubSeq(frames, 1, i - 1) /\ w[i] = q \o SubSeq(frames, 1, i)
        BY <4>1
      <4> QED
        BY <1>1, <3>2, <4>1, <4>2
    <3> QED
      BY <3>1, <3>2
  <2> QED
    BY <2>1
<1>4. after = Loop(after)
  <2>1. \E g : g = Loop(g)
    BY <1>3
  <2> QED
    BY <2>1
<1>5. ReceiveAll(q, frames) = after[n]
  BY DEF ReceiveAll, Received
<1> HIDE DEF after
<1>6. \A i \in 0..n : after[i] = w[i]
  <2> DEFINE T == {i \in 0..n : after[i] = w[i]}
  <2>1. 0 \in T
    BY <1>0, <1>2, <1>4
  <2>2. ASSUME NEW i \in 0..(n - 1), i \in T
        PROVE  i + 1 \in T
    <3>1. i + 1 \in 1..n /\ (i + 1) - 1 = i
      BY <1>0
    <3>2. after[i] = q \o SubSeq(frames, 1, i)
      BY <2>2
    <3>3. after[i + 1] = Append(after[i], frames[i + 1])
      <4>1. after[i + 1] = Loop(after)[i + 1]
        BY <1>4
      <4>2. i + 1 \in 0..n /\ i + 1 # 0
        BY <1>0, <3>1
      <4>3. Loop(after)[i + 1] = Append(after[(i + 1) - 1], frames[i + 1])
        BY <4>2
      <4> QED
        BY <3>1, <4>1, <4>3
    <3>4. w[i + 1] = q \o SubSeq(frames, 1, i + 1)
      BY <3>1
    <3>5. Append(q \o SubSeq(frames, 1, i), frames[i + 1]) = q \o SubSeq(frames, 1, i + 1)
      BY <1>1, <3>1
    <3>6. i + 1 \in 0..n
      BY <1>0, <3>1
    <3>7. after[i + 1] = w[i + 1]
      BY ONLY <3>2, <3>3, <3>4, <3>5
    <3> QED
      BY ONLY <3>6, <3>7
  <2> HIDE DEF T
  <2>3. \A i \in 0..n : i \in T
    BY <1>0, <2>1, <2>2, Counting
  <2> QED
    BY <2>3 DEF T
<1> QED
  BY <1>0, <1>2, <1>5, <1>6

Lined(g, p, h, q, r) == g \o p \o h \o q \o r

\* The echo replies of a line are numbered 1..n in its order.
InOrder(all, n) ==
    /\ \A i \in 1..Len(all) : all[i].kind = "echo" => all[i].n \in 1..n
    /\ \A m \in 1..n : \E i \in 1..Len(all) : all[i].kind = "echo" /\ all[i].n = m
    /\ \A i, j \in 1..Len(all) :
           i < j /\ all[i].kind = "echo" /\ all[j].kind = "echo" => all[i].n < all[j].n

LineIsInOrder == InOrder(Lined(got, socket.pending, InHand, rx_queue, ring), arrived.echoes)

\* RepliesInOrder, in these words.
LEMMA InOrderIs ==
    ASSUME NEW all, NEW e
    PROVE  LET Echoes == {i \in 1..Len(all) : all[i].kind = "echo"}
           IN  InOrder(all, e) <=> /\ {all[i].n : i \in Echoes} = 1..e
                                   /\ \A i, j \in Echoes : i < j => all[i].n < all[j].n
<1> DEFINE Echoes == {i \in 1..Len(all) : all[i].kind = "echo"}
<1>3. {all[i].n : i \in Echoes} = 1..e
      <=> /\ \A i \in 1..Len(all) : all[i].kind = "echo" => all[i].n \in 1..e
          /\ \A m \in 1..e : \E i \in 1..Len(all) : all[i].kind = "echo" /\ all[i].n = m
  OBVIOUS
<1>4. (\A i, j \in Echoes : i < j => all[i].n < all[j].n)
      <=> \A i, j \in 1..Len(all) :
              i < j /\ all[i].kind = "echo" /\ all[j].kind = "echo" => all[i].n < all[j].n
  OBVIOUS
<1> QED
  BY <1>3, <1>4 DEF InOrder

\* RepliesInOrder is about the line alone.
LEMMA RepliesInOrderIs ==
    /\ RepliesInOrder <=> LineIsInOrder
    /\ RepliesInOrder' <=> LineIsInOrder'
<1> DEFINE all == got \o socket.pending \o InHand \o rx_queue \o ring
<1>1. RepliesInOrder <=> InOrder(all, arrived.echoes)
  <2> DEFINE Echoes == {i \in 1..Len(all) : all[i].kind = "echo"}
  <2>1. RepliesInOrder <=> /\ {all[i].n : i \in Echoes} = 1..arrived.echoes
                           /\ \A i, j \in Echoes : i < j => all[i].n < all[j].n
    BY DEF RepliesInOrder
  <2> HIDE DEF all
  <2> QED
    BY <2>1, InOrderIs
<1>2. RepliesInOrder' <=> InOrder(all', arrived'.echoes)
  <2> DEFINE Echoes == {i \in 1..Len(all') : all'[i].kind = "echo"}
  <2>1. RepliesInOrder' <=> /\ {all'[i].n : i \in Echoes} = 1..arrived'.echoes
                            /\ \A i, j \in Echoes : i < j => all'[i].n < all'[j].n
    BY DEF RepliesInOrder
  <2> HIDE DEF all
  <2> QED
    BY <2>1, InOrderIs
<1> QED
  BY <1>1, <1>2 DEF LineIsInOrder, Lined

\* A frame that arrives is the last of the line.
LEMMA OrderAppend ==
    ASSUME NEW all \in Seq(Frame), NEW n \in Nat, NEW f \in Frame, InOrder(all, n)
    PROVE  /\ f.kind # "echo" => InOrder(Append(all, f), n)
           /\ f.kind = "echo" /\ f.n = n + 1 => InOrder(Append(all, f), n + 1)
<1> DEFINE l == Append(all, f)
<1>1. /\ Len(all) \in Nat /\ Len(l) = Len(all) + 1
      /\ \A i \in 1..Len(all) : l[i] = all[i]
      /\ l[Len(all) + 1] = f
  OBVIOUS
<1> HIDE DEF l
<1>2. ASSUME NEW i \in 1..Len(l)
      PROVE  i = Len(all) + 1 \/ i \in 1..Len(all)
  BY <1>1
<1>3. \A i \in 1..Len(all) : i \in 1..Len(l)
  BY <1>1
<1>4. Len(all) + 1 \in 1..Len(l)
  BY <1>1
<1>5. CASE f.kind # "echo"
  BY <1>1, <1>2, <1>3, <1>5 DEF InOrder, l
<1>6. ASSUME f.kind = "echo", f.n = n + 1
      PROVE  InOrder(l, n + 1)
  <2>1. ASSUME NEW i \in 1..Len(l), l[i].kind = "echo" PROVE l[i].n \in 1..(n + 1)
    BY <1>1, <1>2, <1>6, <2>1 DEF InOrder
  <2>2. ASSUME NEW m \in 1..(n + 1)
        PROVE  \E i \in 1..Len(l) : l[i].kind = "echo" /\ l[i].n = m
    <3>1. CASE m = n + 1
      BY <1>1, <1>4, <1>6, <3>1
    <3>2. CASE m # n + 1
      <4>1. m \in 1..n
        BY <3>2
      <4> QED
        BY <1>1, <1>3, <4>1 DEF InOrder
    <3> QED
      BY <3>1, <3>2
  <2>3. ASSUME NEW i \in 1..Len(l), NEW j \in 1..Len(l),
               i < j, l[i].kind = "echo", l[j].kind = "echo"
        PROVE  l[i].n < l[j].n
    <3>1. i \in 1..Len(all)
      BY <1>1, <2>3
    <3>2. CASE j \in 1..Len(all)
      BY <1>1, <2>3, <3>1, <3>2 DEF InOrder
    <3>3. CASE j = Len(all) + 1
      <4>1. l[i].n \in 1..n
        BY <1>1, <2>3, <3>1 DEF InOrder
      <4>2. l[j].n = n + 1
        BY <1>1, <1>6, <3>3
      <4> QED
        BY <4>1, <4>2
    <3> QED
      BY <1>2, <3>2, <3>3
  <2> QED
    BY <2>1, <2>2, <2>3 DEF InOrder
<1> QED
  BY <1>5, <1>6 DEF l

\* A frame that is no echo reply can leave the line anywhere.
LEMMA OrderDrop ==
    ASSUME NEW s \in Seq(Frame), NEW t \in Seq(Frame), NEW f \in Frame, f.kind # "echo",
           NEW n, InOrder((s \o <<f>>) \o t, n)
    PROVE  InOrder(s \o t, n)
<1> DEFINE a == (s \o <<f>>) \o t
           b == s \o t
           h(i) == IF i <= Len(s) THEN i ELSE i + 1
<1>1. /\ Len(s) \in Nat /\ Len(t) \in Nat
      /\ Len(a) = Len(s) + Len(t) + 1 /\ Len(b) = Len(s) + Len(t)
      /\ \A i \in 1..Len(b) : h(i) \in 1..Len(a) /\ b[i] = a[h(i)]
      /\ a[Len(s) + 1] = f
  <2> DEFINE c == s \o <<f>>
  <2>1. /\ Len(s) \in Nat /\ Len(t) \in Nat /\ c \in Seq(Frame) /\ Len(c) = Len(s) + 1
        /\ \A i \in 1..Len(s) : c[i] = s[i]
        /\ c[Len(s) + 1] = f
    OBVIOUS
  <2>2. a = c \o t
    OBVIOUS
  <2> HIDE DEF c
  <2>3. /\ Len(a) = Len(c) + Len(t)
        /\ \A i \in 1..Len(a) : a[i] = IF i <= Len(c) THEN c[i] ELSE t[i - Len(c)]
    BY <2>1, <2>2
  <2>4. /\ Len(b) = Len(s) + Len(t)
        /\ \A i \in 1..Len(b) : b[i] = IF i <= Len(s) THEN s[i] ELSE t[i - Len(s)]
    OBVIOUS
  <2> HIDE DEF a, b
  <2>5. ASSUME NEW i \in 1..Len(b)
        PROVE  h(i) \in 1..Len(a) /\ b[i] = a[h(i)]
    <3>1. CASE i <= Len(s)
      BY <2>1, <2>3, <2>4, <3>1
    <3>2. CASE i > Len(s)
      <4>1. h(i) = i + 1 /\ i + 1 \in 1..Len(a) /\ ~(i + 1 <= Len(c)) /\ ~(i <= Len(s))
        BY <2>1, <2>3, <2>4, <3>2
      <4>2. (i + 1) - Len(c) = i - Len(s)
        BY <2>1
      <4>3. b[i] = t[i - Len(s)] /\ a[i + 1] = t[(i + 1) - Len(c)]
        BY <2>3, <2>4, <4>1
      <4> QED
        BY <4>1, <4>2, <4>3
    <3> QED
      BY <2>1, <2>4, <3>1, <3>2
  <2>6. a[Len(s) + 1] = f
    BY <2>1, <2>3
  <2>7. Len(a) = Len(s) + Len(t) + 1
    BY <2>1, <2>3
  <2> QED
    BY <2>1, <2>4, <2>5, <2>6, <2>7
<1>2. ASSUME NEW i \in 1..Len(a), i # Len(s) + 1
      PROVE  \E j \in 1..Len(b) : i = h(j)
  <2>1. CASE i <= Len(s)
    BY <1>1, <2>1
  <2>2. CASE i > Len(s)
    <3>1. i - 1 \in 1..Len(b) /\ h(i - 1) = i
      BY <1>1, <1>2, <2>2
    <3> QED
      BY <3>1
  <2> QED
    BY <1>1, <2>1, <2>2
<1>3. \A i, j \in 1..Len(b) : i < j => h(i) < h(j)
  BY <1>1
<1>4. InOrder(a, n)
  OBVIOUS
<1> HIDE DEF a, b, h
<1>5. \A i \in 1..Len(b) : b[i].kind = "echo" => b[i].n \in 1..n
  BY <1>1, <1>4 DEF InOrder
<1>6. ASSUME NEW m \in 1..n
      PROVE  \E i \in 1..Len(b) : b[i].kind = "echo" /\ b[i].n = m
  <2>1. PICK i \in 1..Len(a) : a[i].kind = "echo" /\ a[i].n = m
    BY <1>4 DEF InOrder
  <2>2. i # Len(s) + 1
    BY <1>1, <2>1
  <2>3. PICK j \in 1..Len(b) : i = h(j)
    BY <1>2, <2>2
  <2> QED
    BY <1>1, <2>1, <2>3
<1>7. \A i, j \in 1..Len(b) :
          i < j /\ b[i].kind = "echo" /\ b[j].kind = "echo" => b[i].n < b[j].n
  BY <1>1, <1>3, <1>4 DEF InOrder
<1> QED
  BY <1>5, <1>6, <1>7 DEF InOrder, b

\* The first of b goes to the end of a.
LEMMA MoveHead ==
    ASSUME NEW S, NEW a \in Seq(S), NEW b \in Seq(S), b # <<>>
    PROVE  Append(a, Head(b)) \o Tail(b) = a \o b
OBVIOUS

\* The line is a sequence of frames, and a frame that arrives is its last.
LEMMA LineArrives ==
    ASSUME NEW g \in Seq(Frame), NEW p \in Seq(Frame), NEW h \in Seq(Frame), NEW q \in Seq(Frame),
           NEW r \in Seq(Frame), NEW f \in Frame
    PROVE  /\ Lined(g, p, h, q, r) \in Seq(Frame)
           /\ Lined(g, p, h, q, Append(r, f)) = Append(Lined(g, p, h, q, r), f)
<1> DEFINE all == ((g \o p) \o h) \o q
<1>1. all \in Seq(Frame)
  OBVIOUS
<1>2. Lined(g, p, h, q, r) = all \o r /\ Lined(g, p, h, q, Append(r, f)) = all \o Append(r, f)
  BY DEF Lined
<1> HIDE DEF all
<1>3. all \o r \in Seq(Frame) /\ all \o Append(r, f) = Append(all \o r, f)
  BY <1>1
<1> QED
  BY <1>2, <1>3

\* The ring is emptied into m_rx_queue.
LEMMA LineReceived ==
    ASSUME NEW g \in Seq(Frame), NEW p \in Seq(Frame), NEW h \in Seq(Frame), NEW q \in Seq(Frame),
           NEW r \in Seq(Frame)
    PROVE  Lined(g, p, h, q \o r, <<>>) = Lined(g, p, h, q, r)
<1> DEFINE gph == (g \o p) \o h
<1>1. gph \in Seq(Frame)
  OBVIOUS
<1>2. /\ Lined(g, p, h, q \o r, <<>>) = (gph \o (q \o r)) \o <<>>
      /\ Lined(g, p, h, q, r) = (gph \o q) \o r
  BY DEF Lined
<1> HIDE DEF gph
<1>3. (gph \o (q \o r)) \o <<>> = (gph \o q) \o r
  BY <1>1
<1> QED
  BY <1>2, <1>3

\* One frame of the ring goes to m_rx_queue.
LEMMA LineQueued ==
    ASSUME NEW g \in Seq(Frame), NEW p \in Seq(Frame), NEW h \in Seq(Frame), NEW q \in Seq(Frame),
           NEW r \in Seq(Frame), r # <<>>
    PROVE  Lined(g, p, h, Append(q, Head(r)), Tail(r)) = Lined(g, p, h, q, r)
<1> DEFINE gph == (g \o p) \o h
           all == gph \o q
<1>1. gph \in Seq(Frame) /\ all \in Seq(Frame)
  OBVIOUS
<1>2. /\ Lined(g, p, h, Append(q, Head(r)), Tail(r)) = (gph \o Append(q, Head(r))) \o Tail(r)
      /\ Lined(g, p, h, q, r) = all \o r
  BY DEF Lined
<1> HIDE DEF gph
<1>3. gph \o Append(q, Head(r)) = Append(all, Head(r))
  BY <1>1
<1> HIDE DEF all
<1>4. Append(all, Head(r)) \o Tail(r) = all \o r
  BY <1>1, MoveHead
<1> QED
  BY <1>2, <1>3, <1>4

\* The task takes the first of m_rx_queue.
LEMMA LinePopped ==
    ASSUME NEW g \in Seq(Frame), NEW p \in Seq(Frame), NEW q \in Seq(Frame), NEW r \in Seq(Frame),
           q # <<>>
    PROVE  Lined(g, p, <<Head(q)>>, Tail(q), r) = Lined(g, p, <<>>, q, r)
<1> DEFINE gp == g \o p
<1>1. gp \in Seq(Frame)
  OBVIOUS
<1>2. /\ Lined(g, p, <<Head(q)>>, Tail(q), r) = ((gp \o <<Head(q)>>) \o Tail(q)) \o r
      /\ Lined(g, p, <<>>, q, r) = ((gp \o <<>>) \o q) \o r
  BY DEF Lined
<1> HIDE DEF gp
<1>3. gp \o <<Head(q)>> = Append(gp, Head(q)) /\ gp \o <<>> = gp
  BY <1>1
<1>4. Append(gp, Head(q)) \o Tail(q) = gp \o q
  BY <1>1, MoveHead
<1> QED
  BY <1>2, <1>3, <1>4

\* The task gives its frame to the socket.
LEMMA LineGiven ==
    ASSUME NEW g \in Seq(Frame), NEW p \in Seq(Frame), NEW q \in Seq(Frame), NEW r \in Seq(Frame),
           NEW f \in Frame
    PROVE  Lined(g, Append(p, f), <<>>, q, r) = Lined(g, p, <<f>>, q, r)
<1>1. (g \o Append(p, f)) \o <<>> = (g \o p) \o <<f>>
  OBVIOUS
<1> QED
  BY <1>1 DEF Lined

\* Ping takes the first frame of the socket.
LEMMA LineTaken ==
    ASSUME NEW g \in Seq(Frame), NEW p \in Seq(Frame), NEW h, NEW q, NEW r, p # <<>>
    PROVE  Lined(Append(g, Head(p)), Tail(p), h, q, r) = Lined(g, p, h, q, r)
<1>1. Append(g, Head(p)) \o Tail(p) = g \o p
  BY MoveHead
<1> QED
  BY <1>1 DEF Lined

\* A frame that is no echo reply may leave the hands of the task.
LEMMA LineDrops ==
    ASSUME NEW g \in Seq(Frame), NEW p \in Seq(Frame), NEW q \in Seq(Frame),
           NEW r \in Seq(Frame), NEW f \in Frame, NEW n,
           f.kind # "echo", InOrder(Lined(g, p, <<f>>, q, r), n)
    PROVE  InOrder(Lined(g, p, <<>>, q, r), n)
<1> DEFINE gp == g \o p
           qr == q \o r
<1>1. /\ gp \in Seq(Frame) /\ qr \in Seq(Frame) /\ gp \o <<f>> \in Seq(Frame) /\ gp \o <<>> = gp
  OBVIOUS
<1>2. /\ Lined(g, p, <<f>>, q, r) = ((gp \o <<f>>) \o q) \o r
      /\ Lined(g, p, <<>>, q, r) = ((gp \o <<>>) \o q) \o r
  BY DEF Lined
<1> HIDE DEF gp
<1>3. ((gp \o <<f>>) \o q) \o r = (gp \o <<f>>) \o qr
  BY <1>1
<1>4. (gp \o q) \o r = gp \o qr
  BY <1>1
<1> HIDE DEF qr
<1>5. InOrder((gp \o <<f>>) \o qr, n)
  BY ONLY <1>2, <1>3, InOrder(Lined(g, p, <<f>>, q, r), n)
<1>6. InOrder(gp \o qr, n)
  BY ONLY <1>1, <1>5, f \in Frame, f.kind # "echo", OrderDrop
<1> QED
  BY ONLY <1>1, <1>2, <1>4, <1>6

\* The elements of two sequences one after the other.
LEMMA ConcatIs ==
    ASSUME NEW a \in Seq(Frame), NEW b \in Seq(Frame)
    PROVE  /\ a \o b \in Seq(Frame) /\ Len(a \o b) = Len(a) + Len(b)
           /\ Len(a) \in Nat /\ Len(b) \in Nat
           /\ \A i \in 1..Len(a) : i \in 1..Len(a \o b) /\ (a \o b)[i] = a[i]
OBVIOUS

\* The frame in the hands of the task is in the line.
LEMMA LineShows ==
    ASSUME NEW g \in Seq(Frame), NEW p \in Seq(Frame), NEW q \in Seq(Frame),
           NEW r \in Seq(Frame), NEW f \in Frame, NEW n,
           f.kind = "echo", InOrder(Lined(g, p, <<f>>, q, r), n)
    PROVE  f.n \in 1..n
<1> DEFINE gp == g \o p
           c == gp \o <<f>>
           d == c \o q
           all == d \o r
<1>1. gp \in Seq(Frame) /\ Len(gp) \in Nat
  OBVIOUS
<1>2. all = Lined(g, p, <<f>>, q, r)
  BY DEF Lined
<1> HIDE DEF gp
<1>3. c \in Seq(Frame) /\ Len(c) = Len(gp) + 1 /\ c[Len(gp) + 1] = f
  BY <1>1
<1> HIDE DEF c
<1> DEFINE k == Len(gp) + 1
<1>4. q \in Seq(Frame) /\ r \in Seq(Frame)
  OBVIOUS
<1>5. d \in Seq(Frame) /\ \A i \in 1..Len(c) : i \in 1..Len(d) /\ d[i] = c[i]
  BY ONLY <1>3, <1>4, ConcatIs
<1> HIDE DEF d
<1>6. \A i \in 1..Len(d) : i \in 1..Len(all) /\ all[i] = d[i]
  BY ONLY <1>4, <1>5, ConcatIs
<1> HIDE DEF all
<1>7. k \in 1..Len(c)
  BY <1>1, <1>3
<1>8. k \in 1..Len(all) /\ all[k] = f
  BY ONLY <1>3, <1>5, <1>6, <1>7
<1> QED
  BY <1>2, <1>8 DEF InOrder

-----------------------------------------------------------------------------
(* Steps that leave the line alone *)

\* The names of the two processes and of the slots.
LEMMA NetNames ==
    /\ Rx \in Pids /\ Ping \in Pids /\ Rx # Ping
    /\ Pids = {Rx, Ping}
    /\ 0 \in Slots /\ \A i \in Slots : (i + 1) % NUM_SEND_BUFFERS \in Slots
BY NetworkAssumption DEF Rx, Ping, Pids, Slots

SocketType == [registered : BOOLEAN, pending : Seq(Frame), lock : Pids \cup {NoProcess}]

\* The transmitter keeps its types, and no echo request comes up by itself.
CardStep ==
    /\ requested' \in BOOLEAN /\ tx_index' \in Slots /\ tx_buf' \in [Slots -> Sends]
    /\ sending' \in [Pids -> [kind : Sends, buffer : Slots]]
    /\ requested => requested'

\* The line stays as it is.
LEMMA QuietFrames ==
    ASSUME Frames, UNCHANGED <<ring, rx_queue, got, arrived>>, CardStep,
           isr' \in [process : Processes \cup {NoProcess}, locked : BOOLEAN], HandlerHasFrame',
           socket' \in SocketType, socket'.pending = socket.pending,
           pc' \in [Pids -> Places], hand' \in Frame \cup {NoFrame},
           InHand' = InHand, HandIsFrame', Registered'
    PROVE  Frames'
<1>1. DataTypes'
  BY DEF Frames, DataTypes, CardStep, SocketType
<1>2. Asked'
  BY DEF Frames, Asked, CardStep
<1>3. RepliesInOrder'
  BY RepliesInOrderIs DEF Frames, LineIsInOrder
<1> QED
  BY <1>1, <1>2, <1>3 DEF Frames

\* A step of the scheduler.
LEMMA SchedulerFrames ==
    ASSUME Frames, UNCHANGED <<card, queue, socket, got, pc, arrived>>
    PROVE  Frames'
<1>1. UNCHANGED <<ring, isr, tx_index, tx_buf, sending, requested, rx_queue, hand>>
  BY DEF card, queue
<1>2. HandlerHasFrame' /\ HandIsFrame' /\ Registered' /\ CardStep /\ InHand' = InHand
  BY <1>1 DEF Frames, HandlerHasFrame, HandIsFrame, Registered, InHand, CardStep, DataTypes
<1> QED
  BY <1>1, <1>2, QuietFrames DEF Frames, DataTypes, SocketType

\* A step of the task from a place where it holds no frame to another.
LEMMA RxFrames ==
    ASSUME Frames, UNCHANGED <<card, rx_queue, got, arrived>>,
           NEW l \in Places \ Holding, pc[Rx] \notin Holding, pc' = [pc EXCEPT ![Rx] = l],
           hand' \in {hand, NoFrame},
           socket' \in SocketType, socket'.pending = socket.pending,
           socket'.registered = socket.registered
    PROVE  Frames'
<1>1. pc' \in [Pids -> Places] /\ pc'[Rx] = l /\ pc'[Ping] = pc[Ping]
  BY NetNames DEF Frames, DataTypes
<1>2. InHand' = InHand
  BY <1>1 DEF InHand, Holding
<1>3. HandIsFrame'
  BY <1>1 DEF HandIsFrame, Holding
<1>4. UNCHANGED <<ring, isr, tx_index, tx_buf, sending, requested>>
  BY DEF card
<1>5. Registered'
  BY <1>1, <1>4 DEF Frames, Registered
<1>6. HandlerHasFrame' /\ CardStep
  BY <1>4 DEF Frames, HandlerHasFrame, CardStep, DataTypes
<1>7. isr' \in [process : Processes \cup {NoProcess}, locked : BOOLEAN] /\ hand' \in Frame \cup {NoFrame}
  BY <1>4 DEF Frames, DataTypes
<1> QED
  BY <1>1, <1>2, <1>3, <1>4, <1>5, <1>6, <1>7, QuietFrames

\* The steps of the task without a frame.
LEMMA RxIdleFrames ==
    ASSUME Frames, AwaitPacket \/ RxLock \/ SetAnswers \/ SocketUnlock \/ RxUnlock
    PROVE  Frames'
<1>0. socket \in SocketType /\ pc \in [Pids -> Places]
  BY DEF Frames, DataTypes, SocketType
<1>1. CASE AwaitPacket
  <2>1. pc[Rx] = "loop" /\ pc' = [pc EXCEPT ![Rx] = "wait"]
        /\ UNCHANGED <<card, rx_queue, hand, got, arrived, socket>>
    BY <1>1 DEF AwaitPacket, At, Goto, queue, icmp, ping
  <2> QED
    BY <1>0, <2>1, RxFrames DEF Holding, Places
<1>2. CASE RxLock
  <2>1. /\ pc[Rx] \in {"wait", "lock"}
        /\ pc' = [pc EXCEPT ![Rx] = "pop"] \/ pc' = [pc EXCEPT ![Rx] = "lock"]
        /\ UNCHANGED <<card, rx_queue, hand, got, arrived, socket>>
    BY <1>2 DEF RxLock, At, Goto, queue, icmp, ping
  <2> QED
    BY <1>0, <2>1, RxFrames DEF Holding, Places
<1>3. CASE SetAnswers
  <2>1. /\ pc[Rx] = "arp"
        /\ pc' = [pc EXCEPT ![Rx] = "unlock"] \/ UNCHANGED pc
        /\ UNCHANGED <<card, queue, got, arrived, socket>>
    BY <1>3 DEF SetAnswers, At, Goto, icmp, ping
  <2>2. CASE UNCHANGED pc
    BY <2>1, <2>2, SchedulerFrames
  <2>3. CASE pc' = [pc EXCEPT ![Rx] = "unlock"]
    BY <1>0, <2>1, <2>3, RxFrames DEF Holding, Places, queue
  <2> QED
    BY <2>1, <2>2, <2>3
<1>4. CASE SocketUnlock
  <2>1. /\ pc[Rx] = "sock_unlock" /\ pc' = [pc EXCEPT ![Rx] = "unlock"]
        /\ UNCHANGED <<card, rx_queue, hand, got, arrived>>
        /\ socket' = [socket EXCEPT !.lock = NoProcess]
    BY <1>4 DEF SocketUnlock, At, Goto, queue, ping
  <2>2. /\ socket' \in SocketType /\ socket'.pending = socket.pending
        /\ socket'.registered = socket.registered
    BY <1>0, <2>1 DEF SocketType
  <2> QED
    BY <1>0, <2>1, <2>2, RxFrames DEF Holding, Places
<1>5. CASE RxUnlock
  <2>1. /\ pc[Rx] = "unlock" /\ pc' = [pc EXCEPT ![Rx] = "loop"]
        /\ UNCHANGED <<card, rx_queue, got, arrived, socket>>
        /\ hand' = NoFrame
    BY <1>5 DEF RxUnlock, At, Goto, queue, ping
  <2> QED
    BY <1>0, <2>1, RxFrames DEF Holding, Places
<1> QED
  BY <1>1, <1>2, <1>3, <1>4, <1>5

\* A step of the task or of ping that touches the transmitter, the socket's
\* lock and its own place.
LEMMA CallFrames ==
    ASSUME Frames, UNCHANGED <<ring, isr, queue, got, arrived>>, CardStep,
           socket' \in SocketType, socket'.pending = socket.pending,
           NEW p \in Pids, NEW l \in Places \ Holding, pc' = [pc EXCEPT ![p] = l],
           p = Rx => pc[Rx] \notin Holding,
           Registered'
    PROVE  Frames'
<1>1. pc' \in [Pids -> Places] /\ \A q \in Pids : pc'[q] = IF q = p THEN l ELSE pc[q]
  BY DEF Frames, DataTypes
<1>2. UNCHANGED <<rx_queue, hand>>
  BY DEF queue
<1>3. InHand' = InHand
  BY <1>1, <1>2, NetNames DEF InHand, Holding
<1>4. HandIsFrame'
  BY <1>1, <1>2, NetNames DEF Frames, HandIsFrame, Holding
<1>5. HandlerHasFrame'
  BY DEF Frames, HandlerHasFrame
<1>6. isr' \in [process : Processes \cup {NoProcess}, locked : BOOLEAN] /\ hand' \in Frame \cup {NoFrame}
  BY <1>2 DEF Frames, DataTypes
<1> QED
  BY <1>1, <1>2, <1>3, <1>4, <1>5, <1>6, QuietFrames

\* RTL8139NetworkCard::transmit, of the task or of ping.
LEMMA TransmitFrames ==
    ASSUME Frames, NEW p \in Pids, NEW done \in Places \ Holding, Transmit(p, done)
    PROVE  Frames'
<1>0. /\ socket \in SocketType /\ requested \in BOOLEAN /\ tx_index \in Slots
      /\ tx_buf \in [Slots -> Sends] /\ sending \in [Pids -> [kind : Sends, buffer : Slots]]
      /\ pc \in [Pids -> Places]
  BY DEF Frames, DataTypes, SocketType
<1>1. /\ UNCHANGED <<ring, isr, queue, got, arrived, socket>>
      /\ \/ pc[p] = "copy" /\ TransmitCopy(p, "start")
         \/ pc[p] = "start" /\ TransmitStart(p, "next")
         \/ pc[p] = "next" /\ TransmitNext(p, done)
  BY DEF Transmit, At, icmp, ping
<1>2. pc[p] \notin Holding
  BY <1>1 DEF Holding
<1>3. {"start", "next", done} \subseteq Places \ Holding
  BY DEF Places, Holding
<1>4. \E l \in {"start", "next", done} : pc' = [pc EXCEPT ![p] = l]
  BY <1>1 DEF TransmitCopy, TransmitStart, TransmitNext, Goto
<1>5. CardStep
  <2>1. CASE TransmitCopy(p, "start")
    BY <1>0, <2>1 DEF TransmitCopy, CardStep
  <2>2. CASE TransmitStart(p, "next")
    BY <1>0, <2>2 DEF TransmitStart, CardStep
  <2>3. CASE TransmitNext(p, done)
    <3>1. "none" \in Sends
      BY DEF Sends
    <3> QED
      BY <1>0, <2>3, <3>1, NetNames DEF TransmitNext, CardStep
  <2> QED
    BY <1>1, <2>1, <2>2, <2>3
<1>6. Registered'
  <2>1. CASE socket.registered
    BY <1>1, <2>1 DEF Registered
  <2>2. CASE ~socket.registered
    <3>1. /\ ~requested /\ arrived.echoes = 0
          /\ pc[Ping] \in {"user", "register"}
          /\ \A i \in Slots : tx_buf[i] # "echo_request"
          /\ \A q \in Pids : sending[q].kind # "echo_request"
      BY <2>2 DEF Frames, Registered
    <3>2. p # Ping
      BY <1>1, <3>1
    <3>3. pc'[Ping] = pc[Ping]
      BY <1>0, <1>4, <3>2, NetNames
    <3>4. ~requested'
      <4>1. sending[p].buffer \in Slots
        BY <1>0
      <4> QED
        BY <1>1, <3>1, <4>1 DEF TransmitCopy, TransmitStart, TransmitNext
    <3>5. \A i \in Slots : tx_buf'[i] # "echo_request"
      BY <1>0, <1>1, <3>1 DEF TransmitCopy, TransmitStart, TransmitNext
    <3>6. \A q \in Pids : sending'[q].kind # "echo_request"
      BY <1>0, <1>1, <3>1 DEF TransmitCopy, TransmitStart, TransmitNext
    <3> QED
      BY <1>1, <3>1, <3>3, <3>4, <3>5, <3>6 DEF Registered
  <2> QED
    BY <2>1, <2>2
<1> QED
  BY <1>0, <1>1, <1>2, <1>3, <1>4, <1>5, <1>6, CallFrames

\* The calls of ping, except those that take a packet from its socket.
LEMMA PingFrames ==
    ASSUME Frames, Socket \/ SendCached \/ SendArpRequest \/ ArpReturns \/ RecvWoken
                   \/ RecvLock \/ RecvUnlock \/ NextPing
    PROVE  Frames'
<1>0. /\ socket \in SocketType /\ requested \in BOOLEAN /\ tx_index \in Slots
      /\ tx_buf \in [Slots -> Sends] /\ sending \in [Pids -> [kind : Sends, buffer : Slots]]
      /\ pc \in [Pids -> Places]
  BY DEF Frames, DataTypes, SocketType
<1>1. ASSUME UNCHANGED card PROVE UNCHANGED <<ring, isr>> /\ CardStep
  BY <1>0, <1>1 DEF card, CardStep
<1>2. ASSUME socket'.registered PROVE Registered'
  BY <1>2 DEF Registered
<1>3. pc[Ping] \notin {"user", "register"} => socket.registered
  BY DEF Frames, Registered
<1>4. CASE Socket
  <2>1. /\ UNCHANGED <<card, queue, got, arrived>>
        /\ pc[Ping] \in {"user", "register"}
        /\ \/ socket' = [socket EXCEPT !.registered = TRUE] /\ pc' = [pc EXCEPT ![Ping] = "ready"]
           \/ socket' = socket /\ pc' = [pc EXCEPT ![Ping] = "register"]
    BY <1>4 DEF Socket, At, Goto, ping
  <2>2. socket' \in SocketType /\ socket'.pending = socket.pending
    BY <1>0, <2>1 DEF SocketType
  <2>3. Registered'
    <3>1. CASE socket'.registered
      BY <1>2, <3>1
    <3>2. CASE ~socket'.registered
      <4>1. socket' = socket /\ pc' = [pc EXCEPT ![Ping] = "register"]
        BY <1>0, <2>1, <3>2 DEF SocketType
      <4>2. pc'[Ping] = "register"
        BY <1>0, <4>1, NetNames
      <4> QED
        BY <2>1, <3>2, <4>1, <4>2 DEF Frames, Registered, card
    <3> QED
      BY <3>1, <3>2
  <2>4. {"ready", "register"} \subseteq Places \ Holding
    BY DEF Places, Holding
  <2> QED
    BY <1>1, <2>1, <2>2, <2>3, <2>4, CallFrames, NetNames
<1>5. CASE SendCached
  <2>1. /\ UNCHANGED <<ring, isr, queue, got, arrived, socket>>
        /\ pc[Ping] = "ready" /\ pc' = [pc EXCEPT ![Ping] = "sent"]
        /\ TransmitAtOnce("echo_request")
    BY <1>5 DEF SendCached, At, Goto, icmp
  <2>2. CardStep
    BY <1>0, <2>1, NetNames DEF TransmitAtOnce, CardStep, Sends
  <2>3. "sent" \in Places \ Holding
    BY DEF Places, Holding
  <2> QED
    BY <1>0, <1>2, <1>3, <2>1, <2>2, <2>3, CallFrames, NetNames
<1>6. CASE SendArpRequest
  <2>1. /\ UNCHANGED <<ring, isr, queue, got, arrived, socket>>
        /\ pc[Ping] = "ready" /\ pc' = [pc EXCEPT ![Ping] = "arp"]
        /\ TransmitAtOnce("arp_request")
    BY <1>6 DEF SendArpRequest, At, Goto, icmp
  <2>2. CardStep
    BY <1>0, <2>1, NetNames DEF TransmitAtOnce, CardStep, Sends
  <2>3. "arp" \in Places \ Holding
    BY DEF Places, Holding
  <2> QED
    BY <1>0, <1>2, <1>3, <2>1, <2>2, <2>3, CallFrames, NetNames
<1>7. CASE ArpReturns
  <2>1. /\ UNCHANGED <<ring, isr, queue, got, arrived, socket, tx_index, tx_buf, requested>>
        /\ pc[Ping] = "arp"
        /\ pc' = [pc EXCEPT ![Ping] = "copy"] \/ pc' = [pc EXCEPT ![Ping] = "sent"]
        /\ sending' \in {sending, [sending EXCEPT ![Ping].kind = "echo_request"]}
    BY <1>7 DEF ArpReturns, At, Goto, icmp, ping
  <2>2. CardStep
    BY <1>0, <2>1, NetNames DEF CardStep, Sends
  <2>3. {"copy", "sent"} \subseteq Places \ Holding
    BY DEF Places, Holding
  <2> QED
    BY <1>0, <1>2, <1>3, <2>1, <2>2, <2>3, CallFrames, NetNames
<1>8. CASE RecvWoken
  <2>1. /\ UNCHANGED <<card, queue, got, arrived, socket>>
        /\ pc[Ping] = "recv"
        /\ \/ pc' = [pc EXCEPT ![Ping] = "done"]
           \/ pc' = [pc EXCEPT ![Ping] = "recv_lock"]
           \/ UNCHANGED pc
    BY <1>8 DEF RecvWoken, At, Goto, ping
  <2>2. {"done", "recv_lock"} \subseteq Places \ Holding
    BY DEF Places, Holding
  <2>3. CASE UNCHANGED pc
    BY <2>1, <2>3, SchedulerFrames
  <2> QED
    BY <1>0, <1>1, <1>2, <1>3, <2>1, <2>2, <2>3, CallFrames, NetNames
<1>9. CASE RecvLock
  <2>1. /\ UNCHANGED <<card, queue, got, arrived>>
        /\ pc[Ping] = "recv_lock"
        /\ \/ socket' = [socket EXCEPT !.lock = Ping] /\ pc' = [pc EXCEPT ![Ping] = "take"]
           \/ UNCHANGED <<socket, pc>>
    BY <1>9 DEF RecvLock, LockOrSleep, At, Goto, ping
  <2>2. "take" \in Places \ Holding
    BY DEF Places, Holding
  <2>3. CASE UNCHANGED <<socket, pc>>
    BY <2>1, <2>3, SchedulerFrames
  <2>4. CASE socket' = [socket EXCEPT !.lock = Ping] /\ pc' = [pc EXCEPT ![Ping] = "take"]
    <3>1. /\ socket' \in SocketType /\ socket'.pending = socket.pending
          /\ socket'.registered = socket.registered
      BY <1>0, <2>4, NetNames DEF SocketType
    <3> QED
      BY <1>1, <1>2, <1>3, <2>1, <2>2, <2>4, <3>1, CallFrames, NetNames
  <2> QED
    BY <2>1, <2>3, <2>4
<1>10. CASE RecvUnlock
  <2>1. /\ UNCHANGED <<card, queue, got, arrived>>
        /\ pc[Ping] = "recv_unlock"
        /\ socket' = [socket EXCEPT !.lock = NoProcess] /\ pc' = [pc EXCEPT ![Ping] = "back"]
    BY <1>10 DEF RecvUnlock, At, Goto, ping
  <2>2. "back" \in Places \ Holding
    BY DEF Places, Holding
  <2>3. /\ socket' \in SocketType /\ socket'.pending = socket.pending
        /\ socket'.registered = socket.registered
    BY <1>0, <2>1 DEF SocketType
  <2> QED
    BY <1>1, <1>2, <1>3, <2>1, <2>2, <2>3, CallFrames, NetNames
<1>11. CASE NextPing
  <2>1. /\ UNCHANGED <<card, queue, got, arrived, socket>>
        /\ pc[Ping] = "back"
        /\ pc' = [pc EXCEPT ![Ping] = "done"] \/ pc' = [pc EXCEPT ![Ping] = "ready"]
    BY <1>11 DEF NextPing, At, Goto, icmp, ping
  <2>2. {"done", "ready"} \subseteq Places \ Holding
    BY DEF Places, Holding
  <2> QED
    BY <1>0, <1>1, <1>2, <1>3, <2>1, <2>2, CallFrames, NetNames
<1> QED
  BY <1>4, <1>5, <1>6, <1>7, <1>8, <1>9, <1>10, <1>11

-----------------------------------------------------------------------------
(* Steps of a frame along the line *)

\* The types of the line.
LEMMA LineTypes ==
    ASSUME Frames
    PROVE  /\ ring \in Seq(Frame) /\ rx_queue \in Seq(Frame) /\ got \in Seq(Frame)
           /\ socket \in SocketType /\ socket.pending \in Seq(Frame)
           /\ InHand \in Seq(Frame)
           /\ pc \in [Pids -> Places] /\ hand \in Frame \cup {NoFrame}
           /\ arrived.echoes \in Nat
           /\ InHand = IF pc[Rx] \in Holding THEN <<hand>> ELSE <<>>
<1>1. /\ ring \in Seq(Frame) /\ rx_queue \in Seq(Frame) /\ got \in Seq(Frame)
      /\ socket \in SocketType /\ socket.pending \in Seq(Frame)
      /\ pc \in [Pids -> Places] /\ hand \in Frame \cup {NoFrame}
      /\ arrived.echoes \in Nat
  BY DEF Frames, DataTypes, SocketType
<1>2. InHand = IF pc[Rx] \in Holding THEN <<hand>> ELSE <<>>
  BY DEF InHand, Holding
<1>3. pc[Rx] \in Holding => hand \in Frame
  BY DEF Frames, HandIsFrame
<1>4. InHand \in Seq(Frame)
  BY <1>2, <1>3
<1> QED
  BY <1>1, <1>2, <1>4

\* A frame arrives.
LEMMA ArriveFrames ==
    ASSUME Frames, NEW kind \in Kinds, FrameArrives(kind)
    PROVE  Frames'
<1> DEFINE f == [kind |-> kind, n |-> IF kind = "echo" THEN arrived'.echoes ELSE 0]
           e == arrived.echoes
<1>1. /\ arrived \in [frames : Nat, echoes : Nat, noise : Nat] /\ e \in Nat
      /\ arrived' = [frames |-> arrived.frames + 1,
                     echoes |-> e + IF kind = "echo" THEN 1 ELSE 0,
                     noise |-> arrived.noise + IF kind \in {"arp_request", "other"} THEN 1 ELSE 0]
      /\ kind = "echo" => requested
      /\ ring' = Append(ring, f)
      /\ UNCHANGED <<isr, tx_index, tx_buf, sending, requested, rx_queue, hand, socket, got, pc>>
  BY DEF FrameArrives, Frames, DataTypes, queue, icmp, ping
<1>2. /\ arrived' \in [frames : Nat, echoes : Nat, noise : Nat]
      /\ arrived'.echoes = IF kind = "echo" THEN e + 1 ELSE e
  BY <1>1
<1>3. f \in Frame /\ f.kind = kind /\ (kind = "echo" => f.n = e + 1)
  BY <1>1, <1>2 DEF Frame
<1> HIDE DEF f
<1>4. ring \in Seq(Frame) /\ ring' \in Seq(Frame) /\ ring' # <<>>
  BY <1>1, <1>3, LineTypes
<1>5. DataTypes'
  BY <1>1, <1>2, <1>4 DEF Frames, DataTypes
<1>6. HandlerHasFrame' /\ HandIsFrame'
  BY <1>1, <1>4 DEF Frames, HandlerHasFrame, HandIsFrame
<1>7. Registered' /\ Asked'
  <2>1. Asked'
    BY <1>1, <1>2 DEF Frames, Asked
  <2>2. CASE socket.registered
    <3>1. socket'.registered
      BY <1>1, <2>2
    <3> QED
      BY <2>1, <3>1 DEF Registered
  <2>3. CASE ~socket.registered
    <3>1. ~requested /\ kind # "echo"
      BY <1>1, <2>3 DEF Frames, Registered
    <3> QED
      BY <1>1, <1>2, <2>1, <2>3, <3>1 DEF Frames, Registered
  <2> QED
    BY <2>1, <2>2, <2>3
<1>8. LineIsInOrder'
  <2> DEFINE line == Lined(got, socket.pending, InHand, rx_queue, ring)
  <2>1. InHand' = InHand
    BY <1>1 DEF InHand
  <2>2. /\ line \in Seq(Frame)
        /\ Lined(got, socket.pending, InHand, rx_queue, Append(ring, f)) = Append(line, f)
    <3>1. got \in Seq(Frame) /\ socket.pending \in Seq(Frame) /\ InHand \in Seq(Frame)
          /\ rx_queue \in Seq(Frame) /\ ring \in Seq(Frame)
      BY LineTypes
    <3> QED
      BY ONLY <1>3, <3>1, LineArrives
  <2>3. InOrder(line, e)
    BY RepliesInOrderIs DEF Frames, LineIsInOrder
  <2> HIDE DEF line
  <2>4. InOrder(Append(line, f), arrived'.echoes)
    BY <1>1, <1>2, <1>3, <2>2, <2>3, OrderAppend
  <2> QED
    BY <1>1, <2>1, <2>2, <2>4 DEF LineIsInOrder
<1> QED
  BY <1>5, <1>6, <1>7, <1>8, RepliesInOrderIs DEF Frames

\* The line is the same although its frames are elsewhere.
LEMMA SameLine ==
    ASSUME Frames, DataTypes', HandlerHasFrame', HandIsFrame', Registered',
           UNCHANGED <<arrived, requested>>,
           Lined(got, socket.pending, InHand, rx_queue, ring)'
               = Lined(got, socket.pending, InHand, rx_queue, ring)
    PROVE  Frames'
<1>1. Asked'
  BY DEF Frames, Asked
<1>2. LineIsInOrder'
  BY RepliesInOrderIs DEF Frames, LineIsInOrder
<1> QED
  BY <1>1, <1>2, RepliesInOrderIs DEF Frames

\* The receive interrupt.
LEMMA InterruptFrames ==
    ASSUME Frames, Interrupt \/ IsrLock \/ IsrQueue, current \in Processes \cup {NoProcess}
    PROVE  Frames'
<1>0. isr \in [process : Processes \cup {NoProcess}, locked : BOOLEAN]
  BY DEF Frames, DataTypes
<1>1. ASSUME UNCHANGED <<ring, rx_queue>>, ring # <<>>,
             isr' \in [process : Processes \cup {NoProcess}, locked : BOOLEAN],
             UNCHANGED <<hand, tx_index, tx_buf, sending, requested, socket, got, pc, arrived>>
      PROVE  Frames'
  <2>1. DataTypes' /\ HandlerHasFrame' /\ HandIsFrame' /\ Registered'
    BY <1>1 DEF Frames, DataTypes, HandlerHasFrame, HandIsFrame, Registered
  <2>2. InHand' = InHand
    BY <1>1 DEF InHand
  <2> QED
    BY <1>1, <2>1, <2>2, SameLine
<1>2. ASSUME ring' \in Seq(Frame), rx_queue' \in Seq(Frame),
             isr' \in [process : Processes \cup {NoProcess}, locked : BOOLEAN], HandlerHasFrame',
             UNCHANGED <<hand, tx_index, tx_buf, sending, requested, socket, got, pc, arrived>>,
             Lined(got, socket.pending, InHand, rx_queue', ring')
                 = Lined(got, socket.pending, InHand, rx_queue, ring)
      PROVE  Frames'
  <2>1. DataTypes' /\ HandIsFrame' /\ Registered'
    BY <1>2 DEF Frames, DataTypes, HandIsFrame, Registered
  <2>2. InHand' = InHand
    BY <1>2 DEF InHand
  <2> QED
    BY <1>2, <2>1, <2>2, SameLine
<1>3. CASE Interrupt
  <2>1. /\ isr = NoIsr /\ ring # <<>>
        /\ UNCHANGED <<hand, tx_index, tx_buf, sending, requested, socket, got, pc, arrived>>
        /\ \/ rx_queue' = ReceiveAll(rx_queue, ring) /\ ring' = <<>> /\ UNCHANGED isr
           \/ isr' = [process |-> current, locked |-> FALSE] /\ UNCHANGED <<ring, rx_queue>>
    BY <1>3 DEF Interrupt, icmp, ping
  <2>2. CASE isr' = [process |-> current, locked |-> FALSE] /\ UNCHANGED <<ring, rx_queue>>
    BY <1>1, <2>1, <2>2
  <2>3. CASE rx_queue' = ReceiveAll(rx_queue, ring) /\ ring' = <<>> /\ UNCHANGED isr
    <3>1. rx_queue' = rx_queue \o ring
      BY <2>3, LineTypes, ReceiveAllIs
    <3>2. ring' \in Seq(Frame) /\ rx_queue' \in Seq(Frame)
      BY <2>3, <3>1, LineTypes
    <3>3. NoFrame \in [kind : {"none"}, n : Nat]
      BY DEF NoFrame
    <3>4. Lined(got, socket.pending, InHand, rx_queue \o ring, <<>>)
              = Lined(got, socket.pending, InHand, rx_queue, ring)
      <4>1. Head(ring) \in Frame
        BY <2>1, LineTypes
      <4>2. got \in Seq(Frame) /\ socket.pending \in Seq(Frame) /\ InHand \in Seq(Frame)
            /\ rx_queue \in Seq(Frame) /\ ring \in Seq(Frame)
        BY LineTypes
      <4> QED
        BY ONLY <4>1, <4>2, LineReceived
    <3>5. HandlerHasFrame'
      BY <2>1, <2>3 DEF HandlerHasFrame, NoIsr
    <3> QED
      BY <1>0, <1>2, <2>1, <2>3, <3>1, <3>2, <3>4, <3>5
  <2> QED
    BY <2>1, <2>2, <2>3
<1>4. CASE IsrLock
  <2>1. /\ isr # NoIsr
        /\ UNCHANGED <<ring, rx_queue, hand, tx_index, tx_buf, sending, requested, socket, got, pc, arrived>>
        /\ isr' \in {isr, [isr EXCEPT !.locked = TRUE]}
    BY <1>4 DEF IsrLock, icmp, ping
  <2>2. ring # <<>>
    BY <2>1 DEF Frames, HandlerHasFrame
  <2>3. isr' \in [process : Processes \cup {NoProcess}, locked : BOOLEAN]
    BY <1>0, <2>1
  <2> QED
    BY <1>1, <2>1, <2>2, <2>3
<1>5. CASE IsrQueue
  <2>1. /\ isr.locked
        /\ rx_queue' = Append(rx_queue, Head(ring)) /\ ring' = Tail(ring)
        /\ isr' = IF Len(ring) = 1 THEN NoIsr ELSE [isr EXCEPT !.locked = FALSE]
        /\ UNCHANGED <<hand, tx_index, tx_buf, sending, requested, socket, got, pc, arrived>>
    BY <1>5 DEF IsrQueue, Received, icmp, ping
  <2>2. isr # NoIsr
    BY <2>1 DEF NoIsr
  <2>3. ring # <<>> /\ ring \in Seq(Frame) /\ Head(ring) \in Frame
    <3>1. ring # <<>>
      BY <2>2 DEF Frames, HandlerHasFrame
    <3> QED
      BY <3>1, LineTypes
  <2>4. ring' \in Seq(Frame) /\ rx_queue' \in Seq(Frame)
    BY <2>1, <2>3, LineTypes
  <2>5. Lined(got, socket.pending, InHand, Append(rx_queue, Head(ring)), Tail(ring))
            = Lined(got, socket.pending, InHand, rx_queue, ring)
    <3>1. got \in Seq(Frame) /\ socket.pending \in Seq(Frame) /\ InHand \in Seq(Frame)
          /\ rx_queue \in Seq(Frame) /\ ring \in Seq(Frame)
      BY LineTypes
    <3> QED
      BY ONLY <2>3, <3>1, LineQueued
  <2>6. HandlerHasFrame'
    <3>1. Len(ring) # 1 => Tail(ring) # <<>>
      <4>1. Len(ring) \in Nat \ {0} /\ Len(Tail(ring)) = Len(ring) - 1 /\ Len(<<>>) = 0
        BY <2>3, HeadTailProperties, EmptySeq
      <4> QED
        BY <4>1
    <3> QED
      BY <2>1, <3>1 DEF HandlerHasFrame
  <2>7. isr' \in [process : Processes \cup {NoProcess}, locked : BOOLEAN]
    BY <1>0, <2>1 DEF NoIsr
  <2> QED
    BY <1>2, <2>1, <2>4, <2>5, <2>6, <2>7
<1> QED
  BY <1>3, <1>4, <1>5

\* The task takes a frame and finds out what it is; only an echo reply is
\* kept for the socket.
LEMMA HandFrames ==
    ASSUME Frames, PopPacket \/ HandlePacket
    PROVE  Frames'
<1>0. /\ got \in Seq(Frame) /\ socket.pending \in Seq(Frame) /\ rx_queue \in Seq(Frame)
      /\ ring \in Seq(Frame) /\ pc \in [Pids -> Places]
  BY LineTypes
<1>1. CASE PopPacket
  <2>1. /\ pc[Rx] = "pop"
        /\ UNCHANGED <<ring, isr, tx_index, tx_buf, sending, requested, socket, got, arrived>>
        /\ \/ UNCHANGED <<rx_queue, hand, pc>>
           \/ /\ rx_queue # <<>>
              /\ hand' = Head(rx_queue) /\ rx_queue' = Tail(rx_queue)
              /\ pc' = [pc EXCEPT ![Rx] = "handle"]
    BY <1>1 DEF PopPacket, At, Goto, card, icmp, ping
  <2>2. CASE UNCHANGED <<rx_queue, hand, pc>>
    <3>1. DataTypes' /\ HandlerHasFrame' /\ HandIsFrame' /\ Registered' /\ InHand' = InHand
      BY <2>1, <2>2 DEF Frames, DataTypes, HandlerHasFrame, HandIsFrame, Registered, InHand
    <3> QED
      BY <2>1, <2>2, <3>1, SameLine
  <2>3. CASE rx_queue # <<>> /\ hand' = Head(rx_queue) /\ rx_queue' = Tail(rx_queue)
             /\ pc' = [pc EXCEPT ![Rx] = "handle"]
    <3>1. /\ hand' \in Frame /\ rx_queue' \in Seq(Frame)
          /\ pc' \in [Pids -> Places] /\ pc'[Rx] = "handle" /\ pc'[Ping] = pc[Ping]
      BY <1>0, <2>3, NetNames DEF Places, Holding
    <3>2. DataTypes' /\ HandlerHasFrame'
      BY <2>1, <2>3, <3>1 DEF Frames, DataTypes, HandlerHasFrame
    <3>3. HandIsFrame'
      BY <3>1 DEF HandIsFrame, Holding
    <3>4. Registered'
      BY <2>1, <3>1 DEF Frames, Registered
    <3>5. InHand = <<>> /\ InHand' = <<Head(rx_queue)>>
      BY <2>1, <2>3, <3>1 DEF InHand
    <3>6. Lined(got, socket.pending, <<Head(rx_queue)>>, Tail(rx_queue), ring)
              = Lined(got, socket.pending, <<>>, rx_queue, ring)
      BY ONLY <1>0, <2>3, LinePopped
    <3> QED
      BY <2>1, <2>3, <3>2, <3>3, <3>4, <3>5, <3>6, SameLine
  <2> QED
    BY <2>1, <2>2, <2>3
<1>2. CASE HandlePacket
  <2> DEFINE l == IF hand.kind \in {"arp_request", "arp_reply"} THEN ArpMessage(hand.kind)
                  ELSE IpPacket(hand.kind)
  <2>1. /\ pc[Rx] = "handle" /\ pc' = [pc EXCEPT ![Rx] = l]
        /\ UNCHANGED <<ring, isr, tx_index, tx_buf, requested, rx_queue, hand, socket, got, arrived>>
        /\ sending' \in {sending, [sending EXCEPT ![Rx].kind = "arp_response"]}
    BY <1>2 DEF HandlePacket, send_arp_response, At, Goto, queue, icmp, ping
  <2>2. hand \in Frame /\ InHand = <<hand>>
    BY <2>1 DEF Frames, HandIsFrame, Holding, InHand
  <2>3. /\ l \in Places
        /\ hand.kind = "echo" => l = "icmp"
        /\ hand.kind # "echo" => l \notin Holding
    BY <2>2 DEF ArpMessage, IpPacket, Places, Holding, Frame, Kinds
  <2> HIDE DEF l
  <2>4. pc' \in [Pids -> Places] /\ pc'[Rx] = l /\ pc'[Ping] = pc[Ping]
    BY <1>0, <2>1, <2>3, NetNames
  <2>5. /\ sending' \in [Pids -> [kind : Sends, buffer : Slots]]
        /\ \A p \in Pids : sending'[p].kind = "echo_request" => sending[p].kind = "echo_request"
    <3>1. sending \in [Pids -> [kind : Sends, buffer : Slots]] /\ "arp_response" \in Sends
      BY DEF Frames, DataTypes, Sends
    <3> QED
      BY <2>1, <3>1, NetNames
  <2>6. DataTypes' /\ HandlerHasFrame'
    BY <2>1, <2>4, <2>5 DEF Frames, DataTypes, HandlerHasFrame
  <2>7. HandIsFrame'
    BY <2>1, <2>2, <2>3, <2>4 DEF HandIsFrame, Holding
  <2>8. Registered'
    BY <2>1, <2>4, <2>5 DEF Frames, Registered
  <2>9. CASE hand.kind = "echo"
    <3>1. InHand' = InHand
      BY <2>1, <2>2, <2>3, <2>4, <2>9 DEF InHand
    <3> QED
      BY <2>1, <2>6, <2>7, <2>8, <3>1, SameLine
  <2>10. CASE hand.kind # "echo"
    <3>1. InHand' = <<>>
      BY <2>3, <2>4, <2>10 DEF InHand, Holding
    <3>2. /\ got \in Seq(Frame) /\ socket.pending \in Seq(Frame) /\ rx_queue \in Seq(Frame)
          /\ ring \in Seq(Frame) /\ hand \in Frame
      BY <1>0, <2>2
    <3>3. InOrder(Lined(got, socket.pending, <<hand>>, rx_queue, ring), arrived.echoes)
      BY <2>2, RepliesInOrderIs DEF Frames, LineIsInOrder
    <3>4. InOrder(Lined(got, socket.pending, <<>>, rx_queue, ring), arrived.echoes)
      BY ONLY <2>10, <3>2, <3>3, LineDrops
    <3>6. LineIsInOrder'
      BY <2>1, <3>1, <3>4 DEF LineIsInOrder
    <3>7. Asked'
      BY <2>1 DEF Frames, Asked
    <3> QED
      BY <2>6, <2>7, <2>8, <3>6, <3>7, RepliesInOrderIs DEF Frames
  <2> QED
    BY <2>9, <2>10
<1> QED
  BY <1>1, <1>2

\* An echo reply finds the socket of ping: none comes before it is registered.
LEMMA EchoIsExpected ==
    ASSUME Frames, pc[Rx] \in Holding, hand.kind = "echo"
    PROVE  socket.registered
<1>1. /\ got \in Seq(Frame) /\ socket.pending \in Seq(Frame) /\ rx_queue \in Seq(Frame)
      /\ ring \in Seq(Frame) /\ hand \in Frame /\ InHand = <<hand>>
  BY LineTypes DEF Frames, HandIsFrame, Holding, InHand
<1>2. InOrder(Lined(got, socket.pending, <<hand>>, rx_queue, ring), arrived.echoes)
  BY <1>1, RepliesInOrderIs DEF Frames, LineIsInOrder
<1>3. hand.n \in 1..arrived.echoes
  BY ONLY <1>1, <1>2, hand.kind = "echo", LineShows
<1>4. arrived.echoes # 0
  BY <1>3
<1> QED
  BY <1>4 DEF Frames, Registered

\* The locks of Icmp and of the socket, and on_received.
LEMMA IcmpFrames ==
    ASSUME Frames, IcmpLock \/ SocketLock \/ on_received
    PROVE  Frames'
<1>0. /\ got \in Seq(Frame) /\ socket.pending \in Seq(Frame) /\ rx_queue \in Seq(Frame)
      /\ ring \in Seq(Frame) /\ pc \in [Pids -> Places] /\ socket \in SocketType
  BY LineTypes
<1>1. ASSUME pc[Rx] \in {"icmp", "sock"}, NEW l \in {"sock", "append"}, pc' = [pc EXCEPT ![Rx] = l],
             UNCHANGED <<card, queue, got, arrived>>,
             socket' \in SocketType, socket'.pending = socket.pending,
             socket'.registered = socket.registered
      PROVE  Frames'
  <2>1. pc' \in [Pids -> Places] /\ pc'[Rx] = l /\ pc'[Ping] = pc[Ping]
    BY <1>0, <1>1, NetNames DEF Places, Holding
  <2>2. UNCHANGED <<ring, isr, tx_index, tx_buf, sending, requested, rx_queue, hand>>
    BY <1>1 DEF card, queue
  <2>3. InHand' = InHand /\ HandIsFrame'
    BY <1>1, <2>1, <2>2 DEF Frames, HandIsFrame, InHand, Holding
  <2>4. Registered' /\ HandlerHasFrame'
    BY <1>1, <2>1, <2>2 DEF Frames, Registered, HandlerHasFrame
  <2>5. CardStep /\ isr' \in [process : Processes \cup {NoProcess}, locked : BOOLEAN]
        /\ hand' \in Frame \cup {NoFrame}
    BY <2>2 DEF Frames, DataTypes, CardStep
  <2> QED
    BY <1>1, <2>1, <2>2, <2>3, <2>4, <2>5, QuietFrames
<1>2. CASE IcmpLock
  <2>1. /\ pc[Rx] = "icmp" /\ UNCHANGED <<card, queue, socket, got, arrived>>
        /\ \/ UNCHANGED pc
           \/ pc' = [pc EXCEPT ![Rx] = IF socket.registered THEN "sock" ELSE "unlock"]
    BY <1>2 DEF IcmpLock, LockOrSleep, At, Goto, ping
  <2>2. socket.registered
    BY <2>1, EchoIsExpected DEF Frames, HandIsFrame, Holding
  <2>3. CASE UNCHANGED pc
    BY <2>1, <2>3, SchedulerFrames
  <2> QED
    BY <1>0, <1>1, <2>1, <2>2, <2>3
<1>3. CASE SocketLock
  <2>1. /\ pc[Rx] = "sock" /\ UNCHANGED <<card, queue, got, arrived>>
        /\ \/ UNCHANGED <<pc, socket>>
           \/ pc' = [pc EXCEPT ![Rx] = "append"] /\ socket' = [socket EXCEPT !.lock = Rx]
    BY <1>3 DEF SocketLock, LockOrSleep, At, Goto, ping
  <2>2. CASE UNCHANGED <<pc, socket>>
    BY <2>1, <2>2, SchedulerFrames
  <2>3. CASE pc' = [pc EXCEPT ![Rx] = "append"] /\ socket' = [socket EXCEPT !.lock = Rx]
    <3>1. socket' \in SocketType /\ socket'.pending = socket.pending
          /\ socket'.registered = socket.registered
      BY <1>0, <2>3, NetNames DEF SocketType
    <3> QED
      BY <1>1, <2>1, <2>3, <3>1
  <2> QED
    BY <2>1, <2>2, <2>3
<1>4. CASE on_received
  <2>1. /\ pc[Rx] = "append" /\ pc' = [pc EXCEPT ![Rx] = "sock_unlock"]
        /\ UNCHANGED <<ring, isr, tx_index, tx_buf, sending, requested, rx_queue, hand, got, arrived>>
        /\ socket' = [socket EXCEPT !.pending = Append(socket.pending, hand)]
    BY <1>4 DEF on_received, At, Goto, card, queue, ping
  <2>2. hand \in Frame /\ InHand = <<hand>>
    BY <2>1 DEF Frames, HandIsFrame, Holding, InHand
  <2>3. /\ pc' \in [Pids -> Places] /\ pc'[Rx] = "sock_unlock" /\ pc'[Ping] = pc[Ping]
    BY <1>0, <2>1, NetNames DEF Places
  <2>4. Append(socket.pending, hand) \in Seq(Frame)
    BY <1>0, <2>2
  <2>5. /\ socket' \in SocketType /\ socket'.pending = Append(socket.pending, hand)
        /\ socket'.registered = socket.registered
    BY <1>0, <2>1, <2>4 DEF SocketType
  <2>6. DataTypes' /\ HandlerHasFrame'
    BY <2>1, <2>3, <2>5 DEF Frames, DataTypes, HandlerHasFrame, SocketType
  <2>7. HandIsFrame' /\ InHand' = <<>>
    BY <2>3 DEF HandIsFrame, Holding, InHand
  <2>8. Registered'
    BY <2>1, <2>3, <2>5 DEF Frames, Registered
  <2>9. Lined(got, Append(socket.pending, hand), <<>>, rx_queue, ring)
            = Lined(got, socket.pending, <<hand>>, rx_queue, ring)
    BY ONLY <1>0, <2>2, LineGiven
  <2> QED
    BY <2>1, <2>2, <2>5, <2>6, <2>7, <2>8, <2>9, SameLine
<1> QED
  BY <1>2, <1>3, <1>4

\* Ping takes a packet from its socket.
LEMMA TakeFrames ==
    ASSUME Frames, Recvfrom \/ RecvTake
    PROVE  Frames'
<1>0. /\ got \in Seq(Frame) /\ socket.pending \in Seq(Frame)
      /\ pc \in [Pids -> Places] /\ socket \in SocketType
  BY LineTypes
<1>1. /\ pc[Ping] \in {"sent", "take"} /\ UNCHANGED <<card, queue, arrived>>
      /\ \/ UNCHANGED <<socket, got>> /\ UNCHANGED pc
         \/ UNCHANGED <<socket, got>> /\ \E l \in {"recv", "recv_lock"} : pc' = [pc EXCEPT ![Ping] = l]
         \/ /\ socket.pending # <<>>
            /\ got' = Append(got, Head(socket.pending))
            /\ socket' = [socket EXCEPT !.pending = Tail(socket.pending)]
            /\ \E l \in {"back", "recv_unlock"} : pc' = [pc EXCEPT ![Ping] = l]
  <2>1. CASE Recvfrom
    BY <2>1 DEF Recvfrom, At, Goto
  <2>2. CASE RecvTake
    BY <2>2 DEF RecvTake, At, Goto
  <2> QED
    BY <2>1, <2>2
<1>2. UNCHANGED <<ring, isr, tx_index, tx_buf, sending, requested, rx_queue, hand>>
  BY <1>1 DEF card, queue
<1>3. socket.registered
  BY <1>1 DEF Frames, Registered
<1>4. {"recv", "recv_lock", "back", "recv_unlock"} \subseteq Places \ Holding
  BY DEF Places, Holding
<1>5. CASE UNCHANGED <<socket, got, pc>>
  BY <1>1, <1>5, SchedulerFrames
<1>6. ASSUME UNCHANGED <<socket, got>>, NEW l \in {"recv", "recv_lock"}, pc' = [pc EXCEPT ![Ping] = l]
      PROVE  Frames'
  <2>1. CardStep
    BY <1>2 DEF Frames, DataTypes, CardStep
  <2>2. Registered'
    BY <1>3, <1>6 DEF Registered
  <2> QED
    BY <1>0, <1>1, <1>2, <1>4, <1>6, <2>1, <2>2, CallFrames, NetNames
<1>7. ASSUME socket.pending # <<>>,
             got' = Append(got, Head(socket.pending)),
             socket' = [socket EXCEPT !.pending = Tail(socket.pending)],
             NEW l \in {"back", "recv_unlock"}, pc' = [pc EXCEPT ![Ping] = l]
      PROVE  Frames'
  <2>1. got' \in Seq(Frame) /\ Tail(socket.pending) \in Seq(Frame)
    BY <1>0, <1>7
  <2>2. /\ socket' \in SocketType /\ socket'.pending = Tail(socket.pending)
        /\ socket'.registered
    BY <1>0, <1>3, <1>7, <2>1 DEF SocketType
  <2>3. pc' \in [Pids -> Places] /\ pc'[Rx] = pc[Rx]
    BY <1>0, <1>4, <1>7, NetNames
  <2>4. DataTypes' /\ HandlerHasFrame'
    BY <1>1, <1>2, <2>1, <2>2, <2>3 DEF Frames, DataTypes, HandlerHasFrame, SocketType
  <2>5. HandIsFrame' /\ InHand' = InHand
    BY <1>2, <2>3 DEF Frames, HandIsFrame, InHand
  <2>6. Registered'
    BY <2>2 DEF Registered
  <2>7. Lined(Append(got, Head(socket.pending)), Tail(socket.pending), InHand, rx_queue, ring)
            = Lined(got, socket.pending, InHand, rx_queue, ring)
    BY ONLY <1>0, <1>7, LineTaken
  <2> QED
    BY <1>1, <1>2, <1>7, <2>2, <2>4, <2>5, <2>6, <2>7, SameLine
<1> QED
  BY <1>1, <1>5, <1>6, <1>7
-----------------------------------------------------------------------------
(* The scheduler, with idle in the blocked list *)

KeepsBlocked == \A p \in Pids : state[p] = "Blocked" => state'[p] = "Blocked"

\* pick_next_and_switch takes no blocked process.
LEMMA NetSwitch ==
    ASSUME SchedTypes, RunnableOnce,
           NEW st \in [Processes -> States], NEW tcb,
           \A p \in Pids : Contains(runnable, p) => st[p] = "Runnable",
           st[Idle] # "Blocked" \/ runnable = <<>>,
           blocked' \in Seq(Processes),
           SwitchToNext(st, tcb)
    PROVE  /\ SchedPart' /\ NetAssertionsHold'
           /\ \A p \in Pids : st[p] = "Blocked" => state'[p] = "Blocked"
<1>0. runnable \in Seq(Pids) /\ IsInjective(runnable)
  BY DEF SchedTypes, RunnableOnce
<1>1. cursor' = 1 /\ phase' # "unblock" /\ NetAssertionsHold'
  BY DEF SwitchToNext, NetAssertionsHold, RxEmpty, SocketEmpty, NoPanic
<1>2. CASE runnable = <<>>
  <2>1. /\ runnable' = <<>> /\ current' = Idle
        /\ state' = [st EXCEPT ![Idle] = "Running"]
    BY <1>2 DEF SwitchToNext
  <2>2. /\ state' \in [Processes -> States] /\ state'[Idle] = "Running"
        /\ \A p \in Pids : state'[p] = st[p]
    BY <2>1, Names DEF States
  <2>3. SchedTypes' /\ RunnableOnce'
    BY <1>0, <1>1, <1>2, <2>1, <2>2, Names DEF SchedTypes, RunnableOnce
  <2>4. RunnableCanRun'
    BY <1>2, <2>1, <2>2 DEF RunnableCanRun
  <2>5. CurrentRuns'
    BY <1>1, <2>1, <2>2, Names DEF CurrentRuns
  <2> QED
    BY <1>1, <2>2, <2>3, <2>4, <2>5 DEF SchedPart
<1>3. CASE runnable # <<>>
  <2> DEFINE n == Head(runnable)
  <2>1. /\ n \in Pids /\ Contains(runnable, n)
        /\ Tail(runnable) \in Seq(Pids) /\ IsInjective(Tail(runnable))
        /\ \A x : Contains(Tail(runnable), x) <=> (Contains(runnable, x) /\ x # n)
    BY <1>0, <1>3, TailMember
  <2>2. /\ runnable' = Tail(runnable) /\ current' = n
        /\ state' = [st EXCEPT ![n] = "Running"]
    BY <1>3 DEF SwitchToNext
  <2> HIDE DEF n
  <2>3. /\ state' \in [Processes -> States] /\ state'[n] = "Running"
        /\ \A p \in Processes : p # n => state'[p] = st[p]
    BY <2>1, <2>2, Names DEF States
  <2>4. SchedTypes' /\ RunnableOnce'
    BY <1>1, <2>1, <2>2, <2>3, Names DEF SchedTypes, RunnableOnce
  <2>5. RunnableCanRun'
    BY <2>1, <2>2, <2>3, Names DEF RunnableCanRun
  <2>6. CurrentRuns'
    BY <1>1, <1>3, <2>1, <2>2, <2>3, Names DEF CurrentRuns
  <2>7. st[n] = "Runnable"
    BY <2>1
  <2> QED
    BY <1>1, <2>1, <2>3, <2>4, <2>5, <2>6, <2>7, Names DEF SchedPart
<1> QED
  BY <1>2, <1>3

\* The running process goes on or blocks.
LEMMA BlockSched ==
    ASSUME SchedPart, current \in Processes, Block
    PROVE  /\ SchedPart' /\ NetAssertionsHold' /\ KeepsBlocked
           /\ current \in Pids => state'[current] = "Blocked"
<1> DEFINE st == [state EXCEPT ![current] = "Blocked"]
<1>1. /\ SchedTypes /\ RunnableOnce /\ runnable \in Seq(Pids) /\ blocked \in Seq(Processes)
      /\ state \in [Processes -> States]
  BY DEF SchedPart, SchedTypes
<1>2. st \in [Processes -> States] /\ st[current] = "Blocked"
      /\ \A p \in Processes : p # current => st[p] = state[p]
  BY <1>1 DEF States
<1>3. blocked' = Append(blocked, current) /\ SwitchToNext(st, current_TCB)
  BY DEF Block, block_current
<1>4. blocked' \in Seq(Processes)
  BY <1>1, <1>3
<1> HIDE DEF st
<1>5. \A p \in Pids : Contains(runnable, p) => st[p] = "Runnable"
  <2>1. current \in Pids => ~Contains(runnable, current)
    BY DEF SchedPart, RunnableCanRun, CurrentRuns
  <2> QED
    BY <1>2, <2>1, Names DEF SchedPart, RunnableCanRun
<1>6. st[Idle] # "Blocked" \/ runnable = <<>>
  BY <1>2, Names DEF SchedPart, CurrentRuns
<1>7. /\ SchedPart' /\ NetAssertionsHold'
      /\ \A p \in Pids : st[p] = "Blocked" => state'[p] = "Blocked"
  BY <1>1, <1>2, <1>3, <1>4, <1>5, <1>6, NetSwitch
<1> QED
  BY <1>2, <1>7, Names DEF KeepsBlocked

\* Nothing of the scheduler changes.
LEMMA SameSched ==
    ASSUME SchedPart, NetAssertionsHold, UNCHANGED vars
    PROVE  SchedPart' /\ NetAssertionsHold' /\ KeepsBlocked
<1>1. UNCHANGED <<runnable, blocked, cursor, current, state, phase, panic>>
  BY DEF vars, lists, procs, cpu
<1> QED
  BY <1>1 DEF SchedPart, SchedTypes, RunnableOnce, RunnableCanRun, CurrentRuns, NetAssertionsHold,
              KeepsBlocked

\* A kernel that panics leaves the lists as they are.
LEMMA PanicSched ==
    ASSUME SchedPart, NEW a, Panic(a)
    PROVE  SchedPart' /\ KeepsBlocked /\ panic' = a
<1>1. UNCHANGED <<runnable, blocked, cursor, current, state>> /\ panic' = a /\ phase' = "hang"
  BY DEF Panic, lists, procs
<1> QED
  BY <1>1 DEF SchedPart, SchedTypes, RunnableOnce, RunnableCanRun, CurrentRuns, KeepsBlocked

\* The timer interrupt up to try_unblock_tasks.
LEMMA TickSched ==
    ASSUME SchedPart, NetAssertionsHold, Tick
    PROVE  SchedPart' /\ NetAssertionsHold' /\ KeepsBlocked
<1>0. /\ runnable \in Seq(Pids) /\ IsInjective(runnable) /\ state \in [Processes -> States]
      /\ current \in Processes \cup {NoProcess} /\ blocked \in Seq(Processes)
  BY DEF SchedPart, SchedTypes, RunnableOnce
<1>1. CASE TickContinue
  <2>1. UNCHANGED <<runnable, blocked, cursor, current, state, phase, panic>>
    BY <1>1 DEF TickContinue, lists, procs
  <2> QED
    BY <2>1 DEF SchedPart, SchedTypes, RunnableOnce, RunnableCanRun, CurrentRuns,
                NetAssertionsHold, KeepsBlocked
<1>2. CASE TickPreempt
  <2> DEFINE running == Ticked # Idle /\ state[Ticked] = "Running"
  <2>1. CASE running /\ Contains(runnable, Ticked)
    <3>1. Panic("tick: current task is in the runnable list")
      BY <1>2, <2>1 DEF TickPreempt
    <3>2. SchedPart' /\ KeepsBlocked /\ panic' = "tick: current task is in the runnable list"
      BY <3>1, PanicSched
    <3> QED
      BY <3>2 DEF NetAssertionsHold, RxEmpty, SocketEmpty
  <2>2. CASE ~(running /\ Contains(runnable, Ticked))
    <3>1. /\ runnable' = IF running THEN Append(runnable, Ticked) ELSE runnable
          /\ state' = IF running \/ Ticked = Idle
                      THEN [state EXCEPT ![Ticked] = "Runnable"] ELSE state
          /\ current' = IF running \/ Ticked = Idle THEN NoProcess ELSE current
          /\ phase' = "unblock" /\ cursor' = 1 /\ UNCHANGED <<blocked, panic>>
      BY <1>2, <2>2 DEF TickPreempt
    <3>2. CASE current \in Pids
      <4>1. Ticked = current /\ running
        BY <3>2, Names DEF Ticked, SchedPart, CurrentRuns
      <4>2. /\ runnable' = Append(runnable, current) /\ current' = NoProcess
            /\ state' = [state EXCEPT ![current] = "Runnable"] /\ ~Contains(runnable, current)
        BY <2>2, <3>1, <4>1
      <4>3. /\ state' \in [Processes -> States] /\ state'[current] = "Runnable"
            /\ \A p \in Processes : p # current => state'[p] = state[p]
        BY <1>0, <3>2, <4>2, Names DEF States
      <4>4. /\ runnable' \in Seq(Pids) /\ IsInjective(runnable')
            /\ \A x : Contains(runnable', x) <=> (Contains(runnable, x) \/ x = current)
        BY <1>0, <3>2, <4>2, AppendMember
      <4>5. SchedTypes' /\ RunnableOnce'
        BY <1>0, <3>1, <4>2, <4>3, <4>4 DEF SchedTypes, RunnableOnce
      <4>6. RunnableCanRun'
        BY <4>3, <4>4, Names DEF SchedPart, RunnableCanRun
      <4>7. CurrentRuns'
        BY <3>2, <4>2, <4>3, Names DEF SchedPart, CurrentRuns
      <4>8. KeepsBlocked
        BY <3>2, <4>3, Names DEF SchedPart, CurrentRuns, KeepsBlocked
      <4> QED
        BY <3>1, <4>5, <4>6, <4>7, <4>8 DEF SchedPart, NetAssertionsHold
    <3>3. CASE current \notin Pids
      <4>1. Ticked = Idle /\ ~running
        BY <1>0, <3>3, Names DEF Ticked
      <4>2. /\ runnable' = runnable /\ current' = NoProcess
            /\ state' = [state EXCEPT ![Idle] = "Runnable"]
        BY <3>1, <4>1
      <4>3. /\ state' \in [Processes -> States] /\ state'[Idle] = "Runnable"
            /\ \A p \in Pids : state'[p] = state[p]
        BY <1>0, <4>2, Names DEF States
      <4>5. SchedTypes' /\ RunnableOnce'
        BY <1>0, <3>1, <4>2, <4>3 DEF SchedTypes, RunnableOnce
      <4>6. RunnableCanRun'
        BY <4>2, <4>3 DEF SchedPart, RunnableCanRun
      <4>7. CurrentRuns'
        BY <4>2, <4>3, Names DEF CurrentRuns
      <4>8. KeepsBlocked
        BY <4>3 DEF KeepsBlocked
      <4> QED
        BY <3>1, <4>5, <4>6, <4>7, <4>8 DEF SchedPart, NetAssertionsHold
    <3> QED
      BY <3>2, <3>3
  <2> QED
    BY <2>1, <2>2
<1> QED
  BY <1>1, <1>2 DEF Tick

\* The end of the interrupt, and the end of ping.
LEMMA SwitchSched ==
    ASSUME SchedPart, NetAssertionsHold, TickSwitch \/ Terminate
    PROVE  SchedPart' /\ NetAssertionsHold' /\ KeepsBlocked
<1>0. /\ SchedTypes /\ RunnableOnce /\ state \in [Processes -> States] /\ blocked \in Seq(Processes)
  BY DEF SchedPart, SchedTypes
<1>1. CASE TickSwitch
  <2>1. SwitchToNext(state, current_TCB) /\ blocked' = blocked
    BY <1>1 DEF TickSwitch
  <2>2. /\ \A p \in Pids : Contains(runnable, p) => state[p] = "Runnable"
        /\ state[Idle] # "Blocked"
    BY DEF SchedPart, RunnableCanRun, CurrentRuns
  <2>3. /\ SchedPart' /\ NetAssertionsHold'
        /\ \A p \in Pids : state[p] = "Blocked" => state'[p] = "Blocked"
    BY <1>0, <2>1, <2>2, NetSwitch
  <2> QED
    BY <2>3 DEF KeepsBlocked
<1>2. CASE Terminate
  <2>0. current \in Pids
    BY <1>2 DEF Terminate, InProcess
  <2>1. CASE current_TCB # current
    <3>1. Panic("terminate_current: current_TCB is not the current task")
      BY <1>2, <2>1 DEF Terminate
    <3>2. SchedPart' /\ KeepsBlocked /\ panic' = "terminate_current: current_TCB is not the current task"
      BY <3>1, PanicSched
    <3> QED
      BY <3>2 DEF NetAssertionsHold, RxEmpty, SocketEmpty
  <2>2. CASE current_TCB = current
    <3> DEFINE st == [state EXCEPT ![current] = "Deleted"]
    <3>1. SwitchToNext(st, NoProcess) /\ blocked' = blocked
      BY <1>2, <2>2 DEF Terminate
    <3>2. /\ st \in [Processes -> States] /\ st[current] = "Deleted"
          /\ \A p \in Processes : p # current => st[p] = state[p]
      BY <1>0, <2>0, Names DEF States
    <3> HIDE DEF st
    <3>3. /\ \A p \in Pids : Contains(runnable, p) => st[p] = "Runnable"
          /\ st[Idle] # "Blocked"
      <4>1. ~Contains(runnable, current) /\ state[Idle] # "Blocked"
        BY <2>0 DEF SchedPart, RunnableCanRun, CurrentRuns
      <4> QED
        BY <2>0, <3>2, <4>1, Names DEF SchedPart, RunnableCanRun
    <3>4. /\ SchedPart' /\ NetAssertionsHold'
          /\ \A p \in Pids : st[p] = "Blocked" => state'[p] = "Blocked"
      BY <1>0, <3>1, <3>2, <3>3, NetSwitch
    <3> QED
      BY <2>0, <3>2, <3>4, Names DEF SchedPart, CurrentRuns, KeepsBlocked
  <2> QED
    BY <2>1, <2>2
<1> QED
  BY <1>1, <1>2

\* try_unblock_tasks unblocks only the process it looks at, and when it can.
LEMMA VisitSched ==
    ASSUME SchedPart, NetAssertionsHold, NEW can, VisitBlocked(can)
    PROVE  /\ SchedPart' /\ NetAssertionsHold'
           /\ \A p \in Pids : state[p] = "Blocked" =>
                state'[p] = "Blocked" \/ (p = blocked[cursor] /\ can)
<1> DEFINE p == blocked[cursor]
<1>0. /\ runnable \in Seq(Pids) /\ IsInjective(runnable) /\ state \in [Processes -> States]
      /\ blocked \in Seq(Processes) /\ cursor \in Nat \ {0}
  BY DEF SchedPart, SchedTypes, RunnableOnce
<1>1. phase = "unblock" /\ cursor \in 1..Len(blocked) /\ p \in Processes /\ current = NoProcess
  <2>1. phase = "unblock" /\ cursor <= Len(blocked)
    BY DEF VisitBlocked
  <2> QED
    BY <1>0, <2>1 DEF SchedPart, CurrentRuns
<1>2. CASE state[p] # "Blocked" \/ blocker[p] = "nullptr"
  <2>1. Panic(NotBlockedFailed)
    BY <1>2 DEF VisitBlocked
  <2>2. SchedPart' /\ KeepsBlocked /\ panic' = NotBlockedFailed
    BY <2>1, PanicSched
  <2> QED
    BY <2>2 DEF NetAssertionsHold, RxEmpty, SocketEmpty, KeepsBlocked, NotBlockedFailed
<1>3. CASE state[p] = "Blocked" /\ blocker[p] # "nullptr" /\ ~can
  <2>1. StayBlocked
    BY <1>3 DEF VisitBlocked
  <2>2. UNCHANGED <<runnable, blocked, current, state, phase, panic>> /\ cursor' = cursor + 1
    BY <2>1 DEF StayBlocked, lists, procs
  <2>3. cursor' \in Nat \ {0}
    BY <1>0, <2>2
  <2> QED
    BY <2>2, <2>3 DEF SchedPart, SchedTypes, RunnableOnce, RunnableCanRun, CurrentRuns,
                      NetAssertionsHold
<1>4. CASE state[p] = "Blocked" /\ blocker[p] # "nullptr" /\ can
  <2>1. Unblock(p)
    BY <1>4 DEF VisitBlocked
  <2>2. /\ state' = [state EXCEPT ![p] = "Runnable"] /\ runnable' = Append(runnable, p)
        /\ blocked' = RemoveAt(blocked, cursor) /\ cursor' \in {cursor, Len(blocked)}
        /\ UNCHANGED <<current, phase, panic>>
    BY <2>1 DEF Unblock
  <2>3. p \in Pids /\ ~Contains(runnable, p)
    BY <1>1, <1>4, Names DEF SchedPart, RunnableCanRun, CurrentRuns
  <2>4. cursor' \in Nat \ {0}
    BY <1>0, <1>1, <2>2
  <2>5. blocked' \in Seq(Processes)
    BY <1>0, <1>1, <2>2 DEF RemoveAt
  <2> HIDE DEF p
  <2>6. /\ state' \in [Processes -> States] /\ state'[p] = "Runnable"
        /\ \A q \in Processes : q # p => state'[q] = state[q]
    BY <1>0, <1>1, <2>2 DEF States
  <2>7. /\ runnable' \in Seq(Pids) /\ IsInjective(runnable')
        /\ \A x : Contains(runnable', x) <=> (Contains(runnable, x) \/ x = p)
    BY <1>0, <2>2, <2>3, AppendMember
  <2>8. SchedTypes' /\ RunnableOnce'
    BY <1>1, <2>2, <2>4, <2>5, <2>6, <2>7 DEF SchedTypes, RunnableOnce
  <2>9. RunnableCanRun'
    BY <2>6, <2>7, Names DEF SchedPart, RunnableCanRun
  <2>10. CurrentRuns'
    BY <1>1, <2>2, <2>3, <2>6, Names DEF SchedPart, CurrentRuns
  <2> QED
    BY <1>4, <2>2, <2>6, <2>8, <2>9, <2>10, Names DEF SchedPart, NetAssertionsHold, p
<1> QED
  BY <1>2, <1>3, <1>4

-----------------------------------------------------------------------------
(* The readers of the two queues *)

\* A process that has the CPU goes on or blocks.
LEMMA CpuSched ==
    ASSUME SchedPart, NetAssertionsHold, current \in Processes, UNCHANGED vars \/ Block
    PROVE  SchedPart' /\ NetAssertionsHold' /\ KeepsBlocked
<1>1. CASE UNCHANGED vars
  BY <1>1, SameSched
<1>2. CASE Block
  BY <1>2, BlockSched
<1> QED
  BY <1>1, <1>2

\* What a step may do to the queues and to their readers.
KeepsRx ==
    /\ pc'[Rx] \in {"wait", "lock", "pop"} => pc'[Rx] = pc[Rx] \/ rx_queue # <<>>
    /\ rx_queue' = rx_queue \/ rx_queue' # <<>> \/ pc'[Rx] \notin {"wait", "lock", "pop"}
    /\ isr'.process = isr.process \/ isr'.process # Rx \/ rx_queue # <<>>

KeepsPing ==
    /\ pc'[Ping] \in {"recv_lock", "take"} =>
            pc[Ping] \in {"recv_lock", "take"} \/ socket.pending # <<>>
    /\ \/ socket'.pending = socket.pending \/ socket'.pending # <<>>
       \/ pc'[Ping] \notin {"recv_lock", "take"}

\* A step that takes nothing from where the task and ping have seen something.
LEMMA KeepReaders ==
    ASSUME Readers, SchedPart', NetAssertionsHold', KeepsBlocked, KeepsRx, KeepsPing
    PROVE  Readers'
<1>1. RxHasPacket'
  BY NetNames DEF Readers, RxHasPacket, KeepsRx, KeepsBlocked
<1>2. PingHasPacket'
  BY DEF Readers, PingHasPacket, KeepsPing
<1> QED
  BY <1>1, <1>2 DEF Readers

\* The task has a packet when it runs.
LEMMA RxRuns ==
    ASSUME Readers, current = Rx
    PROVE  pc[Rx] \in {"wait", "lock", "pop"} => rx_queue # <<>>
<1>1. state[Rx] = "Running"
  BY NetNames DEF Readers, SchedPart, CurrentRuns
<1> QED
  BY <1>1 DEF Readers, RxHasPacket

\* A step of the task that leaves m_rx_queue and its handler alone.
LEMMA RxStepReaders ==
    ASSUME Readers, pc \in [Pids -> Places], current = Rx, UNCHANGED vars \/ Block,
           UNCHANGED <<rx_queue, isr>>,
           socket'.pending = socket.pending \/ socket'.pending # <<>>,
           NEW l, l # "wait", pc' \in {pc, [pc EXCEPT ![Rx] = l]},
           l \in {"lock", "pop"} => pc[Rx] \in {"wait", "lock"}
    PROVE  Readers'
<1>1. SchedPart' /\ NetAssertionsHold' /\ KeepsBlocked
  BY CpuSched, NetNames, Names DEF Readers
<1>2. pc[Rx] \in {"wait", "lock", "pop"} => rx_queue # <<>>
  BY RxRuns
<1>3. pc'[Rx] \in {l, pc[Rx]} /\ pc'[Ping] = pc[Ping]
  BY NetNames
<1>4. KeepsRx
  BY <1>2, <1>3 DEF KeepsRx
<1>5. KeepsPing
  BY <1>3 DEF KeepsPing
<1> QED
  BY <1>1, <1>4, <1>5, KeepReaders

\* A step of ping that takes nothing from the socket.
LEMMA PingStepReaders ==
    ASSUME Readers, pc \in [Pids -> Places], current = Ping, UNCHANGED vars \/ Block,
           UNCHANGED <<rx_queue, isr>>, socket'.pending = socket.pending,
           NEW l \in Places, pc' \in {pc, [pc EXCEPT ![Ping] = l]},
           l \in {"recv_lock", "take"} => pc[Ping] = "recv_lock" \/ socket.pending # <<>>
    PROVE  Readers'
<1>1. SchedPart' /\ NetAssertionsHold' /\ KeepsBlocked
  BY CpuSched, NetNames, Names DEF Readers
<1>2. pc'[Ping] \in {l, pc[Ping]} /\ pc'[Rx] = pc[Rx]
  BY NetNames
<1>3. KeepsRx
  BY <1>2 DEF KeepsRx
<1>4. KeepsPing
  BY <1>2 DEF KeepsPing
<1> QED
  BY <1>1, <1>3, <1>4, KeepReaders

\* Frames that arrive, and the interrupt handler.
LEMMA HandlerReaders ==
    ASSUME Frames, Readers,
           (\E kind \in Kinds : FrameArrives(kind)) \/ Interrupt \/ IsrLock \/ IsrQueue
    PROVE  Readers'
<1>0. /\ pc \in [Pids -> Places] /\ rx_queue \in Seq(Frame) /\ ring \in Seq(Frame)
      /\ isr \in [process : Processes \cup {NoProcess}, locked : BOOLEAN]
      /\ SchedPart /\ NetAssertionsHold /\ current \in Processes \cup {NoProcess}
  BY DEF Frames, DataTypes, Readers, SchedPart, SchedTypes
<1>1. ASSUME UNCHANGED <<pc, socket>>, UNCHANGED vars \/ Block, current \in Processes,
             rx_queue' = rx_queue \/ rx_queue' # <<>>,
             isr'.process \in {isr.process, NoProcess, current}
      PROVE  Readers'
  <2>1. SchedPart' /\ NetAssertionsHold' /\ KeepsBlocked
    BY <1>0, <1>1, CpuSched
  <2>2. KeepsPing
    BY <1>1 DEF KeepsPing
  <2>3. pc[Rx] \in {"wait", "lock", "pop"} => rx_queue # <<>> \/ current # Rx
    BY RxRuns
  <2>4. NoProcess # Rx
    BY NetNames, Names
  <2>5. CASE pc[Rx] \in {"wait", "lock", "pop"}
    <3>1. KeepsRx
      BY <1>1, <2>3, <2>4, <2>5 DEF KeepsRx
    <3> QED
      BY <2>1, <2>2, <3>1, KeepReaders
  <2>6. CASE pc[Rx] \notin {"wait", "lock", "pop"}
    <3>1. Readers' = (SchedPart' /\ RxHasPacket' /\ PingHasPacket' /\ NetAssertionsHold')
      BY DEF Readers
    <3>2. RxHasPacket'
      BY <1>1, <2>6 DEF RxHasPacket
    <3>3. PingHasPacket'
      BY <1>1 DEF Readers, PingHasPacket
    <3> QED
      BY <2>1, <3>1, <3>2, <3>3
  <2> QED
    BY <2>5, <2>6
<1>2. CASE \E kind \in Kinds : FrameArrives(kind)
  <2>1. UNCHANGED vars /\ UNCHANGED <<pc, socket, isr, rx_queue>>
    BY <1>2 DEF FrameArrives, queue, icmp
  <2>2. SchedPart' /\ NetAssertionsHold' /\ KeepsBlocked
    BY <1>0, <2>1, SameSched
  <2>3. KeepsRx /\ KeepsPing
    BY <2>1 DEF KeepsRx, KeepsPing
  <2> QED
    BY <2>2, <2>3, KeepReaders
<1>3. CASE Interrupt
  <2>1. current \in Processes /\ UNCHANGED <<pc, socket>>
    BY <1>0, <1>3 DEF Interrupt, icmp
  <2>2. CASE rx_lock = NoProcess
    <3>1. ring # <<>> /\ rx_queue' = ReceiveAll(rx_queue, ring) /\ UNCHANGED vars /\ isr' = isr
      BY <1>3, <2>2 DEF Interrupt
    <3>2. rx_queue' = rx_queue \o ring
      BY <1>0, <3>1, ReceiveAllIs
    <3>3. rx_queue' # <<>>
      BY <1>0, <3>1, <3>2
    <3> QED
      BY <1>1, <2>1, <3>1, <3>3
  <2>3. CASE rx_lock # NoProcess
    <3>1. isr' = [process |-> current, locked |-> FALSE] /\ Block /\ rx_queue' = rx_queue
      BY <1>3, <2>3 DEF Interrupt
    <3> QED
      BY <1>1, <2>1, <3>1
  <2> QED
    BY <2>2, <2>3
<1>4. CASE IsrLock
  <2>1. /\ isr # NoIsr /\ isr.process = current /\ UNCHANGED <<pc, socket, rx_queue>>
        /\ UNCHANGED vars \/ Block
        /\ isr' \in {isr, [isr EXCEPT !.locked = TRUE]}
    BY <1>4 DEF IsrLock, icmp
  <2>2. isr'.process = isr.process
    BY <1>0, <2>1
  <2>3. CASE current \in Processes
    BY <1>1, <2>1, <2>2, <2>3
  <2>4. CASE current = NoProcess
    BY <1>0, <1>4, <2>1, <2>4 DEF IsrLock, NoIsr
  <2> QED
    BY <1>0, <2>3, <2>4
<1>5. CASE IsrQueue
  <2>1. /\ UNCHANGED <<pc, socket>> /\ UNCHANGED vars
        /\ rx_queue' = Append(rx_queue, Head(ring))
        /\ isr' \in {NoIsr, [isr EXCEPT !.locked = FALSE]}
    BY <1>5 DEF IsrQueue, Received, icmp
  <2>2. isr'.process \in {isr.process, NoProcess} /\ rx_queue' # <<>>
    BY <1>0, <2>1 DEF NoIsr
  <2>3. SchedPart' /\ NetAssertionsHold' /\ KeepsBlocked
    BY <1>0, <2>1, SameSched
  <2>4. KeepsRx /\ KeepsPing
    BY <2>1, <2>2, NetNames, Names DEF KeepsRx, KeepsPing
  <2> QED
    BY <2>3, <2>4, KeepReaders
<1> QED
  BY <1>2, <1>3, <1>4, <1>5

\* The task.
LEMMA RxReaders ==
    ASSUME Frames, Readers, RxStep
    PROVE  Readers'
<1>0. /\ pc \in [Pids -> Places] /\ rx_queue \in Seq(Frame) /\ socket \in SocketType
      /\ socket.pending \in Seq(Frame)
  BY LineTypes
<1>1. current = Rx /\ isr.process # Rx
  BY DEF RxStep, AwaitPacket, RxLock, PopPacket, HandlePacket, SetAnswers, IcmpLock, SocketLock,
         on_received, SocketUnlock, RxUnlock, Transmit, At
<1>2. ASSUME UNCHANGED vars \/ Block, UNCHANGED <<rx_queue, isr>>,
             socket'.pending = socket.pending \/ socket'.pending # <<>>,
             NEW l \in Places \ {"wait"}, pc' \in {pc, [pc EXCEPT ![Rx] = l]},
             l \in {"lock", "pop"} => pc[Rx] \in {"wait", "lock"}
      PROVE  Readers'
  BY <1>0, <1>1, <1>2, RxStepReaders
<1>3. CASE AwaitPacket
  <2>1. /\ pc' = [pc EXCEPT ![Rx] = "wait"] /\ Block /\ UNCHANGED <<isr, socket>>
    BY <1>3 DEF AwaitPacket, Goto, card, icmp
  <2>2. pc'[Rx] = "wait" /\ pc'[Ping] = pc[Ping]
    BY <1>0, <2>1, NetNames
  <2>3. SchedPart' /\ NetAssertionsHold' /\ state'[Rx] = "Blocked"
    BY <1>1, <2>1, BlockSched, NetNames, Names DEF Readers
  <2>4. RxHasPacket'
    BY <1>1, <2>1, <2>2, <2>3 DEF RxHasPacket
  <2>5. PingHasPacket'
    BY <2>1, <2>2 DEF Readers, PingHasPacket
  <2> QED
    BY <2>3, <2>4, <2>5 DEF Readers
<1>4. CASE RxLock
  <2>1. /\ UNCHANGED vars \/ Block
        /\ UNCHANGED <<rx_queue, isr, socket>> /\ pc[Rx] \in {"wait", "lock"}
        /\ pc' = [pc EXCEPT ![Rx] = "pop"] \/ pc' = [pc EXCEPT ![Rx] = "lock"]
    BY <1>4 DEF RxLock, At, Goto, card, icmp
  <2> QED
    BY <1>2, <2>1 DEF Places
<1>5. CASE PopPacket
  <2>1. rx_queue # <<>>
    BY <1>1, <1>5, RxRuns DEF PopPacket, At
  <2>2. /\ UNCHANGED vars /\ UNCHANGED <<isr, socket>> /\ pc' = [pc EXCEPT ![Rx] = "handle"]
    BY <1>5, <2>1 DEF PopPacket, Goto, card, icmp
  <2>3. pc'[Rx] = "handle" /\ pc'[Ping] = pc[Ping]
    BY <1>0, <2>2, NetNames
  <2>4. SchedPart' /\ NetAssertionsHold' /\ KeepsBlocked
    BY <2>2, SameSched DEF Readers
  <2>5. KeepsRx /\ KeepsPing
    BY <2>2, <2>3 DEF KeepsRx, KeepsPing
  <2> QED
    BY <2>4, <2>5, KeepReaders
<1>6. CASE HandlePacket
  <2> DEFINE l == IF hand.kind \in {"arp_request", "arp_reply"} THEN ArpMessage(hand.kind)
                  ELSE IpPacket(hand.kind)
  <2>1. /\ UNCHANGED vars /\ UNCHANGED <<rx_queue, isr, socket>> /\ pc' = [pc EXCEPT ![Rx] = l]
    BY <1>6 DEF HandlePacket, Goto, queue, icmp
  <2>2. l \in Places \ {"wait", "lock", "pop"}
    BY DEF ArpMessage, IpPacket, Places, Holding
  <2> HIDE DEF l
  <2> QED
    BY <1>2, <2>1, <2>2
<1>7. CASE SetAnswers
  <2>1. /\ UNCHANGED <<rx_queue, isr, socket>>
        /\ \/ UNCHANGED vars /\ pc' = [pc EXCEPT ![Rx] = "unlock"]
           \/ Panic(Dangling) /\ pc' = pc
    BY <1>7 DEF SetAnswers, Goto, queue, card, icmp
  <2>2. CASE UNCHANGED vars /\ pc' = [pc EXCEPT ![Rx] = "unlock"]
    <3>1. "unlock" \in Places \ {"wait", "lock", "pop"} /\ socket'.pending = socket.pending
      BY <2>1 DEF Places
    <3> QED
      BY <1>2, <2>1, <2>2, <3>1
  <2>3. CASE Panic(Dangling) /\ pc' = pc
    <3>1. SchedPart' /\ KeepsBlocked /\ panic' = Dangling
      BY <2>3, PanicSched DEF Readers
    <3>2. NetAssertionsHold'
      BY <3>1 DEF NetAssertionsHold, Dangling, RxEmpty, SocketEmpty
    <3>3. KeepsRx /\ KeepsPing
      BY <2>1, <2>3 DEF KeepsRx, KeepsPing
    <3> QED
      BY <3>1, <3>2, <3>3, KeepReaders
  <2> QED
    BY <2>1, <2>2, <2>3
<1>8. CASE IcmpLock
  <2>1. /\ UNCHANGED vars \/ Block
        /\ UNCHANGED <<rx_queue, isr, socket>>
        /\ \/ pc' = pc \/ pc' = [pc EXCEPT ![Rx] = "sock"] \/ pc' = [pc EXCEPT ![Rx] = "unlock"]
    BY <1>8 DEF IcmpLock, LockOrSleep, Goto, card, queue
  <2> QED
    BY <1>2, <2>1 DEF Places, Holding
<1>9. CASE SocketLock
  <2>1. /\ UNCHANGED vars \/ Block
        /\ UNCHANGED <<rx_queue, isr>> /\ socket' \in {socket, [socket EXCEPT !.lock = Rx]}
        /\ \/ pc' = pc \/ pc' = [pc EXCEPT ![Rx] = "append"]
    BY <1>9 DEF SocketLock, LockOrSleep, Goto, card, queue
  <2>2. socket'.pending = socket.pending
    BY <1>0, <2>1 DEF SocketType
  <2> QED
    BY <1>2, <2>1, <2>2 DEF Places, Holding
<1>10. CASE on_received
  <2>1. /\ UNCHANGED vars /\ UNCHANGED <<rx_queue, isr>> /\ pc' = [pc EXCEPT ![Rx] = "sock_unlock"]
        /\ socket' = [socket EXCEPT !.pending = Append(socket.pending, hand)]
    BY <1>10 DEF on_received, Goto, card, queue
  <2>2. socket'.pending = Append(socket.pending, hand)
    BY <1>0, <2>1 DEF SocketType
  <2>3. socket'.pending # <<>>
    BY <1>0, <2>2
  <2> QED
    BY <1>2, <2>1, <2>3 DEF Places
<1>11. CASE SocketUnlock
  <2>1. /\ UNCHANGED vars /\ UNCHANGED <<rx_queue, isr>> /\ pc' = [pc EXCEPT ![Rx] = "unlock"]
        /\ socket' = [socket EXCEPT !.lock = NoProcess]
    BY <1>11 DEF SocketUnlock, Goto, card, queue
  <2>2. socket'.pending = socket.pending
    BY <1>0, <2>1 DEF SocketType
  <2> QED
    BY <1>2, <2>1, <2>2 DEF Places
<1>12. CASE RxUnlock
  <2>1. /\ UNCHANGED vars /\ UNCHANGED <<rx_queue, isr, socket>> /\ pc' = [pc EXCEPT ![Rx] = "loop"]
    BY <1>12 DEF RxUnlock, Goto, card
  <2> QED
    BY <1>2, <2>1 DEF Places
<1>13. CASE Transmit(Rx, "unlock")
  <2>1. /\ UNCHANGED vars /\ UNCHANGED <<rx_queue, isr, socket>>
        /\ \/ pc' = [pc EXCEPT ![Rx] = "start"] \/ pc' = [pc EXCEPT ![Rx] = "next"]
           \/ pc' = [pc EXCEPT ![Rx] = "unlock"]
    BY <1>13 DEF Transmit, TransmitCopy, TransmitStart, TransmitNext, Goto, queue, icmp
  <2> QED
    BY <1>2, <2>1 DEF Places
<1> QED
  BY <1>3, <1>4, <1>5, <1>6, <1>7, <1>8, <1>9, <1>10, <1>11, <1>12, <1>13 DEF RxStep

\* ping.
LEMMA PingReaders ==
    ASSUME Frames, Readers, PingStep
    PROVE  Readers'
<1>0. /\ pc \in [Pids -> Places] /\ socket \in SocketType /\ socket.pending \in Seq(Frame)
  BY LineTypes
<1>1. current = Ping
  <2>1. /\ Recvfrom => At(Ping, "sent")
        /\ RecvWoken => At(Ping, "recv")
        /\ Transmit(Ping, "sent") => At(Ping, "copy") \/ At(Ping, "start") \/ At(Ping, "next")
    BY DEF Recvfrom, RecvWoken, Transmit
  <2> QED
    BY <2>1 DEF PingStep, Socket, SendCached, SendArpRequest, ArpReturns,
                RecvLock, RecvTake, RecvUnlock, NextPing, PingEnds, At
<1>2. ASSUME UNCHANGED vars \/ Block, UNCHANGED <<rx_queue, isr>>, socket'.pending = socket.pending,
             NEW l \in Places, pc' \in {pc, [pc EXCEPT ![Ping] = l]},
             l \in {"recv_lock", "take"} => pc[Ping] = "recv_lock" \/ socket.pending # <<>>
      PROVE  Readers'
  BY <1>0, <1>1, <1>2, PingStepReaders
<1>3. CASE Socket
  <2>1. /\ UNCHANGED vars \/ Block
        /\ UNCHANGED <<rx_queue, isr>> /\ socket' \in {socket, [socket EXCEPT !.registered = TRUE]}
        /\ pc' = [pc EXCEPT ![Ping] = "ready"] \/ pc' = [pc EXCEPT ![Ping] = "register"]
    BY <1>3 DEF Socket, Goto, card, queue
  <2>2. socket'.pending = socket.pending
    BY <1>0, <2>1 DEF SocketType
  <2> QED
    BY <1>2, <2>1, <2>2 DEF Places
<1>4. CASE SendCached
  <2>1. UNCHANGED vars /\ UNCHANGED <<rx_queue, isr, socket>> /\ pc' = [pc EXCEPT ![Ping] = "sent"]
    BY <1>4 DEF SendCached, Goto, queue, icmp
  <2> QED
    BY <1>2, <2>1 DEF Places
<1>5. CASE SendArpRequest
  <2>1. Block /\ UNCHANGED <<rx_queue, isr, socket>> /\ pc' = [pc EXCEPT ![Ping] = "arp"]
    BY <1>5 DEF SendArpRequest, Goto, queue, icmp
  <2> QED
    BY <1>2, <2>1 DEF Places
<1>6. CASE ArpReturns
  <2>1. /\ UNCHANGED vars /\ UNCHANGED <<rx_queue, isr, socket>>
        /\ pc' = [pc EXCEPT ![Ping] = "copy"] \/ pc' = [pc EXCEPT ![Ping] = "sent"]
    BY <1>6 DEF ArpReturns, Goto, queue, icmp
  <2> QED
    BY <1>2, <2>1 DEF Places
<1>7. CASE Transmit(Ping, "sent")
  <2>1. /\ UNCHANGED vars /\ UNCHANGED <<rx_queue, isr, socket>>
        /\ \/ pc' = [pc EXCEPT ![Ping] = "start"] \/ pc' = [pc EXCEPT ![Ping] = "next"]
           \/ pc' = [pc EXCEPT ![Ping] = "sent"]
    BY <1>7 DEF Transmit, TransmitCopy, TransmitStart, TransmitNext, Goto, queue, icmp
  <2> QED
    BY <1>2, <2>1 DEF Places
<1>8. ASSUME UNCHANGED vars, UNCHANGED <<rx_queue, isr>>,
             NEW l \in Places \ {"recv_lock", "take"}, pc' = [pc EXCEPT ![Ping] = l]
      PROVE  Readers'
  <2>1. SchedPart' /\ NetAssertionsHold' /\ KeepsBlocked
    BY <1>8, SameSched DEF Readers
  <2>2. pc'[Rx] = pc[Rx] /\ pc'[Ping] = l
    BY <1>0, <1>8, NetNames
  <2>3. KeepsRx /\ KeepsPing
    BY <1>8, <2>2 DEF KeepsRx, KeepsPing
  <2> QED
    BY <2>1, <2>3, KeepReaders
<1>9. CASE Recvfrom
  <2>0. UNCHANGED <<rx_queue, isr>>
    BY <1>9 DEF Recvfrom, card, queue
  <2>1. CASE socket.pending = <<>>
    <3>1. Block /\ UNCHANGED socket /\ pc' = [pc EXCEPT ![Ping] = "recv"]
      BY <1>9, <2>1 DEF Recvfrom, Goto
    <3> QED
      BY <1>2, <2>0, <3>1 DEF Places
  <2>2. CASE socket.pending # <<>> /\ socket.lock # NoProcess
    <3>1. Block /\ UNCHANGED socket /\ pc' = [pc EXCEPT ![Ping] = "recv_lock"]
      BY <1>9, <2>2 DEF Recvfrom, Goto
    <3> QED
      BY <1>2, <2>0, <2>2, <3>1 DEF Places
  <2>3. CASE socket.pending # <<>> /\ socket.lock = NoProcess
    <3>1. UNCHANGED vars /\ pc' = [pc EXCEPT ![Ping] = "back"]
      BY <1>9, <2>3 DEF Recvfrom, Goto
    <3> QED
      BY <1>8, <2>0, <3>1 DEF Places
  <2> QED
    BY <2>1, <2>2, <2>3
<1>10. CASE RecvWoken
  <2>0. UNCHANGED <<rx_queue, isr, socket>>
    BY <1>10 DEF RecvWoken, card, queue
  <2>1. CASE timed_out
    <3>1. UNCHANGED vars /\ pc' = [pc EXCEPT ![Ping] = "done"]
      BY <1>10, <2>1 DEF RecvWoken, Goto
    <3> QED
      BY <1>2, <2>0, <3>1 DEF Places
  <2>2. CASE ~timed_out /\ socket.pending = <<>>
    <3>1. Block /\ pc' = pc
      BY <1>10, <2>2 DEF RecvWoken
    <3> QED
      BY <1>2, <2>0, <3>1 DEF Places
  <2>3. CASE ~timed_out /\ socket.pending # <<>>
    <3>1. UNCHANGED vars /\ pc' = [pc EXCEPT ![Ping] = "recv_lock"]
      BY <1>10, <2>3 DEF RecvWoken, Goto
    <3> QED
      BY <1>2, <2>0, <2>3, <3>1 DEF Places
  <2> QED
    BY <2>1, <2>2, <2>3
<1>11. CASE RecvLock
  <2>1. /\ UNCHANGED vars \/ Block
        /\ UNCHANGED <<rx_queue, isr>> /\ socket' \in {socket, [socket EXCEPT !.lock = Ping]}
        /\ pc[Ping] = "recv_lock" /\ pc' \in {pc, [pc EXCEPT ![Ping] = "take"]}
    BY <1>11 DEF RecvLock, LockOrSleep, At, Goto, card, queue
  <2>2. socket'.pending = socket.pending
    BY <1>0, <2>1 DEF SocketType
  <2> QED
    BY <1>2, <2>1, <2>2 DEF Places
<1>12. CASE RecvTake
  <2>1. socket.pending # <<>>
    BY <1>12 DEF RecvTake, At, Readers, PingHasPacket
  <2>2. UNCHANGED vars /\ UNCHANGED <<rx_queue, isr>> /\ pc' = [pc EXCEPT ![Ping] = "recv_unlock"]
    BY <1>12, <2>1 DEF RecvTake, Goto, card, queue
  <2> QED
    BY <1>8, <2>2 DEF Places
<1>13. CASE RecvUnlock
  <2>1. UNCHANGED vars /\ UNCHANGED <<rx_queue, isr>> /\ pc' = [pc EXCEPT ![Ping] = "back"]
    BY <1>13 DEF RecvUnlock, Goto, card, queue
  <2> QED
    BY <1>8, <2>1 DEF Places
<1>14. CASE NextPing
  <2>1. /\ UNCHANGED vars \/ Block
        /\ UNCHANGED <<rx_queue, isr, socket>>
        /\ pc' = [pc EXCEPT ![Ping] = "done"] \/ pc' = [pc EXCEPT ![Ping] = "ready"]
    BY <1>14 DEF NextPing, Goto, card, queue, icmp
  <2> QED
    BY <1>2, <2>1 DEF Places
<1>15. CASE PingEnds
  <2>1. Terminate /\ UNCHANGED <<pc, rx_queue, isr, socket>>
    BY <1>15 DEF PingEnds, network, card, queue, icmp
  <2>2. SchedPart' /\ NetAssertionsHold' /\ KeepsBlocked
    BY <2>1, SwitchSched DEF Readers
  <2>3. KeepsRx /\ KeepsPing
    BY <2>1 DEF KeepsRx, KeepsPing
  <2> QED
    BY <2>2, <2>3, KeepReaders
<1> QED
  BY <1>3, <1>4, <1>5, <1>6, <1>7, <1>9, <1>10, <1>11, <1>12, <1>13, <1>14, <1>15 DEF PingStep

\* The blockers, and the timer.
LEMMA UnblockReaders ==
    ASSUME Frames, Readers, (\E late \in BOOLEAN : Unblocking(late)) \/ Schedule \/ Halt
    PROVE  Readers'
<1>1. CASE \E late \in BOOLEAN : Unblocking(late)
  <2>1. PICK late \in BOOLEAN : Unblocking(late)
    BY <1>1
  <2>2. UNCHANGED <<pc, rx_queue, isr, socket>>
    BY <2>1 DEF Unblocking, card, queue
  <2> DEFINE p == blocked[cursor]
  <2>3. \/ Asleep(p) /\ VisitBlocked(late)
        \/ ~Asleep(p) /\ pc[p] = "wait" /\ VisitBlocked(RxPending)
        \/ ~Asleep(p) /\ pc[p] = "arp" /\ VisitBlocked(ArpAnswered(late))
        \/ ~Asleep(p) /\ pc[p] = "recv" /\ VisitBlocked(late \/ socket.pending # <<>>)
    BY <2>1 DEF Unblocking, RecvCanUnblock
  <2>4. \E can : /\ VisitBlocked(can)
                 /\ p = Rx /\ pc[Rx] = "wait" /\ isr.process # Rx => (can <=> rx_queue # <<>>)
    <3>1. p = Rx /\ pc[Rx] = "wait" /\ isr.process # Rx => ~Asleep(p)
      BY NetNames, Names DEF Asleep
    <3>2. CASE Asleep(p) /\ VisitBlocked(late)
      BY <3>1, <3>2
    <3>3. CASE ~Asleep(p) /\ pc[p] = "wait" /\ VisitBlocked(RxPending)
      <4>1. RxPending <=> rx_queue # <<>>
        BY DEF RxPending
      <4> QED
        BY <3>3, <4>1
    <3>4. CASE ~Asleep(p) /\ pc[p] = "arp" /\ VisitBlocked(ArpAnswered(late))
      <4>1. ~(p = Rx /\ pc[Rx] = "wait")
        BY <3>4
      <4> QED
        BY <3>4, <4>1
    <3>5. CASE ~Asleep(p) /\ pc[p] = "recv" /\ VisitBlocked(late \/ socket.pending # <<>>)
      <4>1. ~(p = Rx /\ pc[Rx] = "wait")
        BY <3>5
      <4> QED
        BY <3>5, <4>1
    <3> QED
      BY <2>3, <3>2, <3>3, <3>4, <3>5
  <2> HIDE DEF p
  <2>5. PICK can : /\ VisitBlocked(can)
                   /\ p = Rx /\ pc[Rx] = "wait" /\ isr.process # Rx => (can <=> rx_queue # <<>>)
    BY <2>4
  <2>6. /\ SchedPart' /\ NetAssertionsHold'
        /\ \A q \in Pids : state[q] = "Blocked" => state'[q] = "Blocked" \/ (q = p /\ can)
    BY <2>5, VisitSched DEF Readers, p
  <2>7. RxHasPacket'
    <3>1. CASE pc[Rx] = "wait" /\ rx_queue = <<>>
      <4>1. state[Rx] = "Blocked" /\ isr.process # Rx
        BY <3>1 DEF Readers, RxHasPacket
      <4>2. state'[Rx] = "Blocked"
        BY <2>5, <2>6, <3>1, <4>1, NetNames
      <4> QED
        BY <2>2, <3>1, <4>1, <4>2 DEF RxHasPacket
    <3>2. CASE ~(pc[Rx] = "wait" /\ rx_queue = <<>>)
      BY <2>2, <3>2 DEF Readers, RxHasPacket
    <3> QED
      BY <3>1, <3>2
  <2>8. PingHasPacket'
    BY <2>2 DEF Readers, PingHasPacket
  <2> QED
    BY <2>6, <2>7, <2>8 DEF Readers
<1>2. CASE Schedule \/ Halt
  <2>1. UNCHANGED <<pc, rx_queue, isr, socket>> /\ (Tick \/ TickSwitch \/ UNCHANGED vars)
    BY <1>2 DEF Schedule, Halt, Hang, network, card, queue, icmp
  <2>2. SchedPart' /\ NetAssertionsHold' /\ KeepsBlocked
    BY <2>1, TickSched, SwitchSched, SameSched DEF Readers
  <2>3. KeepsRx /\ KeepsPing
    BY <2>1 DEF KeepsRx, KeepsPing
  <2> QED
    BY <2>2, <2>3, KeepReaders
<1> QED
  BY <1>1, <1>2

-----------------------------------------------------------------------------
(* The theorems *)

\* Nothing has come, and both processes are runnable.
LEMMA NetworkInitInv == NetworkInit => NetworkInv
<1> SUFFICES ASSUME NetworkInit PROVE NetworkInv
  OBVIOUS
<1>1. DataTypes
  <2>1. /\ ring = <<>> /\ rx_queue = <<>> /\ got = <<>> /\ hand = NoFrame /\ socket = NoSocket
        /\ arrived = [frames |-> 0, echoes |-> 0, noise |-> 0] /\ requested = FALSE
        /\ isr = NoIsr
    BY DEF NetworkInit
  <2>2. /\ tx_index = 0 /\ tx_buf = [i \in Slots |-> "none"]
        /\ sending = [p \in Pids |-> [kind |-> "none", buffer |-> 0]]
        /\ pc = [p \in Pids |-> IF p = Rx THEN "loop" ELSE "user"]
    BY DEF NetworkInit, Slots
  <2>3. /\ ring \in Seq(Frame) /\ rx_queue \in Seq(Frame) /\ got \in Seq(Frame)
    BY <2>1
  <2>4. socket \in [registered : BOOLEAN, pending : Seq(Frame), lock : Pids \cup {NoProcess}]
    BY <2>1 DEF NoSocket
  <2>5. /\ arrived \in [frames : Nat, echoes : Nat, noise : Nat]
        /\ isr \in [process : Processes \cup {NoProcess}, locked : BOOLEAN]
    BY <2>1 DEF NoIsr
  <2>6. tx_index \in Slots /\ tx_buf \in [Slots -> Sends]
    BY <2>2, NetNames DEF Sends
  <2>7. sending \in [Pids -> [kind : Sends, buffer : Slots]]
    BY <2>2, NetNames DEF Sends
  <2>8. pc \in [Pids -> Places]
    BY <2>2 DEF Places
  <2>9. hand \in Frame \cup {NoFrame} /\ requested \in BOOLEAN
    BY <2>1, Zenon
  <2> QED
    BY <2>3, <2>4, <2>5, <2>6, <2>7, <2>8, <2>9 DEF DataTypes
<1>2. pc[Rx] = "loop" /\ pc[Ping] = "user"
  BY NetNames DEF NetworkInit
<1>3. HandlerHasFrame /\ HandIsFrame /\ Asked
  BY <1>2 DEF NetworkInit, HandlerHasFrame, HandIsFrame, Holding, Asked
<1>4. Registered
  BY <1>2 DEF NetworkInit, Registered, Slots
<1>5. RepliesInOrder
  <2>1. got = <<>> /\ socket.pending = <<>> /\ rx_queue = <<>> /\ ring = <<>> /\ arrived.echoes = 0
    BY DEF NetworkInit, NoSocket
  <2>2. InHand = <<>>
    BY <1>2 DEF InHand
  <2>3. got \o socket.pending \o InHand \o rx_queue \o ring = <<>>
    BY <2>1, <2>2
  <2> QED
    BY <2>1, <2>3 DEF RepliesInOrder
<1>6. SchedPart
  <2>1. runnable = [i \in 1..NumBoot |-> i] /\ NumBoot = MaxPid
    BY NetworkAssumption DEF NetworkInit, Init
  <2>2. /\ blocked = <<>> /\ cursor = 1 /\ current = NoProcess /\ phase = "cpu"
        /\ state = [p \in Processes |-> "Runnable"]
    BY NetworkAssumption DEF NetworkInit, Init, Processes
  <2>3. runnable \in Seq(Pids) /\ DOMAIN runnable = 1..NumBoot
    BY <2>1, SchedulerAssumption DEF Pids
  <2>4. RunnableOnce
    BY <2>1, <2>3 DEF RunnableOnce, IsInjective
  <2>5. RunnableCanRun /\ CurrentRuns
    BY <2>2, Names DEF RunnableCanRun, CurrentRuns
  <2>6. SchedTypes
    BY <2>2, <2>3 DEF SchedTypes, States
  <2> QED
    BY <2>4, <2>5, <2>6 DEF SchedPart
<1>7. RxHasPacket /\ PingHasPacket
  BY <1>2 DEF RxHasPacket, PingHasPacket
<1>8. NetAssertionsHold
  BY DEF NetworkInit, Init, NetAssertionsHold, NoPanic, RxEmpty, SocketEmpty
<1> QED
  BY <1>1, <1>3, <1>4, <1>5, <1>6, <1>7, <1>8 DEF NetworkInv, Frames, Readers

\* One case for each action, for the frames and for their readers.
LEMMA NetworkNextInv == NetworkInv /\ [NetworkNext]_nvars => NetworkInv'
<1> SUFFICES ASSUME Frames, Readers, [NetworkNext]_nvars
             PROVE  Frames' /\ Readers'
  BY DEF NetworkInv
<1>1. current \in Processes \cup {NoProcess}
  BY DEF Readers, SchedPart, SchedTypes
<1>2. CASE \E kind \in Kinds : FrameArrives(kind)
  BY <1>2, ArriveFrames, HandlerReaders
<1>3. CASE Interrupt \/ IsrLock \/ IsrQueue
  BY <1>1, <1>3, InterruptFrames, HandlerReaders
<1>4. CASE RxStep
  <2>1. "unlock" \in Places \ Holding
    BY DEF Places, Holding
  <2>2. Frames'
    BY <1>4, <2>1, RxIdleFrames, HandFrames, IcmpFrames, TransmitFrames, NetNames DEF RxStep
  <2> QED
    BY <1>4, <2>2, RxReaders
<1>5. CASE PingStep
  <2>1. "sent" \in Places \ Holding
    BY DEF Places, Holding
  <2>2. CASE PingEnds
    <3>1. UNCHANGED <<card, queue, socket, got, pc, arrived>>
      BY <2>2 DEF PingEnds, network, icmp, ping
    <3> QED
      BY <1>5, <3>1, SchedulerFrames, PingReaders
  <2>3. CASE ~PingEnds
    <3>1. Frames'
      BY <1>5, <2>1, <2>3, PingFrames, TakeFrames, TransmitFrames, NetNames DEF PingStep
    <3> QED
      BY <1>5, <3>1, PingReaders
  <2> QED
    BY <2>2, <2>3
<1>6. CASE (\E late \in BOOLEAN : Unblocking(late)) \/ Schedule \/ Halt
  <2>1. UNCHANGED <<card, queue, socket, got, pc, arrived>>
    BY <1>6 DEF Unblocking, Schedule, Halt, network, icmp, ping
  <2> QED
    BY <1>6, <2>1, SchedulerFrames, UnblockReaders
<1>7. CASE UNCHANGED nvars
  <2>1. UNCHANGED vars /\ UNCHANGED <<card, queue, socket, got, pc, arrived>>
        /\ UNCHANGED <<rx_queue, isr>>
    BY <1>7 DEF nvars, network, icmp, ping, card, queue
  <2>2. SchedPart' /\ NetAssertionsHold' /\ KeepsBlocked
    BY <2>1, SameSched DEF Readers
  <2>3. KeepsRx /\ KeepsPing
    BY <2>1 DEF KeepsRx, KeepsPing
  <2> QED
    BY <2>1, <2>2, <2>3, SchedulerFrames, KeepReaders
<1> QED
  BY <1>2, <1>3, <1>4, <1>5, <1>6, <1>7 DEF NetworkNext, Kinds

(***************************************************************************)
(* The invariant of the network stack, with the task, ping, the handler    *)
(* and the network in any order.                                           *)
(***************************************************************************)
THEOREM NetworkInvariance == NetworkSpec => []NetworkInv
<1> QED
  BY NetworkInitInv, NetworkNextInv, PTL DEF NetworkSpec

(***************************************************************************)
(* on_packet_received, the task, on_received and recvfrom lose no echo     *)
(* reply and change the order of none, for any number of frames: the       *)
(* handler that sleeps, a task that is interrupted at any point and a      *)
(* receiver that waits for the lock included.                              *)
(***************************************************************************)
THEOREM RepliesStayInOrder == NetworkSpec => []RepliesInOrder
<1>1. NetworkInv => RepliesInOrder
  BY DEF NetworkInv, Frames
<1> QED
  BY <1>1, NetworkInvariance, PTL

(***************************************************************************)
(* The ASSERTs of handle_received_packets_task and of recvfrom hold: what  *)
(* a blocker saw in the queue is there when the lock is taken.             *)
(***************************************************************************)
THEOREM NetworkAssertions == NetworkSpec => []NetAssertionsHold
<1>1. NetworkInv => NetAssertionsHold
  BY DEF NetworkInv, Readers
<1> QED
  BY <1>1, NetworkInvariance, PTL
=============================================================================
