------------------------------ MODULE Network -------------------------------
(***************************************************************************)
(* The network stack (kernel/Network) and the driver of its card           *)
(* (kernel/drivers/RTL8139NetworkCard.cpp) with one program that uses them *)
(* (userspace/ping/main.cpp), on top of the scheduler.                     *)
(*                                                                         *)
(* A frame that arrives lies in the ring of the card until the interrupt   *)
(* handler moves it to m_rx_queue, under m_rx_lock and in the context of   *)
(* the process it interrupts.  The task Rx, which runs with interrupts     *)
(* enabled, takes frames from that queue and handles each of them with     *)
(* m_rx_lock held: an ARP answer is given to the blockers that wait for it,*)
(* an ARP request is answered, an echo reply goes to the socket.  A system *)
(* call of Ping is atomic until it blocks for the first time.              *)
(*                                                                         *)
(* A frame is its kind and, for an echo reply, the number of its arrival.  *)
(* There is one gateway, which everything is sent to.                      *)
(***************************************************************************)
EXTENDS Scheduler

CONSTANTS NUM_PINGS,        \* echo requests ping sends
          MaxFrames,        \* bound: frames that arrive
          MaxNoise,         \* bound: those of them that answer nothing Ping sent
          NUM_SEND_BUFFERS

ASSUME NetworkAssumption ==
    /\ MaxPid = 2 /\ NumBoot = 2
    /\ NUM_PINGS \in Nat \ {0} /\ MaxFrames \in Nat /\ MaxNoise \in Nat
    /\ NUM_SEND_BUFFERS \in Nat \ {0}

Rx   == 1   \* handle_received_packets_task
Ping == 2

RxEmpty     == "handle_received_packets_task: m_rx_queue is empty"
SocketEmpty == "recvfrom: m_pending_packets is empty"
Dangling    == "on_arp_message_received: m_arp_blockers has moved"

VARIABLES
    ring,       \* frames in the receive buffer of the card
    isr,        \* a handler that had to wait: its process and whether it holds m_rx_lock
    rx_queue,   \* NetworkManager::m_rx_queue
    rx_lock,    \* holder of NetworkManager::m_rx_lock
    icmp_lock,  \* holder of Icmp::m_lock
    socket,     \* the IcmpSocket of Ping: in m_sockets, its m_pending_packets and m_lock
    blockers,   \* Arp::m_arp_blockers: whether each has an answer
    arp_cache,  \* the gateway is in the ARP cache
    timed_out,  \* PendingPacketsBlocker::m_timed_out
    tx_index,   \* m_current_transmit_index
    tx_buf,     \* m_send_buffers
    sending,    \* the frame a process transmits and the buffer it has put it into
    hand,       \* the frame Rx handles
    iterated,   \* the number of blockers Rx goes through
    pc,         \* where a process is
    pings,      \* echo requests of Ping so far
    requested,  \* history: the card has sent an echo request
    arrived,    \* history: how many frames arrived, and of which kinds
    got         \* history: echo replies Ping received

card    == <<ring, isr, tx_index, tx_buf, sending, requested>>
queue   == <<rx_queue, rx_lock, hand>>
arp     == <<blockers, arp_cache, iterated>>
icmp    == <<icmp_lock, socket, timed_out>>
ping    == <<pings, got>>
network == <<card, queue, arp, icmp, ping, pc, arrived>>
nvars   == <<vars, network>>

NoIsr   == [process |-> NoProcess, locked |-> FALSE]
NoFrame == [kind |-> "none", n |-> 0]
NoSocket == [registered |-> FALSE, pending |-> <<>>, lock |-> NoProcess]

NetworkInit ==
    /\ Init
    /\ ring = <<>> /\ isr = NoIsr
    /\ rx_queue = <<>> /\ rx_lock = NoProcess /\ hand = NoFrame
    /\ icmp_lock = NoProcess /\ socket = NoSocket /\ timed_out = FALSE
    /\ blockers = <<>> /\ arp_cache = FALSE /\ iterated = 0
    /\ tx_index = 0 /\ tx_buf = [i \in 0..(NUM_SEND_BUFFERS - 1) |-> "none"]
    /\ sending = [p \in Pids |-> [kind |-> "none", buffer |-> 0]]
    /\ pc = [p \in Pids |-> IF p = Rx THEN "loop" ELSE "user"]
    /\ pings = 0 /\ requested = FALSE /\ arrived = [frames |-> 0, echoes |-> 0, noise |-> 0] /\ got = <<>>

\* The running process blocks and goes on where it is when it is unblocked.
Block == block_current("event") /\ UNCHANGED <<waiter, finished, ready, next_pid>>

At(p, l) == InProcess /\ current = p /\ isr.process # p /\ pc[p] = l

Goto(p, l) == pc' = [pc EXCEPT ![p] = l]

\* Lock::lock of a process: free is whether the lock is free, take takes it.
LockOrSleep(p, free, take, untaken, next) ==
    IF free THEN take /\ Goto(p, next) /\ UNCHANGED vars
    ELSE Block /\ UNCHANGED <<untaken, pc>>

-----------------------------------------------------------------------------
(* The network: frames may be lost, doubled or late.  Echo replies are sent *)
(* to those who asked.                                                      *)

FrameArrives(kind) ==
    /\ phase # "hang"
    /\ arrived.frames < MaxFrames
    /\ kind = "echo" => requested
    /\ arrived' = [frames |-> arrived.frames + 1,
                   echoes |-> arrived.echoes + IF kind = "echo" THEN 1 ELSE 0,
                   noise |-> arrived.noise + IF kind \in {"arp_request", "other"} THEN 1 ELSE 0]
    /\ arrived'.noise <= MaxNoise
    /\ ring' = Append(ring, [kind |-> kind, n |-> IF kind = "echo" THEN arrived'.echoes ELSE 0])
    /\ UNCHANGED <<vars, isr, tx_index, tx_buf, sending, requested, queue, arp, icmp, ping, pc>>

-----------------------------------------------------------------------------
(* isr_rtl8139_handler and NetworkManager::on_packet_received *)

\* Mutant of Received: the newest packet is handled first.
ReceivedFirst(q, f) == <<f>> \o q

\* on_packet_received, with the lock held.
Received(q, f) == Append(q, f)

\* The loop of the handler, which calls recv_packet until the ring is empty.
ReceiveAll(q, frames) ==
    LET after[i \in 0..Len(frames)] ==
            IF i = 0 THEN q ELSE Received(after[i - 1], frames[i])
    IN  after[Len(frames)]

\* The handler empties the ring; with the lock taken it sleeps in the process
\* it interrupted, before PIC::eoi.  (Bound: see IsrLock.)
Interrupt ==
    /\ phase = "cpu" /\ current # NoProcess
    /\ isr = NoIsr /\ ring # <<>>
    /\ rx_lock = NoProcess \/ ~Contains(blocked, Idle)
    /\ IF rx_lock = NoProcess
       THEN /\ rx_queue' = ReceiveAll(rx_queue, ring)
            /\ ring' = <<>>
            /\ UNCHANGED <<vars, isr>>
       ELSE /\ isr' = [process |-> current, locked |-> FALSE]
            /\ Block
            /\ UNCHANGED <<ring, rx_queue>>
    /\ UNCHANGED <<rx_lock, hand, tx_index, tx_buf, sending, requested, arp, icmp, ping, pc, arrived>>

\* A handler that slept tries again.  Idle has the CPU back at once unless a
\* process is runnable; bound: idle, still in the blocked list then, does not
\* enter itself a second time.
IsrLock ==
    /\ phase = "cpu" /\ isr # NoIsr /\ isr.process = current /\ ~isr.locked
    /\ rx_lock = NoProcess \/ ~Contains(blocked, Idle)
    /\ IF rx_lock = NoProcess
       THEN /\ rx_lock' = current
            /\ isr' = [isr EXCEPT !.locked = TRUE]
            /\ UNCHANGED vars
       ELSE Block /\ UNCHANGED <<rx_lock, isr>>
    /\ UNCHANGED <<ring, rx_queue, hand, tx_index, tx_buf, sending, requested, arp, icmp, ping, pc, arrived>>

\* One packet; after the last one the interrupt is acknowledged.
IsrQueue ==
    /\ phase = "cpu" /\ isr.process = current /\ isr.locked
    /\ rx_queue' = Received(rx_queue, Head(ring))
    /\ ring' = Tail(ring)
    /\ rx_lock' = NoProcess
    /\ isr' = IF Len(ring) = 1 THEN NoIsr ELSE [isr EXCEPT !.locked = FALSE]
    /\ UNCHANGED <<vars, hand, tx_index, tx_buf, sending, requested, arp, icmp, ping, pc, arrived>>

-----------------------------------------------------------------------------
(* RTL8139NetworkCard::transmit *)

\* With interrupts disabled: nobody comes in between.
TransmitAtOnce(kind) ==
    /\ tx_buf' = [tx_buf EXCEPT ![tx_index] = kind]
    /\ tx_index' = (tx_index + 1) % NUM_SEND_BUFFERS
    /\ requested' = (requested \/ kind = "echo_request")
    /\ UNCHANGED sending

\* The frame is copied to the buffer of the current index ...
TransmitCopy(p, next) ==
    /\ tx_buf' = [tx_buf EXCEPT ![tx_index] = sending[p].kind]
    /\ sending' = [sending EXCEPT ![p].buffer = tx_index]
    /\ Goto(p, next)
    /\ UNCHANGED <<tx_index, requested>>

\* ... which is sent, whoever has written to it since ...
TransmitStart(p, next) ==
    /\ requested' = (requested \/ tx_buf[sending[p].buffer] = "echo_request")
    /\ Goto(p, next)
    /\ UNCHANGED <<tx_index, tx_buf, sending>>

\* ... and the index, which may have moved too, goes on.
TransmitNext(p, next) ==
    /\ tx_index' = (tx_index + 1) % NUM_SEND_BUFFERS
    /\ sending' = [sending EXCEPT ![p] = [kind |-> "none", buffer |-> 0]]
    /\ Goto(p, next)
    /\ UNCHANGED <<tx_buf, requested>>

Transmit(p, done) ==
    /\ \/ At(p, "copy") /\ TransmitCopy(p, "start")
       \/ At(p, "start") /\ TransmitStart(p, "next")
       \/ At(p, "next") /\ TransmitNext(p, done)
    /\ UNCHANGED <<vars, ring, isr, queue, arp, icmp, ping, arrived>>

-----------------------------------------------------------------------------
(* handle_received_packets_task *)

AwaitPacket ==
    /\ At(Rx, "loop")
    /\ Goto(Rx, "wait")
    /\ Block
    /\ UNCHANGED <<card, queue, arp, icmp, ping, arrived>>

RxLock ==
    /\ At(Rx, "wait") \/ At(Rx, "lock")
    /\ IF rx_lock = NoProcess
       THEN rx_lock' = Rx /\ Goto(Rx, "pop") /\ UNCHANGED vars
       ELSE Goto(Rx, "lock") /\ Block /\ UNCHANGED rx_lock
    /\ UNCHANGED <<card, rx_queue, hand, arp, icmp, ping, arrived>>

PopPacket ==
    /\ At(Rx, "pop")
    /\ IF rx_queue = <<>>
       THEN Panic(RxEmpty) /\ UNCHANGED <<rx_queue, hand, pc>>
       ELSE /\ hand' = Head(rx_queue)
            /\ rx_queue' = Tail(rx_queue)
            /\ Goto(Rx, "handle")
            /\ UNCHANGED vars
    /\ UNCHANGED <<card, rx_lock, arp, icmp, ping, arrived>>

\* Where on_arp_message_received and IpV4::on_packet_received lead; messages
\* and packets for others and of other protocols are dropped.
ArpMessage(kind) == IF kind = "arp_request" THEN "copy" ELSE "arp"
IpPacket(kind)   == IF kind = "echo" THEN "icmp" ELSE "unlock"

\* send_arp_response up to transmit
send_arp_response == sending' = [sending EXCEPT ![Rx].kind = "arp_response"]

HandlePacket ==
    /\ At(Rx, "handle")
    /\ Goto(Rx, IF hand.kind \in {"arp_request", "arp_reply"} THEN ArpMessage(hand.kind)
                ELSE IpPacket(hand.kind))
    /\ iterated' = IF hand.kind = "arp_reply" THEN Len(blockers) ELSE 0
    /\ IF hand.kind = "arp_request" THEN send_arp_response ELSE UNCHANGED sending
    /\ UNCHANGED <<vars, ring, isr, tx_index, tx_buf, requested, queue, blockers, arp_cache,
                   icmp, ping, arrived>>

\* The blockers are answered; when the vector has grown meanwhile, its old
\* memory is read, which may have been given to somebody else.
SetAnswers ==
    /\ At(Rx, "arp")
    /\ \/ /\ blockers' = [i \in DOMAIN blockers |-> blockers[i] \/ i <= iterated]
          /\ iterated' = 0
          /\ Goto(Rx, "unlock")
          /\ UNCHANGED vars
       \/ /\ Len(blockers) > iterated
          /\ Panic(Dangling)
          /\ UNCHANGED <<blockers, iterated, pc>>
    /\ UNCHANGED <<card, queue, arp_cache, icmp, ping, arrived>>

\* Icmp::on_packet_received and IcmpSocket::on_received, each under its lock.
IcmpLock ==
    /\ At(Rx, "icmp")
    /\ LockOrSleep(Rx, icmp_lock = NoProcess, icmp_lock' = Rx, icmp_lock,
                   IF socket.registered THEN "sock" ELSE "unlock")
    /\ UNCHANGED <<card, queue, arp, socket, timed_out, ping, arrived>>

SocketLock ==
    /\ At(Rx, "sock")
    /\ LockOrSleep(Rx, socket.lock = NoProcess, socket' = [socket EXCEPT !.lock = Rx], socket,
                   "append")
    /\ UNCHANGED <<card, queue, arp, icmp_lock, timed_out, ping, arrived>>

on_received ==
    /\ At(Rx, "append")
    /\ socket' = [socket EXCEPT !.pending = Append(@, hand)]
    /\ Goto(Rx, "sock_unlock")
    /\ UNCHANGED <<vars, card, queue, arp, icmp_lock, timed_out, ping, arrived>>

SocketUnlock ==
    /\ At(Rx, "sock_unlock")
    /\ socket' = [socket EXCEPT !.lock = NoProcess]
    /\ Goto(Rx, "unlock")
    /\ UNCHANGED <<vars, card, queue, arp, icmp_lock, timed_out, ping, arrived>>

\* The locks of Icmp and of the queue are released.
RxUnlock ==
    /\ At(Rx, "unlock")
    /\ rx_lock' = NoProcess
    /\ icmp_lock' = IF icmp_lock = Rx THEN NoProcess ELSE icmp_lock
    /\ hand' = NoFrame
    /\ Goto(Rx, "loop")
    /\ UNCHANGED <<vars, card, rx_queue, arp, socket, timed_out, ping, arrived>>

RxStep ==
    \/ AwaitPacket \/ RxLock \/ PopPacket \/ HandlePacket \/ SetAnswers
    \/ IcmpLock \/ SocketLock \/ on_received \/ SocketUnlock \/ RxUnlock
    \/ Transmit(Rx, "unlock")

-----------------------------------------------------------------------------
(* ping: socket, and NUM_PINGS times sendto and recvfrom *)

\* syscall_socket and Icmp::register_socket
Socket ==
    /\ At(Ping, "user") \/ At(Ping, "register")
    /\ IF icmp_lock = NoProcess
       THEN socket' = [socket EXCEPT !.registered = TRUE] /\ Goto(Ping, "ready") /\ UNCHANGED vars
       ELSE Goto(Ping, "register") /\ Block /\ UNCHANGED socket
    /\ UNCHANGED <<card, queue, arp, icmp_lock, timed_out, ping, arrived>>

\* sendto when the gateway is known
SendCached ==
    /\ At(Ping, "ready") /\ arp_cache
    /\ TransmitAtOnce("echo_request")
    /\ pings' = pings + 1
    /\ Goto(Ping, "sent")
    /\ UNCHANGED <<vars, ring, isr, queue, arp, icmp, got, arrived>>

\* send_arp_request up to block_current
SendArpRequest ==
    /\ At(Ping, "ready") /\ ~arp_cache
    /\ blockers' = Append(blockers, FALSE)
    /\ TransmitAtOnce("arp_request")
    /\ pings' = pings + 1
    /\ Goto(Ping, "arp")
    /\ Block
    /\ UNCHANGED <<ring, isr, queue, arp_cache, iterated, icmp, got, arrived>>

\* The rest of it, and of resolve_arp and IpV4::send: without an answer
\* nothing is sent, and sendto returns what it returns otherwise.
ArpReturns ==
    /\ At(Ping, "arp")
    /\ IF blockers[Len(blockers)]
       THEN /\ arp_cache' = TRUE
            /\ sending' = [sending EXCEPT ![Ping].kind = "echo_request"]
            /\ Goto(Ping, "copy")
       ELSE Goto(Ping, "sent") /\ UNCHANGED <<arp_cache, sending>>
    /\ UNCHANGED <<vars, ring, isr, tx_index, tx_buf, requested, queue, blockers, iterated,
                   icmp, ping, arrived>>

\* recvfrom: with a packet and its lock free, all of it is atomic.
Recvfrom ==
    /\ At(Ping, "sent")
    /\ CASE socket.pending = <<>> ->
              Goto(Ping, "recv") /\ Block /\ timed_out' = FALSE /\ UNCHANGED <<socket, got>>
         [] socket.pending # <<>> /\ socket.lock # NoProcess ->
              Goto(Ping, "recv_lock") /\ Block /\ UNCHANGED <<socket, got, timed_out>>
         [] OTHER ->
              /\ got' = Append(got, Head(socket.pending))
              /\ socket' = [socket EXCEPT !.pending = Tail(@)]
              /\ Goto(Ping, "back")
              /\ UNCHANGED <<vars, timed_out>>
    /\ UNCHANGED <<card, queue, arp, icmp_lock, pings, arrived>>

\* Mutant of RecvWoken: it does not ask why it was unblocked.
RecvAnyhow ==
    /\ At(Ping, "recv")
    /\ Goto(Ping, "recv_lock")
    /\ UNCHANGED <<vars, card, queue, arp, icmp, ping, arrived>>

\* It was unblocked: by a packet, or by the time.
RecvWoken ==
    /\ At(Ping, "recv")
    /\ CASE timed_out -> Goto(Ping, "done") /\ UNCHANGED <<vars, timed_out>>
         [] ~timed_out /\ socket.pending = <<>> ->
              Block /\ timed_out' = FALSE /\ UNCHANGED pc
         [] OTHER -> Goto(Ping, "recv_lock") /\ UNCHANGED <<vars, timed_out>>
    /\ UNCHANGED <<card, queue, arp, icmp_lock, socket, ping, arrived>>

RecvLock ==
    /\ At(Ping, "recv_lock")
    /\ LockOrSleep(Ping, socket.lock = NoProcess, socket' = [socket EXCEPT !.lock = Ping], socket,
                   "take")
    /\ UNCHANGED <<card, queue, arp, icmp_lock, timed_out, ping, arrived>>

RecvTake ==
    /\ At(Ping, "take")
    /\ IF socket.pending = <<>>
       THEN Panic(SocketEmpty) /\ UNCHANGED <<socket, got, pc>>
       ELSE /\ got' = Append(got, Head(socket.pending))
            /\ socket' = [socket EXCEPT !.pending = Tail(@)]
            /\ Goto(Ping, "recv_unlock")
            /\ UNCHANGED vars
    /\ UNCHANGED <<card, queue, arp, icmp_lock, timed_out, pings, arrived>>

RecvUnlock ==
    /\ At(Ping, "recv_unlock")
    /\ socket' = [socket EXCEPT !.lock = NoProcess]
    /\ Goto(Ping, "back")
    /\ UNCHANGED <<vars, card, queue, arp, icmp_lock, timed_out, ping, arrived>>

\* ping sleeps for a second before the next request.
NextPing ==
    /\ At(Ping, "back")
    /\ IF pings = NUM_PINGS
       THEN Goto(Ping, "done") /\ UNCHANGED vars
       ELSE Goto(Ping, "ready") /\ Block
    /\ UNCHANGED <<card, queue, arp, icmp, ping, arrived>>

\* main returns; the socket is not closed.
PingEnds ==
    /\ At(Ping, "done")
    /\ Terminate
    /\ UNCHANGED network

PingStep ==
    \/ Socket \/ SendCached \/ SendArpRequest \/ ArpReturns \/ Transmit(Ping, "sent")
    \/ Recvfrom \/ RecvWoken \/ RecvLock \/ RecvTake \/ RecvUnlock \/ NextPing \/ PingEnds

-----------------------------------------------------------------------------
(* The blockers, as try_unblock_tasks asks them.  A timeout may be over at  *)
(* any look, and so may a sleep.                                            *)

Asleep(p) == isr.process # p /\ p # Idle => pc[p] \notin {"wait", "arp", "recv"}

\* Mutant of RxPending: several packets in the queue are taken for none.
OnePending == Len(rx_queue) = 1

\* PendingRxBlocker::can_unblock
RxPending == rx_queue # <<>>

\* PendingRequestBlocker::can_unblock
ArpAnswered(late) == blockers[Len(blockers)] \/ late

\* Mutant of RecvCanUnblock: the time is not looked at.
PendingOnly(late) ==
    /\ VisitBlocked(socket.pending # <<>>)
    /\ UNCHANGED timed_out

\* PendingPacketsBlocker::can_unblock, which remembers that it timed out
RecvCanUnblock(late) ==
    /\ VisitBlocked(late \/ socket.pending # <<>>)
    /\ timed_out' = late

Unblocking(late) ==
    /\ phase = "unblock" /\ cursor <= Len(blocked)
    /\ LET p == blocked[cursor]
       IN  \/ Asleep(p) /\ VisitBlocked(late) /\ UNCHANGED timed_out
           \/ ~Asleep(p) /\ pc[p] = "wait" /\ VisitBlocked(RxPending) /\ UNCHANGED timed_out
           \/ ~Asleep(p) /\ pc[p] = "arp" /\ VisitBlocked(ArpAnswered(late)) /\ UNCHANGED timed_out
           \/ ~Asleep(p) /\ pc[p] = "recv" /\ RecvCanUnblock(late)
    /\ UNCHANGED <<card, queue, arp, icmp_lock, socket, ping, pc, arrived>>

Schedule == (Tick \/ TickSwitch) /\ UNCHANGED network

Halt == Hang /\ UNCHANGED network

NetworkNext ==
    \/ \E kind \in {"arp_reply", "arp_request", "echo", "other"} : FrameArrives(kind)
    \/ Interrupt \/ IsrLock \/ IsrQueue
    \/ RxStep
    \/ PingStep
    \/ \E late \in BOOLEAN : Unblocking(late)
    \/ Schedule
    \/ Halt

NetworkSpec == NetworkInit /\ [][NetworkNext]_nvars

\* The time of p is over when its blocker is asked.
TimeOver(p) == phase = "unblock" /\ cursor <= Len(blocked) /\ blocked[cursor] = p /\ Unblocking(TRUE)

(***************************************************************************)
(* The timer ticks, a timeout or a sleep is over at last, an interrupt that*)
(* stays requested is delivered, and a process that gets the CPU again and *)
(* again gets on.  Nothing is assumed of the network.                      *)
(***************************************************************************)
NetworkFairness ==
    /\ WF_nvars(Schedule)
    /\ WF_nvars(\E late \in BOOLEAN : Unblocking(late))
    /\ SF_nvars(Interrupt)
    /\ \A p \in Pids :
        /\ SF_nvars(TimeOver(p))
        /\ SF_nvars(current = p /\ (RxStep \/ PingStep \/ IsrLock \/ IsrQueue))

FairNetworkSpec == NetworkSpec /\ NetworkFairness

-----------------------------------------------------------------------------
(* Properties *)

\* The frame Rx has taken and not yet given to the socket.
InHand == IF pc[Rx] \in {"handle", "icmp", "sock", "append"} THEN <<hand>> ELSE <<>>

(***************************************************************************)
(* Every echo reply that arrived is received by ping, waits in its socket, *)
(* is being handled, is in m_rx_queue or in the ring of the card, in the   *)
(* order of arrival, wherever a handler, the task and a receiver           *)
(* interrupted each other.                                                 *)
(***************************************************************************)
RepliesInOrder ==
    LET all == got \o socket.pending \o InHand \o rx_queue \o ring
        Echoes == {i \in 1..Len(all) : all[i].kind = "echo"}
    IN  /\ {all[i].n : i \in Echoes} = 1..arrived.echoes
        /\ \A i, j \in Echoes : i < j => all[i].n < all[j].n

(***************************************************************************)
(* The ASSERTs of the network stack hold: the task and recvfrom look at    *)
(* their queue before they have its lock and still find a packet under it, *)
(* when each queue has one reader.                                         *)
(***************************************************************************)
NetAssertionsHold == panic \notin {RxEmpty, SocketEmpty}

(***************************************************************************)
(* What ASSERT(state == Blocked) in try_unblock_tasks (Scheduler.cpp:104)  *)
(* says of the blocked list: every task in it is blocked.  A handler that  *)
(* finds m_rx_lock taken while idle runs puts idle there.                  *)
(***************************************************************************)
BlockedAreBlocked == panic # NotBlockedFailed

(***************************************************************************)
(* The two ways to wait forever: a handler waits for m_rx_lock and         *)
(* interrupted the task that holds it, or interrupted ping with the lock   *)
(* of the socket that the task waits for.                                  *)
(***************************************************************************)
Stuck ==
    /\ isr # NoIsr /\ ~isr.locked
    /\ \/ isr.process = Rx
       \/ isr.process = socket.lock /\ pc[Rx] = "sock"

(***************************************************************************)
(* sendto and recvfrom return whatever the network does, by an answer or   *)
(* by their timeout, unless the handler is stuck or the kernel panicked.   *)
(***************************************************************************)
CallsReturn ==
    pc[Ping] \in {"arp", "recv"} ~> (pc[Ping] \in {"back", "done"} \/ Stuck \/ phase = "hang")

(***************************************************************************)
(* Every frame in the ring or in m_rx_queue is handled, one by one,        *)
(* although one wake-up may stand for several frames.                      *)
(***************************************************************************)
FramesAreHandled ==
    ring # <<>> \/ rx_queue # <<>> ~> (ring \o rx_queue = <<>> \/ Stuck \/ phase = "hang")
=============================================================================
