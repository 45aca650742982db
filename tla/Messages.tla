------------------------------ MODULE Messages ------------------------------
(***************************************************************************)
(* Messages between processes: syscall_send_message, syscall_get_message   *)
(* and their helpers (kernel/process.cpp), the lock of the queue           *)
(* (kernel/lock.cpp) and PendingMessageBlocker (kernel/TaskBlocker.cpp),   *)
(* on top of the scheduler.                                                *)
(*                                                                         *)
(* A system call starts with interrupts disabled, so an uncontended send   *)
(* or receive is atomic.  Once it has blocked (for a message, or in        *)
(* Lock::lock, which sleeps while the lock is taken) it goes on with       *)
(* interrupts enabled and can be preempted anywhere, with the lock held.   *)
(* There the list operations take two steps: the list is read, then it is  *)
(* written, so two that overlap would lose an update.                      *)
(***************************************************************************)
EXTENDS Scheduler

CONSTANTS Receivers,    \* processes that are sent messages and receive them
          MaxMessages   \* bound: messages a process sends

ASSUME MessagesAssumption == Receivers \subseteq Pids /\ MaxMessages \in Nat

VARIABLES
    inbox,    \* m_messages of each process
    lock,     \* m_message_lock of each process: its holder
    pc,       \* where in a system call a process is
    target,   \* receiver of syscall_send_message
    seen,     \* the list as read at the start of a list operation
    nsent,    \* messages a process has sent or begun to send
    sent,     \* history: messages put in the queue of a process
    got       \* history: messages it was given

msgs  == <<inbox, lock, pc, target, seen, nsent, sent, got>>
mvars == <<vars, msgs>>

NoMessage == "consume_message: rc"

MessagesInit ==
    /\ Init
    /\ inbox = [p \in Pids |-> <<>>]
    /\ lock = [p \in Pids |-> NoProcess]
    /\ pc = [p \in Pids |-> "user"]
    /\ target = [p \in Pids |-> NoProcess]
    /\ seen = [p \in Pids |-> <<>>]
    /\ nsent = [p \in Pids |-> 0]
    /\ sent = [p \in Pids |-> <<>>]
    /\ got = [p \in Pids |-> <<>>]

At(l) == InProcess /\ pc[current] = l

\* A message is its sender and a number.
Message(p) == <<p, nsent[p]>>

\* The current process goes on at l, without blocking.
Goto(l) == pc' = [pc EXCEPT ![current] = l] /\ UNCHANGED vars

\* The current process blocks and goes on at l when it is unblocked.
BlockAt(l) ==
    /\ pc' = [pc EXCEPT ![current] = l]
    /\ block_current("event")
    /\ UNCHANGED <<waiter, finished, ready, next_pid>>

-----------------------------------------------------------------------------
(* syscall_send_message and put_message *)

\* An unlisted pid is E_NOTFOUND, which changes nothing.  The system call is
\* atomic unless the queue is locked.
Send(q) ==
    /\ At("user")
    /\ nsent[current] < MaxMessages
    /\ Listed(q)
    /\ nsent' = [nsent EXCEPT ![current] = @ + 1]
    /\ target' = [target EXCEPT ![current] = q]
    /\ IF lock[q] = NoProcess
       THEN /\ inbox' = [inbox EXCEPT ![q] = Append(@, <<current, nsent[current] + 1>>)]
            /\ sent' = [sent EXCEPT ![q] = Append(@, <<current, nsent[current] + 1>>)]
            /\ Goto("user")
       ELSE BlockAt("send lock") /\ UNCHANGED <<inbox, sent>>
    /\ UNCHANGED <<lock, seen, got>>

\* Mutant of Lock: a taken lock is entered after the first sleep.
LockGivesUp(q, retry, taken) ==
    /\ lock' = [lock EXCEPT ![q] = current]
    /\ Goto(taken)
    /\ UNCHANGED <<inbox, target, seen, nsent, sent, got>>

\* Lock::lock on the queue of q, retried after a sleep_ms(1).
Lock(q, retry, taken) ==
    /\ IF lock[q] = NoProcess
       THEN lock' = [lock EXCEPT ![q] = current] /\ Goto(taken)
       ELSE BlockAt(retry) /\ UNCHANGED lock
    /\ UNCHANGED <<inbox, target, seen, nsent, sent, got>>

\* Mutant of Unlock: the lock is left taken.
UnlockForgotten(q) ==
    /\ Goto("user")
    /\ UNCHANGED <<inbox, lock, target, seen, nsent, sent, got>>

Unlock(q) ==
    /\ lock' = [lock EXCEPT ![q] = NoProcess]
    /\ Goto("user")
    /\ UNCHANGED <<inbox, target, seen, nsent, sent, got>>

SendLock == At("send lock") /\ Lock(target[current], "send lock", "send read")

SendRead ==
    /\ At("send read")
    /\ seen' = [seen EXCEPT ![current] = inbox[target[current]]]
    /\ Goto("send append")
    /\ UNCHANGED <<inbox, lock, target, nsent, sent, got>>

SendAppend ==
    /\ At("send append")
    /\ inbox' = [inbox EXCEPT ![target[current]] = Append(seen[current], Message(current))]
    /\ sent' = [sent EXCEPT ![target[current]] = Append(@, Message(current))]
    /\ Goto("send unlock")
    /\ UNCHANGED <<lock, target, seen, nsent, got>>

SendUnlock == At("send unlock") /\ Unlock(target[current])

-----------------------------------------------------------------------------
(* syscall_get_message, consume_message and get_message *)

Receive ==
    /\ At("user")
    /\ current \in Receivers
    /\ IF inbox[current] = <<>>
       THEN BlockAt("message") /\ UNCHANGED <<inbox, got>>
       ELSE IF lock[current] = NoProcess
       THEN /\ inbox' = [inbox EXCEPT ![current] = Tail(@)]
            /\ got' = [got EXCEPT ![current] = Append(@, Head(inbox[current]))]
            /\ Goto("user")
       ELSE BlockAt("receive lock") /\ UNCHANGED <<inbox, got>>
    /\ UNCHANGED <<lock, target, seen, nsent, sent>>

ReceiveLock ==
    /\ At("message") \/ At("receive lock")
    /\ Lock(current, "receive lock", "receive read")

\* get_message finds the queue empty, or reads its front.
ReceiveRead ==
    /\ At("receive read")
    /\ IF inbox[current] = <<>>
       THEN Panic(NoMessage) /\ UNCHANGED <<pc, seen>>
       ELSE seen' = [seen EXCEPT ![current] = inbox[current]] /\ Goto("receive pop")
    /\ UNCHANGED <<inbox, lock, target, nsent, sent, got>>

ReceivePop ==
    /\ At("receive pop")
    /\ inbox' = [inbox EXCEPT ![current] = Tail(seen[current])]
    /\ got' = [got EXCEPT ![current] = Append(@, Head(seen[current]))]
    /\ Goto("receive unlock")
    /\ UNCHANGED <<lock, target, seen, nsent, sent>>

ReceiveUnlock == At("receive unlock") /\ Unlock(current)

-----------------------------------------------------------------------------
\* Mutant of CanUnblock: any look may unblock a process that waits for a message.
UnblockAnyTime(p) == BOOLEAN

\* PendingMessageBlocker::can_unblock, or the end of a sleep_ms(1), which may
\* be over at any look.
CanUnblock(p) == IF pc[p] = "message" THEN {inbox[p] # <<>>} ELSE BOOLEAN

TryUnblockMessages ==
    /\ phase = "unblock" /\ cursor <= Len(blocked)
    /\ \E can \in CanUnblock(blocked[cursor]) : VisitBlocked(can)
    /\ UNCHANGED msgs

\* A process that is not sent messages may end.
End ==
    /\ At("user")
    /\ current \notin Receivers
    /\ Terminate
    /\ UNCHANGED msgs

Dispatch == (Tick \/ TickSwitch) /\ UNCHANGED msgs

InLock == SendRead \/ SendAppend \/ SendUnlock \/ ReceiveRead \/ ReceivePop \/ ReceiveUnlock

MessagesNext ==
    \/ \E q \in Receivers : Send(q)
    \/ SendLock
    \/ Receive
    \/ ReceiveLock
    \/ InLock
    \/ TryUnblockMessages
    \/ End
    \/ Dispatch

MessagesSpec == MessagesInit /\ [][MessagesNext]_mvars

(***************************************************************************)
(* The timer ticks, and a process that gets the CPU again and again gets   *)
(* on with the code under the lock, where it calls nothing that blocks.    *)
(***************************************************************************)
MessagesFairness ==
    /\ WF_mvars(Dispatch)
    /\ WF_mvars(TryUnblockMessages)
    /\ \A p \in Pids : SF_mvars(current = p /\ InLock)

FairMessagesSpec == MessagesSpec /\ MessagesFairness

-----------------------------------------------------------------------------
(***************************************************************************)
(* The ASSERT(rc) of consume_message: a process that was unblocked because *)
(* a message was pending still finds one, although it looks again later    *)
(* and after others had the CPU.                                           *)
(***************************************************************************)
MessageStillThere == panic # NoMessage

(***************************************************************************)
(* No message is lost, duplicated or reordered: what a process was given,  *)
(* followed by what is in its queue, is what was sent to it.  (A message   *)
(* that is being popped has left neither or both.)                         *)
(***************************************************************************)
NothingLost == \A q \in Receivers : got[q] \o inbox[q] = sent[q]

\* A taken lock is given back: its holder waits for nobody.
LockIsReleased ==
    \A q \in Receivers : lock[q] # NoProcess ~> lock[q] = NoProcess
=============================================================================
