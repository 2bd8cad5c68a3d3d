------------------------------ MODULE Mailbox ------------------------------
(***************************************************************************)
(* The mailbox of ipc/mailbox.c: sys_mysend and sys_myreceive over an      *)
(* array of circular lists (include/linux/list.h) under one semaphore.     *)
(*                                                                         *)
(* The lists are modelled pointer by pointer.  A message is an address;    *)
(* kmalloc hands out a free one and kfree gives it back, so an address can *)
(* be used again.  Message contents and lengths are left out: they decide  *)
(* nothing but the number sys_mysend and sys_myreceive return.  The kernel *)
(* is not preemptible, as in MyJoin: NCPU = 1 is the configuration of the  *)
(* repository.  mailbox.lock is the mutex of SemaphoreSleepers.            *)
(***************************************************************************)
EXTENDS Integers, FiniteSets

CONSTANTS
    Pid,       \* the processes that use the mailbox, by pid
    NBuckets,  \* MAILBOX_NUMBER_BUCKETS
    Msg,       \* bound: the addresses kmalloc can return
    None,      \* no message, no pid; LIST_POISON1 and LIST_POISON2
    NCPU       \* how many tasks can be in kernel mode at once

ASSUME PidAssumption == /\ Pid \subseteq Nat
                        /\ IsFiniteSet(Pid)
                        /\ None \notin Int
                        /\ None \notin [from : Pid, to : Pid]
ASSUME BucketAssumption == NBuckets \in Nat \ {0}
ASSUME MsgAssumption == /\ Msg \cap Int = {}
                        /\ None \notin Msg
ASSUME CpuAssumption == NCPU \in Nat \ {0}

Bucket == 0..(NBuckets - 1)
Node == Bucket \cup Msg

VARIABLES
    next, prev,        \* the two pointers of every list_head
    heap,              \* heap[m]: "free" or "live" (returned by kmalloc)
    sender, receiver,  \* the fields of the live messages
    lock,              \* the permits of mailbox.lock
    pc,                \* where each process is
    msg, nxt,          \* the locals msg and next of the system calls
    want               \* the argument pid of sys_myreceive; negative: any

vars == <<next, prev, heap, sender, receiver, lock, pc, msg, nxt, want>>
heapVars == <<heap, sender, receiver>>
listVars == <<next, prev>>

\* mailbox_hash
Hash(pid) == pid % NBuckets
KernelLabels == {"add", "sup", "sret", "scan", "hit", "miss"}
Labels == KernelLabels \cup {"user", "sdown", "rdown", "copy", "killed"}

Running == {t \in Pid : pc[t] \in KernelLabels}
CpuFree == Cardinality(Running) < NCPU

\* init_mailbox
Init == /\ next = [x \in Node |-> IF x \in Bucket THEN x ELSE None]
        /\ prev = [x \in Node |-> IF x \in Bucket THEN x ELSE None]
        /\ heap = [m \in Msg |-> "free"]
        /\ sender = [m \in Msg |-> None]
        /\ receiver = [m \in Msg |-> None]
        /\ lock = 1
        /\ pc = [t \in Pid |-> "user"]
        /\ msg = [t \in Pid |-> None]
        /\ nxt = [t \in Pid |-> None]
        /\ want = [t \in Pid |-> None]

Goto(t, l) == pc' = [pc EXCEPT ![t] = l]

\* The locals of a system call end with it.
Return(t, l) == /\ Goto(t, l)
                /\ msg' = [msg EXCEPT ![t] = None]
                /\ nxt' = [nxt EXCEPT ![t] = None]
                /\ want' = [want EXCEPT ![t] = None]
\* Fault: the result of down_interruptible is ignored.
DownAnyway(t, l) == /\ CpuFree
                    /\ lock' = lock - 1
                    /\ Goto(t, l)

\* down(&mailbox.lock): no two processes get past it.
Down(t, l) == /\ CpuFree
              /\ lock > 0
              /\ lock' = lock - 1
              /\ Goto(t, l)

Up == lock' = lock + 1

---------------------------------------------------------------------------
(* include/linux/list.h *)

ListInsert(new, p, n) ==
    /\ next' = [next EXCEPT ![new] = n, ![p] = new]
    /\ prev' = [prev EXCEPT ![n] = new, ![new] = p]

ListAddTail(new, head) == ListInsert(new, prev[head], head)

ListDel(e) == /\ next' = [next EXCEPT ![prev[e]] = next[e], ![e] = None]
              /\ prev' = [prev EXCEPT ![next[e]] = prev[e], ![e] = None]

---------------------------------------------------------------------------
(* sys_mysend *)
\* Fault: INIT_LIST_HEAD(&msg->message_list) is forgotten.
SendCallUnlinked(t, to) ==
    /\ pc[t] = "user" /\ CpuFree
    /\ \E m \in Msg :
          /\ heap[m] = "free"
          /\ heap' = [heap EXCEPT ![m] = "live"]
          /\ sender' = [sender EXCEPT ![m] = t]
          /\ receiver' = [receiver EXCEPT ![m] = to]
          /\ msg' = [msg EXCEPT ![t] = m]
    /\ Goto(t, "sdown")
    /\ UNCHANGED <<listVars, lock, nxt, want>>

\* Everything before down(): the message is filled in, its list_head points
\* to itself.  copy_from_user may copy less; the message is sent all the same.
SendCall(t, to) ==
    /\ pc[t] = "user" /\ CpuFree
    /\ \E m \in Msg :
          /\ heap[m] = "free"
          /\ heap' = [heap EXCEPT ![m] = "live"]
          /\ sender' = [sender EXCEPT ![m] = t]
          /\ receiver' = [receiver EXCEPT ![m] = to]
          /\ next' = [next EXCEPT ![m] = m]
          /\ prev' = [prev EXCEPT ![m] = m]
          /\ msg' = [msg EXCEPT ![t] = m]
    /\ Goto(t, "sdown")
    /\ UNCHANGED <<lock, nxt, want>>

\* kmalloc returned NULL: msg->sender = ... kills the caller.
SendNoMemory(t) == /\ pc[t] = "user" /\ CpuFree
                   /\ Goto(t, "killed")
                   /\ UNCHANGED <<listVars, heapVars, lock, msg, nxt, want>>

SendDown(t) == /\ pc[t] = "sdown"
               /\ Down(t, "add")
               /\ UNCHANGED <<listVars, heapVars, msg, nxt, want>>

\* list_add_tail(&mailbox.message_lists[box], &msg->message_list): the
\* bucket is added to the message, not the message to the bucket.
SendAdd(t) == /\ pc[t] = "add"
              /\ ListAddTail(Hash(receiver[msg[t]]), msg[t])
              /\ Goto(t, "sup")
              /\ UNCHANGED <<heapVars, lock, msg, nxt, want>>

SendUp(t) == /\ pc[t] = "sup"
             /\ Up
             /\ Goto(t, "sret")
             /\ UNCHANGED <<listVars, heapVars, msg, nxt, want>>
\* Fault: the sender frees the message it has handed over.
SendReturnFree(t) == /\ pc[t] = "sret"
                     /\ heap' = [heap EXCEPT ![msg[t]] = "free"]
                     /\ Return(t, "user")
                     /\ UNCHANGED <<listVars, sender, receiver, lock>>

\* return msg->length
SendReturn(t) == /\ pc[t] = "sret"
                 /\ Return(t, "user")
                 /\ UNCHANGED <<listVars, heapVars, lock>>

---------------------------------------------------------------------------
(* sys_myreceive *)

ReceiveCall(t, from) == /\ pc[t] = "user"
                        /\ want' = [want EXCEPT ![t] = from]
                        /\ Goto(t, "rdown")
                        /\ UNCHANGED <<listVars, heapVars, lock, msg, nxt>>

\* down() and the start of list_for_each_entry_safe.
ReceiveDown(t) == LET first == next[Hash(t)]
                  IN  /\ pc[t] = "rdown"
                      /\ Down(t, "scan")
                      /\ msg' = [msg EXCEPT ![t] = first]
                      /\ nxt' = [nxt EXCEPT ![t] = next[first]]
                      /\ UNCHANGED <<listVars, heapVars, want>>

AtEnd(t) == msg[t] = Hash(t)
\* Fault: the sender asked for is not looked at.
MatchesAny(t) == receiver[msg[t]] = t

Matches(t) == /\ receiver[msg[t]] = t
              /\ want[t] < 0 \/ sender[msg[t]] = want[t]
\* Fault: list_del is forgotten.
ScanHitLinked(t) == /\ pc[t] = "scan"
                    /\ ~AtEnd(t) /\ Matches(t)
                    /\ Goto(t, "hit")
                    /\ UNCHANGED <<listVars, heapVars, lock, msg, nxt, want>>

\* Fault: the loop is left without up().
ScanHitLocked(t) == /\ pc[t] = "scan"
                    /\ ~AtEnd(t) /\ Matches(t)
                    /\ ListDel(msg[t])
                    /\ Goto(t, "copy")
                    /\ UNCHANGED <<heapVars, lock, msg, nxt, want>>

ScanHit(t) == /\ pc[t] = "scan"
              /\ ~AtEnd(t) /\ Matches(t)
              /\ ListDel(msg[t])
              /\ Goto(t, "hit")
              /\ UNCHANGED <<heapVars, lock, msg, nxt, want>>

ScanNext(t) == /\ pc[t] = "scan"
               /\ ~AtEnd(t) /\ ~Matches(t)
               /\ msg' = [msg EXCEPT ![t] = nxt[t]]
               /\ nxt' = [nxt EXCEPT ![t] = next[nxt[t]]]
               /\ UNCHANGED <<listVars, heapVars, lock, pc, want>>

ScanEnd(t) == /\ pc[t] = "scan"
              /\ AtEnd(t)
              /\ Goto(t, "miss")
              /\ UNCHANGED <<listVars, heapVars, lock, msg, nxt, want>>

UpHit(t) == /\ pc[t] = "hit"
            /\ Up
            /\ Goto(t, "copy")
            /\ UNCHANGED <<listVars, heapVars, msg, nxt, want>>

UpMiss(t) == /\ pc[t] = "miss"
             /\ Up
             /\ Return(t, "user")
             /\ UNCHANGED <<listVars, heapVars>>

\* copy_to_user, which may sleep, and the two kfrees.
ReceiveFinish(t) == /\ pc[t] = "copy" /\ CpuFree
                    /\ heap' = [heap EXCEPT ![msg[t]] = "free"]
                    /\ sender' = [sender EXCEPT ![msg[t]] = None]
                    /\ receiver' = [receiver EXCEPT ![msg[t]] = None]
                    /\ Return(t, "user")
                    /\ UNCHANGED <<listVars, lock>>

---------------------------------------------------------------------------
Call(t) == \/ \E to \in Pid : SendCall(t, to)
           \/ SendNoMemory(t)
           \/ \E from \in Pid \cup {-1} : ReceiveCall(t, from)

Step(t) == \/ SendDown(t) \/ SendAdd(t) \/ SendUp(t) \/ SendReturn(t)
           \/ ReceiveDown(t) \/ ScanHit(t) \/ ScanNext(t) \/ ScanEnd(t)
           \/ UpHit(t) \/ UpMiss(t) \/ ReceiveFinish(t)

Next == \E t \in Pid : Call(t) \/ Step(t)

Spec == Init /\ [][Next]_vars

\* A process that can go on in the kernel does; nothing is assumed about who
\* gets the semaphore, which down()s that come later may take first.
FairSpec == Spec /\ \A t \in Pid : WF_vars(Step(t))
---------------------------------------------------------------------------
TypeOK == /\ next \in [Node -> Node \cup {None}]
          /\ prev \in [Node -> Node \cup {None}]
          /\ heap \in [Msg -> {"free", "live"}]
          /\ sender \in [Msg -> Pid \cup {None}]
          /\ receiver \in [Msg -> Pid \cup {None}]
          /\ lock \in {0, 1}
          /\ pc \in [Pid -> Labels]
          /\ msg \in [Pid -> Node \cup {None}]
          /\ nxt \in [Pid -> Node \cup {None}]
          /\ want \in [Pid -> Pid \cup {-1, None}]

\* The checks of lib/list_debug.c never fire: the neighbours of a list_head
\* that is added or deleted point back at it (mailbox.c:59,77).
ListDebugSilent ==
    \A t \in Pid :
        /\ pc[t] = "add" =>
              /\ prev[msg[t]] # None /\ next[prev[msg[t]]] = msg[t]
        /\ pc[t] = "scan" /\ ~AtEnd(t) =>
              /\ next[msg[t]] # None /\ prev[next[msg[t]]] = msg[t]
              /\ prev[msg[t]] # None /\ next[prev[msg[t]]] = msg[t]

\* A receiver owns what it took: from list_del to kfree the message is live,
\* addressed to it, on no list and in no other process's hands, so it is
\* delivered at most once and freed once (mailbox.c:77-91).
ReceiverOwns ==
    \A t \in Pid : pc[t] \in {"hit", "copy"} =>
        /\ msg[t] \in Msg /\ heap[msg[t]] = "live" /\ receiver[msg[t]] = t
        /\ \A x \in Node : next[x] # msg[t] /\ prev[x] # msg[t]
        /\ \A s \in Pid \ {t} : pc[s] \in {"sdown", "add", "hit", "copy", "scan"}
                                  => msg[s] # msg[t]

\* What the lists reach is never freed memory.
ListsReachLive == \A x \in Node : next[x] \in Msg /\ (x \in Msg => heap[x] = "live")
                                    => heap[next[x]] = "live"

\* sys_mysend reads msg->length after up() from its own message, not from
\* memory a receiver has freed and perhaps somebody else has got since
\* (mailbox.c:60-62).
SendReturnsOwnLength ==
    \A t \in Pid : pc[t] = "sret" => heap[msg[t]] = "live" /\ sender[msg[t]] = t

\* No message disappears: a message that was sent stays on a list until a
\* receiver has it in its hands.  list_add_tail promises "Insert a new entry
\* before the specified head. This is useful for implementing queues."
\* (include/linux/list.h:81-82).
NoMessageLost ==
    \A m \in Msg : heap[m] = "live" =>
        \/ next[prev[m]] = m
        \/ \E t \in Pid : msg[t] = m /\ pc[t] \in {"sdown", "add", "hit", "copy"}

\* The walk of a bucket ends and nobody keeps mailbox.lock: whatever the
\* swapped arguments of list_add_tail do to the rings, every critical section
\* is left again (mailbox.c:58-60,72-82).
LockReleased == lock = 0 ~> lock = 1

\* The mailbox implements one slot per bucket: every send, receive and empty
\* receive of mailbox.c:45-96 takes effect in one step under mailbox.lock.
MessageAt(m) == [from |-> sender[m], to |-> receiver[m]]
Slots == INSTANCE MailboxSlots
           WITH slot <- [b \in Bucket |-> IF next[b] = b THEN None
                                          ELSE MessageAt(next[b])],
                taken <- [t \in Pid |-> IF pc[t] \in {"hit", "copy"}
                                        THEN MessageAt(msg[t]) ELSE None]
SlotsSpec == Slots!Spec
=============================================================================
