------------------------- MODULE SemaphoreSleepers -------------------------
(***************************************************************************)
(* The x86 kernel semaphore (include/asm-x86_64/semaphore.h,               *)
(* lib/semaphore-sleepers.c) with the wait queue it sleeps on              *)
(* (__wake_up_common and schedule of kernel/sched.c).                      *)
(*                                                                         *)
(* count and sleepers are the two halves of the semaphore's value: a       *)
(* process that decremented count below zero moves its unit to sleepers    *)
(* under the wait queue's lock, and whoever runs next under that lock      *)
(* folds sleepers - 1 back into count.  The atomic instructions on count   *)
(* and the critical sections of wait.lock are the steps.                   *)
(***************************************************************************)
EXTENDS Integers, FiniteSets, Sequences

CONSTANTS
    Proc, Consumers, Posters, InitPermits,  \* as in CountingSemaphore
    Free,        \* no process: nobody owns the wait queue's lock
    MaxPermits   \* bound: no up() is called at this many permits

ASSUME ProcAssumption == /\ Consumers \subseteq Proc
                         /\ Posters \subseteq Proc
                         /\ IsFiniteSet(Proc)
                         /\ Free \notin Proc
ASSUME PermitsAssumption == /\ InitPermits \in Nat
                            /\ MaxPermits \in Nat

VARIABLES
    count,     \* sem->count
    sleepers,  \* sem->sleepers
    waitq,     \* sem->wait.task_list, the head of the queue first
    wlock,     \* owner of sem->wait.lock
    state,     \* tsk->state: "running" or "unint" (TASK_UNINTERRUPTIBLE)
    pc,        \* where each process is in down(), up() or outside both
    holders    \* history: processes that own a permit they will give back

vars == <<count, sleepers, waitq, wlock, state, pc, holders>>

Init == /\ count = InitPermits
        /\ sleepers = 0
        /\ waitq = << >>
        /\ wlock = Free
        /\ state = [p \in Proc |-> "running"]
        /\ pc = [p \in Proc |-> "idle"]
        /\ holders = {}

Goto(p, l) == pc' = [pc EXCEPT ![p] = l]

\* The processes __wake_up_common visits: it stops after the first one that
\* was really off the run queue, and passes over those that were still
\* running, having set their state back to TASK_RUNNING.
Visited(q) == {q[i] : i \in {j \in 1..Len(q) :
                               \A k \in 1..(j - 1) : pc[q[k]] # "asleep"}}

\* Effect of the wake-up on the visited processes, together with the step
\* of the waker p itself to label l and state s.
WakeUp(q, p, l, s) ==
    /\ pc' = [r \in Proc |-> IF r = p THEN l
                             ELSE IF r \in Visited(q) /\ pc[r] = "asleep"
                                  THEN "relock" ELSE pc[r]]
    /\ state' = [r \in Proc |-> IF r = p THEN s
                                ELSE IF r \in Visited(q) THEN "running"
                                     ELSE state[r]]

Got(p) == holders' = IF p \in Consumers THEN holders ELSE holders \cup {p}

---------------------------------------------------------------------------
\* down() is entered.
DownCall(p) == /\ pc[p] = "idle"
               /\ p \notin holders \cup Posters
               /\ Goto(p, "dec")
               /\ UNCHANGED <<count, sleepers, waitq, wlock, state, holders>>
\* Fault: the sign of count is tested before the decrement.
DownFastLate(p) == /\ pc[p] = "dec"
                   /\ count' = count - 1
                   /\ count >= 0
                   /\ Got(p)
                   /\ Goto(p, "idle")
                   /\ UNCHANGED <<sleepers, waitq, wlock, state>>

\* lock decl; jns: the fast path, or __down with TASK_UNINTERRUPTIBLE set
\* (no waker looks at that state before the process is on the queue).
DownFast(p) == /\ pc[p] = "dec"
               /\ count' = count - 1
               /\ count' >= 0
               /\ Got(p)
               /\ Goto(p, "idle")
               /\ UNCHANGED <<sleepers, waitq, wlock, state>>

DownFailed(p) == /\ pc[p] = "dec"
                 /\ count' = count - 1
                 /\ count' < 0
                 /\ state' = [state EXCEPT ![p] = "unint"]
                 /\ Goto(p, "enq")
                 /\ UNCHANGED <<sleepers, waitq, wlock, holders>>
\* Fault: sem->sleepers-- for sem->sleepers++.
EnqueueMinus(p) == /\ pc[p] = "enq"
                   /\ wlock = Free
                   /\ wlock' = p
                   /\ waitq' = Append(waitq, p)
                   /\ sleepers' = sleepers - 1
                   /\ Goto(p, "add")
                   /\ UNCHANGED <<count, state, holders>>

Enqueue(p) == /\ pc[p] = "enq"
              /\ wlock = Free
              /\ wlock' = p
              /\ waitq' = Append(waitq, p)
              /\ sleepers' = sleepers + 1
              /\ Goto(p, "add")
              /\ UNCHANGED <<count, state, holders>>

\* atomic_add_negative(sleepers - 1, &sem->count), not negative: the permit
\* is ours.
AddGranted(p) == /\ pc[p] = "add"
                 /\ count' = count + (sleepers - 1)
                 /\ count' >= 0
                 /\ sleepers' = 0
                 /\ Got(p)
                 /\ Goto(p, "leave")
                 /\ UNCHANGED <<waitq, wlock, state>>

AddNegative(p) == /\ pc[p] = "add"
                  /\ count' = count + (sleepers - 1)
                  /\ count' < 0
                  /\ sleepers' = 1
                  /\ wlock' = Free
                  /\ Goto(p, "sched")
                  /\ UNCHANGED <<waitq, state, holders>>

\* schedule(): a process somebody set back to TASK_RUNNING stays on the run
\* queue, any other leaves it.
Schedule(p) == /\ pc[p] = "sched"
               /\ Goto(p, IF state[p] = "unint" THEN "asleep" ELSE "relock")
               /\ UNCHANGED <<count, sleepers, waitq, wlock, state, holders>>

Relock(p) == /\ pc[p] = "relock"
             /\ wlock = Free
             /\ wlock' = p
             /\ state' = [state EXCEPT ![p] = "unint"]
             /\ Goto(p, "add")
             /\ UNCHANGED <<count, sleepers, waitq, holders>>

\* list_del of the i-th entry.
ListDel(q, i) == SubSeq(q, 1, i - 1) \o SubSeq(q, i + 1, Len(q))
\* Fault: remove_wait_queue_locked is forgotten.
LeaveQueued(p) == /\ pc[p] = "leave"
                  /\ WakeUp(waitq, p, "idle", "running")
                  /\ wlock' = Free
                  /\ UNCHANGED <<count, sleepers, waitq, holders>>

\* Fault: wake_up_locked, which hands on a permit that came meanwhile, is
\* forgotten.
LeaveSilent(p) == /\ pc[p] = "leave"
                  /\ \E i \in 1..Len(waitq) :
                        /\ waitq[i] = p
                        /\ waitq' = ListDel(waitq, i)
                  /\ WakeUp(<< >>, p, "idle", "running")
                  /\ wlock' = Free
                  /\ UNCHANGED <<count, sleepers, holders>>

\* remove_wait_queue_locked, wake_up_locked, unlock, TASK_RUNNING.
Leave(p) == /\ pc[p] = "leave"
            /\ \E i \in 1..Len(waitq) :
                  /\ waitq[i] = p
                  /\ waitq' = ListDel(waitq, i)
            /\ WakeUp(waitq', p, "idle", "running")
            /\ wlock' = Free
            /\ UNCHANGED <<count, sleepers, holders>>

---------------------------------------------------------------------------
\* The value of the semaphore: what count shows, the units the sleepers
\* have taken over, and the units of those on their way to the queue.
Permits == count + sleepers + Cardinality({p \in Proc : pc[p] = "enq"})

\* up(): lock incl; jg: only a value that was negative needs a wake-up.
UpFast(p) == /\ pc[p] = "idle"
             /\ p \in holders \cup Posters
             /\ Permits < MaxPermits
             /\ count' = count + 1
             /\ count' > 0
             /\ holders' = holders \ {p}
             /\ UNCHANGED <<sleepers, waitq, wlock, state, pc>>

UpContended(p) == /\ pc[p] = "idle"
                  /\ p \in holders \cup Posters
                  /\ Permits < MaxPermits
                  /\ count' = count + 1
                  /\ count' <= 0
                  /\ holders' = holders \ {p}
                  /\ Goto(p, "wake")
                  /\ UNCHANGED <<sleepers, waitq, wlock, state>>

\* __up: wake_up(&sem->wait) takes the queue's lock for one pass.
Wake(p) == /\ pc[p] = "wake"
           /\ wlock = Free
           /\ WakeUp(waitq, p, "idle", state[p])
           /\ UNCHANGED <<count, sleepers, waitq, wlock, holders>>

\* The steps a process takes once it is inside down() or up().
Step(p) == \/ DownFast(p) \/ DownFailed(p) \/ Enqueue(p) \/ AddGranted(p)
           \/ AddNegative(p) \/ Schedule(p) \/ Relock(p) \/ Leave(p)
           \/ Wake(p)

Next == \E p \in Proc : DownCall(p) \/ Step(p) \/ UpFast(p) \/ UpContended(p)

Spec == Init /\ [][Next]_vars

\* A runnable process gets a CPU and goes on; nobody is obliged to call
\* down() or up(), and the spin lock is not assumed to be fair.
Fairness == \A p \in Proc : WF_vars(Step(p))

FairSpec == Spec /\ Fairness
---------------------------------------------------------------------------
Labels == {"idle", "dec", "enq", "add", "sched", "asleep", "relock", "leave",
           "wake"}

TypeOK == /\ count \in Int
          /\ sleepers \in Nat
          /\ waitq \in Seq(Proc)
          /\ wlock \in Proc \cup {Free}
          /\ state \in [Proc -> {"running", "unint"}]
          /\ pc \in [Proc -> Labels]
          /\ holders \subseteq Proc

\* wait.lock protects the queue: its owner is the process between taking and
\* releasing it in __down, and the queue holds exactly the processes that
\* have enqueued and not left (semaphore-sleepers.c:63-89).
QueueConsistent ==
    /\ \A p \in Proc : wlock = p <=> pc[p] \in {"add", "leave"}
    /\ \A p \in Proc : pc[p] \in {"add", "sched", "asleep", "relock", "leave"}
                       <=> \E i \in 1..Len(waitq) : waitq[i] = p
    /\ \A i, j \in 1..Len(waitq) : waitq[i] = waitq[j] => i = j

\* Processes that will not run again unless somebody wakes them, and those
\* that are on their way to try for a permit or to wake somebody.
Dormant == {p \in Proc : pc[p] = "asleep" \/ (pc[p] = "sched" /\ state[p] = "unint")}
Contenders == {p \in Proc : \/ pc[p] \in {"enq", "add", "relock", "leave", "wake"}
                            \/ pc[p] = "sched" /\ state[p] = "running"}

\* No wake-up is lost: while a permit is free and a process sleeps for one,
\* some process is on its way to take it or to wake a sleeper.  The second
\* conjunct is what makes the first inductive: up() may skip the wake-up
\* (semaphore.h:173 "jg 1f") only because of it.
NoLostWakeup ==
    Dormant # {} => /\ Permits > 0 => Contenders # {}
                    /\ sleepers = 0 => Contenders # {}

\* The implementation of down() and up() is a counting semaphore: Permits
\* is its value, and a permit is taken exactly at the decrement that does
\* not go negative or at the atomic_add_negative that is not negative.
Counting == INSTANCE CountingSemaphore
              WITH permits <- Permits,
                   wants <- {p \in Proc : pc[p] \in Labels \ {"idle", "leave", "wake"}}
CountingSpec == Counting!Spec

\* The mutex use of the semaphore, CountingSemaphore's MutualExclusion seen
\* in the implementation: mailbox.lock admits one process at a time.
Mutex == Counting!MutualExclusion

\* Progress: while somebody wants a permit and one is free, one is
\* eventually taken (or the waiters are gone).
PermitIsTaken ==
    (Permits > 0 /\ Dormant # {}) ~> (Permits = 0 \/ Dormant = {})
=============================================================================
