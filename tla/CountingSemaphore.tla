------------------------- MODULE CountingSemaphore -------------------------
(***************************************************************************)
(* What a kernel semaphore promises its users: down() returns only by      *)
(* taking a permit, up() adds one.  This is the view of the semaphore that *)
(* the mailbox (ipc/mailbox.c) and sys_myjoin (kernel/sched.c) rely on;    *)
(* SemaphoreSleepers is the implementation and is shown to refine it.      *)
(*                                                                         *)
(* A process that got a permit holds it until it calls up(), the mutex     *)
(* use of mailbox.lock, unless it is one of the Consumers, which never     *)
(* give it back: the callers of sys_myjoin.  Posters call up() without     *)
(* holding a permit, as do_exit does for the joiners of the dying task.    *)
(***************************************************************************)
EXTENDS Integers, FiniteSets

CONSTANTS
    Proc,        \* the processes that use the semaphore
    Consumers,   \* the processes that keep the permit a down() gave them
    Posters,     \* the processes that may up() without holding a permit
    InitPermits  \* the value sema_init is given

VARIABLES
    permits,  \* the permits nobody holds
    wants,    \* the processes inside down()
    holders   \* the processes that hold a permit they will give back

vars == <<permits, wants, holders>>

Init == /\ permits = InitPermits
        /\ wants = {}
        /\ holders = {}

Request(p) == /\ p \notin wants \cup holders
              /\ wants' = wants \cup {p}
              /\ UNCHANGED <<permits, holders>>

Grant(p) == /\ p \in wants
            /\ permits > 0
            /\ permits' = permits - 1
            /\ wants' = wants \ {p}
            /\ holders' = IF p \in Consumers THEN holders ELSE holders \cup {p}

Release(p) == /\ p \in holders \cup Posters
              /\ p \notin wants
              /\ permits' = permits + 1
              /\ holders' = holders \ {p}
              /\ UNCHANGED wants

Next == \E p \in Proc : Request(p) \/ Grant(p) \/ Release(p)

Spec == Init /\ [][Next]_vars

TypeOK == /\ permits \in Nat
          /\ wants \subseteq Proc
          /\ holders \subseteq Proc

\* Used as a mutex (one permit, nobody ups what it does not hold, as in
\* mailbox.c:37,58-60,72-82), at most one process holds the semaphore, and
\* none does while the permit is free.
MutualExclusion ==
    /\ \A p, q \in holders : p = q
    /\ holders # {} => permits = 0
=============================================================================
