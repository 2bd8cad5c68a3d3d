------------------------------ MODULE TimeSlice ------------------------------
(***************************************************************************)
(* The scheduler system calls added to kernel/sched.c (sys_quad,           *)
(* sys_swipe, sys_zombify) and the parts of the kernel that live on the    *)
(* fields they write: the timer tick, schedule() with its active and       *)
(* expired arrays, sched_fork, exit_notify, wait4 and sched_exit.          *)
(*                                                                         *)
(* One CPU without kernel preemption (.config:133-136): what is in the     *)
(* kernel is the current task, and only the timer interrupts it.  The      *)
(* tasks have one nice level and no sleep bonus (TASK_INTERACTIVE is       *)
(* false), and they do not sleep: wait4 is called with WNOHANG.  init      *)
(* does not exit.                                                          *)
(***************************************************************************)
EXTENDS Integers, FiniteSets, Functions

CONSTANTS
    Task,      \* the task_structs, each of them used for one pid
    InitTask,  \* child_reaper: the only task at the start
    NoTask,    \* no task
    Full,      \* task_timeslice: 1 jiffy at nice 19, 200 at nice -20
    UINT,      \* unsigned int counts modulo this (2^32 in the code)
    MaxCalls   \* bound: quad, swipe and zombify are called this often

ASSUME TaskAssumption == /\ IsFiniteSet(Task)
                         /\ InitTask \in Task
                         /\ NoTask \notin Task
ASSUME SliceAssumption == /\ Full \in Nat \ {0}
                          /\ UINT \in Nat
                          /\ 2 * Full < UINT
                          /\ MaxCalls \in Nat

VARIABLES
    slice,      \* p->time_slice
    first,      \* p->first_time_slice
    array,      \* p->array: "active", "expired" or "none"
    parent,     \* p->parent
    life,       \* what the task does, see Life
    exitState,  \* p->exit_state: "none", "zombie", "dead"
    released,   \* the tasks release_task has unhashed
    curr,       \* rq->curr
    resched,    \* TIF_NEED_RESCHED of the current task
    pc,         \* where the current task is in the kernel, or "user"
    reg,        \* its registers: the operands of the call it is in
    calls,      \* how many of the added calls have been made
    zombified   \* history: the tasks sys_zombify was called for

taskVars == <<parent, life, exitState, released>>
callVars == <<calls, zombified>>
vars == <<slice, first, array, taskVars, curr, resched, pc, reg, callVars>>

\* "dead": TASK_DEAD and off the run queue; "stuck": asleep for ever in
\* do_exit after a recursive fault.
Life == {"unborn", "alive", "dead", "stuck"}

\* The registers of a task in user mode.
Idle == [a |-> NoTask, b |-> NoTask, orig |-> 0, stolen |-> 0, val |-> 0,
         left |-> 0, hit |-> FALSE]

Init == /\ slice = [t \in Task |-> IF t = InitTask THEN Full ELSE 0]
        /\ first = [t \in Task |-> FALSE]
        /\ array = [t \in Task |-> IF t = InitTask THEN "active" ELSE "none"]
        /\ parent = [t \in Task |-> NoTask]
        /\ life = [t \in Task |-> IF t = InitTask THEN "alive" ELSE "unborn"]
        /\ exitState = [t \in Task |-> "none"]
        /\ released = {}
        /\ curr = InitTask
        /\ resched = FALSE
        /\ pc = "user" /\ reg = Idle
        /\ calls = 0
        /\ zombified = {}

\* What find_task_by_pid finds.
Findable == {t \in Task : life[t] # "unborn"} \ released
Children(t) == {u \in Findable : parent[u] = t}

\* The current task makes a system call: a pending reschedule comes first.
UserMode == pc = "user" /\ ~ resched
Return == pc' = "user" /\ reg' = Idle

---------------------------------------------------------------------------
(* task_running_tick and schedule *)

\* Fault: an expired task goes back to the active array.
TickedActive(p, s) ==
    IF array[p] # "active"
    THEN [slice |-> s, first |-> first[p], array |-> array[p], resched |-> TRUE]
    ELSE IF (s - 1) % UINT = 0
         THEN [slice |-> Full, first |-> FALSE, array |-> "active", resched |-> TRUE]
         ELSE [slice |-> (s - 1) % UINT, first |-> first[p], array |-> "active",
               resched |-> resched]

\* Fault: the slice is counted below zero.
TickedSigned(p, s) ==
    IF array[p] # "active"
    THEN [slice |-> s, first |-> first[p], array |-> array[p], resched |-> TRUE]
    ELSE IF s - 1 = 0
         THEN [slice |-> Full, first |-> FALSE, array |-> "expired", resched |-> TRUE]
         ELSE [slice |-> s - 1, first |-> first[p], array |-> "active",
               resched |-> resched]

\* task_running_tick for the current task p with s ticks left.
Ticked(p, s) ==
    IF array[p] # "active"
    THEN [slice |-> s, first |-> first[p], array |-> array[p], resched |-> TRUE]
    ELSE IF (s - 1) % UINT = 0
         THEN [slice |-> Full, first |-> FALSE, array |-> "expired", resched |-> TRUE]
         ELSE [slice |-> (s - 1) % UINT, first |-> first[p], array |-> "active",
               resched |-> resched]

\* The timer interrupt.  A call takes less than a jiffy: at most one tick
\* comes while the current task is in the kernel.
Tick == LET k == Ticked(curr, slice[curr])
        IN  /\ ~ reg.hit
            /\ slice' = [slice EXCEPT ![curr] = k.slice]
            /\ first' = [first EXCEPT ![curr] = k.first]
            /\ array' = [array EXCEPT ![curr] = k.array]
            /\ resched' = k.resched
            /\ reg' = [reg EXCEPT !.hit = (pc # "user")]
            /\ UNCHANGED <<taskVars, curr, pc, callVars>>

\* schedule(): the arrays are switched when the active one is empty; which of
\* the active tasks comes next depends on priorities that are not modelled.
SwitchTo(a) ==
    LET b == IF \E t \in Task : a[t] = "active" THEN a
             ELSE [t \in Task |-> IF a[t] = "expired" THEN "active" ELSE a[t]]
    IN  /\ array' = b
        /\ curr' \in {t \in Task : b[t] = "active"}
        /\ resched' = FALSE

Schedule == /\ pc = "user" /\ resched
            /\ SwitchTo(array)
            /\ UNCHANGED <<slice, first, taskVars, pc, reg, callVars>>

---------------------------------------------------------------------------
(* copy_process: sched_fork, then wake_up_new_task *)

ForkCall(c) == /\ UserMode
               /\ curr \notin released
               /\ life[c] = "unborn"
               /\ pc' = "fork" /\ reg' = [Idle EXCEPT !.a = c]
               /\ UNCHANGED <<slice, first, array, taskVars, curr, resched, callVars>>

\* Fault: the child's half is rounded down, too.
SchedForkDown ==
    LET half == slice[curr] \div 2
        k == IF half = 0 THEN Ticked(curr, 1)
             ELSE [slice |-> half, first |-> first[curr], array |-> array[curr],
                   resched |-> resched]
    IN  /\ pc = "fork"
        /\ slice' = [slice EXCEPT ![curr] = k.slice, ![reg.a] = half]
        /\ first' = [first EXCEPT ![curr] = k.first, ![reg.a] = TRUE]
        /\ array' = [array EXCEPT ![curr] = k.array]
        /\ resched' = k.resched
        /\ pc' = "wakeNew"
        /\ UNCHANGED <<taskVars, curr, reg, callVars>>

\* sched_fork: with interrupts off the slice is shared; a parent left without
\* any is given one tick and loses it at once.
SchedFork ==
    LET half == slice[curr] \div 2
        k == IF half = 0 THEN Ticked(curr, 1)
             ELSE [slice |-> half, first |-> first[curr], array |-> array[curr],
                   resched |-> resched]
    IN  /\ pc = "fork"
        /\ slice' = [slice EXCEPT ![curr] = k.slice,
                                  ![reg.a] = ((slice[curr] + 1) % UINT) \div 2]
        /\ first' = [first EXCEPT ![curr] = k.first, ![reg.a] = TRUE]
        /\ array' = [array EXCEPT ![curr] = k.array]
        /\ resched' = k.resched
        /\ pc' = "wakeNew"
        /\ UNCHANGED <<taskVars, curr, reg, callVars>>

\* The parent is the caller or, with CLONE_PARENT, the caller's parent.
\* wake_up_new_task: a new process goes before its parent in the parent's
\* array, a task that shares the address space into the active one.
WakeUpNewTask ==
    LET c == reg.a
    IN  /\ pc = "wakeNew"
        /\ \/ array' = [array EXCEPT ![c] = array[curr]] /\ resched' = TRUE
           \/ array' = [array EXCEPT ![c] = "active"] /\ UNCHANGED resched
        /\ life' = [life EXCEPT ![c] = "alive"]
        /\ \E q \in {curr, parent[curr]} \ {NoTask} : parent' = [parent EXCEPT ![c] = q]
        /\ exitState' = [exitState EXCEPT ![c] = "none"]
        /\ Return
        /\ UNCHANGED <<slice, first, released, curr, callVars>>

\* copy_process gives up after sched_fork: what the child was given is lost.
ForkFails == /\ pc = "wakeNew"
             /\ slice' = [slice EXCEPT ![reg.a] = 0]
             /\ first' = [first EXCEPT ![reg.a] = FALSE]
             /\ Return
             /\ UNCHANGED <<array, taskVars, curr, resched, callVars>>

---------------------------------------------------------------------------
(* do_exit, wait4, release_task *)

\* Fault: the slice is recovered even if it was not the parent's gift.
SchedExitAlways(p) ==
    LET q == parent[p]
        sum == (slice[q] + slice[p]) % UINT
    IN  slice' = [slice EXCEPT ![q] = IF sum > Full THEN Full ELSE sum]

\* sched_exit: the parent recovers what is left of the first slice.
SchedExit(p) ==
    LET q == parent[p]
        sum == (slice[q] + slice[p]) % UINT
    IN  slice' = IF first[p]
                 THEN [slice EXCEPT ![q] = IF sum > Full THEN Full ELSE sum]
                 ELSE slice

ReleaseTask(p) == SchedExit(p) /\ released' = released \cup {p}

ExitCall == /\ UserMode
            /\ curr \notin released \cup {InitTask}
            /\ pc' = "exit"
            /\ UNCHANGED <<slice, first, array, taskVars, curr, resched, reg, callVars>>

\* exit_notify: the children go to init; the task becomes a zombie, or is
\* released at once if its parent ignores SIGCHLD.
ExitNotify ==
    /\ pc = "exit"
    /\ parent' = [t \in Task |-> IF t \in Children(curr) THEN InitTask ELSE parent[t]]
    /\ \/ /\ exitState' = [exitState EXCEPT ![curr] = "zombie"]
          /\ UNCHANGED <<slice, released>>
       \/ /\ exitState' = [exitState EXCEPT ![curr] = "dead"]
          /\ ReleaseTask(curr)
    /\ pc' = "dying"
    /\ UNCHANGED <<first, array, life, curr, resched, reg, callVars>>

\* The last schedule() of a task, in do_exit.
LeaveFor(l) == /\ life' = [life EXCEPT ![curr] = l]
               /\ SwitchTo([array EXCEPT ![curr] = "none"])
               /\ Return
               /\ UNCHANGED <<slice, first, parent, exitState, released, callVars>>

ExitSchedule == pc = "dying" /\ LeaveFor("dead")

\* A task that was released while it lived has no signal_struct: fork, wait4
\* and exit fault, and the fault in do_exit is recursive.
Oops == /\ UserMode
        /\ curr \in released
        /\ LeaveFor("stuck")

WaitCall(u) == /\ UserMode
               /\ curr \notin released
               /\ u \in Children(curr)
               /\ pc' = "wait" /\ reg' = [Idle EXCEPT !.a = u]
               /\ UNCHANGED <<slice, first, array, taskVars, curr, resched, callVars>>

\* Fault: wait4 does not look at exit_state.
WaitReapAny == /\ pc = "wait"
               /\ exitState' = [exitState EXCEPT ![reg.a] = "dead"]
               /\ ReleaseTask(reg.a)
               /\ Return
               /\ UNCHANGED <<first, array, parent, life, curr, resched, callVars>>

\* wait_task_zombie: xchg of exit_state, then release_task.
WaitReap == /\ pc = "wait"
            /\ exitState[reg.a] = "zombie"
            /\ exitState' = [exitState EXCEPT ![reg.a] = "dead"]
            /\ ReleaseTask(reg.a)
            /\ Return
            /\ UNCHANGED <<first, array, parent, life, curr, resched, callVars>>

WaitNothing == /\ pc = "wait"
               /\ exitState[reg.a] # "zombie"
               /\ Return
               /\ UNCHANGED <<slice, first, array, taskVars, curr, resched, callVars>>

---------------------------------------------------------------------------
(* sys_quad, sys_swipe, sys_zombify *)

AddedCall == UserMode /\ calls < MaxCalls /\ calls' = calls + 1

QuadCall(u) == /\ AddedCall
               /\ u \in Findable
               /\ pc' = "quad" /\ reg' = [Idle EXCEPT !.a = u, !.val = slice[u]]
               /\ UNCHANGED <<slice, first, array, taskVars, curr, resched, zombified>>

\* The product of the value loaded before; a tick in between is overwritten.
QuadStore == /\ pc = "quad"
             /\ slice' = [slice EXCEPT ![reg.a] = (4 * reg.val) % UINT]
             /\ Return
             /\ UNCHANGED <<first, array, taskVars, curr, resched, callVars>>

SwipeCall(u, v) == /\ AddedCall
                   /\ u \in Findable /\ v \in Findable \ {u}
                   /\ pc' = "swipe"
                   /\ reg' = [Idle EXCEPT !.a = u, !.b = v, !.orig = slice[u],
                                          !.stolen = slice[v], !.val = slice[u]]
                   /\ UNCHANGED <<slice, first, array, taskVars, curr, resched, zombified>>

\* target_task->time_slice += victim_task->time_slice, on the memory or on a
\* register that still holds what was there.
SwipeAdd(l, n) == \E base \in {reg.val, slice[reg.a]} :
                     LET sum == (base + slice[reg.b]) % UINT
                     IN  /\ slice' = [slice EXCEPT ![reg.a] = sum]
                         /\ pc' = l /\ reg' = [reg EXCEPT !.val = sum, !.left = n]
                         /\ UNCHANGED <<first, array, taskVars, curr, resched, callVars>>

SwipeTake == pc = "swipe" /\ SwipeAdd("zero", 0)

\* Fault: the victim's slice is not taken away.
SwipeZeroNot == /\ pc = "zero"
                /\ pc' = "loop" /\ reg' = [reg EXCEPT !.left = Cardinality(Children(reg.b))]
                /\ UNCHANGED <<slice, first, array, taskVars, curr, resched, callVars>>

SwipeZero == /\ pc = "zero"
             /\ slice' = [slice EXCEPT ![reg.b] = 0]
             /\ pc' = "loop" /\ reg' = [reg EXCEPT !.left = Cardinality(Children(reg.b))]
             /\ UNCHANGED <<first, array, taskVars, curr, resched, callVars>>

\* The walk goes over the sibling links of the victim's children, but it is
\* told that they are the children links, so child_task is 16 bytes off and
\* child_task->pid is half of a kernel pointer: never the target's pid.  What
\* is added is once more the victim's slice, not the child's.
SwipeChild == /\ pc = "loop" /\ reg.left > 0
              /\ SwipeAdd("loop", reg.left - 1)

SwipeReturn == /\ pc = "loop" /\ reg.left = 0
               /\ Return
               /\ UNCHANGED <<slice, first, array, taskVars, curr, resched, callVars>>

\* The return value of sys_swipe.
SwipeResult == (slice[reg.a] - reg.orig) % UINT

Zombify(u) == /\ AddedCall
              /\ u \in Findable
              /\ exitState' = [exitState EXCEPT ![u] = "zombie"]
              /\ zombified' = zombified \cup {u}
              /\ UNCHANGED <<slice, first, array, parent, life, released, curr, resched,
                             pc, reg>>

---------------------------------------------------------------------------
\* What the current task does once it is in the kernel.
Step == \/ SchedFork \/ WakeUpNewTask \/ ForkFails \/ ExitNotify \/ ExitSchedule
        \/ WaitReap \/ WaitNothing \/ QuadStore
        \/ SwipeTake \/ SwipeZero \/ SwipeChild \/ SwipeReturn

Call == \/ \E u \in Task : ForkCall(u) \/ WaitCall(u) \/ QuadCall(u) \/ Zombify(u)
        \/ \E u, v \in Task : SwipeCall(u, v)
        \/ ExitCall \/ Oops

Next == Tick \/ Schedule \/ Step \/ Call

Spec == Init /\ [][Next]_vars

\* The timer keeps ticking, the kernel goes on, and it reschedules when it
\* returns to user mode; nobody is obliged to make a call.
FairSpec == Spec /\ WF_vars(Tick) /\ WF_vars(Schedule) /\ WF_vars(Step)

---------------------------------------------------------------------------
TypeOK == /\ slice \in [Task -> 0..(UINT - 1)]
          /\ first \in [Task -> BOOLEAN]
          /\ array \in [Task -> {"active", "expired", "none"}]
          /\ parent \in [Task -> Task \cup {NoTask}]
          /\ life \in [Task -> Life]
          /\ exitState \in [Task -> {"none", "zombie", "dead"}]
          /\ released \subseteq Task
          /\ curr \in Task
          /\ resched \in BOOLEAN
          /\ pc \in {"user", "fork", "wakeNew", "exit", "dying", "wait", "quad",
                     "swipe", "zero", "loop"}
          /\ reg \in [a : Task \cup {NoTask}, b : Task \cup {NoTask},
                      orig : 0..(UINT - 1), stolen : 0..(UINT - 1),
                      val : 0..(UINT - 1), left : 0..Cardinality(Task),
                      hit : BOOLEAN]
          /\ calls \in 0..MaxCalls
          /\ zombified \subseteq Task

\* sched.c:97-99, "Minimum timeslice is 5 msecs (or 1 jiffy, whichever is
\* larger) ... Timeslices get refilled after they expire": as long as none of
\* the added calls was made, tick, fork and exit keep every slice between one
\* jiffy and the full slice, so no tick ever counts below zero.
SliceInRange ==
    calls = 0 => \A t \in Task : life[t] = "alive" => slice[t] \in 1..Full

\* The time handed out and not used: the slices of the living, and what the
\* parents of the dead can still recover.  What a released task had left is
\* its parent's.
Total == SumFunctionOnSet(slice,
            {t \in Task \ released : life[t] = "alive" \/ first[t]})

\* The slice of the current task runs out, and it is given a full one.
Expires == array[curr] = "active" /\ array'[curr] = "expired"

\* sched_fork, by a caller whose slice a tick refilled after it had entered the
\* kernel.
ForkAfterExpiry == pc = "fork" /\ pc' = "wakeNew" /\ array[curr] # "active"

\* sched.c:1719-1723 and 1833-1835: fork shares time, exit gives it back and
\* "cannot be used to 'generate' timeslices artificially".  Without the added
\* calls a step adds time only if a slice expires, and then one full slice;
\* but at nice 19, where the full slice is a single jiffy, a caller that has
\* expired keeps this jiffy when it gives one to its child, since
\* task_running_tick takes nothing from it (sched.c:1733-1740, 3420-3424).
TimeIsShared ==
    [][calls' = 0 =>
         Total' <= Total + (IF Expires THEN Full ELSE 0)
                         + (IF Full = 1 /\ ForkAfterExpiry THEN 1 ELSE 0)]_vars

\* Without a tick that hits target or victim, sys_swipe moves exactly the
\* victim's slice: it is what the call returns, and the walk over the
\* victim's children adds nothing (sched.c:7321-7335).
SwipeMovesTime ==
    pc = "loop" /\ reg.left = 0 /\ (reg.hit => curr \notin {reg.a, reg.b}) =>
        /\ SwipeResult = reg.stolen
        /\ slice[reg.b] = 0

\* release_task unhashes only tasks that have exited, unless sys_zombify said
\* they had; and only those get stuck in do_exit.
LivingNotReleased ==
    \A t \in Task : \/ t \in released /\ life[t] # "dead" /\ (t = curr => pc # "dying")
                    \/ life[t] = "stuck"
                    => t \in zombified

\* Whatever slices fork, exit and the added calls leave behind, wrapped ones
\* included, every task on the run queue gets the CPU again (sched.c:3448-3462,
\* 3649-3664), as there are only finitely many forks: a task that keeps
\* forking children that exit before a tick is never charged.
EveryoneRuns ==
    \A t \in Task : array[t] # "none" ~> (curr = t \/ array[t] = "none")
=============================================================================
