------------------------------- MODULE MyJoin -------------------------------
(***************************************************************************)
(* sys_myjoin (kernel/sched.c), the block added to do_exit (kernel/exit.c) *)
(* that releases the joiners, the initialisation added to copy_process     *)
(* (kernel/fork.c), and the part of the kernel they race with: the pid     *)
(* hash, exit_notify, release_task and the RCU grace period that delays    *)
(* the freeing of a task_struct.                                           *)
(*                                                                         *)
(* The kernel is not preemptible (.config: CONFIG_PREEMPT_NONE): a task in *)
(* kernel mode keeps its CPU until it sleeps or returns to user mode.      *)
(* NCPU = 1 is the configuration of the repository, NCPU = 2 a build with  *)
(* CONFIG_SMP.  The join semaphore is the counting semaphore that          *)
(* SemaphoreSleepers is shown to implement.                                *)
(***************************************************************************)
EXTENDS Integers, FiniteSets

CONSTANTS
    Task,       \* the task_structs, each of them used for one pid
    NoTask,     \* no task: the owner of a free lock, the target before a call
    InitAlive,  \* the tasks that exist at the start, outside all calls
    PiOwners,   \* the tasks that exit with PI futexes on their pi_state_list
    NCPU        \* how many tasks can be in kernel mode at once

ASSUME TaskAssumption == /\ IsFiniteSet(Task)
                         /\ NoTask \notin Task
                         /\ InitAlive \subseteq Task
                         /\ PiOwners \subseteq Task
ASSUME CpuAssumption == NCPU \in Nat \ {0}

VARIABLES
    life,    \* what the kernel has done with each task_struct, see Life
    joined,  \* tsk->joined_processes
    sem,     \* the permits of tsk->join_semaphore
    ups,     \* the loop counter i of do_exit
    piLock,  \* owner of tsk->pi_lock
    gp,      \* tasks the RCU grace period of a released task still waits for
    pc,      \* where each task is in sys_myjoin, copy_process or do_exit
    target,  \* target_task of sys_myjoin, p of copy_process
    ret      \* what the last sys_myjoin returned: "joined" (0), "failed" (-1)

vars == <<life, joined, sem, ups, piLock, gp, pc, target, ret>>

\* "copied": dup_task_struct has copied the parent's structure; "hashed":
\* find_task_by_pid finds it but the join fields are still the parent's;
\* "exiting": PF_EXITING is set; "zombie": exit_notify is done; "released":
\* unhashed, waiting for RCU; "freed": the memory is gone.
Life == {"unborn", "copied", "hashed", "alive", "exiting", "zombie",
         "released", "freed"}
Findable == {"hashed", "alive", "exiting", "zombie"}
Exited == {"exiting", "zombie", "released", "freed"}

\* The places where a task is on a CPU in kernel mode and cannot sleep.
KernelLabels == {"lock", "check", "down", "slow", "fork", "xlock", "xup", "xpi"}
\* "woken": woken up by the semaphore of a task_struct that was freed before
\* the joiner ran; "wild": a task that hit a BUG() or went on with freed memory,
\* what becomes of it is not modelled.
Labels == KernelLabels \cup {"user", "sleep", "woken", "wild", "copy", "xnotify", "dead"}

Running == {t \in Task : pc[t] \in KernelLabels}
CpuFree == Cardinality(Running) < NCPU

Init == /\ life = [t \in Task |-> IF t \in InitAlive THEN "alive" ELSE "unborn"]
        /\ joined = [t \in Task |-> 0]
        /\ sem = [t \in Task |-> 0]
        /\ ups = [t \in Task |-> 0]
        /\ piLock = [t \in Task |-> NoTask]
        /\ gp = [t \in Task |-> {}]
        /\ pc = [t \in Task |-> IF t \in InitAlive THEN "user" ELSE "dead"]
        /\ target = [t \in Task |-> NoTask]
        /\ ret = [t \in Task |-> "none"]

Goto(t, l) == pc' = [pc EXCEPT ![t] = l]

\* t sleeps or returns to user mode: a quiescent state of its CPU.
LeaveCpu(t, l) == /\ Goto(t, l)
                  /\ gp' = [u \in Task |-> gp[u] \ {t}]

\* target is the local variable of the current call; a successful join keeps
\* it so that its result can be judged.
Result(t, u, r) == /\ target' = [target EXCEPT ![t] = u]
                   /\ ret' = [ret EXCEPT ![t] = r]

---------------------------------------------------------------------------
(* sys_myjoin *)
\* find_task_by_pid: no reference is taken on what it returns.
JoinFind(t, u) == /\ pc[t] = "user" /\ CpuFree
                  /\ life[u] \in Findable
                  /\ Result(t, u, "none")
                  /\ Goto(t, "lock")
                  /\ UNCHANGED <<life, joined, sem, ups, piLock, gp>>

JoinNotFound(t, u) == /\ pc[t] = "user" /\ CpuFree
                      /\ life[u] \notin Findable
                      /\ Result(t, NoTask, "failed")
                      /\ UNCHANGED <<life, joined, sem, ups, piLock, gp, pc>>

JoinLock(t) == LET u == target[t]
               IN  /\ pc[t] = "lock"
                   /\ piLock[u] = NoTask
                   /\ piLock' = [piLock EXCEPT ![u] = t]
                   /\ Goto(t, "check")
                   /\ UNCHANGED <<life, joined, sem, ups, gp, target, ret>>

\* PF_EXITING: the early return does not unlock.
JoinTooLate(t) == LET u == target[t]
                  IN  /\ pc[t] = "check"
                      /\ life[u] \in Exited
                      /\ Result(t, NoTask, "failed")
                      /\ LeaveCpu(t, "user")
                      /\ UNCHANGED <<life, joined, sem, ups, piLock>>
\* Fault: the spin_unlock_irq is forgotten here too.
JoinRegisterLocked(t) == LET u == target[t]
                         IN  /\ pc[t] = "check"
                             /\ life[u] \notin Exited
                             /\ joined' = [joined EXCEPT ![u] = @ + 1]
                             /\ Goto(t, "down")
                             /\ UNCHANGED <<life, sem, ups, piLock, gp, target, ret>>

JoinRegister(t) == LET u == target[t]
                   IN  /\ pc[t] = "check"
                       /\ life[u] \notin Exited
                       /\ joined' = [joined EXCEPT ![u] = @ + 1]
                       /\ piLock' = [piLock EXCEPT ![u] = NoTask]
                       /\ Goto(t, "down")
                       /\ UNCHANGED <<life, sem, ups, gp, target, ret>>
\* Fault: down() does not wait for a permit.
TakePermitBlind(t) == /\ sem' = [sem EXCEPT ![target[t]] = @ - 1]
                      /\ Result(t, target[t], "joined")
                      /\ LeaveCpu(t, "user")
                      /\ UNCHANGED <<life, joined, ups, piLock>>

TakePermit(t) == /\ sem[target[t]] > 0
                 /\ sem' = [sem EXCEPT ![target[t]] = @ - 1]
                 /\ Result(t, target[t], "joined")
                 /\ LeaveCpu(t, "user")
                 /\ UNCHANGED <<life, joined, ups, piLock>>
\* Fault: down_trylock for down, its result ignored.
JoinDownTry(t) == /\ pc[t] = "down"
                  /\ Result(t, target[t], "joined")
                  /\ LeaveCpu(t, "user")
                  /\ UNCHANGED <<life, joined, sem, ups, piLock>>

JoinDown(t) == pc[t] = "down" /\ TakePermit(t)

JoinSleep(t) == /\ pc[t] = "down"
                /\ sem[target[t]] = 0 /\ life[target[t]] # "hashed"
                /\ LeaveCpu(t, "sleep")
                /\ UNCHANGED <<life, joined, sem, ups, piLock, target, ret>>

\* With another CPU in copy_process, down() can find the semaphore that was
\* copied from the parent: it decrements the count and goes to __down.
JoinSlow(t) == /\ pc[t] = "down"
               /\ sem[target[t]] = 0 /\ life[target[t]] = "hashed"
               /\ Goto(t, "slow")
               /\ UNCHANGED <<life, joined, sem, ups, piLock, gp, target, ret>>

\* In __down the copied queue is still linked to the parent's, and __list_add
\* calls BUG(); or sema_init has replaced it and set the count to 0, which
\* loses the decrement, and down() returns.
JoinSlowEnd(t) ==
    /\ pc[t] = "slow"
    /\ \/ /\ life[target[t]] = "hashed"
          /\ LeaveCpu(t, "wild") /\ UNCHANGED <<target, ret>>
       \/ /\ life[target[t]] # "hashed"
          /\ LeaveCpu(t, "user") /\ Result(t, target[t], "joined")
    /\ UNCHANGED <<life, joined, sem, ups, piLock>>

Sleepers(u) == {t \in Task : pc[t] = "sleep" /\ target[t] = u}

JoinWake(t) == /\ pc[t] = "sleep" /\ CpuFree
               /\ life[target[t]] # "freed"
               /\ TakePermit(t)

\* The woken joiner goes on in __down with a semaphore in freed memory.  It
\* may find the old contents: then it returns, and wake_up_locked wakes up the
\* next sleeper, if its entry is still in the queue.  Or it finds anything.
JoinWakeFreed(t) ==
    /\ pc[t] = "woken" /\ CpuFree
    /\ \/ /\ \E W \in SUBSET Sleepers(target[t]) :
                /\ Cardinality(W) <= 1
                /\ pc' = [s \in Task |-> IF s = t THEN "user"
                                         ELSE IF s \in W THEN "woken" ELSE pc[s]]
          /\ Result(t, target[t], "joined")
       \/ Goto(t, "wild") /\ UNCHANGED <<target, ret>>
    /\ UNCHANGED <<life, joined, sem, ups, piLock, gp>>

---------------------------------------------------------------------------
(* copy_process: the join fields are set after the child can be found *)

ForkCopy(t, c) == /\ pc[t] = "user" /\ CpuFree
                  /\ life[c] = "unborn"
                  /\ life' = [life EXCEPT ![c] = "copied"]
                  /\ joined' = [joined EXCEPT ![c] = joined[t]]
                  /\ sem' = [sem EXCEPT ![c] = sem[t]]
                  /\ Result(t, c, "none")
                  /\ Goto(t, "copy")
                  /\ UNCHANGED <<ups, piLock, gp>>

ForkAttach(t) == /\ pc[t] = "copy" /\ CpuFree
                 /\ life' = [life EXCEPT ![target[t]] = "hashed"]
                 /\ Goto(t, "fork")
                 /\ UNCHANGED <<joined, sem, ups, piLock, gp, target, ret>>

\* bad_fork_*: the copy is thrown away before anybody could find it.
ForkFail(t) == /\ pc[t] = "copy" /\ CpuFree
               /\ life' = [life EXCEPT ![target[t]] = "unborn"]
               /\ Goto(t, "user")
               /\ Result(t, NoTask, "none")
               /\ UNCHANGED <<joined, sem, ups, piLock, gp>>

ForkInit(t) == LET c == target[t]
               IN  /\ pc[t] = "fork"
                   /\ sem' = [sem EXCEPT ![c] = 0]
                   /\ joined' = [joined EXCEPT ![c] = 0]
                   /\ life' = [life EXCEPT ![c] = "alive"]
                   /\ pc' = [pc EXCEPT ![t] = "user", ![c] = "user"]
                   /\ gp' = [u \in Task |-> gp[u] \ {t}]
                   /\ Result(t, NoTask, "none")
                   /\ UNCHANGED <<ups, piLock>>

---------------------------------------------------------------------------
(* do_exit, release_task *)

ExitCall(t) == /\ pc[t] = "user" /\ CpuFree
               /\ Result(t, NoTask, "none")
               /\ Goto(t, "xlock")
               /\ UNCHANGED <<life, joined, sem, ups, piLock, gp>>

ExitLock(t) == /\ pc[t] = "xlock"
               /\ piLock[t] = NoTask
               /\ piLock' = [piLock EXCEPT ![t] = t]
               /\ life' = [life EXCEPT ![t] = "exiting"]
               /\ Goto(t, "xup")
               /\ UNCHANGED <<joined, sem, ups, gp, target, ret>>

ExitUp(t) == /\ pc[t] = "xup"
             /\ ups[t] < joined[t]
             /\ sem' = [sem EXCEPT ![t] = @ + 1]
             /\ ups' = [ups EXCEPT ![t] = @ + 1]
             /\ UNCHANGED <<life, joined, piLock, gp, pc, target, ret>>
\* Fault: the loop of do_exit ends one up() early.
ExitUnlockEarly(t) == /\ pc[t] = "xup"
                      /\ ups[t] >= joined[t] - 1
                      /\ joined' = [joined EXCEPT ![t] = 0]
                      /\ ups' = [ups EXCEPT ![t] = 0]
                      /\ piLock' = [piLock EXCEPT ![t] = NoTask]
                      /\ LeaveCpu(t, "xnotify")
                      /\ UNCHANGED <<life, sem, target, ret>>

\* joined_processes = 0 and unlock; the rest of do_exit may sleep.
ExitUnlock(t) == /\ pc[t] = "xup"
                 /\ ups[t] = joined[t]
                 /\ joined' = [joined EXCEPT ![t] = 0]
                 /\ ups' = [ups EXCEPT ![t] = 0]
                 /\ piLock' = [piLock EXCEPT ![t] = NoTask]
                 /\ LeaveCpu(t, "xnotify")
                 /\ UNCHANGED <<life, sem, target, ret>>

AfterNotify(t) == IF t \in PiOwners THEN "xpi" ELSE "dead"

\* exit_notify, the parent has to wait for the task.
ExitNotify(t) == /\ pc[t] = "xnotify" /\ CpuFree
                 /\ life' = [life EXCEPT ![t] = "zombie"]
                 /\ Goto(t, AfterNotify(t))
                 /\ UNCHANGED <<joined, sem, ups, piLock, gp, target, ret>>
\* Fault: put_task_struct at once instead of call_rcu.
ReleaseTaskNow(u) == /\ life' = [life EXCEPT ![u] = "released"]
                     /\ gp' = [gp EXCEPT ![u] = {}]

\* release_task: unhashed, and freed by RCU when every task that is now in
\* the kernel has left it once.
ReleaseTask(u) == /\ life' = [life EXCEPT ![u] = "released"]
                  /\ gp' = [gp EXCEPT ![u] = Running]

\* exit_notify of a thread, or with a parent that ignores SIGCHLD.
ExitNotifySelf(t) == /\ pc[t] = "xnotify" /\ CpuFree
                     /\ ReleaseTask(t)
                     /\ Goto(t, AfterNotify(t))
                     /\ UNCHANGED <<joined, sem, ups, piLock, target, ret>>

\* exit_pi_state_list takes the pi_lock of the dying task again.
ExitPiState(t) == /\ pc[t] = "xpi"
                  /\ piLock[t] = NoTask
                  /\ LeaveCpu(t, "dead")
                  /\ UNCHANGED <<life, joined, sem, ups, piLock, target, ret>>

\* wait4 of the parent q, or of init once the parent is gone.
Reap(q, u) == /\ pc[q] = "user" /\ CpuFree
              /\ life[u] = "zombie"
              /\ ReleaseTask(u)
              /\ UNCHANGED <<joined, sem, ups, piLock, pc, target, ret>>

\* delayed_put_task_struct drops the last reference, once the task itself
\* is off its CPU for good (finish_task_switch).  Of the joiners that are still
\* on its semaphore only some have been woken up: up() wakes one when the count
\* is negative, and every joiner that got its permit wakes the next one; with
\* one CPU there is one such wake-up at a time.
Free(u) == /\ life[u] = "released"
           /\ gp[u] = {}
           /\ pc[u] = "dead"
           /\ life' = [life EXCEPT ![u] = "freed"]
           /\ \E W \in SUBSET Sleepers(u) :
                 /\ sem[u] > 0 /\ Sleepers(u) # {} => W # {}
                 /\ NCPU = 1 => Cardinality(W) <= 1
                 /\ pc' = [t \in Task |-> IF t \in W THEN "woken" ELSE pc[t]]
           /\ UNCHANGED <<joined, sem, ups, piLock, gp, target, ret>>

---------------------------------------------------------------------------
\* What a task calls of its own will, and what it does once it has called.
Call(t) == \/ \E u \in Task : JoinFind(t, u) \/ JoinNotFound(t, u)
                              \/ ForkCopy(t, u) \/ Reap(t, u)
           \/ ExitCall(t)

Step(t) == \/ JoinLock(t) \/ JoinTooLate(t) \/ JoinRegister(t)
           \/ JoinDown(t) \/ JoinSleep(t) \/ JoinWake(t)
           \/ JoinSlow(t) \/ JoinSlowEnd(t) \/ JoinWakeFreed(t)
           \/ ForkAttach(t) \/ ForkFail(t) \/ ForkInit(t)
           \/ ExitLock(t) \/ ExitUp(t) \/ ExitUnlock(t)
           \/ ExitNotify(t) \/ ExitNotifySelf(t) \/ ExitPiState(t)

Next == \E t \in Task : Call(t) \/ Step(t) \/ Free(t)

Spec == Init /\ [][Next]_vars

\* A runnable task gets a CPU as long as one is left.
FairSpec == Spec /\ \A t \in Task : WF_vars(Step(t))
---------------------------------------------------------------------------
TypeOK == /\ life \in [Task -> Life]
          /\ joined \in [Task -> Nat]
          /\ sem \in [Task -> Nat]
          /\ ups \in [Task -> Nat]
          /\ piLock \in [Task -> Task \cup {NoTask}]
          /\ gp \in [Task -> SUBSET Task]
          /\ pc \in [Task -> Labels]
          /\ target \in [Task -> Task \cup {NoTask}]
          /\ ret \in [Task -> {"none", "joined", "failed"}]

\* The tasks whose registration with u is counted and not yet answered.
Waiting(u) == {t \in Task : pc[t] \in {"down", "sleep"} /\ target[t] = u}

\* No joiner can have found u between attach_pid and sema_init in copy_process.
Unraced(u) == NCPU = 1 \/ u \in InitAlive

\* sys_myjoin returns 0 only when its target has begun to exit
\* (sched.c:7351-7376 with exit.c:918-936), unless it found a new task on
\* another CPU and its down() raced with the sema_init of fork.c:1274.
JoinSound == \A t \in Task : ret[t] = "joined" =>
                \/ life[target[t]] \in Exited
                \/ ~ Unraced(target[t])

\* The permits do_exit has given and has still to give to the joiners of u.
Owed(u) == sem[u] + joined[u] - ups[u]

\* As long as the semaphore exists no permit is owed to nobody, and every
\* registered joiner has its up() (exit.c:924-933, sched.c:7371-7373), unless
\* it found a new task on another CPU before fork.c:1274-1275 erased its count.
JoinersAccounted ==
    \A u \in Task : life[u] \in {"alive", "exiting", "zombie", "released"} =>
        /\ Owed(u) <= Cardinality(Waiting(u))
        /\ Unraced(u) => Owed(u) = Cardinality(Waiting(u))

\* The memory sys_myjoin locks, checks and downs is never freed under it,
\* although it holds no reference: "there's no way to tell if this memory is
\* still valid before accessing pi_lock" (sched.c:7362-7363).
PointerValid == \A t \in Task : pc[t] \in {"lock", "check", "down", "slow"} =>
                                  life[target[t]] \notin {"unborn", "copied", "freed"}

\* A pi_lock is owned by a joiner in its critical section, by its own task in
\* do_exit, or it was left locked by a joiner that came after PF_EXITING;
\* never does a living task's pi_lock stay locked.
LockDiscipline ==
    \A u \in Task : piLock[u] # NoTask =>
        \/ pc[piLock[u]] = "check" /\ target[piLock[u]] = u
        \/ piLock[u] = u /\ pc[u] = "xup"
        \/ life[u] \in Exited /\ joined[u] = 0 /\ pc[u] # "xup"

\* No task ends holding a lock: exit.c:999-1002 "Make sure we are holding no
\* locks".
ExitHoldsNoLock == \A t, u \in Task : pc[t] = "dead" => piLock[u] # t

\* The structure does not go away under a joiner that slept in down():
\* Documentation/CodingStyle:542-545.
SleeperHasTarget ==
    \A t \in Task : pc[t] \in {"sleep", "woken"} => life[target[t]] # "freed"

\* All CPUs spin on pi_locks that nobody will unlock.
Hung == Cardinality({t \in Task : /\ pc[t] \in {"lock", "xpi"}
                                  /\ \E u \in Task :
                                        /\ u = IF pc[t] = "xpi" THEN t ELSE target[t]
                                        /\ life[u] \in Exited
                                        /\ piLock[u] \notin {NoTask, u}
                                        /\ pc[piLock[u]] # "check"}) >= NCPU

\* The target of a joiner that was still in down() has been freed.
Abandoned(t) == pc[t] \in {"sleep", "woken", "wild"} /\ life[target[t]] = "freed"

\* A joiner whose target exits eventually returns with 0 (exit.c:930-933,
\* sched.c:7373-7375).  Three things can keep it: its count was erased by a fork
\* on another CPU; the left-over pi_locks have taken every CPU; or its target was
\* reaped and freed before it ran, which SleeperHasTarget says never happens:
\* then it may sleep for ever or be lost in the freed memory.
JoinerReleased ==
    \A t \in Task : (pc[t] = "sleep" /\ life[target[t]] \in Exited /\ Unraced(target[t]))
                       ~> \/ pc[t] = "user" /\ ret[t] = "joined"
                          \/ Hung \/ Abandoned(t)

\* The hijacked pi_lock never stops a task from exiting: do_exit gets past
\* its spin_lock_irq (exit.c:918) whatever the joiners do.
ExitGetsLock == \A t \in Task : pc[t] = "xlock" ~> pc[t] # "xlock"
=============================================================================
