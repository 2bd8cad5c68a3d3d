---------------------------- MODULE MyJoinProofs ----------------------------
(***************************************************************************)
(* Proofs about sys_myjoin for any number of tasks.                        *)
(***************************************************************************)
EXTENDS MyJoin, FiniteSetTheorems, TLAPS

\* Where a task is in the code tells what has become of its task_struct.
PcLife ==
    \A t \in Task :
        /\ pc[t] \in {"user", "lock", "check", "down", "slow", "sleep", "woken", "wild",
                      "copy", "fork", "xlock"} => life[t] = "alive"
        /\ pc[t] \in {"xup", "xnotify"} => life[t] = "exiting"
        /\ pc[t] = "xpi" => life[t] \in {"zombie", "released"}
        /\ pc[t] = "dead" => life[t] \notin {"alive", "exiting"}

\* Who has a target, and what a forking task knows of its child.
TargetOk ==
    \A t \in Task :
        /\ pc[t] \in {"lock", "check", "down", "slow", "sleep", "woken", "wild", "copy", "fork"}
             => target[t] \in Task
        /\ ret[t] = "joined" => target[t] \in Task
        /\ pc[t] = "copy" => life[target[t]] = "copied"
        /\ pc[t] = "fork" => life[target[t]] = "hashed"
        /\ pc[t] = "woken" => life[target[t]] = "freed"
        /\ pc[t] \in {"copy", "fork"} => ret[t] # "joined"

ForkersDistinct ==
    \A s, t \in Task : /\ pc[s] \in {"copy", "fork"} /\ pc[t] \in {"copy", "fork"}
                       /\ target[s] = target[t]
                       => s = t

\* Only do_exit puts permits into a join semaphore.
SemZero == \A u \in Task : life[u] \notin Exited => sem[u] = 0

Inv1 == TypeOK /\ PcLife /\ TargetOk /\ ForkersDistinct /\ SemZero

LEMMA Inv1Init == Init => Inv1
  BY TaskAssumption
  DEF Init, Inv1, TypeOK, PcLife, TargetOk, ForkersDistinct, SemZero,
      Life, Exited, Labels, KernelLabels

LEMMA Inv1Next == Inv1 /\ [Next]_vars => Inv1'
<1> SUFFICES ASSUME Inv1, [Next]_vars PROVE Inv1'
  OBVIOUS
<1> USE TaskAssumption
        DEF Inv1, TypeOK, PcLife, TargetOk, ForkersDistinct, SemZero,
            Life, Exited, Findable, Labels, KernelLabels, Goto, LeaveCpu, Result
<1>1. ASSUME NEW t \in Task, NEW u \in Task, JoinFind(t, u) PROVE Inv1'
  BY <1>1 DEF JoinFind
<1>2. ASSUME NEW t \in Task, NEW u \in Task, JoinNotFound(t, u) PROVE Inv1'
  BY <1>2 DEF JoinNotFound
<1>3. ASSUME NEW t \in Task, JoinLock(t) PROVE Inv1'
  BY <1>3 DEF JoinLock
<1>4. ASSUME NEW t \in Task, JoinTooLate(t) PROVE Inv1'
  BY <1>4 DEF JoinTooLate
<1>5. ASSUME NEW t \in Task, JoinRegister(t) PROVE Inv1'
  BY <1>5 DEF JoinRegister
<1>6. ASSUME NEW t \in Task, pc[t] \in {"down", "sleep"}, TakePermit(t) PROVE Inv1'
  BY <1>6 DEF TakePermit
<1>7. ASSUME NEW t \in Task, JoinSleep(t) \/ JoinSlow(t) \/ JoinSlowEnd(t) PROVE Inv1'
  <2>1. CASE JoinSleep(t) \/ JoinSlow(t)
    BY <2>1 DEF JoinSleep, JoinSlow
  <2>2. CASE JoinSlowEnd(t)
    BY <2>2 DEF JoinSlowEnd
  <2> QED BY <1>7, <2>1, <2>2
<1>8. ASSUME NEW t \in Task, JoinDown(t) \/ JoinWake(t) \/ JoinWakeFreed(t) PROVE Inv1'
  <2>1. CASE JoinDown(t) \/ JoinWake(t)
    BY <1>6, <2>1 DEF JoinDown, JoinWake
  <2>2. CASE JoinWakeFreed(t)
    <3>1. CASE Goto(t, "wild") /\ UNCHANGED <<life, joined, sem, ups, piLock, gp, target, ret>>
      BY <2>2, <3>1 DEF JoinWakeFreed
    <3>2. CASE /\ \E W \in SUBSET Sleepers(target[t]) :
                     pc' = [s \in Task |-> IF s = t THEN "user"
                                           ELSE IF s \in W THEN "woken" ELSE pc[s]]
               /\ Result(t, target[t], "joined")
               /\ UNCHANGED <<life, joined, sem, ups, piLock, gp>>
      <4>1. PICK W \in SUBSET Sleepers(target[t]) :
               pc' = [s \in Task |-> IF s = t THEN "user"
                                     ELSE IF s \in W THEN "woken" ELSE pc[s]]
        BY <3>2
      <4>2. pc[t] = "woken" /\ life[target[t]] = "freed" /\ target[t] \in Task
        BY <2>2 DEF JoinWakeFreed
      <4>3. \A s \in W : pc[s] = "sleep" /\ target[s] = target[t] /\ s \in Task
        BY DEF Sleepers
      <4> QED
        BY <3>2, <4>1, <4>2, <4>3
    <3> QED BY <2>2, <3>1, <3>2 DEF JoinWakeFreed
  <2> QED BY <1>8, <2>1, <2>2
<1>9. ASSUME NEW t \in Task, NEW c \in Task, ForkCopy(t, c) PROVE Inv1'
  BY <1>9 DEF ForkCopy
<1>10. ASSUME NEW t \in Task, ForkAttach(t) \/ ForkFail(t) PROVE Inv1'
  <2>1. CASE ForkAttach(t)
    BY <2>1 DEF ForkAttach
  <2>2. CASE ForkFail(t)
    <3>1. /\ pc[t] = "copy" /\ target[t] \in Task /\ life[target[t]] = "copied"
          /\ sem[target[t]] = 0
      BY <2>2 DEF ForkFail
    <3>2. TypeOK' /\ PcLife'
      BY <2>2, <3>1 DEF ForkFail
    <3>3. TargetOk'
      BY <2>2, <3>1 DEF ForkFail
    <3>4. ForkersDistinct' /\ SemZero'
      BY <2>2, <3>1 DEF ForkFail
    <3>5. QED
      BY <3>2, <3>3, <3>4
  <2>3. QED
    BY <1>10, <2>1, <2>2
<1>11. ASSUME NEW t \in Task, ForkInit(t) PROVE Inv1'
  BY <1>11 DEF ForkInit
<1>12. ASSUME NEW t \in Task, ExitCall(t) PROVE Inv1'
  BY <1>12 DEF ExitCall
<1>13. ASSUME NEW t \in Task, ExitLock(t) PROVE Inv1'
  BY <1>13 DEF ExitLock
<1>14. ASSUME NEW t \in Task, ExitUp(t) PROVE Inv1'
  BY <1>14 DEF ExitUp
<1>15. ASSUME NEW t \in Task, ExitUnlock(t) PROVE Inv1'
  BY <1>15 DEF ExitUnlock
<1>16. ASSUME NEW t \in Task, ExitNotify(t) PROVE Inv1'
  BY <1>16 DEF ExitNotify, AfterNotify
<1>17. ASSUME NEW t \in Task, ExitNotifySelf(t) PROVE Inv1'
  BY <1>17 DEF ExitNotifySelf, AfterNotify, ReleaseTask, Running
<1>18. ASSUME NEW t \in Task, ExitPiState(t) PROVE Inv1'
  BY <1>18 DEF ExitPiState
<1>19. ASSUME NEW q \in Task, NEW u \in Task, Reap(q, u) PROVE Inv1'
  BY <1>19 DEF Reap, ReleaseTask, Running
<1>20. ASSUME NEW u \in Task, Free(u) PROVE Inv1'
  <2>1. PICK W \in SUBSET Sleepers(u) :
           pc' = [t \in Task |-> IF t \in W THEN "woken" ELSE pc[t]]
    BY <1>20 DEF Free
  <2>2. \A t \in W : pc[t] = "sleep" /\ target[t] = u /\ t \in Task
    BY DEF Sleepers
  <2>3. /\ life[u] = "released" /\ pc[u] = "dead"
        /\ life' = [life EXCEPT ![u] = "freed"]
        /\ UNCHANGED <<joined, sem, ups, piLock, gp, target, ret>>
    BY <1>20 DEF Free
  <2>4. \A t \in Task : pc'[t] = pc[t] \/ (pc[t] = "sleep" /\ pc'[t] = "woken")
    BY <2>1, <2>2
  <2>5. TypeOK'
    <3>1. pc' \in [Task -> Labels]
      BY <2>1
    <3>2. life' \in [Task -> Life]
      BY <2>3
    <3> QED
      BY <2>3, <3>1, <3>2
  <2>6. \A t \in Task : \/ life'[t] = life[t]
                        \/ t = u /\ life[t] = "released" /\ life'[t] = "freed"
    <3>1. life \in [Task -> Life]
      OBVIOUS
    <3> QED
      BY ONLY <2>3, <3>1
  <2>7. PcLife'
    <3> TAKE t \in Task
    <3>1. pc[t] \in Labels /\ life[t] \in Life
      OBVIOUS
    <3> QED
      BY <2>3, <2>4, <2>6, <3>1
  <2>8. TargetOk'
    <3> TAKE t \in Task
    <3>1. CASE pc'[t] = pc[t]
      <4>1. target[t] \in Task => \/ life'[target[t]] = life[target[t]]
                                 \/ /\ life[target[t]] = "released"
                                    /\ life'[target[t]] = "freed"
        BY <2>6
      <4> QED
        BY <2>3, <3>1, <4>1
    <3>2. CASE t \in W
      <4>1. pc[t] = "sleep" /\ target[t] = u /\ pc'[t] = "woken" /\ life'[u] = "freed"
        BY <2>1, <2>2, <2>3, <3>2
      <4> QED
        BY <2>3, <4>1
    <3> QED
      BY <2>1, <3>1, <3>2
  <2>9. ForkersDistinct' /\ SemZero'
    BY <2>3, <2>4, <2>6
  <2> QED
    BY <2>5, <2>7, <2>8, <2>9
<1>21. CASE UNCHANGED vars
  BY <1>21 DEF vars
<1> QED
  BY <1>1, <1>2, <1>3, <1>4, <1>5, <1>7, <1>8, <1>9, <1>10, <1>11, <1>12,
     <1>13, <1>14, <1>15, <1>16, <1>17, <1>18, <1>19, <1>20, <1>21
  DEF Next, Call, Step

\* The type invariant of sys_myjoin, do_exit and copy_process.
THEOREM TypeCorrect == Spec => []TypeOK
<1>1. Inv1 => TypeOK
  BY DEF Inv1
<1> QED BY Inv1Init, Inv1Next, <1>1, PTL DEF Spec

---------------------------------------------------------------------------
\* What keeps the memory alive: the grace period of a released task waits
\* for every task that still has a pointer to it from find_task_by_pid.
GraceCovers ==
    \A t \in Task :
        pc[t] \in {"lock", "check", "down", "slow"} =>
            /\ life[target[t]] \notin {"unborn", "copied", "freed"}
            /\ life[target[t]] = "released" => t \in gp[target[t]]

LEMMA GraceNext == Inv1 /\ GraceCovers /\ [Next]_vars => GraceCovers'
<1> SUFFICES ASSUME Inv1, GraceCovers, [Next]_vars PROVE GraceCovers'
  OBVIOUS
<1> USE TaskAssumption
        DEF Inv1, TypeOK, PcLife, TargetOk, GraceCovers,
            Life, Exited, Findable, Labels, KernelLabels, Goto, LeaveCpu, Result
<1>1. ASSUME NEW t \in Task,
             \/ \E u \in Task : JoinFind(t, u) \/ JoinNotFound(t, u)
             \/ JoinLock(t) \/ JoinTooLate(t) \/ JoinRegister(t)
             \/ JoinSleep(t) \/ JoinSlow(t) \/ JoinSlowEnd(t)
      PROVE  GraceCovers'
  BY <1>1 DEF JoinFind, JoinNotFound, JoinLock, JoinTooLate, JoinRegister, JoinSleep, JoinSlow,
              JoinSlowEnd
<1>2. ASSUME NEW t \in Task, JoinDown(t) \/ JoinWake(t) \/ JoinWakeFreed(t)
      PROVE  GraceCovers'
  BY <1>2 DEF JoinDown, JoinWake, JoinWakeFreed, TakePermit
<1>3. ASSUME NEW t \in Task, NEW c \in Task, ForkCopy(t, c) PROVE GraceCovers'
  BY <1>3 DEF ForkCopy
<1>4. ASSUME NEW t \in Task, ForkAttach(t) \/ ForkFail(t) PROVE GraceCovers'
  BY <1>4 DEF ForkAttach, ForkFail
<1>5. ASSUME NEW t \in Task, ForkInit(t) PROVE GraceCovers'
  BY <1>5 DEF ForkInit
<1>6. ASSUME NEW t \in Task, ExitCall(t) \/ ExitUp(t) PROVE GraceCovers'
  BY <1>6 DEF ExitCall, ExitUp
<1>7. ASSUME NEW t \in Task, ExitLock(t) PROVE GraceCovers'
  BY <1>7 DEF ExitLock
<1>8. ASSUME NEW t \in Task, ExitUnlock(t) PROVE GraceCovers'
  BY <1>8 DEF ExitUnlock
<1>9. ASSUME NEW t \in Task, ExitNotify(t) PROVE GraceCovers'
  BY <1>9 DEF ExitNotify, AfterNotify
<1>10. ASSUME NEW t \in Task, ExitNotifySelf(t) PROVE GraceCovers'
  BY <1>10 DEF ExitNotifySelf, AfterNotify, ReleaseTask, Running
<1>11. ASSUME NEW t \in Task, ExitPiState(t) PROVE GraceCovers'
  BY <1>11 DEF ExitPiState
<1>12. ASSUME NEW q \in Task, NEW u \in Task, Reap(q, u) PROVE GraceCovers'
  BY <1>12 DEF Reap, ReleaseTask, Running
<1>13. ASSUME NEW u \in Task, Free(u) PROVE GraceCovers'
  BY <1>13 DEF Free
<1>14. CASE UNCHANGED vars
  BY <1>14 DEF vars
<1> QED
  BY <1>1, <1>2, <1>3, <1>4, <1>5, <1>6, <1>7, <1>8, <1>9, <1>10, <1>11,
     <1>12, <1>13, <1>14
  DEF Next, Call, Step

\* From find_task_by_pid to the sleep in down(), sys_myjoin only touches
\* memory that has not been freed, on any number of CPUs.
THEOREM PointerIsValid == Spec => []PointerValid
<1>1. Init => GraceCovers
  BY TaskAssumption DEF Init, GraceCovers
<1>2. GraceCovers => PointerValid
  BY DEF GraceCovers, PointerValid
<1> QED BY Inv1Init, Inv1Next, <1>1, GraceNext, <1>2, PTL DEF Spec

---------------------------------------------------------------------------
\* Who owns the pi_lock while it protects the join fields, and that nobody
\* is registered with a task that has left the added block of do_exit.
OwnersHold ==
    \A t \in Task :
        /\ pc[t] = "check" => piLock[target[t]] = t
        /\ pc[t] = "xup" => piLock[t] = t
        /\ life[t] \in Exited /\ pc[t] # "xup" => joined[t] = 0
        /\ pc[t] # "xup" => ups[t] = 0

LockInv == OwnersHold /\ LockDiscipline

LEMMA LockNext == Inv1 /\ GraceCovers /\ LockInv /\ [Next]_vars => LockInv'
<1> SUFFICES ASSUME Inv1, GraceCovers, LockInv, [Next]_vars PROVE LockInv'
  OBVIOUS
<1> USE TaskAssumption
        DEF Inv1, TypeOK, PcLife, TargetOk, LockInv, OwnersHold, LockDiscipline,
            Life, Exited, Findable, Labels, KernelLabels, Goto, LeaveCpu, Result
<1>1. ASSUME NEW t \in Task, NEW u \in Task, JoinFind(t, u) \/ JoinNotFound(t, u)
      PROVE  LockInv'
  BY <1>1 DEF JoinFind, JoinNotFound
<1>2. ASSUME NEW t \in Task, JoinLock(t) PROVE LockInv'
  BY <1>2 DEF JoinLock
<1>3. ASSUME NEW t \in Task, JoinTooLate(t) PROVE LockInv'
  BY <1>3 DEF JoinTooLate
<1>4. ASSUME NEW t \in Task, JoinRegister(t) PROVE LockInv'
  BY <1>4 DEF JoinRegister
<1>5. ASSUME NEW t \in Task,
             \/ JoinDown(t) \/ JoinSleep(t) \/ JoinWake(t)
             \/ JoinSlow(t) \/ JoinSlowEnd(t)
      PROVE  LockInv'
  BY <1>5 DEF JoinDown, JoinSleep, JoinWake, JoinSlow, JoinSlowEnd, TakePermit
<1>5a. ASSUME NEW t \in Task, JoinWakeFreed(t) PROVE LockInv'
  BY <1>5a DEF JoinWakeFreed, Sleepers
<1>6. ASSUME NEW t \in Task, NEW c \in Task, ForkCopy(t, c) PROVE LockInv'
  BY <1>6 DEF ForkCopy
<1>7. ASSUME NEW t \in Task, ForkAttach(t) \/ ForkFail(t) PROVE LockInv'
  BY <1>7 DEF ForkAttach, ForkFail
<1>8. ASSUME NEW t \in Task, ForkInit(t) PROVE LockInv'
  BY <1>8 DEF ForkInit
<1>9. ASSUME NEW t \in Task, ExitCall(t) PROVE LockInv'
  BY <1>9 DEF ExitCall
<1>10. ASSUME NEW t \in Task, ExitLock(t) PROVE LockInv'
  BY <1>10 DEF ExitLock
<1>11. ASSUME NEW t \in Task, ExitUp(t) PROVE LockInv'
  BY <1>11 DEF ExitUp
<1>12. ASSUME NEW t \in Task, ExitUnlock(t) PROVE LockInv'
  BY <1>12 DEF ExitUnlock
<1>13. ASSUME NEW t \in Task, ExitNotify(t) \/ ExitNotifySelf(t) PROVE LockInv'
  BY <1>13 DEF ExitNotify, ExitNotifySelf, AfterNotify, ReleaseTask
<1>14. ASSUME NEW t \in Task, ExitPiState(t) PROVE LockInv'
  BY <1>14 DEF ExitPiState
<1>15. ASSUME NEW q \in Task, NEW u \in Task, Reap(q, u) PROVE LockInv'
  BY <1>15 DEF Reap, ReleaseTask
<1>16. ASSUME NEW u \in Task, Free(u) PROVE LockInv'
  BY <1>16 DEF Free, Sleepers
<1>17. CASE UNCHANGED vars
  BY <1>17 DEF vars
<1> QED
  BY <1>1, <1>2, <1>3, <1>4, <1>5, <1>5a, <1>6, <1>7, <1>8, <1>9, <1>10, <1>11,
     <1>12, <1>13, <1>14, <1>15, <1>16, <1>17
  DEF Next, Call, Step

\* The pi_lock of a task that is not exiting is only ever held inside a
\* critical section: what the early return of sys_myjoin leaves locked are
\* the pi_locks of tasks that are past the added block of do_exit.
THEOREM LocksAreDisciplined == Spec => []LockDiscipline
<1>1. Init => GraceCovers /\ LockInv
  BY TaskAssumption DEF Init, GraceCovers, LockInv, OwnersHold, LockDiscipline, Exited
<1>2. LockInv => LockDiscipline
  BY DEF LockInv
<1> QED BY Inv1Init, Inv1Next, <1>1, GraceNext, LockNext, <1>2, PTL DEF Spec

---------------------------------------------------------------------------
\* On one CPU nobody can join a child between attach_pid and sema_init.
OneInKernel == \A s, t \in Running : s = t
HashedByForker ==
    \A u \in Task : life[u] = "hashed" =>
        \E t \in Task : pc[t] = "fork" /\ target[t] = u
NoEarlyJoiner ==
    \A t \in Task : pc[t] \in {"lock", "check", "down", "slow", "sleep", "woken", "wild"} =>
        life[target[t]] \notin {"unborn", "copied", "hashed"}

UpInv == OneInKernel /\ HashedByForker /\ NoEarlyJoiner

LEMMA CpuFreeMeansIdle ==
  ASSUME NCPU = 1, CpuFree PROVE Running = {}
<1>1. IsFiniteSet(Running)
  BY FS_Subset, TaskAssumption DEF Running
<1>2. Cardinality(Running) = 0
  BY <1>1, FS_CardinalityType DEF CpuFree
<1> QED BY <1>1, <1>2, FS_EmptySet

LEMMA UpNext == NCPU = 1 /\ Inv1 /\ UpInv /\ [Next]_vars => UpInv'
<1> SUFFICES ASSUME NCPU = 1, Inv1, UpInv, [Next]_vars PROVE UpInv'
  OBVIOUS
<1> USE TaskAssumption, CpuFreeMeansIdle
        DEF Inv1, TypeOK, PcLife, TargetOk, ForkersDistinct, UpInv, OneInKernel,
            HashedByForker, NoEarlyJoiner, Running,
            Life, Exited, Findable, Labels, KernelLabels, Goto, LeaveCpu, Result
<1>1. ASSUME NEW t \in Task, NEW u \in Task, JoinFind(t, u) PROVE UpInv'
  BY <1>1 DEF JoinFind
<1>2. ASSUME NEW t \in Task, NEW u \in Task, JoinNotFound(t, u) PROVE UpInv'
  BY <1>2 DEF JoinNotFound
<1>3. ASSUME NEW t \in Task, JoinLock(t) \/ JoinTooLate(t) \/ JoinRegister(t)
      PROVE  UpInv'
  BY <1>3 DEF JoinLock, JoinTooLate, JoinRegister
<1>4. ASSUME NEW t \in Task,
             \/ JoinDown(t) \/ JoinSleep(t) \/ JoinWake(t)
             \/ JoinSlow(t) \/ JoinSlowEnd(t)
      PROVE  UpInv'
  BY <1>4 DEF JoinDown, JoinSleep, JoinWake, JoinSlow, JoinSlowEnd, TakePermit
<1>4a. ASSUME NEW t \in Task, JoinWakeFreed(t) PROVE UpInv'
  BY <1>4a DEF JoinWakeFreed, Sleepers
<1>5. ASSUME NEW t \in Task, NEW c \in Task, ForkCopy(t, c) PROVE UpInv'
  BY <1>5 DEF ForkCopy
<1>6. ASSUME NEW t \in Task, ForkAttach(t) \/ ForkFail(t) PROVE UpInv'
  BY <1>6 DEF ForkAttach, ForkFail
<1>7. ASSUME NEW t \in Task, ForkInit(t) PROVE UpInv'
  BY <1>7 DEF ForkInit
<1>8. ASSUME NEW t \in Task, ExitCall(t) PROVE UpInv'
  BY <1>8 DEF ExitCall
<1>9. ASSUME NEW t \in Task, ExitLock(t) PROVE UpInv'
  BY <1>9 DEF ExitLock
<1>10. ASSUME NEW t \in Task, ExitUp(t) \/ ExitUnlock(t) PROVE UpInv'
  BY <1>10 DEF ExitUp, ExitUnlock
<1>11. ASSUME NEW t \in Task, ExitNotify(t) \/ ExitNotifySelf(t) PROVE UpInv'
  BY <1>11 DEF ExitNotify, ExitNotifySelf, AfterNotify, ReleaseTask
<1>12. ASSUME NEW t \in Task, ExitPiState(t) PROVE UpInv'
  BY <1>12 DEF ExitPiState
<1>13. ASSUME NEW q \in Task, NEW u \in Task, Reap(q, u) PROVE UpInv'
  BY <1>13 DEF Reap, ReleaseTask
<1>14. ASSUME NEW u \in Task, Free(u) PROVE UpInv'
  BY <1>14 DEF Free, Sleepers
<1>15. CASE UNCHANGED vars
  BY <1>15 DEF vars
<1> QED
  BY <1>1, <1>2, <1>3, <1>4, <1>4a, <1>5, <1>6, <1>7, <1>8, <1>9, <1>10, <1>11,
     <1>12, <1>13, <1>14, <1>15
  DEF Next, Call, Step

\* One joiner more or less changes the number of the waiting by one.
LEMMA WaitingCount ==
  ASSUME NEW u \in Task
  PROVE  /\ Cardinality(Waiting(u)) \in Nat
         /\ \A t : Cardinality(Waiting(u) \cup {t}) =
              IF t \in Waiting(u) THEN Cardinality(Waiting(u))
                                  ELSE Cardinality(Waiting(u)) + 1
         /\ \A t : Cardinality(Waiting(u) \ {t}) =
              IF t \in Waiting(u) THEN Cardinality(Waiting(u)) - 1
                                  ELSE Cardinality(Waiting(u))
<1>1. IsFiniteSet(Waiting(u))
  BY FS_Subset, TaskAssumption DEF Waiting
<1> QED BY <1>1, FS_AddElement, FS_RemoveElement, FS_CardinalityType

\* The tasks of the start were never half made.
OldTasks == \A u \in InitAlive : life[u] \notin {"unborn", "copied", "hashed"}

LEMMA OldTasksNext == Inv1 /\ OldTasks /\ [Next]_vars => OldTasks'
  BY TaskAssumption
  DEF OldTasks, Inv1, TypeOK, PcLife, TargetOk, Next, Call, Step, vars, JoinFind, JoinNotFound,
      JoinLock, JoinTooLate, JoinRegister, JoinDown, JoinSleep, JoinSlow, JoinSlowEnd, JoinWake,
      JoinWakeFreed, TakePermit, ForkCopy, ForkAttach, ForkFail, ForkInit, ExitCall, ExitLock, ExitUp,
      ExitUnlock, ExitNotify, ExitNotifySelf, ExitPiState, ReleaseTask, Reap, Free

\* Only a task that a joiner could find half made is joined in the race with
\* sema_init.
SlowRaced == \A t \in Task : pc[t] = "slow" => ~ Unraced(target[t])

SoundInv == SlowRaced /\ JoinSound

LEMMA SoundNext ==
    Inv1 /\ OldTasks /\ (NCPU = 1 => UpInv) /\ SoundInv /\ [Next]_vars => SoundInv'
<1> SUFFICES ASSUME Inv1, OldTasks, NCPU = 1 => UpInv, SoundInv, [Next]_vars PROVE SoundInv'
  OBVIOUS
<1> USE TaskAssumption
        DEF Inv1, TypeOK, PcLife, TargetOk, SemZero, SoundInv, SlowRaced, JoinSound, Unraced,
            Life, Exited, Findable, Labels, KernelLabels, Goto, LeaveCpu, Result
<1>1. ASSUME NEW t \in Task, NEW u \in Task, JoinFind(t, u) \/ JoinNotFound(t, u)
      PROVE  SoundInv'
  BY <1>1 DEF JoinFind, JoinNotFound
<1>2. ASSUME NEW t \in Task, \/ JoinLock(t) \/ JoinTooLate(t) \/ JoinRegister(t) \/ JoinSleep(t)
      PROVE  SoundInv'
  BY <1>2 DEF JoinLock, JoinTooLate, JoinRegister, JoinSleep
<1>3. ASSUME NEW t \in Task, JoinDown(t) \/ JoinWake(t) PROVE SoundInv'
  BY <1>3 DEF JoinDown, JoinWake, TakePermit
<1>4. ASSUME NEW t \in Task, JoinSlow(t) PROVE SoundInv'
  <2>1. ~ Unraced(target[t])
    BY <1>4 DEF JoinSlow, OldTasks, UpInv, NoEarlyJoiner
  <2> QED BY <1>4, <2>1 DEF JoinSlow
<1>5. ASSUME NEW t \in Task, JoinSlowEnd(t) PROVE SoundInv'
  BY <1>5 DEF JoinSlowEnd
<1>6. ASSUME NEW t \in Task, JoinWakeFreed(t) PROVE SoundInv'
  BY <1>6 DEF JoinWakeFreed
<1>7. ASSUME NEW t \in Task, NEW c \in Task, ForkCopy(t, c) PROVE SoundInv'
  BY <1>7 DEF ForkCopy
<1>8. ASSUME NEW t \in Task, ForkAttach(t) \/ ForkFail(t) \/ ForkInit(t) PROVE SoundInv'
  BY <1>8 DEF ForkAttach, ForkFail, ForkInit
<1>9. ASSUME NEW t \in Task, ExitCall(t) \/ ExitLock(t) \/ ExitUp(t) \/ ExitUnlock(t)
      PROVE  SoundInv'
  BY <1>9 DEF ExitCall, ExitLock, ExitUp, ExitUnlock
<1>10. ASSUME NEW t \in Task, ExitNotify(t) \/ ExitNotifySelf(t) \/ ExitPiState(t)
       PROVE  SoundInv'
  BY <1>10 DEF ExitNotify, ExitNotifySelf, ExitPiState, AfterNotify, ReleaseTask
<1>11. ASSUME NEW q \in Task, NEW u \in Task, Reap(q, u) PROVE SoundInv'
  BY <1>11 DEF Reap, ReleaseTask
<1>12. ASSUME NEW u \in Task, Free(u) PROVE SoundInv'
  BY <1>12 DEF Free
<1>13. CASE UNCHANGED vars
  BY <1>13 DEF vars
<1> QED
  BY <1>1, <1>2, <1>3, <1>4, <1>5, <1>6, <1>7, <1>8, <1>9, <1>10, <1>11, <1>12, <1>13
  DEF Next, Call, Step

\* A join that returns 0 has waited for its target, on any number of CPUs,
\* unless the target was still being made on another CPU when it was found: in
\* the kernel the repository configures (one CPU, no preemption) it always has.
THEOREM JoinIsSound == Spec => []JoinSound
<1> DEFINE IInv == Inv1 /\ OldTasks /\ (NCPU = 1 => UpInv) /\ SoundInv
<1>1. Init => IInv
  <2> SUFFICES ASSUME Init PROVE IInv
    OBVIOUS
  <2>1. UpInv /\ OldTasks
    BY TaskAssumption
    DEF Init, UpInv, OldTasks, OneInKernel, HashedByForker, NoEarlyJoiner, Running, KernelLabels
  <2>2. SoundInv
    BY DEF Init, SoundInv, SlowRaced, JoinSound
  <2> QED BY <2>1, <2>2, Inv1Init
<1>2. IInv /\ [Next]_vars => IInv'
  BY Inv1Next, UpNext, OldTasksNext, SoundNext
<1>3. IInv => JoinSound
  BY DEF SoundInv
<1> QED BY <1>1, <1>2, <1>3, PTL DEF Spec

\* What JoinersAccounted says of one task.
Counted(u) == life[u] \in {"alive", "exiting", "zombie", "released"}
Balanced(u) == /\ Owed(u) <= Cardinality(Waiting(u))
               /\ Unraced(u) => Owed(u) = Cardinality(Waiting(u))

LEMMA AccountedNext ==
  /\ Inv1 /\ LockInv /\ (NCPU = 1 => UpInv) /\ OldTasks /\ JoinersAccounted
  /\ [Next]_vars
  => JoinersAccounted'
<1> SUFFICES ASSUME Inv1, LockInv, NCPU = 1 => UpInv, OldTasks, JoinersAccounted,
                    [Next]_vars,
                    NEW v \in Task, Counted(v)'
             PROVE  Balanced(v)'
  BY DEF JoinersAccounted, Balanced, Counted
<1>a. Counted(v) => Balanced(v)
  BY DEF JoinersAccounted, Balanced, Counted
<1>b. /\ sem[v] \in Nat /\ joined[v] \in Nat /\ ups[v] \in Nat
      /\ Cardinality(Waiting(v)) \in Nat
  BY WaitingCount DEF Inv1, TypeOK
\* A step that neither touches the waiting joiners nor the sum.
<1>same. ASSUME Waiting(v)' = Waiting(v), Owed(v)' = Owed(v), Counted(v)
         PROVE  Balanced(v)'
  BY <1>same, <1>a DEF Balanced, Unraced
<1> USE TaskAssumption
        DEF Inv1, TypeOK, PcLife, TargetOk, Waiting, Owed, Counted,
            Life, Exited, Findable, Labels, KernelLabels, Goto, LeaveCpu, Result
<1>1. ASSUME NEW t \in Task, NEW u \in Task, JoinFind(t, u) \/ JoinNotFound(t, u)
      PROVE  Balanced(v)'
  BY <1>1, <1>same DEF JoinFind, JoinNotFound
<1>2. ASSUME NEW t \in Task, JoinLock(t) \/ JoinTooLate(t) \/ JoinSleep(t)
      PROVE  Balanced(v)'
  BY <1>2, <1>same DEF JoinLock, JoinTooLate, JoinSleep
<1>2a. ASSUME NEW t \in Task, JoinSlow(t) \/ JoinSlowEnd(t)
       PROVE  Balanced(v)'
  BY <1>2a, <1>same DEF JoinSlow, JoinSlowEnd
<1>3. ASSUME NEW t \in Task, JoinRegister(t)
      PROVE  Balanced(v)'
  <2>1. CASE v = target[t]
    <3>1. Waiting(v)' = Waiting(v) \cup {t} /\ t \notin Waiting(v)
      BY <1>3, <2>1 DEF JoinRegister
    <3>2. Owed(v)' = Owed(v) + 1 /\ Counted(v)
      BY <1>3, <2>1, <1>b DEF JoinRegister
    <3> QED BY <3>1, <3>2, <1>a, <1>b, WaitingCount, SMTT(30) DEF Balanced, Unraced
  <2>2. CASE v # target[t]
    BY <1>3, <2>2, <1>same DEF JoinRegister
  <2> QED BY <2>1, <2>2
<1>4. ASSUME NEW t \in Task, JoinDown(t) \/ JoinWake(t)
      PROVE  Balanced(v)'
  <2>1. CASE v = target[t]
    <3>1. Waiting(v)' = Waiting(v) \ {t} /\ t \in Waiting(v)
      BY <1>4, <2>1 DEF JoinDown, JoinWake, TakePermit
    <3>2. Owed(v)' = Owed(v) - 1 /\ Counted(v)
      BY <1>4, <2>1, <1>b DEF JoinDown, JoinWake, TakePermit
    <3>3. Cardinality(Waiting(v)') = Cardinality(Waiting(v)) - 1
      BY ONLY <3>1, WaitingCount
    <3> QED BY <3>2, <3>3, <1>a, <1>b, SMTT(30) DEF Balanced, Unraced
  <2>2. CASE v # target[t]
    BY <1>4, <2>2, <1>same DEF JoinDown, JoinWake, TakePermit
  <2> QED BY <2>1, <2>2
<1>4a. ASSUME NEW t \in Task, JoinWakeFreed(t)
       PROVE  Balanced(v)'
  <2>1. pc[t] = "woken" /\ life[target[t]] = "freed" /\ v # target[t] /\ Counted(v)
        /\ Owed(v)' = Owed(v)
    BY <1>4a DEF JoinWakeFreed
  <2>2. Waiting(v)' = Waiting(v)
    BY <1>4a, <2>1 DEF JoinWakeFreed, Sleepers
  <2> QED BY <2>1, <2>2, <1>same
<1>5. ASSUME NEW t \in Task, NEW c \in Task, ForkCopy(t, c)
      PROVE  Balanced(v)'
  BY <1>5, <1>same DEF ForkCopy
<1>6. ASSUME NEW t \in Task, ForkAttach(t) \/ ForkFail(t)
      PROVE  Balanced(v)'
  BY <1>6, <1>same DEF ForkAttach, ForkFail
<1>7. ASSUME NEW t \in Task, ForkInit(t)
      PROVE  Balanced(v)'
  <2>1. CASE v = target[t]
    <3>1. Owed(v)' = 0 /\ Waiting(v)' = Waiting(v)
      BY <1>7, <2>1 DEF ForkInit, LockInv, OwnersHold
    <3>2. CASE NCPU = 1
      <4>1. Waiting(v) = {}
        BY <1>7, <2>1, <3>2 DEF ForkInit, UpInv, NoEarlyJoiner
      <4>2. Cardinality(Waiting(v)') = 0
        BY <3>1, <4>1, FS_EmptySet
      <4>3. Owed(v)' <= Cardinality(Waiting(v)') /\ Owed(v)' = Cardinality(Waiting(v)')
        BY <3>1, <4>2
      <4> HIDE DEF Waiting, Owed
      <4> QED BY <4>3 DEF Balanced
    <3>3. CASE NCPU # 1
      <4>1. v \notin InitAlive
        BY <1>7, <2>1 DEF ForkInit, OldTasks
      <4> HIDE DEF Waiting, Owed
      <4>2. Owed(v)' <= Cardinality(Waiting(v)')
        BY <3>1, <1>b
      <4> QED BY <3>3, <4>1, <4>2 DEF Balanced, Unraced
    <3> QED BY <3>2, <3>3
  <2>2. CASE v # target[t]
    BY <1>7, <2>2, <1>same DEF ForkInit
  <2> QED BY <2>1, <2>2
<1>8. ASSUME NEW t \in Task, ExitCall(t) \/ ExitLock(t)
      PROVE  Balanced(v)'
  BY <1>8, <1>same DEF ExitCall, ExitLock
<1>9. ASSUME NEW t \in Task, ExitUp(t)
      PROVE  Balanced(v)'
  BY <1>9, <1>same, <1>b DEF ExitUp
<1>10. ASSUME NEW t \in Task, ExitUnlock(t)
       PROVE  Balanced(v)'
  BY <1>10, <1>same, <1>b DEF ExitUnlock
<1>11. ASSUME NEW t \in Task, ExitNotify(t) \/ ExitNotifySelf(t) \/ ExitPiState(t)
       PROVE  Balanced(v)'
  BY <1>11, <1>same
  DEF ExitNotify, ExitNotifySelf, ExitPiState, AfterNotify, ReleaseTask
<1>12. ASSUME NEW q \in Task, NEW u \in Task, Reap(q, u)
       PROVE  Balanced(v)'
  BY <1>12, <1>same DEF Reap, ReleaseTask
<1>13. ASSUME NEW u \in Task, Free(u)
       PROVE  Balanced(v)'
  <2>1. v # u /\ Counted(v) /\ Owed(v)' = Owed(v)
    BY <1>13 DEF Free
  <2>2. Waiting(v)' = Waiting(v)
    BY <1>13, <2>1 DEF Free, Sleepers
  <2> QED BY <2>1, <2>2, <1>same
<1>14. CASE UNCHANGED vars
  BY <1>14, <1>same DEF vars
<1> QED
  BY <1>1, <1>2, <1>2a, <1>3, <1>4, <1>4a, <1>5, <1>6, <1>7, <1>8, <1>9, <1>10, <1>11,
     <1>12, <1>13, <1>14
  DEF Next, Call, Step

\* Whatever the number of CPUs, no permit is owed to nobody, and the permits
\* of a task that no joiner found half made are exactly as many as the
\* joiners that wait for it: in the kernel the repository configures (one
\* CPU, no preemption) that is every task (exit.c:924-933).
THEOREM NoJoinerForgotten == Spec => []JoinersAccounted
<1> DEFINE IInv == /\ Inv1 /\ GraceCovers /\ LockInv /\ OldTasks
                   /\ (NCPU = 1 => UpInv) /\ JoinersAccounted
<1>1. Init => IInv
  <2> SUFFICES ASSUME Init PROVE IInv
    OBVIOUS
  <2>1. GraceCovers /\ LockInv /\ UpInv /\ OldTasks
    BY TaskAssumption
    DEF Init, GraceCovers, LockInv, OwnersHold, LockDiscipline, Exited, UpInv, OldTasks,
        OneInKernel, HashedByForker, NoEarlyJoiner, Running, KernelLabels
  <2>2. \A u \in Task : Waiting(u) = {}
    BY DEF Init, Waiting
  <2>3. JoinersAccounted
    BY <2>2, FS_EmptySet DEF Init, JoinersAccounted, Owed
  <2> QED BY <2>1, <2>3, Inv1Init
<1>2. IInv /\ [Next]_vars => IInv'
  BY Inv1Next, GraceNext, LockNext, UpNext, OldTasksNext, AccountedNext
<1> QED BY <1>1, <1>2, PTL DEF Spec
=============================================================================
