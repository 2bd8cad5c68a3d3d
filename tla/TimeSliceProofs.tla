-------------------------- MODULE TimeSliceProofs --------------------------
(***************************************************************************)
(* Proofs about TimeSlice, for every finite set of tasks, every full slice *)
(* and every number of calls of quad, swipe and zombify.                   *)
(***************************************************************************)
EXTENDS TimeSlice, Summation

\* Which tasks the kernel's pointers name: the current task is alive, as are
\* all on the run queue; what a call has in its registers is a task, and a
\* child is not born before it is woken up.
Pointers ==
    /\ life[curr] = "alive"
    /\ \A t \in Task : array[t] # "none" => life[t] = "alive"
    /\ \A t \in released : life[t] # "unborn"
    /\ pc \in {"fork", "wakeNew"} => reg.a \in Task /\ life[reg.a] = "unborn"
    /\ pc = "wait" => reg.a \in Task /\ life[reg.a] # "unborn"
    /\ pc \in {"quad", "swipe", "zero", "loop"} => reg.a \in Task /\ calls > 0
    /\ pc \in {"swipe", "zero", "loop"} => reg.b \in Task /\ reg.a # reg.b

Base == TypeOK /\ Pointers

\* Unsigned arithmetic stays in the range of an unsigned int.
LEMMA UnsignedRange ==
    /\ \A x \in Int : x % UINT \in 0..(UINT - 1)
    /\ \A x \in 0..(UINT - 1) : x % UINT = x
    /\ \A x \in UINT..(2 * UINT - 1) : x % UINT = x - UINT
    /\ (-1) % UINT = UINT - 1
    /\ Full \in 0..(UINT - 1) /\ 1 \in 0..(UINT - 1) /\ 0 \in 0..(UINT - 1)
  BY SliceAssumption

\* A tick leaves a slice in the range.
LEMMA TickedType ==
    ASSUME TypeOK, NEW s \in 0..(UINT - 1)
    PROVE  Ticked(curr, s) \in [slice : 0..(UINT - 1), first : BOOLEAN,
                                array : {array[curr], "active", "expired"},
                                resched : BOOLEAN]
<1>1. s - 1 \in Int
  BY SliceAssumption
<1>2. (s - 1) % UINT \in 0..(UINT - 1)
  BY <1>1, UnsignedRange
<1> QED
  BY <1>2, UnsignedRange DEF Ticked, TypeOK

\* A tick keeps a task where it is or moves it between the arrays.
LEMMA TickedArray ==
    ASSUME TypeOK, NEW s
    PROVE  Ticked(curr, s).array = "none" <=> array[curr] = "none"
  BY DEF Ticked, TypeOK

\* Children are counted without exceeding the number of tasks.
LEMMA ChildrenCounted ==
    ASSUME NEW t
    PROVE  Cardinality(Children(t)) \in 0..Cardinality(Task)
<1>1. Children(t) \in SUBSET Task
  BY DEF Children, Findable
<1> QED
  BY <1>1, TaskAssumption, FS_Subset, FS_CardinalityType

LEMMA CardTask == Cardinality(Task) \in Nat
  BY TaskAssumption, FS_CardinalityType

\* The registers of a task that makes a call.
Regs == [a : Task \cup {NoTask}, b : Task \cup {NoTask},
         orig : 0..(UINT - 1), stolen : 0..(UINT - 1),
         val : 0..(UINT - 1), left : 0..Cardinality(Task), hit : BOOLEAN]

LEMMA IdleType == Idle \in Regs
  BY UnsignedRange, CardTask DEF Idle, Regs

\* What schedule() leaves: the queued tasks are the same, one of them runs.
LEMMA SwitchToType ==
    ASSUME NEW a \in [Task -> {"active", "expired", "none"}], SwitchTo(a)
    PROVE  /\ array' \in [Task -> {"active", "expired", "none"}]
           /\ curr' \in Task /\ array'[curr'] # "none"
           /\ resched' = FALSE
           /\ \A t \in Task : array'[t] = "none" <=> a[t] = "none"
  BY DEF SwitchTo

\* Both halves of the basic invariant hold at the start.
LEMMA BaseInit == Init => Base
<1> SUFFICES ASSUME Init PROVE Base
  OBVIOUS
<1>1. reg \in Regs
  BY IdleType DEF Init
<1>2. calls \in 0..MaxCalls
  BY SliceAssumption DEF Init
<1>3. TypeOK
  BY <1>1, <1>2, TaskAssumption, UnsignedRange DEF Init, TypeOK, Life, Regs
<1>4. Pointers
  BY TaskAssumption DEF Init, Pointers
<1> QED
  BY <1>3, <1>4 DEF Base

\* Every step keeps the basic invariant.
LEMMA BaseStep == Base /\ [Next]_vars => Base'
<1> SUFFICES ASSUME Base, [Next]_vars PROVE Base'
  OBVIOUS
<1> USE DEF Base, Pointers, TypeOK
<1>. reg \in Regs
  BY DEF Regs
<1>1. CASE Tick
  <2> DEFINE k == Ticked(curr, slice[curr])
  <2>1. /\ k.slice \in 0..(UINT - 1) /\ k.first \in BOOLEAN /\ k.resched \in BOOLEAN
        /\ k.array \in {"active", "expired", "none"}
        /\ k.array = "none" <=> array[curr] = "none"
    BY TickedType, TickedArray
  <2> HIDE DEF k
  <2>2. /\ slice' = [slice EXCEPT ![curr] = k.slice]
        /\ first' = [first EXCEPT ![curr] = k.first]
        /\ array' = [array EXCEPT ![curr] = k.array]
        /\ resched' = k.resched
        /\ reg' = [reg EXCEPT !.hit = (pc # "user")]
        /\ UNCHANGED <<taskVars, curr, pc, callVars>>
    BY <1>1 DEF Tick, k
  <2>3. reg' \in Regs /\ reg'.a = reg.a /\ reg'.b = reg.b
    BY <2>2 DEF Regs
  <2>4. TypeOK'
    BY <2>1, <2>2, <2>3 DEF taskVars, callVars, Regs
  <2>5. Pointers'
    BY <2>1, <2>2, <2>3 DEF taskVars, callVars
  <2> QED
    BY <2>4, <2>5
<1>2. CASE Schedule
  BY <1>2, SwitchToType, ZenonT(60) DEF Schedule, taskVars, callVars, Regs
<1>3. ASSUME NEW c \in Task, ForkCall(c) PROVE Base'
  <2>1. reg' \in Regs /\ reg'.a = c
    BY <1>3, IdleType DEF ForkCall, Regs, Idle
  <2> QED
    BY <1>3, <2>1 DEF ForkCall, UserMode, taskVars, callVars, Regs
<1>4. CASE SchedFork
  <2> DEFINE half == slice[curr] \div 2
             k == IF half = 0 THEN Ticked(curr, 1)
                  ELSE [slice |-> half, first |-> first[curr], array |-> array[curr],
                        resched |-> resched]
             given == ((slice[curr] + 1) % UINT) \div 2
  <2>1. half \in 0..(UINT - 1) /\ given \in 0..(UINT - 1)
    <3>1. (slice[curr] + 1) % UINT \in 0..(UINT - 1)
      BY UnsignedRange, SliceAssumption
    <3> QED
      BY <3>1, SliceAssumption
  <2>2. /\ k.slice \in 0..(UINT - 1) /\ k.first \in BOOLEAN /\ k.resched \in BOOLEAN
        /\ k.array \in {"active", "expired", "none"}
        /\ k.array = "none" <=> array[curr] = "none"
    BY <2>1, TickedType, TickedArray, UnsignedRange
  <2>3. /\ pc = "fork" /\ pc' = "wakeNew"
        /\ slice' = [slice EXCEPT ![curr] = k.slice, ![reg.a] = given]
        /\ first' = [first EXCEPT ![curr] = k.first, ![reg.a] = TRUE]
        /\ array' = [array EXCEPT ![curr] = k.array]
        /\ resched' = k.resched
        /\ UNCHANGED <<taskVars, curr, reg, callVars>>
    BY <1>4 DEF SchedFork
  <2> HIDE DEF half, k, given
  <2>4. TypeOK'
    BY <2>1, <2>2, <2>3 DEF taskVars, callVars, Regs
  <2>5. Pointers'
    BY <2>2, <2>3 DEF taskVars, callVars
  <2> QED
    BY <2>4, <2>5
<1>5. CASE WakeUpNewTask
  <2>1. reg' \in Regs
    BY <1>5, IdleType DEF WakeUpNewTask, Return
  <2>2. parent' \in [Task -> Task \cup {NoTask}]
    BY <1>5 DEF WakeUpNewTask
  <2>3. TypeOK'
    <3>0. resched' \in BOOLEAN
      BY <1>5 DEF WakeUpNewTask
    <3>1. array' \in [Task -> {"active", "expired", "none"}]
      BY <1>5 DEF WakeUpNewTask
    <3>2. /\ life' \in [Task -> Life]
          /\ exitState' \in [Task -> {"none", "zombie", "dead"}]
          /\ pc' = "user"
          /\ UNCHANGED <<slice, first, released, curr, callVars>>
      BY <1>5 DEF WakeUpNewTask, Return, Life
    <3> QED
      BY <2>1, <2>2, <3>0, <3>1, <3>2 DEF callVars, Regs
  <2>4. /\ pc' = "user" /\ curr' = curr /\ released' = released
        /\ life' = [life EXCEPT ![reg.a] = "alive"]
        /\ \A t \in Task \ {reg.a} : array'[t] = array[t]
    BY <1>5 DEF WakeUpNewTask, Return
  <2>5. \A t \in Task : life'[t] = IF t = reg.a THEN "alive" ELSE life[t]
    BY <2>4
  <2>6. Pointers'
    BY <2>4, <2>5
  <2> QED
    BY <2>3, <2>6
<1>6. CASE ForkFails
  BY <1>6, IdleType, UnsignedRange DEF ForkFails, Return, taskVars, callVars, Regs
<1>7. CASE ExitCall
  BY <1>7 DEF ExitCall, UserMode, taskVars, callVars, Regs
<1>8. CASE ExitNotify
  <2>1. slice' \in [Task -> 0..(UINT - 1)] /\ released' \subseteq released \cup {curr}
    <3>1. CASE UNCHANGED <<slice, released>>
      BY <3>1
    <3>2. CASE ReleaseTask(curr)
      <4> DEFINE sum == (slice[parent[curr]] + slice[curr]) % UINT
      <4>1. parent[curr] \in Task => sum \in 0..(UINT - 1)
        BY UnsignedRange, SliceAssumption
      <4> QED
        BY <3>2, <4>1, UnsignedRange, ZenonT(60) DEF ReleaseTask, SchedExit
    <3> QED
      BY <1>8, <3>1, <3>2 DEF ExitNotify
  <2>2. parent' \in [Task -> Task \cup {NoTask}]
    BY <1>8, TaskAssumption DEF ExitNotify
  <2>3. exitState' \in [Task -> {"none", "zombie", "dead"}]
    BY <1>8 DEF ExitNotify
  <2> QED
    BY <1>8, <2>1, <2>2, <2>3 DEF ExitNotify, callVars, Regs
<1>9. ASSUME NEW l \in {"dead", "stuck"}, LeaveFor(l) PROVE Base'
  <2> DEFINE a == [array EXCEPT ![curr] = "none"]
  <2>1. a \in [Task -> {"active", "expired", "none"}]
    OBVIOUS
  <2>2. SwitchTo(a)
    BY <1>9 DEF LeaveFor
  <2> HIDE DEF a
  <2>3. /\ array' \in [Task -> {"active", "expired", "none"}]
        /\ curr' \in Task /\ array'[curr'] # "none"
        /\ resched' = FALSE
        /\ \A t \in Task : array'[t] = "none" <=> a[t] = "none"
    BY <2>1, <2>2, SwitchToType
  <2>4. \A t \in Task : a[t] # "none" => array[t] # "none" /\ t # curr
    BY DEF a
  <2>5. /\ life' = [life EXCEPT ![curr] = l] /\ pc' = "user" /\ reg' = Idle
        /\ UNCHANGED <<slice, first, parent, exitState, released, callVars>>
    BY <1>9 DEF LeaveFor, Return
  <2>6. \A t \in Task : life'[t] = IF t = curr THEN l ELSE life[t]
    BY <2>5
  <2>7. TypeOK'
    BY <2>3, <2>5, IdleType DEF Life, callVars, Regs
  <2>8. Pointers'
    BY <2>3, <2>4, <2>5, <2>6
  <2> QED
    BY <2>7, <2>8
<1>10. CASE ExitSchedule
  BY <1>9, <1>10 DEF ExitSchedule
<1>11. CASE Oops
  BY <1>9, <1>11 DEF Oops
<1>12. ASSUME NEW u \in Task, WaitCall(u) PROVE Base'
  <2>1. reg' \in Regs /\ reg'.a = u /\ life[u] # "unborn"
    BY <1>12, IdleType DEF WaitCall, Regs, Idle, Children, Findable
  <2> QED
    BY <1>12, <2>1 DEF WaitCall, UserMode, taskVars, callVars, Regs
<1>13. CASE WaitReap
  <2>1. slice' \in [Task -> 0..(UINT - 1)] /\ released' = released \cup {reg.a}
    <3> DEFINE sum == (slice[parent[reg.a]] + slice[reg.a]) % UINT
    <3>1. parent[reg.a] \in Task => slice[parent[reg.a]] + slice[reg.a] \in Int
      BY <1>13, SliceAssumption DEF WaitReap
    <3>2. parent[reg.a] \in Task => sum \in 0..(UINT - 1)
      BY <3>1, UnsignedRange
    <3>3. /\ released' = released \cup {reg.a}
          /\ slice' = IF first[reg.a]
                      THEN [slice EXCEPT ![parent[reg.a]] = IF sum > Full THEN Full ELSE sum]
                      ELSE slice
      BY <1>13 DEF WaitReap, ReleaseTask, SchedExit
    <3> HIDE DEF sum
    <3> QED
      BY <3>2, <3>3, UnsignedRange, ZenonT(60)
  <2> QED
    BY <1>13, <2>1, IdleType DEF WaitReap, Return, callVars, Regs
<1>14. CASE WaitNothing
  BY <1>14, IdleType DEF WaitNothing, Return, taskVars, callVars, Regs
<1>15. ASSUME NEW u \in Task, QuadCall(u) PROVE Base'
  <2>1. reg' \in Regs /\ reg'.a = u
    BY <1>15, IdleType DEF QuadCall, Regs, Idle
  <2>2. calls' \in 0..MaxCalls /\ calls' > 0
    BY <1>15, SliceAssumption DEF QuadCall, AddedCall
  <2> QED
    BY <1>15, <2>1, <2>2 DEF QuadCall, AddedCall, UserMode, taskVars, callVars, Regs
<1>16. CASE QuadStore
  <2>1. (4 * reg.val) % UINT \in 0..(UINT - 1)
    <3>1. 4 * reg.val \in Int
      BY SliceAssumption DEF Regs
    <3> QED
      BY <3>1, UnsignedRange
  <2> QED
    BY <1>16, <2>1, IdleType DEF QuadStore, Return, taskVars, callVars, Regs
<1>17. ASSUME NEW u \in Task, NEW v \in Task, SwipeCall(u, v) PROVE Base'
  <2>1. reg' \in Regs /\ reg'.a = u /\ reg'.b = v /\ u # v
    BY <1>17, IdleType DEF SwipeCall, Regs, Idle
  <2>2. calls' \in 0..MaxCalls /\ calls' > 0
    BY <1>17, SliceAssumption DEF SwipeCall, AddedCall
  <2> QED
    BY <1>17, <2>1, <2>2 DEF SwipeCall, AddedCall, UserMode, taskVars, callVars, Regs
<1>18. ASSUME NEW l \in {"zero", "loop"}, NEW n \in 0..Cardinality(Task),
              pc \in {"swipe", "loop"}, SwipeAdd(l, n)
       PROVE  Base'
  <2>1. PICK base \in {reg.val, slice[reg.a]} :
          LET sum == (base + slice[reg.b]) % UINT
          IN  /\ slice' = [slice EXCEPT ![reg.a] = sum]
              /\ pc' = l /\ reg' = [reg EXCEPT !.val = sum, !.left = n]
              /\ UNCHANGED <<first, array, taskVars, curr, resched, callVars>>
    BY <1>18 DEF SwipeAdd
  <2>2. (base + slice[reg.b]) % UINT \in 0..(UINT - 1)
    <3>1. base + slice[reg.b] \in Int
      BY <1>18, SliceAssumption DEF Regs
    <3> QED
      BY <3>1, UnsignedRange
  <2>3. reg' \in Regs /\ reg'.a = reg.a /\ reg'.b = reg.b
    BY <2>1, <2>2 DEF Regs
  <2> QED
    BY <1>18, <2>1, <2>2, <2>3 DEF taskVars, callVars, Regs
<1>19. CASE SwipeTake
  BY <1>18, <1>19, CardTask DEF SwipeTake
<1>20. CASE SwipeZero
  <2>1. reg' \in Regs /\ reg'.a = reg.a /\ reg'.b = reg.b
    BY <1>20, ChildrenCounted DEF SwipeZero, Regs
  <2> QED
    BY <1>20, <2>1, UnsignedRange DEF SwipeZero, taskVars, callVars, Regs
<1>21. CASE SwipeChild
  <2>1. reg.left - 1 \in 0..Cardinality(Task)
    BY <1>21, CardTask DEF SwipeChild, Regs
  <2> QED
    BY <1>18, <1>21, <2>1 DEF SwipeChild
<1>22. CASE SwipeReturn
  BY <1>22, IdleType DEF SwipeReturn, Return, taskVars, callVars, Regs
<1>23. ASSUME NEW u \in Task, Zombify(u) PROVE Base'
  <2>1. calls' \in 0..MaxCalls /\ calls' > 0
    BY <1>23, SliceAssumption DEF Zombify, AddedCall
  <2> QED
    BY <1>23, <2>1 DEF Zombify, AddedCall, UserMode, Regs
<1>24. CASE UNCHANGED vars
  BY <1>24 DEF vars, taskVars, callVars, Regs
<1> QED
  BY <1>1, <1>2, <1>3, <1>4, <1>5, <1>6, <1>7, <1>8, <1>10, <1>11, <1>12, <1>13, <1>14,
     <1>15, <1>16, <1>17, <1>19, <1>20, <1>21, <1>22, <1>23, <1>24 DEF Next, Step, Call

\* Slices are unsigned ints, registers hold tasks and numbers of children,
\* and so on, whatever quad and swipe have made of the slices.
THEOREM TypesKept == Spec => []TypeOK
<1>1. Base => TypeOK
  BY DEF Base
<1> QED
  BY <1>1, BaseInit, BaseStep, PTL DEF Spec

---------------------------------------------------------------------------
(* Without the added calls slices stay between one jiffy and the full one *)

\* As long as quad, swipe and zombify were not called: no slice exceeds the
\* full one, the living have at least a jiffy, and so has the child that
\* sched_fork is done with but nobody has woken up.
SlicesSound ==
    calls = 0 =>
        /\ \A t \in Task : slice[t] <= Full
        /\ \A t \in Task : life[t] = "alive" => slice[t] >= 1
        /\ pc = "wakeNew" => slice[reg.a] >= 1

\* A tick turns a sound slice into a sound one: the last jiffy is refilled.
LEMMA TickedSound ==
    ASSUME TypeOK, NEW s \in 1..Full
    PROVE  Ticked(curr, s).slice \in 1..Full
<1>1. (s - 1) % UINT = s - 1
  BY UnsignedRange, SliceAssumption
<1> QED
  BY <1>1, SliceAssumption DEF Ticked

\* What a parent recovers keeps its slice sound: the sum does not wrap.
LEMMA SchedExitSound ==
    ASSUME TypeOK, NEW p \in Task, SchedExit(p),
           \A t \in Task : slice[t] <= Full
    PROVE  \A t \in Task : slice'[t] <= Full /\ slice'[t] >= slice[t]
<1> DEFINE q == parent[p]
           sum == (slice[q] + slice[p]) % UINT
<1>1. q \in Task => sum = slice[q] + slice[p]
  <2>1. q \in Task => slice[q] + slice[p] \in 0..(UINT - 1)
    BY SliceAssumption DEF TypeOK
  <2> QED
    BY <2>1, UnsignedRange
<1>2. slice' = IF first[p] THEN [slice EXCEPT ![q] = IF sum > Full THEN Full ELSE sum]
               ELSE slice
  BY DEF SchedExit
<1> HIDE DEF sum
<1> QED
  BY <1>1, <1>2, SliceAssumption DEF TypeOK

\* The added calls are counted one by one.
LEMMA CallsStep == [Next]_vars => calls' = calls \/ calls' = calls + 1
<1>1. Step => calls' = calls
  BY DEF Step, SchedFork, WakeUpNewTask, ForkFails, ExitNotify, ExitSchedule, LeaveFor,
         WaitReap, WaitNothing, QuadStore, SwipeTake, SwipeAdd, SwipeZero, SwipeChild,
         SwipeReturn, callVars
<1>2. Call => calls' = calls \/ calls' = calls + 1
  BY DEF Call, ForkCall, WaitCall, QuadCall, Zombify, SwipeCall, ExitCall, Oops, LeaveFor,
         AddedCall, callVars
<1>3. Tick \/ Schedule \/ UNCHANGED vars => calls' = calls
  BY DEF Tick, Schedule, vars, callVars
<1> QED
  BY <1>1, <1>2, <1>3 DEF Next

LEMMA SlicesStep == Base /\ SlicesSound /\ [Next]_vars => SlicesSound'
<1> SUFFICES ASSUME Base, SlicesSound, [Next]_vars, calls' = 0 PROVE SlicesSound'
  BY DEF SlicesSound
<1>. /\ TypeOK /\ Full \in Nat /\ Full >= 1
     /\ life[curr] = "alive" /\ curr \in Task
  BY SliceAssumption DEF Base, Pointers, TypeOK
<1>0. calls = 0 /\ calls' = calls
  <2>1. calls \in Nat
    BY SliceAssumption DEF TypeOK
  <2> QED
    BY <2>1, CallsStep
<1>. /\ \A t \in Task : slice[t] \in 0..Full
     /\ \A t \in Task : life[t] = "alive" => slice[t] >= 1
     /\ pc = "wakeNew" => slice[reg.a] >= 1
     /\ slice[curr] \in 1..Full
  BY <1>0 DEF SlicesSound, TypeOK
<1>1. CASE Tick
  <2>1. Ticked(curr, slice[curr]).slice \in 1..Full
    BY TickedSound
  <2>2. pc = "wakeNew" => reg.a # curr
    BY DEF Base, Pointers
  <2>3. /\ slice' = [slice EXCEPT ![curr] = Ticked(curr, slice[curr]).slice]
        /\ life' = life /\ pc' = pc /\ reg'.a = reg.a
    BY <1>1 DEF Tick, taskVars, TypeOK
  <2>4. \A t \in Task : slice'[t] = IF t = curr THEN Ticked(curr, slice[curr]).slice
                                               ELSE slice[t]
    BY <2>3 DEF TypeOK
  <2>5. pc = "wakeNew" => reg.a \in Task
    BY DEF Base, Pointers
  <2> QED
    BY <2>1, <2>2, <2>3, <2>4, <2>5 DEF SlicesSound
<1>2. CASE SchedFork
  <2> DEFINE half == slice[curr] \div 2
             k == IF half = 0 THEN Ticked(curr, 1)
                  ELSE [slice |-> half, first |-> first[curr], array |-> array[curr],
                        resched |-> resched]
             given == ((slice[curr] + 1) % UINT) \div 2
  <2>1. given \in 1..Full
    <3>1. (slice[curr] + 1) % UINT = slice[curr] + 1
      BY UnsignedRange, SliceAssumption
    <3> QED
      BY <3>1
  <2>2. k.slice \in 1..Full
    BY TickedSound
  <2>3. reg.a \in Task /\ life[reg.a] = "unborn" /\ reg.a # curr
    BY <1>2 DEF Base, Pointers, SchedFork
  <2>4. slice' = [slice EXCEPT ![curr] = k.slice, ![reg.a] = given]
    BY <1>2 DEF SchedFork
  <2>5. life' = life /\ reg' = reg
    BY <1>2 DEF SchedFork, taskVars
  <2> HIDE DEF k, given, half
  <2>6. \A t \in Task : slice'[t] = IF t = curr THEN k.slice
                                     ELSE IF t = reg.a THEN given ELSE slice[t]
    BY <2>3, <2>4 DEF TypeOK
  <2>7. \A t \in Task : slice'[t] \in 0..Full /\ (life'[t] = "alive" => slice'[t] >= 1)
    BY <2>1, <2>2, <2>3, <2>5, <2>6
  <2>8. slice'[reg'.a] >= 1
    <3>1. slice'[reg.a] = given
      BY <2>3, <2>6
    <3> QED
      BY <2>1, <2>5, <3>1
  <2> QED
    BY <2>7, <2>8 DEF SlicesSound
<1>3. CASE WakeUpNewTask
  <2>1. /\ pc = "wakeNew" /\ pc' = "user" /\ slice' = slice
        /\ life' = [life EXCEPT ![reg.a] = "alive"]
    BY <1>3 DEF WakeUpNewTask, Return
  <2> QED
    BY <2>1 DEF SlicesSound, TypeOK
<1>4. CASE ForkFails
  <2>1. reg.a \in Task /\ life[reg.a] = "unborn"
    BY <1>4 DEF Base, Pointers, ForkFails
  <2>2. pc' = "user" /\ life' = life /\ slice' = [slice EXCEPT ![reg.a] = 0]
    BY <1>4 DEF ForkFails, Return, taskVars
  <2> QED
    BY <2>1, <2>2 DEF SlicesSound, TypeOK
<1>5. CASE ExitNotify
  <2>1. SchedExit(curr) \/ slice' = slice
    BY <1>5 DEF ExitNotify, ReleaseTask
  <2>2. \A t \in Task : slice'[t] <= Full /\ slice'[t] >= slice[t]
    BY <2>1, SchedExitSound DEF TypeOK
  <2>3. slice' \in [Task -> Nat]
    <3>1. TypeOK'
      BY BaseStep DEF Base
    <3> QED
      BY <3>1, SliceAssumption DEF TypeOK
  <2>4. life' = life /\ pc' = "dying"
    BY <1>5 DEF ExitNotify
  <2> QED
    BY <2>2, <2>3, <2>4 DEF SlicesSound, TypeOK
<1>6. CASE WaitReap
  <2>1. reg.a \in Task /\ SchedExit(reg.a)
    BY <1>6 DEF WaitReap, ReleaseTask, Base, Pointers
  <2>2. \A t \in Task : slice'[t] <= Full /\ slice'[t] >= slice[t]
    BY <2>1, SchedExitSound DEF TypeOK
  <2>3. slice' \in [Task -> Nat]
    <3>1. TypeOK'
      BY BaseStep DEF Base
    <3> QED
      BY <3>1, SliceAssumption DEF TypeOK
  <2>4. life' = life /\ pc' = "user"
    BY <1>6 DEF WaitReap, Return
  <2> QED
    BY <2>2, <2>3, <2>4 DEF SlicesSound, TypeOK
<1>7. ASSUME NEW l \in {"dead", "stuck"}, LeaveFor(l) PROVE SlicesSound'
  <2>1. slice' = slice /\ life' = [life EXCEPT ![curr] = l] /\ pc' = "user"
    BY <1>7 DEF LeaveFor, Return
  <2> QED
    BY <2>1 DEF SlicesSound, TypeOK
<1>8. CASE ExitSchedule \/ Oops
  BY <1>7, <1>8 DEF ExitSchedule, Oops
<1>9. CASE \/ Schedule \/ ExitCall \/ WaitNothing \/ UNCHANGED vars
           \/ \E u \in Task : ForkCall(u) \/ WaitCall(u)
  <2>1. slice' = slice /\ life' = life /\ ((pc' = pc /\ reg' = reg) \/ pc' # "wakeNew")
    BY <1>9 DEF Schedule, ExitCall, WaitNothing, Return, vars, ForkCall, WaitCall, taskVars
  <2> QED
    BY <2>1 DEF SlicesSound
<1>10. CASE QuadStore \/ SwipeTake \/ SwipeZero \/ SwipeChild \/ SwipeReturn
  BY <1>0, <1>10 DEF QuadStore, SwipeTake, SwipeZero, SwipeChild, SwipeReturn,
                     Base, Pointers
<1>11. CASE \/ \E u \in Task : QuadCall(u) \/ Zombify(u)
            \/ \E u, v \in Task : SwipeCall(u, v)
  BY <1>0, <1>11 DEF QuadCall, Zombify, SwipeCall, AddedCall
<1> QED
  BY <1>1, <1>2, <1>3, <1>4, <1>5, <1>6, <1>8, <1>9, <1>10, <1>11 DEF Next, Step, Call

\* Until quad, swipe or zombify is called, a living task always has between
\* one jiffy and a full slice: the halving of sched_fork never leaves a
\* parent or a child with nothing, and what sched_exit gives back never
\* exceeds a full slice.
THEOREM SlicesStayInRange == Spec => []SliceInRange
<1>1. Init => SlicesSound
  BY SliceAssumption DEF Init, SlicesSound
<1>2. Base /\ SlicesSound => SliceInRange
  BY SliceAssumption DEF Base, TypeOK, SlicesSound, SliceInRange
<1> QED
  BY <1>1, <1>2, BaseInit, BaseStep, SlicesStep, PTL DEF Spec

---------------------------------------------------------------------------
(* Who may be released *)

\* A zombie that sys_zombify did not make has exited, or is just leaving.
ZombiesExited ==
    \A t \in Task : exitState[t] = "zombie" =>
        t \in zombified \/ life[t] = "dead" \/ (t = curr /\ pc = "dying")

ReleaseInv == ZombiesExited /\ LivingNotReleased

LEMMA ReleaseStep == Base /\ ReleaseInv /\ [Next]_vars => ReleaseInv'
<1> SUFFICES ASSUME Base, ReleaseInv, [Next]_vars PROVE ReleaseInv'
  OBVIOUS
<1>. /\ life[curr] = "alive" /\ curr \in Task
     /\ \A t \in released : life[t] # "unborn"
     /\ life \in [Task -> Life] /\ exitState \in [Task -> {"none", "zombie", "dead"}]
     /\ released \subseteq Task
  BY DEF Base, Pointers, TypeOK
<1> USE DEF ReleaseInv, ZombiesExited, LivingNotReleased
<1>1. CASE UNCHANGED <<life, exitState, released, curr, pc, zombified>>
  BY <1>1
<1>2. CASE pc # "dying" /\ pc' # "dying" /\ UNCHANGED <<life, exitState, released, zombified>>
  BY <1>2
<1>3. CASE WakeUpNewTask
  <2>1. reg.a \in Task /\ life[reg.a] = "unborn" /\ reg.a \notin released
    BY <1>3 DEF Base, Pointers, WakeUpNewTask
  <2>2. /\ pc = "wakeNew" /\ pc' = "user" /\ UNCHANGED <<released, curr, zombified>>
        /\ life' = [life EXCEPT ![reg.a] = "alive"]
        /\ exitState' = [exitState EXCEPT ![reg.a] = "none"]
    BY <1>3 DEF WakeUpNewTask, Return, callVars
  <2> QED
    BY <2>1, <2>2
<1>4. CASE ExitNotify
  <2>1. /\ pc = "exit" /\ pc' = "dying" /\ UNCHANGED <<life, curr, zombified>>
        /\ released' \subseteq released \cup {curr}
        /\ \A t \in Task \ {curr} : exitState'[t] = exitState[t]
    BY <1>4 DEF ExitNotify, ReleaseTask, callVars
  <2> QED
    BY <2>1
<1>5. CASE ExitSchedule
  <2>1. /\ life' = [life EXCEPT ![curr] = "dead"]
        /\ UNCHANGED <<exitState, released, zombified>>
    BY <1>5 DEF ExitSchedule, LeaveFor, callVars
  <2> QED
    BY <2>1
<1>6. CASE Oops
  <2>1. /\ life' = [life EXCEPT ![curr] = "stuck"] /\ pc = "user" /\ pc' = "user"
        /\ curr \in released
        /\ UNCHANGED <<exitState, released, zombified>>
    BY <1>6 DEF Oops, UserMode, LeaveFor, Return, callVars
  <2>2. curr \in zombified
    BY <2>1
  <2> QED
    BY <2>1, <2>2
<1>7. CASE WaitReap
  <2>1. /\ pc = "wait" /\ pc' = "user" /\ exitState[reg.a] = "zombie"
        /\ exitState' = [exitState EXCEPT ![reg.a] = "dead"]
        /\ released' = released \cup {reg.a}
        /\ UNCHANGED <<life, curr, zombified>>
    BY <1>7 DEF WaitReap, ReleaseTask, Return, callVars
  <2>2. reg.a \in Task
    BY <2>1 DEF Base, Pointers
  <2>3. reg.a \in zombified \/ life[reg.a] = "dead"
    BY <2>1, <2>2
  <2> QED
    BY <2>1, <2>2, <2>3
<1>8. ASSUME NEW u \in Task, Zombify(u) PROVE ReleaseInv'
  <2>1. /\ exitState' = [exitState EXCEPT ![u] = "zombie"]
        /\ zombified' = zombified \cup {u}
        /\ UNCHANGED <<life, released, curr, pc>>
    BY <1>8 DEF Zombify
  <2> QED
    BY <2>1
<1>9. CASE Tick \/ UNCHANGED vars
  BY <1>1, <1>9 DEF Tick, vars, taskVars, callVars
<1>10. CASE \/ Schedule \/ SchedFork \/ ForkFails \/ WaitNothing \/ QuadStore \/ ExitCall
            \/ SwipeTake \/ SwipeZero \/ SwipeChild \/ SwipeReturn
            \/ \E u \in Task : ForkCall(u) \/ WaitCall(u) \/ QuadCall(u)
            \/ \E u, v \in Task : SwipeCall(u, v)
  BY <1>2, <1>10 DEF Schedule, SchedFork, ForkFails, WaitNothing, QuadStore, ExitCall,
       SwipeTake, SwipeAdd, SwipeZero, SwipeChild, SwipeReturn, ForkCall, WaitCall, QuadCall,
       SwipeCall, AddedCall, UserMode, Return, taskVars, callVars
<1> QED
  BY <1>3, <1>4, <1>5, <1>6, <1>7, <1>8, <1>9, <1>10 DEF Next, Step, Call

\* wait4 and exit release only tasks that have exited, unless sys_zombify
\* marked them, and only a task that was so released while it lived can get
\* stuck in do_exit.
THEOREM ReleasedHaveExited == Spec => []LivingNotReleased
<1>1. Init => ReleaseInv
  BY DEF Init, ReleaseInv, ZombiesExited, LivingNotReleased
<1>2. ReleaseInv => LivingNotReleased
  BY DEF ReleaseInv
<1> QED
  BY <1>1, <1>2, BaseInit, BaseStep, ReleaseStep, PTL DEF Spec

---------------------------------------------------------------------------
(* What sys_swipe moves *)

\* No tick has hit target or victim.
Undisturbed == reg.hit => curr \notin {reg.a, reg.b}

\* What an undisturbed swipe has done at each of its stages; the register
\* agrees with the memory.
SwipeInv ==
    pc \in {"swipe", "zero", "loop"} /\ Undisturbed =>
        /\ slice[reg.a] = reg.val
        /\ reg.val = IF pc = "swipe" THEN reg.orig ELSE (reg.orig + reg.stolen) % UINT
        /\ slice[reg.b] = IF pc = "loop" THEN 0 ELSE reg.stolen

LEMMA SwipeStep == Base /\ SwipeInv /\ [Next]_vars => SwipeInv'
<1> SUFFICES ASSUME Base, SwipeInv, [Next]_vars, pc' \in {"swipe", "zero", "loop"},
                    Undisturbed'
             PROVE  SwipeInv'
  BY DEF SwipeInv
<1>. /\ slice \in [Task -> 0..(UINT - 1)] /\ reg \in Regs
     /\ pc \in {"swipe", "zero", "loop"} => reg.a \in Task /\ reg.b \in Task /\ reg.a # reg.b
  BY DEF Base, TypeOK, Pointers, Regs
<1>1. CASE Tick
  <2>1. /\ pc' = pc /\ curr' = curr /\ reg' = [reg EXCEPT !.hit = TRUE] /\ ~ reg.hit
        /\ slice' = [slice EXCEPT ![curr] = Ticked(curr, slice[curr]).slice]
    BY <1>1 DEF Tick
  <2>2. /\ reg'.hit = TRUE /\ reg'.a = reg.a /\ reg'.b = reg.b /\ reg'.val = reg.val
        /\ reg'.orig = reg.orig /\ reg'.stolen = reg.stolen
    BY <2>1 DEF Regs
  <2>3. curr \notin {reg.a, reg.b}
    BY <2>1, <2>2 DEF Undisturbed
  <2>4. slice'[reg.a] = slice[reg.a] /\ slice'[reg.b] = slice[reg.b]
    BY <2>1, <2>3
  <2> QED
    BY <2>1, <2>2, <2>4 DEF SwipeInv, Undisturbed
<1>2. ASSUME NEW u \in Task, NEW v \in Task, SwipeCall(u, v) PROVE SwipeInv'
  <2>1. /\ pc' = "swipe" /\ slice' = slice
        /\ reg' = [Idle EXCEPT !.a = u, !.b = v, !.orig = slice[u],
                               !.stolen = slice[v], !.val = slice[u]]
    BY <1>2 DEF SwipeCall
  <2> QED
    BY <2>1 DEF SwipeInv, Idle
<1>3. ASSUME NEW l, NEW n, pc \in {"swipe", "loop"}, l = IF pc = "swipe" THEN "zero" ELSE "loop",
             SwipeAdd(l, n)
      PROVE  SwipeInv'
  <2>1. PICK base \in {reg.val, slice[reg.a]} :
          LET sum == (base + slice[reg.b]) % UINT
          IN  /\ slice' = [slice EXCEPT ![reg.a] = sum]
              /\ pc' = l /\ reg' = [reg EXCEPT !.val = sum, !.left = n]
              /\ curr' = curr
    BY <1>3 DEF SwipeAdd
  <2> DEFINE sum == (base + slice[reg.b]) % UINT
  <2>2. /\ reg'.hit = reg.hit /\ reg'.a = reg.a /\ reg'.b = reg.b /\ reg'.val = sum
        /\ reg'.orig = reg.orig /\ reg'.stolen = reg.stolen
    BY <2>1 DEF Regs
  <2>3. Undisturbed
    BY <2>1, <2>2 DEF Undisturbed
  <2>4. base = reg.val /\ slice'[reg.a] = sum /\ slice'[reg.b] = slice[reg.b]
    BY <1>3, <2>1, <2>3 DEF SwipeInv
  <2>5. sum = (reg.orig + reg.stolen) % UINT
    <3>1. CASE pc = "swipe"
      BY <2>3, <2>4, <3>1 DEF SwipeInv
    <3>2. CASE pc = "loop"
      <4>1. base \in 0..(UINT - 1) /\ slice[reg.b] = 0
        BY <2>3, <2>4, <3>2 DEF SwipeInv, Regs
      <4>2. sum = base
        <5>1. base + slice[reg.b] = base
          BY <4>1
        <5>2. base % UINT = base
          BY <4>1, UnsignedRange
        <5> QED
          BY <5>1, <5>2
      <4> QED
        BY <2>3, <2>4, <3>2, <4>2 DEF SwipeInv
    <3> QED
      BY <1>3, <3>1, <3>2
  <2> HIDE DEF sum
  <2> QED
    BY <1>3, <2>1, <2>2, <2>3, <2>4, <2>5 DEF SwipeInv
<1>4. CASE SwipeTake
  BY <1>3, <1>4 DEF SwipeTake
<1>5. CASE SwipeChild
  BY <1>3, <1>5 DEF SwipeChild
<1>6. CASE SwipeZero
  <2>1. /\ pc = "zero" /\ pc' = "loop" /\ curr' = curr
        /\ slice' = [slice EXCEPT ![reg.b] = 0]
        /\ reg' = [reg EXCEPT !.left = Cardinality(Children(reg.b))]
    BY <1>6 DEF SwipeZero
  <2>2. /\ reg'.hit = reg.hit /\ reg'.a = reg.a /\ reg'.b = reg.b /\ reg'.val = reg.val
        /\ reg'.orig = reg.orig /\ reg'.stolen = reg.stolen
    BY <2>1 DEF Regs
  <2>3. slice'[reg.a] = slice[reg.a] /\ slice'[reg.b] = 0
    BY <2>1
  <2> QED
    BY <2>1, <2>2, <2>3 DEF SwipeInv, Undisturbed
<1>7. CASE UNCHANGED <<slice, reg, pc, curr>>
  BY <1>7 DEF SwipeInv, Undisturbed
<1>8. ASSUME \/ Schedule \/ SchedFork \/ WakeUpNewTask \/ ForkFails \/ ExitNotify
             \/ ExitSchedule \/ WaitReap \/ WaitNothing \/ QuadStore \/ SwipeReturn
             \/ ExitCall \/ Oops \/ \E u \in Task : ForkCall(u) \/ WaitCall(u) \/ QuadCall(u)
      PROVE  FALSE
  BY <1>8 DEF Schedule, SchedFork, WakeUpNewTask, ForkFails, ExitNotify, ExitSchedule, WaitReap,
       WaitNothing, QuadStore, SwipeReturn, ExitCall, Oops, ForkCall, WaitCall, QuadCall,
       LeaveFor, Return
<1>9. (\E u \in Task : Zombify(u)) => UNCHANGED <<slice, reg, pc, curr>>
  BY DEF Zombify
<1> QED
  BY <1>1, <1>2, <1>4, <1>5, <1>6, <1>7, <1>8, <1>9 DEF Next, Step, Call, vars

\* What comes back of a sum after one summand is taken off, modulo UINT.
LEMMA UnsignedDifference ==
    ASSUME NEW x \in 0..(UINT - 1), NEW y \in 0..(UINT - 1)
    PROVE  (((x + y) % UINT) - x) % UINT = y
<1>1. CASE x + y < UINT
  <2>1. (x + y) % UINT = x + y
    BY <1>1, UnsignedRange, SliceAssumption
  <2>2. y % UINT = y
    BY UnsignedRange, SliceAssumption
  <2>3. ((x + y) % UINT) - x = y
    BY <2>1, SliceAssumption
  <2> QED
    BY ONLY <2>2, <2>3
<1>2. CASE x + y >= UINT
  <2>1. (x + y) % UINT = x + y - UINT
    BY <1>2, UnsignedRange, SliceAssumption, SMTT(30)
  <2>2. (y - UINT) % UINT = y
    BY SliceAssumption
  <2> QED
    BY <2>1, <2>2, SliceAssumption
<1> QED
  BY <1>1, <1>2, SliceAssumption

\* A swipe that no tick of target or victim disturbs returns what the victim
\* had and leaves the victim nothing: the walk over the victim's children,
\* however many there are, adds nothing.
THEOREM SwipeMovesTheSlice == Spec => []SwipeMovesTime
<1>1. Init => SwipeInv
  BY DEF Init, SwipeInv
<1>2. Base /\ SwipeInv => SwipeMovesTime
  <2> SUFFICES ASSUME Base, SwipeInv, pc = "loop", Undisturbed
               PROVE  SwipeResult = reg.stolen /\ slice[reg.b] = 0
    BY DEF SwipeMovesTime, Undisturbed
  <2>1. slice[reg.a] = (reg.orig + reg.stolen) % UINT /\ slice[reg.b] = 0
    BY DEF SwipeInv
  <2>2. reg.orig \in 0..(UINT - 1) /\ reg.stolen \in 0..(UINT - 1)
    BY DEF Base, TypeOK
  <2> QED
    BY <2>1, <2>2, UnsignedDifference DEF SwipeResult
<1> QED
  BY <1>1, <1>2, BaseInit, BaseStep, SwipeStep, PTL DEF Spec

---------------------------------------------------------------------------
(* Fork and exit do not generate time *)

\* The current task is queued, and in the active array unless it has to give
\* up the CPU; a task that a tick expires in the middle of fork has just been
\* given a full slice.  Who forks or exits has not been released, and neither
\* has the child that wait4 looks at; a child has its first slice before it
\* is woken up.
SharingInv ==
    /\ array[curr] # "none"
    /\ array[curr] # "active" => resched
    /\ pc = "fork" /\ array[curr] # "active" => slice[curr] = Full
    /\ pc \in {"fork", "exit"} => curr \notin released
    /\ pc = "wait" => reg.a \notin released
    /\ pc = "wakeNew" => first[reg.a]

LEMMA SharingStep == Base /\ SharingInv /\ [Next]_vars => SharingInv'
<1> SUFFICES ASSUME Base, SharingInv, [Next]_vars PROVE SharingInv'
  OBVIOUS
<1>. /\ curr \in Task /\ array \in [Task -> {"active", "expired", "none"}]
     /\ slice \in [Task -> 0..(UINT - 1)] /\ first \in [Task -> BOOLEAN]
     /\ resched \in BOOLEAN /\ reg \in Regs
     /\ life[curr] = "alive"
     /\ pc \in {"fork", "wakeNew"} => reg.a \in Task /\ life[reg.a] = "unborn"
  BY DEF Base, TypeOK, Pointers, Regs
<1>1. CASE Tick
  <2> DEFINE k == Ticked(curr, slice[curr])
  <2>1. /\ k.array # "none"
        /\ k.array # "active" => k.resched = TRUE
        /\ k.array # "active" => k.slice = Full \/ (array[curr] # "active" /\ k.slice = slice[curr])
    BY DEF Ticked, SharingInv
  <2>2. /\ slice' = [slice EXCEPT ![curr] = k.slice]
        /\ first' = [first EXCEPT ![curr] = k.first]
        /\ array' = [array EXCEPT ![curr] = k.array]
        /\ resched' = k.resched
        /\ reg' = [reg EXCEPT !.hit = (pc # "user")]
        /\ UNCHANGED <<released, curr, pc>>
    BY <1>1 DEF Tick, taskVars
  <2> HIDE DEF k
  <2>3. reg'.a = reg.a
    BY <2>2 DEF Regs
  <2> QED
    BY <2>1, <2>2, <2>3 DEF SharingInv
<1>2. CASE Schedule
  <2>1. array'[curr'] = "active" /\ pc' = "user"
    BY <1>2 DEF Schedule, SwitchTo
  <2> QED
    BY <2>1 DEF SharingInv
<1>3. ASSUME NEW c \in Task, ForkCall(c) PROVE SharingInv'
  BY <1>3 DEF ForkCall, UserMode, taskVars, SharingInv
<1>4. CASE SchedFork
  <2> DEFINE half == slice[curr] \div 2
             k == IF half = 0 THEN Ticked(curr, 1)
                  ELSE [slice |-> half, first |-> first[curr], array |-> array[curr],
                        resched |-> resched]
  <2>1. k.array # "none" /\ (k.array # "active" => k.resched = TRUE)
    BY DEF Ticked, SharingInv
  <2>2. /\ first' = [first EXCEPT ![curr] = k.first, ![reg.a] = TRUE]
        /\ array' = [array EXCEPT ![curr] = k.array]
        /\ resched' = k.resched
        /\ pc = "fork" /\ pc' = "wakeNew"
        /\ UNCHANGED <<released, curr, reg>>
    BY <1>4 DEF SchedFork, taskVars
  <2> HIDE DEF k
  <2> QED
    BY <2>1, <2>2 DEF SharingInv
<1>5. CASE WakeUpNewTask
  <2>1. /\ pc' = "user" /\ curr' = curr
        /\ \A t \in Task \ {reg.a} : array'[t] = array[t]
        /\ resched => resched'
    BY <1>5 DEF WakeUpNewTask, Return
  <2>2. reg.a # curr
    BY <1>5 DEF WakeUpNewTask
  <2> QED
    BY <2>1, <2>2 DEF SharingInv
<1>6. ASSUME NEW l, LeaveFor(l) PROVE SharingInv'
  <2>1. array'[curr'] = "active" /\ pc' = "user"
    BY <1>6 DEF LeaveFor, SwitchTo, Return
  <2> QED
    BY <2>1 DEF SharingInv
<1>7. CASE ExitCall
  BY <1>7 DEF ExitCall, taskVars, SharingInv
<1>8. ASSUME NEW u \in Task, WaitCall(u) PROVE SharingInv'
  <2>1. reg'.a = u /\ u \notin released
    BY <1>8 DEF WaitCall, Idle, Children, Findable
  <2> QED
    BY <1>8, <2>1 DEF WaitCall, taskVars, SharingInv
<1>9. CASE \/ ForkFails \/ ExitNotify \/ WaitReap \/ WaitNothing \/ QuadStore \/ SwipeTake
           \/ SwipeZero \/ SwipeChild \/ SwipeReturn
           \/ \E u \in Task : QuadCall(u) \/ Zombify(u)
           \/ \E u, v \in Task : SwipeCall(u, v)
  <2>1. UNCHANGED <<array, curr, resched>> /\ pc' \notin {"fork", "exit", "wait", "wakeNew"}
    BY <1>9 DEF ForkFails, ExitNotify, WaitReap, WaitNothing, QuadStore, SwipeTake, SwipeAdd,
       SwipeZero, SwipeChild, SwipeReturn, QuadCall, Zombify, SwipeCall, AddedCall, UserMode,
       Return
  <2> QED
    BY <2>1 DEF SharingInv
<1>10. CASE UNCHANGED vars
  BY <1>10 DEF vars, taskVars, SharingInv
<1> QED
  BY <1>1, <1>2, <1>3, <1>4, <1>5, <1>6, <1>7, <1>8, <1>9, <1>10
     DEF Next, Step, Call, ExitSchedule, Oops

\* The tasks whose slices count.
Charged == {t \in Task \ released : life[t] = "alive" \/ first[t]}

ChargedSound ==
    /\ IsFiniteSet(Charged) /\ Charged \subseteq Task
    /\ Total = SumFunctionOnSet(slice, Charged) /\ Total \in Nat
    /\ \A t \in Task : slice[t] \in Nat

LEMMA ChargedFacts == TypeOK => ChargedSound
<1> SUFFICES ASSUME TypeOK PROVE ChargedSound
  OBVIOUS
<1>1. IsFiniteSet(Charged) /\ Charged \subseteq Task
  BY TaskAssumption, FS_Subset DEF Charged
<1>2. \A t \in Task : slice[t] \in Nat
  BY SliceAssumption DEF TypeOK
<1>3. Total = SumFunctionOnSet(slice, Charged)
  BY DEF Total, Charged
<1>4. Total \in Int /\ ((\A t \in Charged : slice[t] >= 0) => Total >= 0)
  BY <1>1, <1>2, <1>3, SumType
<1> QED
  BY <1>1, <1>2, <1>3, <1>4 DEF ChargedSound

LEMMA ChargedFactsNext == TypeOK' => ChargedSound'
  BY ChargedFacts, PTL

\* Time does not grow when slices stay and at most one task stops counting.
LEMMA NoneAdded ==
    ASSUME TypeOK, TypeOK', NEW x, Charged' \in {Charged, Charged \ {x}},
           \A t \in Charged' : slice'[t] = slice[t]
    PROVE  Total' <= Total /\ Total \in Nat /\ Total' \in Nat
<1>1. /\ IsFiniteSet(Charged) /\ Charged \subseteq Task
      /\ Total = SumFunctionOnSet(slice, Charged) /\ Total \in Nat
      /\ \A t \in Charged : slice[t] \in Nat
  BY ChargedFacts DEF ChargedSound
<1>2. /\ IsFiniteSet(Charged') /\ Total' = SumFunctionOnSet(slice', Charged') /\ Total' \in Nat
  BY ChargedFactsNext DEF ChargedSound
<1>3. Total' = SumFunctionOnSet(slice, Charged')
  BY <1>2, SumSame
<1>4. CASE Charged' = Charged
  BY <1>1, <1>2, <1>3, <1>4
<1>5. CASE Charged' = Charged \ {x}
  <2>1. /\ SumFunctionOnSet(slice, Charged \ {x}) =
              SumFunctionOnSet(slice, Charged) - (IF x \in Charged THEN slice[x] ELSE 0)
    BY <1>1, SumWithout
  <2>2. Total' = Total - (IF x \in Charged THEN slice[x] ELSE 0)
    BY <1>1, <1>3, <1>5, <2>1
  <2>3. (IF x \in Charged THEN slice[x] ELSE 0) \in Nat
    BY <1>1
  <2> QED
    BY <1>1, <1>2, <2>2, <2>3
<1> QED
  BY <1>4, <1>5

\* A parent that recovers a slice gets no more than the child loses.
LEMMA ReleaseAddsNothing ==
    ASSUME TypeOK, TypeOK', NEW p \in Task, p \notin released, ReleaseTask(p),
           UNCHANGED <<life, first>>
    PROVE  Total' <= Total /\ Total \in Nat /\ Total' \in Nat
<1>1. Charged' = Charged \ {p}
  BY DEF Charged, ReleaseTask
<1>2. CASE ~ first[p]
  <2>1. slice' = slice
    BY <1>2 DEF ReleaseTask, SchedExit
  <2> QED
    BY <1>1, <2>1, NoneAdded
<1>3. CASE first[p]
  <2> DEFINE q == parent[p]
             B == Charged \ {p}
             recovered == IF (slice[q] + slice[p]) % UINT > Full THEN Full
                          ELSE (slice[q] + slice[p]) % UINT
  <2>1. slice' = [slice EXCEPT ![q] = recovered]
    BY <1>3 DEF ReleaseTask, SchedExit
  <2>2. /\ IsFiniteSet(Charged) /\ Charged \subseteq Task
        /\ Total = SumFunctionOnSet(slice, Charged) /\ Total \in Nat
        /\ \A t \in Task : slice[t] \in Nat
    BY ChargedFacts DEF ChargedSound
  <2>3. /\ Total' = SumFunctionOnSet(slice', B) /\ Total' \in Nat
        /\ \A t \in Task : slice'[t] \in Nat
    <3>1. Total' = SumFunctionOnSet(slice', Charged')
      BY DEF Total, Charged
    <3>2. Total' \in Nat /\ \A t \in Task : slice'[t] \in Nat
      BY ChargedFactsNext DEF ChargedSound
    <3> QED
      BY <1>1, <3>1, <3>2
  <2>4. p \in Charged
    BY <1>3 DEF Charged
  <2>5. SumFunctionOnSet(slice, B) = Total - slice[p] /\ SumFunctionOnSet(slice, B) \in Nat
    <3>1. \A t \in Charged : slice[t] \in Nat
      BY <2>2
    <3>2. /\ SumFunctionOnSet(slice, B) =
               SumFunctionOnSet(slice, Charged) - (IF p \in Charged THEN slice[p] ELSE 0)
          /\ SumFunctionOnSet(slice, B) \in Nat
      BY <2>2, <3>1, SumWithout
    <3> QED
      BY <2>2, <2>4, <3>2
  <2>6. IsFiniteSet(B) /\ B \subseteq Task
    BY <2>2, FS_RemoveElement
  <2>7. CASE q \in B
    <3>1. recovered <= slice[q] + slice[p]
      <4>1. q \in Task /\ slice[q] \in 0..(UINT - 1) /\ slice[p] \in 0..(UINT - 1)
        BY <2>6, <2>7 DEF TypeOK
      <4>2. \A x \in 0..(UINT - 1), y \in 0..(UINT - 1) :
              (x + y) % UINT <= x + y /\ (x + y) % UINT \in Int
        <5>1. ASSUME NEW x \in 0..(UINT - 1), NEW y \in 0..(UINT - 1)
              PROVE  (x + y) % UINT <= x + y /\ (x + y) % UINT \in Int
          <6>1. CASE x + y < UINT
            BY <6>1, UnsignedRange, SliceAssumption
          <6>2. CASE x + y >= UINT
            <7>1. (x + y) % UINT = x + y - UINT
              BY <6>2, UnsignedRange, SliceAssumption, SMTT(30)
            <7> QED
              BY <7>1, SliceAssumption
          <6> QED
            BY <6>1, <6>2, SliceAssumption
        <5> QED
          BY <5>1
      <4>3. (slice[q] + slice[p]) % UINT <= slice[q] + slice[p]
            /\ (slice[q] + slice[p]) % UINT \in Int
        BY <4>1, <4>2
      <4> QED
        BY <4>1, <4>3, SliceAssumption
    <3>2. slice'[q] = recovered /\ \A t \in B \ {q} : slice'[t] = slice[t]
      BY <2>1, <2>6, <2>7 DEF TypeOK
    <3>3. /\ \A t \in B : slice[t] \in Int /\ slice'[t] \in Int
          /\ \A t \in B \ {q} : slice[t] = slice'[t]
      BY <2>2, <2>3, <2>6, <3>2
    <3>4. SumFunctionOnSet(slice', B) = SumFunctionOnSet(slice, B) - slice[q] + slice'[q]
      BY <2>6, <2>7, <3>3, SumChanged
    <3>5. slice[q] \in Nat /\ slice'[q] \in Nat /\ slice[p] \in Nat
      BY <2>2, <2>3, <2>6, <2>7
    <3> HIDE DEF recovered, q, B
    <3> QED
      BY <2>2, <2>3, <2>5, <3>1, <3>2, <3>4, <3>5
  <2>8. CASE q \notin B
    <3>1. \A t \in B : slice'[t] = slice[t]
      BY <2>1, <2>6, <2>8 DEF TypeOK
    <3> QED
      BY <1>1, <3>1, NoneAdded
  <2> QED
    BY <2>7, <2>8
<1> QED
  BY <1>2, <1>3

\* What a step may add: a full slice for the task whose slice runs out, and
\* the jiffy that a full slice of one jiffy leaves a parent which has expired.
Refill == IF array[curr] = "active" /\ array'[curr] = "expired" THEN Full ELSE 0
Unpaid == IF Full = 1 /\ ForkAfterExpiry THEN 1 ELSE 0
Allowance == Refill + Unpaid

\* A tick takes a jiffy, or refills the slice and expires the task.
LEMMA TickShares ==
    ASSUME Base, TypeOK', SharingInv, SlicesSound, calls = 0, Tick
    PROVE  Total' <= Total + Refill
<1> DEFINE k == Ticked(curr, slice[curr])
<1>1. /\ slice' = [slice EXCEPT ![curr] = k.slice]
      /\ first' = [first EXCEPT ![curr] = k.first]
      /\ array' = [array EXCEPT ![curr] = k.array]
      /\ UNCHANGED <<life, released>>
  BY DEF Tick, taskVars
<1>2. curr \in Task /\ life[curr] = "alive" /\ slice[curr] \in 1..Full /\ Full \in Nat
  BY SliceAssumption DEF Base, TypeOK, Pointers, SlicesSound
<1>3. /\ k.slice <= slice[curr] + (IF array[curr] = "active" /\ k.array = "expired"
                                   THEN Full ELSE 0)
      /\ k.slice \in Nat
  <2>1. (slice[curr] - 1) % UINT = slice[curr] - 1
    BY <1>2, UnsignedRange, SliceAssumption
  <2> QED
    BY <1>2, <2>1 DEF Ticked
<1> HIDE DEF k
<1>4. array'[curr] = k.array /\ slice'[curr] = k.slice
      /\ \A t \in Task \ {curr} : slice'[t] = slice[t] /\ first'[t] = first[t]
  BY <1>1, <1>2 DEF Base, TypeOK
<1>5. Charged' = Charged
  BY <1>1, <1>2, <1>4 DEF Charged
<1>6. /\ IsFiniteSet(Charged) /\ Charged \subseteq Task
      /\ Total = SumFunctionOnSet(slice, Charged) /\ Total \in Nat
      /\ \A t \in Task : slice[t] \in Nat
  BY ChargedFacts DEF ChargedSound, Base
<1>7. /\ Total' = SumFunctionOnSet(slice', Charged) /\ Total' \in Nat
      /\ \A t \in Task : slice'[t] \in Nat
  BY <1>5, ChargedFactsNext DEF ChargedSound
<1>8. CASE curr \in Charged
  <2>1. /\ \A t \in Charged : slice[t] \in Int /\ slice'[t] \in Int
        /\ \A t \in Charged \ {curr} : slice[t] = slice'[t]
    BY <1>4, <1>6, <1>7
  <2>2. SumFunctionOnSet(slice', Charged) = SumFunctionOnSet(slice, Charged) - slice[curr] + slice'[curr]
    BY <1>6, <1>8, <2>1, SumChanged
  <2>3. Total' = Total - slice[curr] + k.slice
    BY <1>4, <1>6, <1>7, <2>2
  <2> QED
    BY <1>2, <1>3, <1>4, <1>6, <1>7, <2>3 DEF Refill
<1>9. CASE curr \notin Charged
  <2>1. \A t \in Charged' : slice'[t] = slice[t]
    BY <1>4, <1>5, <1>6, <1>9
  <2>2. Total' <= Total
    BY <1>5, <2>1, NoneAdded DEF Base
  <2> QED
    BY <1>2, <1>6, <1>7, <2>2 DEF Refill
<1> QED
  BY <1>8, <1>9

\* sched_fork shares the parent's slice; a parent left with nothing is
\* refilled, but then it expires; or it has expired before, with a full slice
\* of one jiffy.
LEMMA ForkShares ==
    ASSUME Base, TypeOK', SharingInv, SlicesSound, calls = 0, SchedFork
    PROVE  Total' <= Total + Allowance
<1> DEFINE half == slice[curr] \div 2
           k == IF half = 0 THEN Ticked(curr, 1)
                ELSE [slice |-> half, first |-> first[curr], array |-> array[curr],
                      resched |-> resched]
           given == ((slice[curr] + 1) % UINT) \div 2
           c == reg.a
           extra == IF array[curr] = "active" /\ k.array = "expired" THEN Full
                    ELSE IF Full = 1 /\ array[curr] # "active" THEN 1 ELSE 0
<1>1. /\ slice' = [slice EXCEPT ![curr] = k.slice, ![c] = given]
      /\ first' = [first EXCEPT ![curr] = k.first, ![c] = TRUE]
      /\ array' = [array EXCEPT ![curr] = k.array]
      /\ UNCHANGED <<life, released>>
      /\ pc = "fork" /\ pc' = "wakeNew"
  BY DEF SchedFork, taskVars
<1>2. /\ curr \in Task /\ life[curr] = "alive" /\ slice[curr] \in 1..Full
      /\ Full \in Nat /\ Full >= 1
      /\ c \in Task /\ life[c] = "unborn" /\ c # curr /\ c \notin released
      /\ curr \notin released
      /\ array[curr] # "active" => slice[curr] = Full
  BY <1>1, SliceAssumption DEF Base, TypeOK, Pointers, SlicesSound, SharingInv
<1>3. k.slice + given <= slice[curr] + extra /\ k.slice \in Nat /\ given \in Nat
      /\ extra \in Nat
  <2>1. (slice[curr] + 1) % UINT = slice[curr] + 1
    <3>1. slice[curr] + 1 \in 0..(UINT - 1)
      BY <1>2, SliceAssumption
    <3> QED
      BY <3>1, UnsignedRange
  <2>2. CASE half = 0
    <3>1. slice[curr] = 1
      BY <1>2, <2>2
    <3>2. (1 - 1) % UINT = 0
      BY SliceAssumption
    <3>3. given = 1
      BY <2>1, <3>1
    <3>4. CASE array[curr] = "active"
      <4>1. k.slice = Full /\ k.array = "expired"
        BY <2>2, <3>2, <3>4 DEF Ticked
      <4> QED
        BY <1>2, <3>1, <3>3, <3>4, <4>1
    <3>5. CASE array[curr] # "active"
      <4>1. k.slice = 1 /\ k.array = array[curr]
        BY <2>2, <3>5 DEF Ticked
      <4>2. Full = 1
        BY <1>2, <3>1, <3>5
      <4> QED
        BY <3>1, <3>3, <3>5, <4>1, <4>2
    <3> QED
      BY <3>4, <3>5
  <2>3. CASE half # 0
    <3>1. k.slice = half /\ k.array = array[curr]
      BY <2>3
    <3>2. half + given = slice[curr] /\ half \in Nat /\ given \in Nat
      BY <1>2, <2>1
    <3>3. slice[curr] \in Nat /\ Full \in Nat
      BY <1>2
    <3>4. extra \in Nat
      BY <3>3
    <3> HIDE DEF half, given, k, extra
    <3> QED
      BY <3>1, <3>2, <3>3, <3>4
  <2> QED
    BY <2>2, <2>3
<1>4. Allowance = extra
  <2>1. array'[curr] = k.array
    BY <1>1, <1>2 DEF Base, TypeOK
  <2> HIDE DEF k
  <2> QED
    BY <1>1, <1>2, <2>1 DEF Allowance, Refill, Unpaid, ForkAfterExpiry
<1> HIDE DEF half, k, given, extra
<1>5. /\ slice'[curr] = k.slice /\ slice'[c] = given /\ first'[c] = TRUE
      /\ \A t \in Task \ {curr, c} : slice'[t] = slice[t] /\ first'[t] = first[t]
  <2>1. slice' = [slice EXCEPT ![curr] = k.slice, ![c] = given] /\ DOMAIN slice = Task
    BY <1>1 DEF Base, TypeOK
  <2>2. first' = [first EXCEPT ![curr] = k.first, ![c] = TRUE] /\ DOMAIN first = Task
    BY <1>1 DEF Base, TypeOK
  <2>3. curr \in Task /\ c \in Task /\ c # curr
    BY <1>2
  <2> HIDE DEF c
  <2>4. slice'[curr] = k.slice /\ slice'[c] = given
        /\ \A t \in Task \ {curr, c} : slice'[t] = slice[t]
    BY <2>1, <2>3
  <2>5. first'[c] = TRUE /\ \A t \in Task \ {curr, c} : first'[t] = first[t]
    BY <2>2, <2>3
  <2> QED
    BY <2>4, <2>5
<1> DEFINE B == Charged \ {c}
<1>6. c \in Charged' /\ Charged' \ {c} = B /\ curr \in B
  BY <1>1, <1>2, <1>5, ZenonT(60) DEF Charged
<1> HIDE DEF c
<1>7. /\ IsFiniteSet(Charged) /\ Charged \subseteq Task
      /\ Total = SumFunctionOnSet(slice, Charged) /\ Total \in Nat
      /\ \A t \in Task : slice[t] \in Nat
  BY ChargedFacts DEF ChargedSound, Base
<1>8. /\ IsFiniteSet(Charged') /\ Charged' \subseteq Task
      /\ Total' = SumFunctionOnSet(slice', Charged') /\ Total' \in Nat
      /\ \A t \in Task : slice'[t] \in Nat
  BY ChargedFactsNext DEF ChargedSound
<1>9. IsFiniteSet(B) /\ B \subseteq Task
  BY <1>7, FS_RemoveElement
<1>10. SumFunctionOnSet(slice, B) <= Total /\ SumFunctionOnSet(slice, B) \in Nat
  <2>1. \A t \in Charged : slice[t] \in Nat
    BY <1>7
  <2>2. /\ SumFunctionOnSet(slice, B) =
             SumFunctionOnSet(slice, Charged) - (IF c \in Charged THEN slice[c] ELSE 0)
        /\ SumFunctionOnSet(slice, B) \in Nat
    BY <1>7, <2>1, SumWithout
  <2>3. (IF c \in Charged THEN slice[c] ELSE 0) \in Nat
    BY <2>1
  <2> QED
    BY <1>7, <2>2, <2>3
<1>11. Total' = given + SumFunctionOnSet(slice', B)
  <2>1. \A t \in Charged' : slice'[t] \in Int
    BY <1>8
  <2>2. SumFunctionOnSet(slice', Charged') = slice'[c] + SumFunctionOnSet(slice', Charged' \ {c})
    BY <1>6, <1>8, <2>1, SumTakeOff
  <2> QED
    BY <1>5, <1>6, <1>8, <2>2
<1>12. SumFunctionOnSet(slice', B) = SumFunctionOnSet(slice, B) - slice[curr] + k.slice
  <2>1. /\ \A t \in B : slice[t] \in Int /\ slice'[t] \in Int
        /\ \A t \in B \ {curr} : slice[t] = slice'[t]
    BY <1>5, <1>7, <1>8, <1>9
  <2>2. SumFunctionOnSet(slice', B) = SumFunctionOnSet(slice, B) - slice[curr] + slice'[curr]
    BY <1>6, <1>9, <2>1, SumChanged
  <2> QED
    BY <1>5, <2>2
<1>13. Total' = given + (SumFunctionOnSet(slice, B) - slice[curr] + k.slice)
  BY <1>11, <1>12
<1> HIDE DEF B
<1> QED
  BY <1>2, <1>3, <1>4, <1>7, <1>8, <1>10, <1>13

\* No step without the added calls adds more than its allowance.
LEMMA SharedStep ==
    Base /\ Base' /\ SharingInv /\ SlicesSound /\ [Next]_vars
      => (calls' = 0 => Total' <= Total + Allowance)
<1> SUFFICES ASSUME Base, Base', SharingInv, SlicesSound, [Next]_vars, calls' = 0
             PROVE  Total' <= Total + Allowance
  OBVIOUS
<1>. TypeOK /\ TypeOK'
  BY DEF Base
<1>0. calls = 0
  <2>1. calls' = calls \/ calls' = calls + 1
    BY CallsStep
  <2>2. calls \in Nat
    BY SliceAssumption DEF TypeOK
  <2> QED
    BY <2>1, <2>2
<1>1. /\ Total \in Nat /\ Total' \in Nat
      /\ Refill \in Nat /\ Unpaid \in Nat /\ Allowance = Refill + Unpaid
  BY ChargedFacts, ChargedFactsNext, SliceAssumption DEF ChargedSound, Refill, Unpaid, Allowance
<1>t. Tick => Total' <= Total + Refill
  BY <1>0, TickShares
<1>f. SchedFork => Total' <= Total + Allowance
  BY <1>0, ForkShares
<1> SUFFICES Tick \/ SchedFork \/ (Total' <= Total /\ Total' \in Nat)
  BY <1>1, <1>t, <1>f
<1>2. ASSUME Charged' = Charged, slice' = slice PROVE Total' <= Total /\ Total' \in Nat
  BY <1>2, NoneAdded
<1>3. CASE WakeUpNewTask
  <2>1. /\ pc = "wakeNew" /\ life' = [life EXCEPT ![reg.a] = "alive"]
        /\ UNCHANGED <<slice, first, released>>
    BY <1>3 DEF WakeUpNewTask
  <2>2. reg.a \in Task /\ first[reg.a]
    BY <2>1 DEF Base, Pointers, SharingInv
  <2>3. Charged' = Charged
    BY <2>1, <2>2 DEF Charged, TypeOK
  <2> QED
    BY <1>2, <2>1, <2>3
<1>4. CASE ForkFails
  <2>1. /\ pc = "wakeNew" /\ slice' = [slice EXCEPT ![reg.a] = 0]
        /\ first' = [first EXCEPT ![reg.a] = FALSE]
        /\ UNCHANGED <<life, released>>
    BY <1>4 DEF ForkFails, taskVars
  <2>2. reg.a \in Task /\ life[reg.a] = "unborn"
    BY <2>1 DEF Base, Pointers
  <2>3. Charged' = Charged \ {reg.a}
    BY <2>1, <2>2 DEF Charged, TypeOK
  <2>4. \A t \in Charged' : slice'[t] = slice[t]
    BY <2>1, <2>3 DEF Charged, TypeOK
  <2> QED
    BY <2>3, <2>4, NoneAdded
<1>5. CASE ExitNotify
  <2>1. pc = "exit" /\ UNCHANGED <<life, first>>
    BY <1>5 DEF ExitNotify
  <2>2. curr \in Task /\ curr \notin released
    BY <2>1 DEF TypeOK, SharingInv
  <2>3. CASE ReleaseTask(curr)
    BY <2>1, <2>2, <2>3, ReleaseAddsNothing
  <2>4. CASE UNCHANGED <<slice, released>>
    <3>1. Charged' = Charged
      BY <2>1, <2>4 DEF Charged
    <3> QED
      BY <1>2, <2>4, <3>1
  <2> QED
    BY <1>5, <2>3, <2>4 DEF ExitNotify
<1>6. CASE WaitReap
  <2>1. pc = "wait" /\ ReleaseTask(reg.a) /\ UNCHANGED <<life, first>>
    BY <1>6 DEF WaitReap
  <2>2. reg.a \in Task /\ reg.a \notin released
    BY <2>1 DEF Base, Pointers, SharingInv
  <2> QED
    BY <2>1, <2>2, ReleaseAddsNothing
<1>7. ASSUME NEW l \in {"dead", "stuck"}, LeaveFor(l) PROVE Total' <= Total /\ Total' \in Nat
  <2>1. life' = [life EXCEPT ![curr] = l] /\ UNCHANGED <<slice, first, released>>
    BY <1>7 DEF LeaveFor
  <2>2. Charged' \in {Charged, Charged \ {curr}}
    <3>1. \A t \in Task \ {curr} : life'[t] = life[t]
      BY <2>1 DEF TypeOK
    <3>2. curr \in Task /\ life'[curr] # "alive" /\ life[curr] = "alive"
      BY <2>1 DEF TypeOK, Base, Pointers
    <3>3. CASE first[curr]
      BY <2>1, <3>1, <3>2, <3>3 DEF Charged
    <3>4. CASE ~ first[curr]
      BY <2>1, <3>1, <3>2, <3>4 DEF Charged
    <3> QED
      BY <3>3, <3>4
  <2> QED
    BY <2>1, <2>2, NoneAdded
<1>8. CASE \/ Schedule \/ WaitNothing \/ ExitCall \/ UNCHANGED vars
           \/ \E u \in Task : ForkCall(u) \/ WaitCall(u)
  <2>1. UNCHANGED <<slice, first, life, released>>
    BY <1>8 DEF Schedule, WaitNothing, ExitCall, ForkCall, WaitCall, taskVars, vars
  <2>2. Charged' = Charged
    BY <2>1 DEF Charged
  <2> QED
    BY <1>2, <2>1, <2>2
<1>9. CASE QuadStore \/ SwipeTake \/ SwipeZero \/ SwipeChild \/ SwipeReturn
  BY <1>0, <1>9 DEF QuadStore, SwipeTake, SwipeZero, SwipeChild, SwipeReturn,
                    Base, Pointers
<1>10. CASE \/ \E u \in Task : QuadCall(u) \/ Zombify(u)
            \/ \E u, v \in Task : SwipeCall(u, v)
  BY <1>0, <1>10 DEF QuadCall, Zombify, SwipeCall, AddedCall
<1> QED
  BY <1>3, <1>4, <1>5, <1>6, <1>7, <1>8, <1>9, <1>10
     DEF Next, Step, Call, ExitSchedule, Oops

\* Fork shares time and exit gives it back, for any number of tasks and any
\* full slice, nice 19's single jiffy included: as long as quad, swipe and
\* zombify are not called, no step makes the time that is handed out grow,
\* except by one full slice when a slice runs out; and by one jiffy when a task
\* whose full slice is one jiffy has expired before it comes to sched_fork.
THEOREM TimeNotGenerated == Spec => TimeIsShared
<1>1. Init => SlicesSound /\ SharingInv
  BY SliceAssumption, TaskAssumption DEF Init, SlicesSound, SharingInv
<1>2. ASSUME Base, Base', SharingInv, SlicesSound, [Next]_vars, calls' = 0
      PROVE  Total' <= Total + (IF Expires THEN Full ELSE 0)
                             + (IF Full = 1 /\ ForkAfterExpiry THEN 1 ELSE 0)
  <2>1. Total' <= Total + (Refill + Unpaid) /\ Total \in Nat /\ Refill \in Nat /\ Unpaid \in Nat
    BY <1>2, SharedStep, ChargedFacts, SliceAssumption
       DEF Allowance, Base, ChargedSound, Refill, Unpaid
  <2>2. Total + (Refill + Unpaid) = Total + Refill + Unpaid
    BY <2>1
  <2> QED
    BY <2>1, <2>2 DEF Refill, Unpaid, Expires
<1>3. Base /\ Base' /\ SharingInv /\ SlicesSound /\ [Next]_vars
        => [calls' = 0 =>
              Total' <= Total + (IF Expires THEN Full ELSE 0)
                              + (IF Full = 1 /\ ForkAfterExpiry THEN 1 ELSE 0)]_vars
  BY <1>2
<1> QED
  BY <1>1, <1>3, BaseInit, BaseStep, SlicesStep, SharingStep, PTL DEF Spec, TimeIsShared
=============================================================================
