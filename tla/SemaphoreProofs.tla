-------------------------- MODULE SemaphoreProofs --------------------------
(***************************************************************************)
(* Proofs about the kernel semaphore, for any number of processes:         *)
(* SemaphoreSleepers implements CountingSemaphore, CountingSemaphore with  *)
(* one permit is a mutex, and no wake-up is lost.                          *)
(***************************************************************************)
EXTENDS SemaphoreSleepers, FiniteSetTheorems, SequenceTheorems, TLAPS

EnqCount == Cardinality({p \in Proc : pc[p] = "enq"})

LEMMA EnqCountType == EnqCount \in Nat
<1>1. IsFiniteSet({p \in Proc : pc[p] = "enq"})
  BY FS_Subset, ProcAssumption
<1> QED BY <1>1, FS_CardinalityType DEF EnqCount

\* How a step of p between the labels changes the number of processes that
\* are on their way to the wait queue.
LEMMA EnqCountEnter ==
  ASSUME NEW p \in Proc, pc[p] # "enq",
         {q \in Proc : pc'[q] = "enq"} = {q \in Proc : pc[q] = "enq"} \cup {p}
  PROVE  EnqCount' = EnqCount + 1
<1>1. IsFiniteSet({q \in Proc : pc[q] = "enq"})
  BY FS_Subset, ProcAssumption
<1> QED BY <1>1, FS_AddElement DEF EnqCount

LEMMA EnqCountExit ==
  ASSUME NEW p \in Proc, pc[p] = "enq",
         {q \in Proc : pc'[q] = "enq"} = {q \in Proc : pc[q] = "enq"} \ {p}
  PROVE  EnqCount' = EnqCount - 1
<1>1. IsFiniteSet({q \in Proc : pc[q] = "enq"})
  BY FS_Subset, ProcAssumption
<1> QED BY <1>1, FS_RemoveElement DEF EnqCount

\* list_del of the i-th entry of a wait queue: what is at which place.
LEMMA ListDelIndex ==
  ASSUME NEW S, NEW s \in Seq(S), NEW i \in 1..Len(s)
  PROVE  /\ ListDel(s, i) \in Seq(S)
         /\ Len(ListDel(s, i)) = Len(s) - 1
         /\ \A j \in 1..(Len(s) - 1) :
               ListDel(s, i)[j] = IF j < i THEN s[j] ELSE s[j + 1]
<1> DEFINE a == SubSeq(s, 1, i - 1)
           b == SubSeq(s, i + 1, Len(s))
<1>1. a \in Seq(S) /\ Len(a) = i - 1
  OBVIOUS
<1>2. b \in Seq(S) /\ Len(b) = Len(s) - i
  OBVIOUS
<1>3. \A j \in 1..(i - 1) : a[j] = s[j]
  OBVIOUS
<1>4. \A j \in 1..(Len(s) - i) : b[j] = s[i + j]
  OBVIOUS
<1>5. ListDel(s, i) = a \o b
  BY DEF ListDel
<1>6. Len(s) \in Nat
  OBVIOUS
<1> HIDE DEF a, b
<1>7. a \o b \in Seq(S) /\ Len(a \o b) = Len(s) - 1
  <2>1. a \o b \in Seq(S) /\ Len(a \o b) = Len(a) + Len(b)
    BY <1>1, <1>2, ConcatProperties, Zenon
  <2> QED BY <2>1, <1>1, <1>2, <1>6
<1>8. ASSUME NEW j \in 1..(Len(s) - 1)
      PROVE  (a \o b)[j] = IF j < i THEN s[j] ELSE s[j + 1]
  <2>1. (a \o b)[j] = IF j <= Len(a) THEN a[j] ELSE b[j - Len(a)]
    BY <1>1, <1>2, <1>6, ConcatProperties
  <2>2. CASE j < i
    BY <2>1, <2>2, <1>1, <1>3, <1>6
  <2>3. CASE ~(j < i)
    BY <2>1, <2>3, <1>1, <1>4, <1>6
  <2> QED BY <2>2, <2>3
<1> QED BY <1>5, <1>7, <1>8, Zenon

\* Taking one of the distinct entries out leaves the others, distinct still.
LEMMA ListDelEntries ==
  ASSUME NEW S, NEW s \in Seq(S), NEW i \in 1..Len(s),
         \A j, k \in 1..Len(s) : s[j] = s[k] => j = k
  PROVE  /\ \A j, k \in 1..Len(ListDel(s, i)) :
               ListDel(s, i)[j] = ListDel(s, i)[k] => j = k
         /\ \A r : (\E j \in 1..Len(ListDel(s, i)) : ListDel(s, i)[j] = r)
                   <=> r # s[i] /\ \E j \in 1..Len(s) : s[j] = r
<1> DEFINE n == Len(s)
           q == ListDel(s, i)
<1>1. n \in Nat /\ i \in 1..n /\ \A j, k \in 1..n : s[j] = s[k] => j = k
  OBVIOUS
<1>2. /\ Len(q) = n - 1
      /\ \A j \in 1..(n - 1) : q[j] = IF j < i THEN s[j] ELSE s[j + 1]
  BY ListDelIndex, Zenon
<1> SUFFICES /\ \A j, k \in 1..Len(q) : q[j] = q[k] => j = k
             /\ \A r : (\E j \in 1..Len(q) : q[j] = r)
                       <=> r # s[i] /\ \E j \in 1..n : s[j] = r
  OBVIOUS
<1> HIDE DEF n, q
<1>3. \A j, k \in 1..Len(q) : q[j] = q[k] => j = k
  BY ONLY <1>1, <1>2
<1>4. ASSUME NEW j \in 1..Len(q)
      PROVE  q[j] # s[i] /\ \E k \in 1..n : s[k] = q[j]
  BY ONLY <1>1, <1>2, <1>4
<1>5. ASSUME NEW k \in 1..n, s[k] # s[i]
      PROVE  \E j \in 1..Len(q) : q[j] = s[k]
  <2>1. CASE k < i
    BY ONLY <1>1, <1>2, <1>5, <2>1
  <2>2. CASE k > i
    <3>1. k - 1 \in 1..Len(q) /\ q[k - 1] = s[k]
      BY ONLY <1>1, <1>2, <1>5, <2>2
    <3> QED BY ONLY <3>1
  <2> QED BY ONLY <1>1, <1>5, <2>1, <2>2
<1>6. ASSUME NEW r, NEW j \in 1..Len(q), q[j] = r
      PROVE  r # s[i] /\ \E k \in 1..n : s[k] = r
  BY ONLY <1>4, <1>6, Zenon
<1>7. ASSUME NEW r, r # s[i], NEW k \in 1..n, s[k] = r
      PROVE  \E j \in 1..Len(q) : q[j] = r
  BY ONLY <1>5, <1>7, Zenon
<1> QED BY ONLY <1>3, <1>6, <1>7, Zenon

\* A wake-up moves no process between the labels inside and outside the
\* queue, except the waker itself.
LEMMA WakeUpLabels ==
  ASSUME NEW q, NEW p \in Proc, NEW l, NEW s, TypeOK, WakeUp(q, p, l, s),
         l \in Labels, s \in {"running", "unint"}
  PROVE  /\ pc' \in [Proc -> Labels]
         /\ state' \in [Proc -> {"running", "unint"}]
         /\ pc'[p] = l
         /\ \A r \in Proc \ {p} : pc'[r] = pc[r] \/ (pc[r] = "asleep" /\ pc'[r] = "relock")
  BY DEF WakeUp, TypeOK, Labels

\* The queue: the type invariant and QueueConsistent are inductive together.
QueueInv == TypeOK /\ QueueConsistent

LEMMA QueueInit == Init => QueueInv
  BY ProcAssumption, PermitsAssumption
  DEF Init, QueueInv, TypeOK, QueueConsistent, Labels

LEMMA QueueNext == QueueInv /\ [Next]_vars => QueueInv'
<1> SUFFICES ASSUME QueueInv, [Next]_vars PROVE QueueInv'
  OBVIOUS
<1> USE ProcAssumption DEF QueueInv, TypeOK, QueueConsistent, Labels, Goto, Got
<1>1. ASSUME NEW p \in Proc, DownCall(p) PROVE QueueInv'
  BY <1>1 DEF DownCall
<1>2. ASSUME NEW p \in Proc, DownFast(p) PROVE QueueInv'
  BY <1>2 DEF DownFast
<1>3. ASSUME NEW p \in Proc, DownFailed(p) PROVE QueueInv'
  BY <1>3 DEF DownFailed
<1>4. ASSUME NEW p \in Proc, Enqueue(p) PROVE QueueInv'
  BY <1>4 DEF Enqueue
<1>5. ASSUME NEW p \in Proc, AddGranted(p) PROVE QueueInv'
  BY <1>5 DEF AddGranted
<1>6. ASSUME NEW p \in Proc, AddNegative(p) PROVE QueueInv'
  BY <1>6 DEF AddNegative
<1>7. ASSUME NEW p \in Proc, Schedule(p) PROVE QueueInv'
  BY <1>7 DEF Schedule
<1>8. ASSUME NEW p \in Proc, Relock(p) PROVE QueueInv'
  BY <1>8 DEF Relock
<1>9. ASSUME NEW p \in Proc, Leave(p) PROVE QueueInv'
  <2>1. PICK i \in 1..Len(waitq) : waitq[i] = p /\ waitq' = ListDel(waitq, i)
    BY <1>9 DEF Leave
  <2>2. /\ waitq' \in Seq(Proc)
        /\ \A j, k \in 1..Len(waitq') : waitq'[j] = waitq'[k] => j = k
        /\ \A r : (\E j \in 1..Len(waitq') : waitq'[j] = r)
                  <=> r # p /\ \E j \in 1..Len(waitq) : waitq[j] = r
    <3>1. /\ waitq \in Seq(Proc) /\ Len(waitq) \in Nat
          /\ \A j, k \in 1..Len(waitq) : waitq[j] = waitq[k] => j = k
      OBVIOUS
    <3> HIDE DEF QueueInv, TypeOK, QueueConsistent
    <3>2. ListDel(waitq, i) \in Seq(Proc)
      BY <3>1, ListDelIndex, Zenon
    <3>3. /\ \A j, k \in 1..Len(ListDel(waitq, i)) :
                ListDel(waitq, i)[j] = ListDel(waitq, i)[k] => j = k
          /\ \A r : (\E j \in 1..Len(ListDel(waitq, i)) : ListDel(waitq, i)[j] = r)
                    <=> r # waitq[i] /\ \E j \in 1..Len(waitq) : waitq[j] = r
      BY <3>1, ListDelEntries, Zenon
    <3> QED BY ONLY <2>1, <3>2, <3>3, Zenon
  <2>3. /\ pc' \in [Proc -> Labels]
        /\ state' \in [Proc -> {"running", "unint"}]
        /\ pc'[p] = "idle"
        /\ \A r \in Proc \ {p} : pc'[r] = pc[r] \/ (pc[r] = "asleep" /\ pc'[r] = "relock")
    BY <1>9, WakeUpLabels DEF Leave
  <2>4. TypeOK'
    BY <1>9, <2>2, <2>3 DEF Leave
  <2>5. \A r \in Proc : wlock' = r <=> pc'[r] \in {"add", "leave"}
    BY <1>9, <2>3 DEF Leave
  <2>6. \A r \in Proc : pc'[r] \in {"add", "sched", "asleep", "relock", "leave"}
                        <=> \E j \in 1..Len(waitq') : waitq'[j] = r
    BY <2>2, <2>3
  <2> QED BY <2>2, <2>4, <2>5, <2>6
<1>10. ASSUME NEW p \in Proc, UpFast(p) PROVE QueueInv'
  BY <1>10 DEF UpFast
<1>11. ASSUME NEW p \in Proc, UpContended(p) PROVE QueueInv'
  BY <1>11 DEF UpContended
<1>12. ASSUME NEW p \in Proc, Wake(p) PROVE QueueInv'
  BY <1>12 DEF Wake, WakeUp, Visited
<1>13. CASE UNCHANGED vars
  BY <1>13 DEF vars
<1> QED
  BY <1>1, <1>2, <1>3, <1>4, <1>5, <1>6, <1>7, <1>8, <1>9, <1>10, <1>11,
     <1>12, <1>13
  DEF Next, Step

\* The type invariant of the semaphore.
THEOREM SemaphoreTypeCorrect == Spec => []TypeOK
<1>1. QueueInv => TypeOK
  BY DEF QueueInv
<1> QED BY QueueInit, QueueNext, <1>1, PTL DEF Spec

\* wait.lock is held exactly inside the critical sections of __down, and the
\* wait queue holds exactly the processes that entered and have not left it.
THEOREM QueueIsConsistent == Spec => []QueueConsistent
<1>1. QueueInv => QueueConsistent
  BY DEF QueueInv
<1> QED BY QueueInit, QueueNext, <1>1, PTL DEF Spec

---------------------------------------------------------------------------
(* Refinement *)

LEMMA PermitsSum == Permits = count + sleepers + EnqCount
  BY DEF Permits, EnqCount

Wants == {p \in Proc : pc[p] \in Labels \ {"idle", "leave", "wake"}}

LEMMA CountingStep == QueueInv /\ [Next]_vars => [Counting!Next]_(Counting!vars)
<1> SUFFICES ASSUME QueueInv, [Next]_vars PROVE [Counting!Next]_(Counting!vars)
  OBVIOUS
<1> USE ProcAssumption DEF QueueInv, TypeOK, Goto, Got, Wants, Labels
<1>a. EnqCount \in Nat /\ EnqCount' \in Nat
  <2>1. IsFiniteSet({p \in Proc : pc'[p] = "enq"})
    BY FS_Subset
  <2>2. EnqCount' \in Nat
    BY <2>1, FS_CardinalityType DEF EnqCount
  <2> QED BY <2>2, EnqCountType
<1>b. Permits = count + sleepers + EnqCount /\ Permits' = count' + sleepers' + EnqCount'
  BY DEF Permits, EnqCount
\* What a step has to show to be a stuttering step of the abstract semaphore.
<1>stutter. ASSUME Permits' = Permits, Wants' = Wants, holders' = holders
            PROVE  [Counting!Next]_(Counting!vars)
  BY <1>stutter DEF Counting!vars
<1>enq. ASSUME {q \in Proc : pc'[q] = "enq"} = {q \in Proc : pc[q] = "enq"}
        PROVE  EnqCount' = EnqCount
  BY <1>enq DEF EnqCount
<1>1. ASSUME NEW p \in Proc, DownCall(p) PROVE Counting!Request(p)
  <2>1. EnqCount' = EnqCount
    BY <1>1, <1>enq DEF DownCall
  <2>2. Permits' = Permits
    BY <1>1, <2>1, <1>b DEF DownCall
  <2>3. Wants' = Wants \cup {p} /\ p \notin Wants
    BY <1>1 DEF DownCall
  <2> QED BY <1>1, <2>2, <2>3 DEF DownCall, Counting!Request
<1>2. ASSUME NEW p \in Proc, DownFast(p) PROVE Counting!Grant(p)
  <2>1. EnqCount' = EnqCount
    BY <1>2, <1>enq DEF DownFast
  <2>2. Permits > 0 /\ Permits' = Permits - 1
    BY <1>2, <2>1, <1>a, <1>b DEF DownFast
  <2>3. Wants' = Wants \ {p} /\ p \in Wants
    BY <1>2 DEF DownFast
  <2> QED BY <1>2, <2>2, <2>3 DEF DownFast, Counting!Grant
<1>3. ASSUME NEW p \in Proc, DownFailed(p) PROVE [Counting!Next]_(Counting!vars)
  <2>1. EnqCount' = EnqCount + 1
    BY <1>3, EnqCountEnter DEF DownFailed
  <2>2. Permits' = Permits
    BY <1>3, <2>1, <1>a, <1>b DEF DownFailed
  <2> QED BY <1>3, <2>2, <1>stutter DEF DownFailed
<1>4. ASSUME NEW p \in Proc, Enqueue(p) PROVE [Counting!Next]_(Counting!vars)
  <2>1. EnqCount' = EnqCount - 1
    BY <1>4, EnqCountExit DEF Enqueue
  <2>2. Permits' = Permits
    BY <1>4, <2>1, <1>a, <1>b DEF Enqueue
  <2> QED BY <1>4, <2>2, <1>stutter DEF Enqueue
<1>5. ASSUME NEW p \in Proc, AddGranted(p) PROVE Counting!Grant(p)
  <2>1. EnqCount' = EnqCount
    BY <1>5, <1>enq DEF AddGranted
  <2>2. Permits > 0 /\ Permits' = Permits - 1
    BY <1>5, <2>1, <1>a, <1>b DEF AddGranted
  <2>3. Wants' = Wants \ {p} /\ p \in Wants
    BY <1>5 DEF AddGranted
  <2> QED BY <1>5, <2>2, <2>3 DEF AddGranted, Counting!Grant
<1>6. ASSUME NEW p \in Proc, AddNegative(p) PROVE [Counting!Next]_(Counting!vars)
  <2>1. EnqCount' = EnqCount
    BY <1>6, <1>enq DEF AddNegative
  <2>2. Permits' = Permits
    BY <1>6, <2>1, <1>a, <1>b DEF AddNegative
  <2> QED BY <1>6, <2>2, <1>stutter DEF AddNegative
<1>7. ASSUME NEW p \in Proc, Schedule(p) \/ Relock(p)
      PROVE  [Counting!Next]_(Counting!vars)
  <2>1. EnqCount' = EnqCount
    BY <1>7, <1>enq DEF Schedule, Relock
  <2>2. Permits' = Permits
    BY <1>7, <2>1, <1>b DEF Schedule, Relock
  <2> QED BY <1>7, <2>2, <1>stutter DEF Schedule, Relock
<1>8. ASSUME NEW p \in Proc, Leave(p) \/ Wake(p)
      PROVE  [Counting!Next]_(Counting!vars)
  <2>1. /\ pc'[p] = "idle"
        /\ \A r \in Proc \ {p} : pc'[r] = pc[r] \/ (pc[r] = "asleep" /\ pc'[r] = "relock")
    <3>1. CASE Leave(p)
      BY <3>1, WakeUpLabels DEF Leave
    <3>2. CASE Wake(p)
      BY <3>2, WakeUpLabels DEF Wake
    <3> QED BY <1>8, <3>1, <3>2
  <2>2. EnqCount' = EnqCount
    BY <1>8, <2>1, <1>enq DEF Leave, Wake
  <2>3. Permits' = Permits
    BY <1>8, <2>2, <1>b DEF Leave, Wake
  <2>4. Wants' = Wants
    BY <1>8, <2>1 DEF Leave, Wake
  <2> QED BY <1>8, <2>3, <2>4, <1>stutter DEF Leave, Wake
<1>9. ASSUME NEW p \in Proc, UpFast(p) \/ UpContended(p) PROVE Counting!Release(p)
  <2>1. EnqCount' = EnqCount
    BY <1>9, <1>enq DEF UpFast, UpContended
  <2>2. Permits' = Permits + 1
    BY <1>9, <2>1, <1>a, <1>b DEF UpFast, UpContended
  <2>3. Wants' = Wants /\ p \notin Wants
    BY <1>9 DEF UpFast, UpContended
  <2> QED BY <1>9, <2>2, <2>3 DEF UpFast, UpContended, Counting!Release
<1>10. CASE UNCHANGED vars
  BY <1>10, <1>stutter DEF vars, Permits
<1> QED
  BY <1>1, <1>2, <1>3, <1>4, <1>5, <1>6, <1>7, <1>8, <1>9, <1>10
  DEF Next, Step, Counting!Next

\* The two-counter implementation of down() and up() is a counting
\* semaphore, for any number of processes and any initial value: no permit
\* is created, lost or given twice.
THEOREM ImplementsCounting == Spec => CountingSpec
<1>1. Init => Counting!Init
  <2> SUFFICES ASSUME Init PROVE Counting!Init
    OBVIOUS
  <2>1. {p \in Proc : pc[p] = "enq"} = {}
    BY DEF Init
  <2>2. Permits = InitPermits
    <3>1. Cardinality({p \in Proc : pc[p] = "enq"}) = 0
      BY <2>1, FS_EmptySet
    <3> QED BY <3>1, PermitsAssumption DEF Permits, Init
  <2> QED BY <2>2 DEF Init, Counting!Init, Labels
<1> QED
  BY <1>1, QueueInit, QueueNext, CountingStep, PTL
  DEF Spec, CountingSpec, Counting!Spec

---------------------------------------------------------------------------
(* The mutex *)

MutexInv == /\ Permits \in {0, 1}
            /\ holders # {} => Permits = 0
            /\ \A p, q \in holders : p = q

\* A semaphore that starts with one permit, and that only its holder ups, is
\* a mutex: the argument is made on the abstract steps alone.
THEOREM SemaphoreIsMutex ==
  ASSUME InitPermits = 1, Posters = {}, Consumers = {}
  PROVE  Spec => []Mutex
<1>1. Counting!Init => MutexInv
  BY DEF Counting!Init, MutexInv
<1>2. MutexInv /\ [Counting!Next]_(Counting!vars) => MutexInv'
  <2> SUFFICES ASSUME MutexInv, [Counting!Next]_(Counting!vars) PROVE MutexInv'
    OBVIOUS
  <2> USE DEF MutexInv
  <2>1. ASSUME NEW p \in Proc, Counting!Request(p) PROVE MutexInv'
    BY <2>1 DEF Counting!Request
  <2>2. ASSUME NEW p \in Proc, Counting!Grant(p) PROVE MutexInv'
    BY <2>2 DEF Counting!Grant
  <2>3. ASSUME NEW p \in Proc, Counting!Release(p) PROVE MutexInv'
    BY <2>3 DEF Counting!Release
  <2>4. CASE UNCHANGED Counting!vars
    BY <2>4 DEF Counting!vars
  <2> QED BY <2>1, <2>2, <2>3, <2>4 DEF Counting!Next
<1>3. MutexInv => Mutex
  BY DEF MutexInv, Mutex, Counting!MutualExclusion
<1> QED
  BY <1>1, <1>2, <1>3, ImplementsCounting, PTL DEF CountingSpec, Counting!Spec

---------------------------------------------------------------------------
(* Wake-ups *)

LEMMA EnqMeansContender ==
  ASSUME EnqCount > 0 PROVE \E p \in Proc : pc[p] = "enq"
<1>1. IsFiniteSet({p \in Proc : pc[p] = "enq"})
  BY FS_Subset, ProcAssumption
<1>2. {p \in Proc : pc[p] = "enq"} # {}
  BY <1>1, FS_EmptySet DEF EnqCount
<1> QED BY <1>2

\* After a wake-up of a queue its first process is awake, so a dormant
\* process is never left alone on it.
LEMMA WakeUpLeavesContender ==
  ASSUME NEW p \in Proc, QueueInv, QueueInv', NEW s,
         WakeUp(waitq', p, "idle", s), pc[p] \in {"leave", "wake"},
         Dormant' # {}
  PROVE  Contenders' # {}
<1>1. PICK d \in Proc : pc'[d] \in {"asleep", "sched"}
  BY DEF Dormant
<1>2. waitq' \in Seq(Proc) /\ \E i \in 1..Len(waitq') : waitq'[i] = d
  BY <1>1 DEF QueueInv, QueueConsistent, TypeOK
<1>3. 1 \in 1..Len(waitq') /\ waitq'[1] \in Proc
  BY <1>2
<1> DEFINE h == waitq'[1]
<1>4. pc'[h] \in {"add", "sched", "asleep", "relock", "leave"} /\ h # p
  BY <1>3 DEF QueueInv, QueueConsistent, WakeUp
<1>5. h \in Visited(waitq')
  BY <1>3 DEF Visited
<1>6. pc'[h] # "asleep" /\ state'[h] = "running"
  BY <1>3, <1>4, <1>5 DEF WakeUp
<1> QED BY <1>3, <1>4, <1>6 DEF Contenders

LEMMA WakeupNext == QueueInv /\ NoLostWakeup /\ [Next]_vars => NoLostWakeup'
<1> SUFFICES ASSUME QueueInv, NoLostWakeup, [Next]_vars, Dormant' # {},
                    Permits' > 0 \/ sleepers' = 0
             PROVE  Contenders' # {}
  BY DEF NoLostWakeup
<1>q. QueueInv'
  BY QueueNext
<1>a. EnqCount \in Nat /\ Permits = count + sleepers + EnqCount
  BY EnqCountType, PermitsSum
<1>b. Permits' = count' + sleepers' + EnqCount'
  BY DEF Permits, EnqCount
<1>p. Permits' > 0 \/ sleepers' = 0
  OBVIOUS
<1> USE ProcAssumption DEF QueueInv, TypeOK, NoLostWakeup, Dormant, Contenders, Goto, Labels
<1>1. ASSUME NEW p \in Proc, DownCall(p) PROVE Contenders' # {}
  <2>1. {q \in Proc : pc'[q] = "enq"} = {q \in Proc : pc[q] = "enq"}
    BY <1>1 DEF DownCall
  <2>2. Permits' = Permits
    BY <1>1, <2>1 DEF DownCall, Permits
  <2> QED BY <1>1, <2>2 DEF DownCall
<1>2. ASSUME NEW p \in Proc, DownFast(p) PROVE Contenders' # {}
  <2>1. {q \in Proc : pc'[q] = "enq"} = {q \in Proc : pc[q] = "enq"}
    BY <1>2 DEF DownFast
  <2>2. EnqCount' = EnqCount
    BY <2>1 DEF EnqCount
  <2>3. Permits > 0 \/ sleepers = 0
    BY <1>2, <1>a, <1>b, <1>p, <2>2 DEF DownFast
  <2> QED BY <1>2, <2>3 DEF DownFast
<1>3. ASSUME NEW p \in Proc, DownFailed(p) PROVE Contenders' # {}
  BY <1>3 DEF DownFailed
<1>4. ASSUME NEW p \in Proc, Enqueue(p) PROVE Contenders' # {}
  BY <1>4 DEF Enqueue
<1>5. ASSUME NEW p \in Proc, AddGranted(p) PROVE Contenders' # {}
  BY <1>5 DEF AddGranted
<1>6. ASSUME NEW p \in Proc, AddNegative(p) PROVE Contenders' # {}
  <2>1. {q \in Proc : pc'[q] = "enq"} = {q \in Proc : pc[q] = "enq"}
    BY <1>6 DEF AddNegative
  <2>2. EnqCount' = EnqCount
    BY <2>1 DEF EnqCount
  <2>3. count' \in Int /\ count' < 0 /\ sleepers' = 1
    BY <1>6 DEF AddNegative
  <2>4. EnqCount > 0
    <3>1. count' + 1 + EnqCount > 0
      BY ONLY <1>b, <1>p, <2>2, <2>3
    <3>2. \A c \in Int, e \in Nat : c < 0 /\ c + 1 + e > 0 => e > 0
      OBVIOUS
    <3> QED BY ONLY <1>a, <2>3, <3>1, <3>2
  <2>5. PICK q \in Proc : pc[q] = "enq"
    BY <2>4, EnqMeansContender
  <2> QED BY <1>6, <2>5 DEF AddNegative
<1>7. ASSUME NEW p \in Proc, Schedule(p) PROVE Contenders' # {}
  <2>1. {q \in Proc : pc'[q] = "enq"} = {q \in Proc : pc[q] = "enq"}
    BY <1>7 DEF Schedule
  <2>2. Permits' = Permits /\ sleepers' = sleepers
    BY <1>7, <2>1 DEF Schedule, Permits
  <2>3. Dormant # {} \/ Contenders' # {}
    BY <1>7 DEF Schedule
  <2>4. Contenders # {} => Contenders' # {}
    BY <1>7 DEF Schedule
  <2> QED BY <2>2, <2>3, <2>4
<1>8. ASSUME NEW p \in Proc, Relock(p) PROVE Contenders' # {}
  BY <1>8 DEF Relock
<1>9. ASSUME NEW p \in Proc, Leave(p) PROVE Contenders' # {}
  BY <1>9, <1>q, WakeUpLeavesContender DEF Leave
<1>10. ASSUME NEW p \in Proc, UpFast(p) PROVE Contenders' # {}
  <2>1. count >= 0 /\ pc' = pc /\ state' = state /\ sleepers' = sleepers
    BY <1>10 DEF UpFast
  <2>2. Permits > 0 \/ sleepers = 0
    BY <1>a, <2>1
  <2> QED BY <2>1, <2>2
<1>11. ASSUME NEW p \in Proc, UpContended(p) PROVE Contenders' # {}
  BY <1>11 DEF UpContended
<1>12. ASSUME NEW p \in Proc, Wake(p) PROVE Contenders' # {}
  BY <1>12, <1>q, WakeUpLeavesContender DEF Wake
<1>13. CASE UNCHANGED vars
  BY <1>13 DEF vars, Permits
<1> QED
  BY <1>1, <1>2, <1>3, <1>4, <1>5, <1>6, <1>7, <1>8, <1>9, <1>10, <1>11,
     <1>12, <1>13
  DEF Next, Step

\* No wake-up is lost, for any number of processes: a free permit and a
\* sleeper never coexist without somebody on the way to bring them together.
THEOREM WakeupsAreNotLost == Spec => []NoLostWakeup
<1>1. Init => NoLostWakeup
  BY DEF Init, NoLostWakeup, Dormant
<1> QED BY <1>1, QueueInit, QueueNext, WakeupNext, PTL DEF Spec
=============================================================================
