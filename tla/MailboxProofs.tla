---------------------------- MODULE MailboxProofs ----------------------------
(***************************************************************************)
(* Proofs about Mailbox, for any set of pids, any number of buckets and    *)
(* any number of messages: the lists stay well formed in spite of the      *)
(* swapped arguments of list_add_tail, a receiver owns what it received,   *)
(* and the mailbox implements one slot per bucket.                         *)
(***************************************************************************)
EXTENDS Mailbox, FiniteSetTheorems, TLAPS

Holding == {"add", "sup", "scan", "hit", "miss"}
Private == {"sdown", "add"}
Taken == {"hit", "copy"}

\* mailbox.lock is a mutex.
LockInv == /\ \A t, s \in Pid : pc[t] \in Holding /\ pc[s] \in Holding => t = s
           /\ \A t \in Pid : pc[t] \in Holding => lock = 0

\* A bucket is empty or a ring with exactly one live message on it.
RingInv == \A b \in Bucket :
              \/ next[b] = b /\ prev[b] = b
              \/ /\ next[b] \in Msg /\ prev[b] = next[b]
                 /\ next[next[b]] = b /\ prev[next[b]] = b
                 /\ heap[next[b]] = "live"
                 /\ sender[next[b]] \in Pid /\ receiver[next[b]] \in Pid
                 /\ Hash(receiver[next[b]]) = b

\* A message points to itself (not yet sent), to a bucket (on it, or
\* forgotten by it) or nowhere (received).
ShapeInv == \A m \in Msg : /\ prev[m] = next[m]
                           /\ next[m] \in Bucket \cup {m, None}

\* The messages in the hands of one process, on their way in or out.
HandsInv ==
    /\ \A t \in Pid : pc[t] \in Private =>
          /\ msg[t] \in Msg /\ heap[msg[t]] = "live" /\ next[msg[t]] = msg[t]
          /\ sender[msg[t]] = t /\ receiver[msg[t]] \in Pid
    /\ \A t \in Pid : pc[t] \in Taken =>
          /\ msg[t] \in Msg /\ heap[msg[t]] = "live" /\ next[msg[t]] = None
          /\ receiver[msg[t]] = t /\ sender[msg[t]] \in Pid
    /\ \A t, s \in Pid : /\ pc[t] \in Private \cup Taken
                         /\ pc[s] \in Private \cup Taken
                         /\ msg[t] = msg[s]
                         => t = s

\* The message on the ring of t's bucket is not one t asked for.
NoMatch(t) == LET m == next[Hash(t)]
              IN  \/ m = Hash(t)
                  \/ receiver[m] # t
                  \/ ~(want[t] < 0) /\ sender[m] # want[t]

\* The cursor of sys_myreceive is on the ring of its bucket, and it has
\* come back to the bucket only if nothing there matches.
CursorInv ==
    /\ \A t \in Pid : pc[t] = "scan" =>
          /\ nxt[t] \in Node
          /\ \/ msg[t] = Hash(t) /\ NoMatch(t)
             \/ msg[t] \in Msg /\ msg[t] = next[Hash(t)] /\ nxt[t] = Hash(t)
    /\ \A t \in Pid : pc[t] = "miss" => NoMatch(t)

\* sys_myreceive, and nothing else, has a sender it asks for.
Receiving == {"rdown", "scan", "hit", "miss", "copy"}
WantInv == \A t \in Pid : IF pc[t] \in Receiving THEN want[t] \in Pid \cup {-1}
                                                  ELSE want[t] = None

Inv == /\ TypeOK /\ LockInv /\ RingInv /\ ShapeInv /\ HandsInv /\ CursorInv
       /\ WantInv

---------------------------------------------------------------------------
LEMMA HashType == ASSUME NEW t \in Pid PROVE Hash(t) \in Bucket
BY PidAssumption, BucketAssumption DEF Hash, Bucket

LEMMA Disjoint == /\ \A b \in Bucket : b \notin Msg
                  /\ None \notin Bucket /\ None \notin Msg /\ None \notin Node
                  /\ None \notin Pid \cup {-1}
                  /\ Pid \subseteq Nat
<1>1. \A b \in Bucket : b \in Int
  BY BucketAssumption DEF Bucket
<1>2. \A x \in Int : x \notin Msg
  BY MsgAssumption
<1>3. \A x \in Pid : x \in Int
  BY PidAssumption
<1>4. None \notin Int /\ None \notin Msg /\ -1 \in Int /\ Pid \subseteq Nat
  BY PidAssumption, MsgAssumption
<1>5. QED
  BY <1>1, <1>2, <1>3, <1>4 DEF Node

LEMMA InitInv == Init => Inv
BY HashType, Disjoint
DEF Init, Inv, TypeOK, LockInv, RingInv, ShapeInv, HandsInv, CursorInv, WantInv,
    NoMatch, Receiving, Node, Labels, KernelLabels, Holding, Private, Taken

LEMMA SendCallInv ==
    ASSUME Inv, NEW t \in Pid, NEW to \in Pid, SendCall(t, to)
    PROVE  Inv'
<1> USE DEF SendCall, Goto
<1>1. TypeOK'
  BY HashType, Disjoint DEF Inv, TypeOK, Node, RingInv, ShapeInv, Labels,
         KernelLabels
<1>2. LockInv'
  BY DEF Inv, TypeOK, LockInv, Holding
<1>3. RingInv'
  BY DEF Inv, TypeOK, RingInv
<1>4. ShapeInv'
  BY DEF Inv, TypeOK, ShapeInv
<1>5. HandsInv'
  BY HashType, Disjoint DEF Inv, TypeOK, HandsInv, Node, RingInv, ShapeInv,
         Private, Taken
<1>6. CursorInv'
  BY HashType, Disjoint DEF Inv, TypeOK, CursorInv, Node, RingInv, ShapeInv,
         NoMatch
<1>7. WantInv'
  BY DEF Inv, TypeOK, WantInv, Receiving
<1>8. QED
  BY <1>1, <1>2, <1>3, <1>4, <1>5, <1>6, <1>7 DEF Inv

LEMMA SendNoMemoryInv ==
    ASSUME Inv, NEW t \in Pid, SendNoMemory(t)
    PROVE  Inv'
<1> USE DEF SendNoMemory, Goto, listVars, heapVars
<1>1. RingInv' /\ ShapeInv'
  BY DEF Inv, RingInv, ShapeInv
<1>2. TypeOK'
  BY DEF Inv, TypeOK, Labels, KernelLabels
<1>3. LockInv'
  BY DEF Inv, TypeOK, LockInv, Holding
<1>4. HandsInv'
  BY DEF Inv, TypeOK, HandsInv, Private, Taken
<1>5. CursorInv'
  BY DEF Inv, TypeOK, CursorInv, NoMatch
<1>6. WantInv'
  BY DEF Inv, TypeOK, WantInv, Receiving
<1>7. QED
  BY <1>1, <1>2, <1>3, <1>4, <1>5, <1>6 DEF Inv

LEMMA SendDownInv ==
    ASSUME Inv, NEW t \in Pid, SendDown(t)
    PROVE  Inv'
<1> USE DEF SendDown, Goto, Down, listVars, heapVars
<1>1. RingInv' /\ ShapeInv'
  BY DEF Inv, RingInv, ShapeInv
<1>2. TypeOK'
  BY DEF Inv, TypeOK, Labels, KernelLabels
<1>3. LockInv'
  BY DEF Inv, TypeOK, LockInv, Holding
<1>4. HandsInv'
  BY DEF Inv, TypeOK, HandsInv, Private, Taken
<1>5. CursorInv'
  BY DEF Inv, TypeOK, CursorInv, NoMatch
<1>6. WantInv'
  BY DEF Inv, TypeOK, WantInv, Receiving
<1>7. QED
  BY <1>1, <1>2, <1>3, <1>4, <1>5, <1>6 DEF Inv

LEMMA SendAddLinks ==
    ASSUME Inv, NEW t \in Pid, SendAdd(t)
    PROVE  LET m == msg[t]
               b == Hash(receiver[m])
           IN  /\ m \in Msg /\ b \in Bucket
               /\ next[m] = m /\ heap[m] = "live"
               /\ sender[m] = t /\ receiver[m] \in Pid
               /\ next' = [next EXCEPT ![b] = m, ![m] = b]
               /\ prev' = [prev EXCEPT ![b] = m, ![m] = b]
<1> DEFINE m == msg[t]
           b == Hash(receiver[m])
<1>1. /\ m \in Msg /\ heap[m] = "live" /\ next[m] = m
      /\ sender[m] = t /\ receiver[m] \in Pid
  BY DEF Inv, HandsInv, Private, SendAdd
<1>2. prev[m] = m
  BY <1>1 DEF Inv, ShapeInv
<1>3. b \in Bucket
  BY <1>1, HashType
<1>4. b # m
  BY <1>1, <1>3, Disjoint
<1>5. /\ next \in [Node -> Node \cup {None}] /\ prev \in [Node -> Node \cup {None}]
      /\ b \in Node /\ m \in Node
  BY <1>1, <1>3 DEF Inv, TypeOK, Node
<1>6. /\ next' = [next EXCEPT ![b] = m, ![m] = b]
      /\ prev' = [prev EXCEPT ![m] = b, ![b] = m]
  BY <1>2 DEF SendAdd, ListAddTail, ListInsert
<1>7. prev' = [prev EXCEPT ![b] = m, ![m] = b]
  BY <1>4, <1>5, <1>6
<1>8. QED
  BY <1>1, <1>3, <1>6, <1>7

LEMMA SendAddInv ==
    ASSUME Inv, NEW t \in Pid, SendAdd(t)
    PROVE  Inv'
<1> DEFINE m == msg[t]
           b == Hash(receiver[m])
<1> USE Disjoint DEF Node
<1>0. TypeOK /\ LockInv /\ RingInv /\ ShapeInv /\ HandsInv /\ CursorInv /\ WantInv
  BY DEF Inv
<1>a. /\ m \in Msg /\ b \in Bucket /\ b # m
      /\ next[m] = m /\ heap[m] = "live"
      /\ sender[m] = t /\ receiver[m] \in Pid /\ Hash(receiver[m]) = b
      /\ next' = [next EXCEPT ![b] = m, ![m] = b]
      /\ prev' = [prev EXCEPT ![b] = m, ![m] = b]
  BY SendAddLinks
<1>b. /\ pc[t] = "add" /\ pc' = [pc EXCEPT ![t] = "sup"]
      /\ UNCHANGED <<heapVars, lock, msg, nxt, want>>
  BY DEF SendAdd, Goto
<1> HIDE DEF m, b
<1>1. TypeOK'
  BY <1>0, <1>a, <1>b DEF TypeOK, heapVars, Labels, KernelLabels
<1>2. LockInv'
  BY <1>0, <1>b DEF TypeOK, LockInv, Holding
<1>3. RingInv'
  BY <1>0, <1>a, <1>b DEF TypeOK, RingInv, heapVars
<1>4. ShapeInv'
  BY <1>0, <1>a, <1>b DEF TypeOK, ShapeInv
<1>5. HandsInv'
  BY <1>0, <1>a, <1>b DEF TypeOK, HandsInv, Private, Taken, heapVars, m
<1>6. CursorInv'
  BY <1>0, <1>b DEF TypeOK, LockInv, CursorInv, Holding
<1>7. WantInv'
  BY <1>0, <1>b DEF TypeOK, WantInv, Receiving
<1>8. QED
  BY <1>1, <1>2, <1>3, <1>4, <1>5, <1>6, <1>7 DEF Inv

LEMMA SendUpInv ==
    ASSUME Inv, NEW t \in Pid, SendUp(t)
    PROVE  Inv'
<1> USE DEF SendUp, Goto, Up, listVars, heapVars
<1>1. RingInv' /\ ShapeInv'
  BY DEF Inv, RingInv, ShapeInv
<1>2. TypeOK'
  BY HashType, Disjoint DEF Inv, TypeOK, Node, LockInv, RingInv, ShapeInv,
         HandsInv, CursorInv, NoMatch, WantInv, Receiving, Labels, KernelLabels, Holding, Private, Taken
<1>3. LockInv'
  BY DEF Inv, TypeOK, LockInv, Holding
<1>4. HandsInv'
  BY DEF Inv, TypeOK, HandsInv, Private, Taken
<1>5. CursorInv'
  BY DEF Inv, TypeOK, CursorInv, NoMatch
<1>6. WantInv'
  BY DEF Inv, TypeOK, WantInv, Receiving
<1>7. QED
  BY <1>1, <1>2, <1>3, <1>4, <1>5, <1>6 DEF Inv

LEMMA SendReturnInv ==
    ASSUME Inv, NEW t \in Pid, SendReturn(t)
    PROVE  Inv'
<1> USE DEF SendReturn, Goto, Return, listVars, heapVars
<1>1. RingInv' /\ ShapeInv'
  BY DEF Inv, RingInv, ShapeInv
<1>2. TypeOK'
  BY DEF Inv, TypeOK, Labels, KernelLabels
<1>3. LockInv'
  BY DEF Inv, TypeOK, LockInv, Holding
<1>4. HandsInv'
  BY DEF Inv, TypeOK, HandsInv, Private, Taken
<1>5. CursorInv'
  BY DEF Inv, TypeOK, CursorInv, NoMatch
<1>6. WantInv'
  BY DEF Inv, TypeOK, WantInv, Receiving
<1>7. QED
  BY <1>1, <1>2, <1>3, <1>4, <1>5, <1>6 DEF Inv

LEMMA ReceiveCallInv ==
    ASSUME Inv, NEW t \in Pid, NEW from \in Pid \cup {-1}, ReceiveCall(t, from)
    PROVE  Inv'
<1> USE DEF ReceiveCall, Goto, listVars, heapVars
<1>1. RingInv' /\ ShapeInv'
  BY DEF Inv, RingInv, ShapeInv
<1>2. TypeOK'
  BY DEF Inv, TypeOK, Labels, KernelLabels
<1>3. LockInv'
  BY DEF Inv, TypeOK, LockInv, Holding
<1>4. HandsInv'
  BY DEF Inv, TypeOK, HandsInv, Private, Taken
<1>5. CursorInv'
  BY DEF Inv, TypeOK, CursorInv, NoMatch
<1>6. WantInv'
  BY DEF Inv, TypeOK, WantInv, Receiving
<1>7. QED
  BY <1>1, <1>2, <1>3, <1>4, <1>5, <1>6 DEF Inv

LEMMA ReceiveDownInv ==
    ASSUME Inv, NEW t \in Pid, ReceiveDown(t)
    PROVE  Inv'
<1> USE DEF ReceiveDown, Goto, Down, listVars, heapVars
<1>1. RingInv' /\ ShapeInv'
  BY DEF Inv, RingInv, ShapeInv
<1>2. TypeOK'
  BY HashType, Disjoint DEF Inv, TypeOK, Node, RingInv, ShapeInv, Labels,
         KernelLabels
<1>3. LockInv'
  BY DEF Inv, TypeOK, LockInv, Holding
<1>4. HandsInv'
  BY DEF Inv, TypeOK, HandsInv, Private, Taken
<1>5. CursorInv'
  BY HashType, Disjoint DEF Inv, TypeOK, CursorInv, Node, RingInv, ShapeInv,
         NoMatch
<1>6. WantInv'
  BY DEF Inv, TypeOK, WantInv, Receiving
<1>7. QED
  BY <1>1, <1>2, <1>3, <1>4, <1>5, <1>6 DEF Inv

LEMMA ScanHitInv ==
    ASSUME Inv, NEW t \in Pid, ScanHit(t)
    PROVE  Inv'
<1> USE DEF ScanHit, Goto, ListDel, AtEnd, Matches, heapVars
<1>1. TypeOK'
  BY HashType, Disjoint DEF Inv, TypeOK, Node, LockInv, RingInv, ShapeInv,
         HandsInv, CursorInv, NoMatch, WantInv, Receiving, Labels, KernelLabels, Holding, Private, Taken
<1>2. LockInv'
  BY DEF Inv, TypeOK, LockInv, Holding
<1>3. RingInv'
  BY HashType, Disjoint DEF Inv, TypeOK, RingInv, Node, LockInv, ShapeInv,
         HandsInv, CursorInv, NoMatch, WantInv, Receiving, Holding, Private, Taken
<1>4. ShapeInv'
  BY HashType, Disjoint DEF Inv, TypeOK, ShapeInv, Node, RingInv
<1>5. HandsInv'
  BY HashType, Disjoint DEF Inv, TypeOK, HandsInv, Node, LockInv, RingInv,
         ShapeInv, CursorInv, NoMatch, WantInv, Receiving, Private, Taken, Holding
<1>6. CursorInv'
  BY HashType, Disjoint DEF Inv, TypeOK, CursorInv, Node, LockInv, RingInv,
         ShapeInv, HandsInv, WantInv, Receiving, NoMatch, Holding, Private, Taken
<1>7. WantInv'
  BY DEF Inv, TypeOK, WantInv, Receiving
<1>8. QED
  BY <1>1, <1>2, <1>3, <1>4, <1>5, <1>6, <1>7 DEF Inv

LEMMA ScanNextInv ==
    ASSUME Inv, NEW t \in Pid, ScanNext(t)
    PROVE  Inv'
<1> USE DEF ScanNext, Goto, AtEnd, listVars, heapVars
<1>1. RingInv' /\ ShapeInv'
  BY DEF Inv, RingInv, ShapeInv
<1>2. TypeOK'
  BY HashType, Disjoint DEF Inv, TypeOK, Node, LockInv, RingInv, ShapeInv,
         HandsInv, CursorInv, NoMatch, WantInv, Receiving, Labels, KernelLabels, Holding, Private, Taken
<1>3. LockInv'
  BY DEF Inv, TypeOK, LockInv, Holding
<1>4. HandsInv'
  BY DEF Inv, TypeOK, HandsInv, Private, Taken
<1>5. CursorInv'
  <2>1. msg[t] # Hash(t) /\ pc[t] = "scan"
    OBVIOUS
  <2>2. msg[t] = next[Hash(t)] /\ nxt[t] = Hash(t) /\ Hash(t) \in Node
    BY <2>1, HashType DEF Inv, CursorInv, Node
  <2>3. NoMatch(t)
    BY <2>1, <2>2 DEF NoMatch, Matches
  <2>4. /\ msg'[t] = Hash(t) /\ nxt'[t] = next[Hash(t)]
        /\ \A s \in Pid \ {t} : msg'[s] = msg[s] /\ nxt'[s] = nxt[s]
    BY <2>2 DEF Inv, TypeOK
  <2>5. next[Hash(t)] \in Node
    BY <2>2, HashType DEF Inv, RingInv, Node
  <2>6. \A s \in Pid : NoMatch(s)' <=> NoMatch(s)
    BY DEF NoMatch
  <2>7. QED
    BY <2>3, <2>4, <2>5, <2>6 DEF Inv, CursorInv
<1>6. WantInv'
  BY DEF Inv, TypeOK, WantInv, Receiving
<1>7. QED
  BY <1>1, <1>2, <1>3, <1>4, <1>5, <1>6 DEF Inv

LEMMA ScanEndInv ==
    ASSUME Inv, NEW t \in Pid, ScanEnd(t)
    PROVE  Inv'
<1> USE DEF ScanEnd, Goto, AtEnd, listVars, heapVars
<1>1. RingInv' /\ ShapeInv'
  BY DEF Inv, RingInv, ShapeInv
<1>2. TypeOK'
  BY DEF Inv, TypeOK, Labels, KernelLabels
<1>3. LockInv'
  BY DEF Inv, TypeOK, LockInv, Holding
<1>4. HandsInv'
  BY DEF Inv, TypeOK, HandsInv, Private, Taken
<1>5. CursorInv'
  BY DEF Inv, TypeOK, CursorInv, NoMatch
<1>6. WantInv'
  BY DEF Inv, TypeOK, WantInv, Receiving
<1>7. QED
  BY <1>1, <1>2, <1>3, <1>4, <1>5, <1>6 DEF Inv

LEMMA UpHitInv ==
    ASSUME Inv, NEW t \in Pid, UpHit(t)
    PROVE  Inv'
<1> USE DEF UpHit, Goto, Up, listVars, heapVars
<1>1. RingInv' /\ ShapeInv'
  BY DEF Inv, RingInv, ShapeInv
<1>2. TypeOK'
  BY HashType, Disjoint DEF Inv, TypeOK, Node, LockInv, RingInv, ShapeInv,
         HandsInv, CursorInv, NoMatch, WantInv, Receiving, Labels, KernelLabels, Holding, Private, Taken
<1>3. LockInv'
  BY DEF Inv, TypeOK, LockInv, Holding
<1>4. HandsInv'
  BY DEF Inv, TypeOK, HandsInv, Private, Taken
<1>5. CursorInv'
  BY DEF Inv, TypeOK, CursorInv, NoMatch
<1>6. WantInv'
  BY DEF Inv, TypeOK, WantInv, Receiving
<1>7. QED
  BY <1>1, <1>2, <1>3, <1>4, <1>5, <1>6 DEF Inv

LEMMA UpMissInv ==
    ASSUME Inv, NEW t \in Pid, UpMiss(t)
    PROVE  Inv'
<1> USE DEF UpMiss, Goto, Up, Return, listVars, heapVars
<1>1. RingInv' /\ ShapeInv'
  BY DEF Inv, RingInv, ShapeInv
<1>2. TypeOK'
  BY HashType, Disjoint DEF Inv, TypeOK, Node, LockInv, RingInv, ShapeInv,
         HandsInv, CursorInv, NoMatch, WantInv, Receiving, Labels, KernelLabels, Holding, Private, Taken
<1>3. LockInv'
  BY DEF Inv, TypeOK, LockInv, Holding
<1>4. HandsInv'
  BY DEF Inv, TypeOK, HandsInv, Private, Taken
<1>5. CursorInv'
  BY DEF Inv, TypeOK, CursorInv, NoMatch
<1>6. WantInv'
  BY DEF Inv, TypeOK, WantInv, Receiving
<1>7. QED
  BY <1>1, <1>2, <1>3, <1>4, <1>5, <1>6 DEF Inv

LEMMA ReceiveFinishInv ==
    ASSUME Inv, NEW t \in Pid, ReceiveFinish(t)
    PROVE  Inv'
<1> USE DEF ReceiveFinish, Goto, Return, listVars
<1>1. ShapeInv'
  BY DEF Inv, ShapeInv
<1>2. TypeOK'
  BY DEF Inv, TypeOK, Labels, KernelLabels
<1>3. LockInv'
  BY DEF Inv, TypeOK, LockInv, Holding
<1>4. RingInv'
  BY HashType, Disjoint DEF Inv, TypeOK, RingInv, Node, LockInv, ShapeInv,
         HandsInv, CursorInv, NoMatch, WantInv, Receiving, Holding, Private, Taken
<1>5. HandsInv'
  BY DEF Inv, TypeOK, HandsInv, Private, Taken
<1>6. CursorInv'
  BY HashType, Disjoint DEF Inv, TypeOK, CursorInv, Node, RingInv, ShapeInv,
         NoMatch
<1>7. WantInv'
  BY DEF Inv, TypeOK, WantInv, Receiving
<1>8. QED
  BY <1>1, <1>2, <1>3, <1>4, <1>5, <1>6, <1>7 DEF Inv

LEMMA NextInv == Inv /\ [Next]_vars => Inv'
<1> SUFFICES ASSUME Inv, [Next]_vars PROVE Inv'
  OBVIOUS
<1>1. CASE UNCHANGED vars
  BY <1>1 DEF vars, Inv, TypeOK, LockInv, RingInv, ShapeInv, HandsInv, CursorInv, WantInv,
              NoMatch, Receiving
<1>2. ASSUME NEW t \in Pid, Call(t) PROVE Inv'
  BY <1>2, SendCallInv, SendNoMemoryInv, ReceiveCallInv DEF Call
<1>3. ASSUME NEW t \in Pid, Step(t) PROVE Inv'
  BY <1>3, SendDownInv, SendAddInv, SendUpInv, SendReturnInv, ReceiveDownInv,
     ScanHitInv, ScanNextInv, ScanEndInv, UpHitInv, UpMissInv, ReceiveFinishInv
  DEF Step
<1>4. QED
  BY <1>1, <1>2, <1>3 DEF Next

LEMMA AlwaysInv == Spec => []Inv
BY InitInv, NextInv, PTL DEF Spec

---------------------------------------------------------------------------
\* Every variable of the mailbox keeps its type.
THEOREM MailboxTypeCorrect == Spec => []TypeOK
<1>1. Inv => TypeOK
  BY DEF Inv
<1>2. QED
  BY <1>1, AlwaysInv, PTL

\* The checks of lib/list_debug.c never fire in sys_mysend or sys_myreceive:
\* the bucket's ring is intact whenever it is walked or linked.
THEOREM ListsStayWellFormed == Spec => []ListDebugSilent
<1>1. Inv => ListDebugSilent
  <2> SUFFICES ASSUME Inv, NEW t \in Pid
               PROVE  /\ pc[t] = "add" => prev[msg[t]] # None /\ next[prev[msg[t]]] = msg[t]
                      /\ pc[t] = "scan" /\ ~AtEnd(t) =>
                            /\ next[msg[t]] # None /\ prev[next[msg[t]]] = msg[t]
                            /\ prev[msg[t]] # None /\ next[prev[msg[t]]] = msg[t]
    BY DEF ListDebugSilent
  <2>1. CASE pc[t] = "add"
    BY <2>1, Disjoint DEF Inv, HandsInv, ShapeInv, Private
  <2>2. CASE pc[t] = "scan" /\ ~AtEnd(t)
    <3> DEFINE b == Hash(t)
    <3>1. b \in Bucket /\ msg[t] \in Msg /\ msg[t] = next[b]
      BY <2>2, HashType DEF Inv, CursorInv, AtEnd
    <3>2. prev[b] = msg[t] /\ next[msg[t]] = b /\ prev[msg[t]] = b
      BY <3>1, Disjoint DEF Inv, RingInv
    <3>3. QED
      BY <2>2, <3>1, <3>2, Disjoint
  <2>3. QED
    BY <2>1, <2>2
<1>2. QED
  BY <1>1, AlwaysInv, PTL

\* A received message is in the hands of its receiver alone until it is
\* freed: no second delivery, no double kfree.
THEOREM ReceiverIsOwner == Spec => []ReceiverOwns
<1>1. Inv => ReceiverOwns
  <2> SUFFICES ASSUME Inv, NEW t \in Pid, pc[t] \in {"hit", "copy"}
               PROVE  /\ msg[t] \in Msg /\ heap[msg[t]] = "live" /\ receiver[msg[t]] = t
                      /\ \A x \in Node : next[x] # msg[t] /\ prev[x] # msg[t]
                      /\ \A s \in Pid \ {t} :
                            pc[s] \in {"sdown", "add", "hit", "copy", "scan"}
                              => msg[s] # msg[t]
    BY DEF ReceiverOwns
  <2>1. /\ msg[t] \in Msg /\ heap[msg[t]] = "live" /\ receiver[msg[t]] = t
        /\ next[msg[t]] = None
    BY DEF Inv, HandsInv, Taken
  <2>2. ASSUME NEW x \in Bucket PROVE next[x] # msg[t] /\ prev[x] # msg[t]
    BY <2>1, Disjoint DEF Inv, RingInv
  <2>3. ASSUME NEW x \in Msg PROVE next[x] # msg[t] /\ prev[x] # msg[t]
    BY <2>1, Disjoint DEF Inv, ShapeInv
  <2>4. ASSUME NEW s \in Pid \ {t}, pc[s] \in {"sdown", "add", "hit", "copy"}
        PROVE  msg[s] # msg[t]
    BY <2>4 DEF Inv, HandsInv, Private, Taken
  <2>5. ASSUME NEW s \in Pid \ {t}, pc[s] = "scan"
        PROVE  msg[s] # msg[t]
    <3>1. Hash(s) \in Bucket
      BY HashType
    <3>2. msg[s] = Hash(s) \/ msg[s] = next[Hash(s)]
      BY <2>5 DEF Inv, CursorInv
    <3>3. QED
      BY <2>1, <2>2, <3>1, <3>2, Disjoint
  <2>6. QED
    BY <2>1, <2>2, <2>3, <2>4, <2>5 DEF Node
<1>2. QED
  BY <1>1, AlwaysInv, PTL

\* No list leads to freed memory.
THEOREM ListsAreLive == Spec => []ListsReachLive
<1>1. Inv => ListsReachLive
  BY Disjoint DEF Inv, ListsReachLive, RingInv, ShapeInv, Node
<1>2. QED
  BY <1>1, AlwaysInv, PTL

---------------------------------------------------------------------------
(* One CPU, as the repository is configured *)

OneRunning == \A t, s \in Pid : pc[t] \in KernelLabels /\ pc[s] \in KernelLabels
                                  => t = s
SentInv == \A t \in Pid : pc[t] \in {"sup", "sret"} =>
              /\ msg[t] \in Msg
              /\ heap[msg[t]] = "live" /\ sender[msg[t]] = t

LEMMA CpuFreeMeansNoneRunning ==
    ASSUME NCPU = 1, CpuFree
    PROVE  \A t \in Pid : pc[t] \notin KernelLabels
<1>1. IsFiniteSet(Running)
  BY PidAssumption, FS_Subset DEF Running
<1>2. Cardinality(Running) = 0
  BY <1>1, FS_CardinalityType DEF CpuFree
<1>3. Running = {}
  BY <1>1, <1>2, FS_EmptySet
<1>4. QED
  BY <1>3 DEF Running

LEMMA OneCpuInv ==
    ASSUME NCPU = 1, Inv, OneRunning, SentInv, [Next]_vars
    PROVE  OneRunning' /\ SentInv'
<1>1. CASE UNCHANGED vars
  BY <1>1 DEF vars, OneRunning, SentInv
<1>2. ASSUME NEW t \in Pid, CpuFree, Call(t) \/ Step(t)
      PROVE  OneRunning' /\ SentInv'
  <2>1. \A s \in Pid : pc[s] \notin KernelLabels
    BY <1>2, CpuFreeMeansNoneRunning
  <2>2. \E l \in Labels \ {"sup", "sret"} : pc' = [pc EXCEPT ![t] = l]
    BY <1>2, <2>1 DEF Call, Step, SendCall, SendNoMemory, ReceiveCall, SendDown, SendAdd,
       SendUp, SendReturn, ReceiveDown, ScanHit, ScanNext, ScanEnd, UpHit, UpMiss,
       ReceiveFinish, Down, Return, Goto, Labels, KernelLabels
  <2>3. QED
    BY <2>1, <2>2 DEF Inv, TypeOK, OneRunning, SentInv, KernelLabels
<1>3. ASSUME NEW t \in Pid, NEW from \in Pid \cup {-1}, ReceiveCall(t, from)
      PROVE  OneRunning' /\ SentInv'
  BY <1>3 DEF ReceiveCall, Goto, heapVars, Inv, TypeOK, OneRunning, SentInv, KernelLabels
<1>4. ASSUME NEW t \in Pid, SendAdd(t)
      PROVE  OneRunning' /\ SentInv'
  BY <1>4 DEF SendAdd, Goto, heapVars, Inv, TypeOK, HandsInv, Private, OneRunning, SentInv,
     KernelLabels
<1>5. ASSUME NEW t \in Pid,
             SendUp(t) \/ SendReturn(t) \/ ScanHit(t) \/ ScanNext(t) \/ ScanEnd(t)
                \/ UpHit(t) \/ UpMiss(t)
      PROVE  OneRunning' /\ SentInv'
  BY <1>5 DEF SendUp, SendReturn, ScanHit, ScanNext, ScanEnd, UpHit, UpMiss, Return, Goto,
     heapVars, Inv, TypeOK, OneRunning, SentInv, KernelLabels
<1>6. QED
  BY <1>1, <1>2, <1>3, <1>4, <1>5
  DEF Next, Call, Step, SendCall, SendNoMemory, SendDown, ReceiveDown, ReceiveFinish, Down

\* On one CPU the length sys_mysend returns is read from its own message,
\* although it is read after up(): nobody else runs in between.
THEOREM SendReturnIsOwn ==
    ASSUME NCPU = 1
    PROVE  Spec => []SendReturnsOwnLength
<1>1. Init => OneRunning /\ SentInv
  BY DEF Init, OneRunning, SentInv, KernelLabels
<1>2. Inv /\ OneRunning /\ SentInv /\ [Next]_vars => OneRunning' /\ SentInv'
  BY OneCpuInv
<1>3. SentInv => SendReturnsOwnLength
  BY DEF SentInv, SendReturnsOwnLength
<1>4. QED
  BY <1>1, <1>2, <1>3, AlwaysInv, PTL DEF Spec

---------------------------------------------------------------------------
(* The refinement of MailboxSlots *)

SlotOf == [b \in Bucket |-> IF next[b] = b THEN None ELSE MessageAt(next[b])]
TakenOf == [t \in Pid |-> IF pc[t] \in {"hit", "copy"} THEN MessageAt(msg[t]) ELSE None]

\* Steps that only move private messages leave the buckets as they are.
LEMMA QuietSlots ==
    ASSUME Inv,
           \A b \in Bucket : next'[b] = next[b],
           \A m \in Msg : (\E b \in Bucket : next[b] = m)
                             => sender'[m] = sender[m] /\ receiver'[m] = receiver[m]
    PROVE  SlotOf' = SlotOf
<1>1. \A b \in Bucket : next[b] = b \/ next[b] \in Msg
  BY DEF Inv, RingInv
<1>2. QED
  BY <1>1, Disjoint DEF SlotOf, MessageAt

\* Nor do steps that change neither the heap nor who has taken what.
LEMMA QuietTaken ==
    ASSUME \A t \in Pid : (pc'[t] \in Taken) <=> (pc[t] \in Taken),
           \A t \in Pid : pc[t] \in Taken => MessageAt(msg[t])' = MessageAt(msg[t])
    PROVE  TakenOf' = TakenOf
BY DEF TakenOf, Taken

LEMMA SendCallSlots ==
    ASSUME Inv, NEW t \in Pid, NEW to \in Pid, SendCall(t, to)
    PROVE  SlotOf' = SlotOf /\ TakenOf' = TakenOf /\ want' = want
<1>1. want' = want
  BY DEF SendCall
<1>2. PICK m \in Msg : /\ heap[m] = "free"
                       /\ sender' = [sender EXCEPT ![m] = t]
                       /\ receiver' = [receiver EXCEPT ![m] = to]
                       /\ next' = [next EXCEPT ![m] = m]
                       /\ msg' = [msg EXCEPT ![t] = m]
  BY DEF SendCall
<1>3. \A b \in Bucket : next'[b] = next[b]
  BY <1>2, Disjoint DEF Inv, TypeOK, Node
<1>4. \A b \in Bucket : next[b] # m
  BY <1>2, Disjoint DEF Inv, RingInv
<1>5. SlotOf' = SlotOf
  BY <1>2, <1>3, <1>4, QuietSlots DEF Inv, TypeOK
<1>6. \A s \in Pid : pc[s] \in Taken => s # t /\ msg[s] \in Msg /\ msg[s] # m
  BY <1>2 DEF Inv, HandsInv, SendCall, Taken
<1>7. \A s \in Pid : pc[s] \in Taken => MessageAt(msg[s])' = MessageAt(msg[s])
  BY <1>2, <1>6 DEF Inv, TypeOK, MessageAt
<1>8. \A s \in Pid : (pc'[s] \in Taken) <=> (pc[s] \in Taken)
  BY DEF SendCall, Goto, Inv, TypeOK, Taken
<1>9. QED
  BY <1>1, <1>5, <1>7, <1>8, QuietTaken

LEMMA SendAddSlots ==
    ASSUME Inv, NEW t \in Pid, SendAdd(t)
    PROVE  \E to \in Pid :
              /\ SlotOf' = [SlotOf EXCEPT ![Hash(to)] = [from |-> t, to |-> to]]
              /\ TakenOf' = TakenOf /\ want' = want
<1> DEFINE m == msg[t]
           to == receiver[m]
           b == Hash(to)
<1>1. /\ m \in Msg /\ b \in Bucket /\ b # m
      /\ next[m] = m /\ sender[m] = t /\ to \in Pid
      /\ next' = [next EXCEPT ![b] = m, ![m] = b]
  BY SendAddLinks, Disjoint
<1>2. UNCHANGED <<sender, receiver, msg>>
  BY DEF SendAdd, heapVars
<1>3. /\ next \in [Node -> Node \cup {None}]
      /\ Bucket \subseteq Node /\ m \in Node
  BY <1>1 DEF Inv, TypeOK, Node
<1>4. /\ next'[b] = m
      /\ \A c \in Bucket : c # b => next'[c] = next[c]
  BY <1>1, <1>3, Disjoint
<1>5. SlotOf' = [SlotOf EXCEPT ![b] = [from |-> t, to |-> to]]
  <2>1. SlotOf'[b] = [from |-> t, to |-> to]
    BY <1>1, <1>2, <1>4 DEF SlotOf, MessageAt
  <2>2. \A c \in Bucket : c # b => SlotOf'[c] = SlotOf[c]
    BY <1>2, <1>4 DEF SlotOf, MessageAt
  <2>3. /\ SlotOf = [c \in Bucket |-> SlotOf[c]]
        /\ SlotOf' = [c \in Bucket |-> SlotOf'[c]]
    BY DEF SlotOf
  <2>4. b \in Bucket
    BY <1>1
  <2> HIDE DEF b, to, m
  <2>5. QED
    BY ONLY <2>1, <2>2, <2>3, <2>4
<1>6. \A s \in Pid : (pc'[s] \in Taken) <=> (pc[s] \in Taken)
  BY DEF SendAdd, Goto, Inv, TypeOK, Taken
<1>7. \A s \in Pid : MessageAt(msg[s])' = MessageAt(msg[s])
  BY <1>2 DEF MessageAt
<1>8. TakenOf' = TakenOf
  BY <1>6, <1>7, QuietTaken
<1>9. want' = want
  BY DEF SendAdd
<1>10. QED
  BY <1>1, <1>5, <1>8, <1>9

LEMMA ScanHitSlots ==
    ASSUME Inv, NEW t \in Pid, ScanHit(t)
    PROVE  /\ SlotOf[Hash(t)] # None
           /\ SlotOf[Hash(t)].to = t
           /\ want[t] < 0 \/ SlotOf[Hash(t)].from = want[t]
           /\ want[t] # None /\ TakenOf[t] = None
           /\ TakenOf' = [TakenOf EXCEPT ![t] = SlotOf[Hash(t)]]
           /\ SlotOf' = [SlotOf EXCEPT ![Hash(t)] = None]
           /\ want' = want
<1> DEFINE m == msg[t]
           b == Hash(t)
<1>1. /\ pc[t] = "scan" /\ m # b
      /\ receiver[m] = t /\ (want[t] < 0 \/ sender[m] = want[t])
  BY DEF ScanHit, AtEnd, Matches
<1>2. b \in Bucket /\ m \in Msg /\ m = next[b]
  BY <1>1, HashType DEF Inv, CursorInv
<1>3. next[m] = b /\ prev[m] = b /\ sender[m] \in Pid
  BY <1>1, <1>2 DEF Inv, RingInv
<1>4. next' = [next EXCEPT ![b] = b, ![m] = None]
  BY <1>3 DEF ScanHit, ListDel
<1>5. UNCHANGED <<sender, receiver, msg, want>> /\ pc' = [pc EXCEPT ![t] = "hit"]
  BY DEF ScanHit, heapVars, Goto
<1>6. /\ next'[b] = b
      /\ \A c \in Bucket : c # b => next'[c] = next[c]
  BY <1>2, <1>4, Disjoint DEF Inv, TypeOK, Node
<1>7. SlotOf[b] = [from |-> sender[m], to |-> t]
  BY <1>1, <1>2 DEF SlotOf, MessageAt
<1>8. SlotOf[b] # None
  BY <1>3, <1>7, PidAssumption
<1>9. SlotOf' = [SlotOf EXCEPT ![b] = None]
  BY <1>2, <1>5, <1>6 DEF SlotOf, MessageAt
<1>10. TakenOf[t] = None /\ want[t] # None
  BY <1>1, Disjoint DEF TakenOf, Inv, WantInv, Receiving
<1>11. TakenOf' = [TakenOf EXCEPT ![t] = SlotOf[b]]
  BY <1>1, <1>5, <1>7 DEF Inv, TypeOK, TakenOf, MessageAt
<1>12. QED
  BY <1>1, <1>5, <1>7, <1>8, <1>9, <1>10, <1>11

LEMMA ReceiveFinishSlots ==
    ASSUME Inv, NEW t \in Pid, ReceiveFinish(t)
    PROVE  /\ SlotOf' = SlotOf
           /\ TakenOf[t] # None /\ TakenOf' = [TakenOf EXCEPT ![t] = None]
           /\ want' = [want EXCEPT ![t] = None]
<1> DEFINE m == msg[t]
<1>1. /\ pc[t] = "copy" /\ m \in Msg /\ next[m] = None
      /\ receiver[m] = t /\ sender[m] \in Pid
  BY DEF Inv, HandsInv, Taken, ReceiveFinish
<1>2. /\ sender' = [sender EXCEPT ![m] = None]
      /\ receiver' = [receiver EXCEPT ![m] = None]
      /\ msg' = [msg EXCEPT ![t] = None]
      /\ pc' = [pc EXCEPT ![t] = "user"]
      /\ want' = [want EXCEPT ![t] = None]
      /\ next' = next
  BY DEF ReceiveFinish, Return, Goto, listVars
<1>3. \A b \in Bucket : next[b] # m
  BY <1>1, Disjoint DEF Inv, RingInv
<1>4. SlotOf' = SlotOf
  BY <1>1, <1>2, <1>3, QuietSlots DEF Inv, TypeOK
<1>5. \A s \in Pid \ {t} : pc[s] \in Taken => msg[s] \in Msg /\ msg[s] # m
  BY <1>1 DEF Inv, HandsInv, Taken
<1>6. \A s \in Pid \ {t} : pc[s] \in Taken => MessageAt(msg[s])' = MessageAt(msg[s])
  BY <1>2, <1>5 DEF Inv, TypeOK, MessageAt
<1>7. TakenOf[t] # None
  BY <1>1, PidAssumption DEF TakenOf, MessageAt
<1>8. TakenOf' = [TakenOf EXCEPT ![t] = None]
  BY <1>1, <1>2, <1>6 DEF Inv, TypeOK, TakenOf, Taken
<1>9. QED
  BY <1>2, <1>4, <1>7, <1>8

LEMMA OtherSlots ==
    ASSUME Inv, NEW t \in Pid,
           \/ SendNoMemory(t) \/ SendDown(t) \/ SendUp(t) \/ SendReturn(t)
           \/ (\E from \in Pid \cup {-1} : ReceiveCall(t, from))
           \/ ReceiveDown(t) \/ ScanNext(t) \/ ScanEnd(t) \/ UpHit(t) \/ UpMiss(t)
    PROVE  SlotOf' = SlotOf /\ TakenOf' = TakenOf
<1> USE DEF SendNoMemory, SendDown, SendUp, SendReturn, ReceiveCall, ReceiveDown, ScanNext,
            ScanEnd, UpHit, UpMiss
<1>1. UNCHANGED <<next, sender, receiver>>
  BY DEF listVars, heapVars
<1>2. SlotOf' = SlotOf
  BY <1>1 DEF SlotOf, MessageAt
<1>3. \A s \in Pid : (pc'[s] \in Taken) <=> (pc[s] \in Taken)
  BY DEF Goto, Down, Return, Inv, TypeOK, Taken
<1>4. \A s \in Pid : pc[s] \in Taken => msg'[s] = msg[s]
  BY DEF Return, Goto, Down, Inv, TypeOK, Taken
<1>5. \A s \in Pid : pc[s] \in Taken => MessageAt(msg[s])' = MessageAt(msg[s])
  BY <1>1, <1>4 DEF MessageAt
<1>6. QED
  BY <1>2, <1>3, <1>5, QuietTaken

LEMMA UpMissSlots ==
    ASSUME Inv, NEW t \in Pid, UpMiss(t)
    PROVE  /\ SlotOf' = SlotOf /\ TakenOf' = TakenOf
           /\ want' = [want EXCEPT ![t] = None]
           /\ want[t] # None /\ TakenOf[t] = None
           /\ SlotOf[Hash(t)] # None =>
                 ~ (SlotOf[Hash(t)].to = t
                     /\ (want[t] < 0 \/ SlotOf[Hash(t)].from = want[t]))
<1>1. SlotOf' = SlotOf /\ TakenOf' = TakenOf
  BY OtherSlots
<1>2. pc[t] = "miss" /\ want' = [want EXCEPT ![t] = None]
  BY DEF UpMiss, Return
<1>3. want[t] # None /\ TakenOf[t] = None
  BY <1>2, Disjoint DEF TakenOf, Inv, WantInv, Receiving
<1>4. NoMatch(t) /\ Hash(t) \in Bucket
  BY <1>2, HashType DEF Inv, CursorInv
<1>5. SlotOf[Hash(t)] = IF next[Hash(t)] = Hash(t) THEN None ELSE MessageAt(next[Hash(t)])
  BY <1>4 DEF SlotOf
<1>6. QED
  BY <1>1, <1>2, <1>3, <1>4, <1>5 DEF NoMatch, MessageAt

LEMMA ReceiveCallSlots ==
    ASSUME Inv, NEW t \in Pid, NEW from \in Pid \cup {-1}, ReceiveCall(t, from)
    PROVE  /\ SlotOf' = SlotOf /\ TakenOf' = TakenOf
           /\ want[t] = None /\ want' = [want EXCEPT ![t] = from]
<1>1. SlotOf' = SlotOf /\ TakenOf' = TakenOf
  BY OtherSlots
<1>2. want[t] = None /\ want' = [want EXCEPT ![t] = from]
  BY DEF ReceiveCall, Inv, WantInv, Receiving
<1>3. QED
  BY <1>1, <1>2

\* The other steps leave want as it is too; a send has none to clear.
LEMMA OtherWant ==
    ASSUME Inv, NEW t \in Pid,
           \/ SendNoMemory(t) \/ SendDown(t) \/ SendUp(t) \/ SendReturn(t)
           \/ ReceiveDown(t) \/ ScanNext(t) \/ ScanEnd(t) \/ UpHit(t)
    PROVE  want' = want
<1>1. CASE SendReturn(t)
  <2>1. want' = [want EXCEPT ![t] = None] /\ want[t] = None
    BY <1>1 DEF SendReturn, Return, Inv, WantInv, Receiving
  <2>2. QED
    BY <2>1 DEF Inv, TypeOK
<1>2. CASE ~SendReturn(t)
  BY <1>2 DEF SendNoMemory, SendDown, SendUp, ReceiveDown, ScanNext, ScanEnd, UpHit
<1>3. QED
  BY <1>1, <1>2

\* The mailbox implements one slot per bucket, whatever the interleaving: a
\* bucket remembers the last message sent to it and nothing else.
THEOREM ImplementsSlots == Spec => SlotsSpec
<1>1. Init => Slots!Init
  BY Disjoint DEF Init, Slots!Init, Slots!Bucket, Bucket, Node
<1>2. Inv /\ [Next]_vars => [Slots!Next]_(Slots!vars)
  <2> SUFFICES ASSUME Inv, [Next]_vars
               PROVE  \/ Slots!Next
                      \/ SlotOf' = SlotOf /\ TakenOf' = TakenOf /\ want' = want
    BY DEF Slots!vars, SlotOf, TakenOf
  <2>1. CASE UNCHANGED vars
    BY <2>1 DEF vars, SlotOf, TakenOf, MessageAt
  <2>2. ASSUME NEW t \in Pid, SendAdd(t) PROVE Slots!Next
    BY <2>2, SendAddSlots DEF Slots!Next, Slots!Post, Slots!Hash, Hash, SlotOf, TakenOf
  <2>3. ASSUME NEW t \in Pid, ScanHit(t) PROVE Slots!Next
    BY <2>3, ScanHitSlots DEF Slots!Next, Slots!Take, Slots!Matches, Slots!Hash,
       Hash, SlotOf, TakenOf
  <2>4. ASSUME NEW t \in Pid, ReceiveFinish(t) PROVE Slots!Next
    BY <2>4, ReceiveFinishSlots DEF Slots!Next, Slots!Finish, SlotOf, TakenOf
  <2>5. ASSUME NEW t \in Pid, UpMiss(t) PROVE Slots!Next
    BY <2>5, UpMissSlots DEF Slots!Next, Slots!Miss, Slots!Matches, Slots!Hash, Hash,
       SlotOf, TakenOf
  <2>6. ASSUME NEW t \in Pid, NEW from \in Pid \cup {-1}, ReceiveCall(t, from)
        PROVE  Slots!Next
    BY <2>6, ReceiveCallSlots DEF Slots!Next, Slots!Ask, SlotOf, TakenOf
  <2>7. QED
    BY <2>1, <2>2, <2>3, <2>4, <2>5, <2>6, SendCallSlots, OtherSlots, OtherWant
    DEF Next, Call, Step
<1>3. QED
  BY <1>1, <1>2, AlwaysInv, PTL DEF Spec, SlotsSpec, Slots!Spec

=============================================================================
