---------------------------- MODULE MailboxSlots ----------------------------
(***************************************************************************)
(* What the mailbox of ipc/mailbox.c does, seen from outside: every bucket *)
(* remembers one message, the last one sent to any pid that hashes to it.  *)
(* A receive takes that message if it is addressed to the caller and comes *)
(* from the sender asked for, and returns empty-handed only if it is not.  *)
(***************************************************************************)
EXTENDS Integers

CONSTANTS Pid, NBuckets, None

VARIABLES
    slot,   \* slot[b]: the message bucket b holds, or None
    taken,  \* taken[t]: the message t has received and is copying, or None
    want    \* want[t]: the sender t asked for (negative: any), or None

vars == <<slot, taken, want>>

Hash(pid) == pid % NBuckets
Bucket == 0..(NBuckets - 1)

Init == /\ slot = [b \in Bucket |-> None]
        /\ taken = [t \in Pid |-> None]
        /\ want = [t \in Pid |-> None]

\* Whatever the bucket held before is gone.
Post(t, to) == /\ slot' = [slot EXCEPT ![Hash(to)] = [from |-> t, to |-> to]]
               /\ UNCHANGED <<taken, want>>

Ask(t, from) == /\ want[t] = None
                /\ want' = [want EXCEPT ![t] = from]
                /\ UNCHANGED <<slot, taken>>

Matches(t, m) == /\ m # None
                 /\ m.to = t
                 /\ want[t] < 0 \/ m.from = want[t]

Take(t) == /\ want[t] # None /\ taken[t] = None
           /\ Matches(t, slot[Hash(t)])
           /\ taken' = [taken EXCEPT ![t] = slot[Hash(t)]]
           /\ slot' = [slot EXCEPT ![Hash(t)] = None]
           /\ UNCHANGED want

Finish(t) == /\ taken[t] # None
             /\ taken' = [taken EXCEPT ![t] = None]
             /\ want' = [want EXCEPT ![t] = None]
             /\ UNCHANGED slot

Miss(t) == /\ want[t] # None /\ taken[t] = None
           /\ ~Matches(t, slot[Hash(t)])
           /\ want' = [want EXCEPT ![t] = None]
           /\ UNCHANGED <<slot, taken>>

Next == \E t \in Pid : \/ \E to \in Pid : Post(t, to)
                       \/ \E from \in Pid \cup {-1} : Ask(t, from)
                       \/ Take(t) \/ Finish(t) \/ Miss(t)

Spec == Init /\ [][Next]_vars
=============================================================================
