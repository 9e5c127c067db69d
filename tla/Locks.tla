------------------------------- MODULE Locks -------------------------------
(***************************************************************************)
(* What mutex.h and sem.h promise the tasks, without threads, commits,     *)
(* lists or counters: resources that are created with a capacity, held by  *)
(* known tasks, waited for only while they are full, and passed on to a    *)
(* waiter when they are given back.                                        *)
(***************************************************************************)
EXTENDS Total

CONSTANTS
  Tasks,
  Resources,
  Capacities  \* the capacities a resource may be created with

VARIABLES
  open,      \* the resources in use
  capacity,  \* capacity[r]: how many takings r admits
  holds,     \* holds[r][t]: the takings of r that t has not given back
  sleepers   \* sleepers[r]: the tasks that wait for r

lockVars == <<open, capacity, holds, sleepers>>

Nobody == [t \in Tasks |-> 0]
Full(r) == Total(holds[r]) = capacity[r]
Awake(t) == \A r \in Resources : t \notin sleepers[r]

Init ==
  /\ open = {}
  /\ capacity = [r \in Resources |-> 0]
  /\ holds = [r \in Resources |-> Nobody]
  /\ sleepers = [r \in Resources |-> {}]

Create(r) ==
  /\ r \notin open
  /\ open' = open \cup {r}
  /\ \E n \in Capacities : capacity' = [capacity EXCEPT ![r] = n]
  /\ UNCHANGED <<holds, sleepers>>

Take(t, r) ==
  /\ r \in open /\ Awake(t) /\ ~Full(r)
  /\ holds' = [holds EXCEPT ![r][t] = @ + 1]
  /\ UNCHANGED <<open, capacity, sleepers>>

Sleep(t, r) ==
  /\ r \in open /\ Awake(t) /\ Full(r)
  /\ sleepers' = [sleepers EXCEPT ![r] = @ \cup {t}]
  /\ UNCHANGED <<open, capacity, holds>>

Give(t, r) ==
  /\ r \in open /\ Awake(t) /\ holds[r][t] > 0
  /\ sleepers[r] = {}
  /\ holds' = [holds EXCEPT ![r][t] = @ - 1]
  /\ UNCHANGED <<open, capacity, sleepers>>

\* A resource somebody waits for passes to one of the waiters.
HandOver(t, r, u) ==
  /\ r \in open /\ Awake(t) /\ holds[r][t] > 0
  /\ u \in sleepers[r]
  /\ holds' = [holds EXCEPT ![r] = [@ EXCEPT ![t] = @ - 1, ![u] = @ + 1]]
  /\ sleepers' = [sleepers EXCEPT ![r] = @ \ {u}]
  /\ UNCHANGED <<open, capacity>>

\* The resources R are destroyed together: one by a call of its own, all of
\* a process's when the process is. Their waiters are released from them.
Destroy(R) ==
  /\ R \subseteq open
  /\ open' = open \ R
  /\ capacity' = [r \in Resources |-> IF r \in R THEN 0 ELSE capacity[r]]
  /\ holds' = [r \in Resources |-> IF r \in R THEN Nobody ELSE holds[r]]
  /\ sleepers' = [r \in Resources |-> IF r \in R THEN {} ELSE sleepers[r]]

Next ==
  \/ \E r \in Resources : Create(r)
  \/ \E r \in Resources, t \in Tasks :
       \/ Take(t, r)
       \/ Sleep(t, r)
       \/ Give(t, r)
       \/ \E u \in Tasks : HandOver(t, r, u)
  \/ \E R \in SUBSET open : Destroy(R)

Spec == Init /\ [][Next]_lockVars
=============================================================================
