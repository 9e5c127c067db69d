--------------------------- MODULE KernelRefines ---------------------------
(***************************************************************************)
(* The scheduler as an implementation of Locks.  A mutex is held by the    *)
(* task it overrides, p_nb_owning times; who holds a semaphore is the      *)
(* callers' own record.  Threads, commits, pauses and update flags are     *)
(* invisible to the lock service, and so is a fault.                       *)
(***************************************************************************)
EXTENDS KernelProps

Locked == live \cap (Mutexes \cup Sems)

LockCapacity ==
  [r \in Mutexes \cup Sems |->
     IF r \notin Locked THEN 0
     ELSE IF r \in Mutexes THEN 1 ELSE sem_nb_owners[r]]

LockHolds ==
  [r \in Mutexes \cup Sems |-> [t \in Tasks |->
     IF r \notin Locked THEN 0
     ELSE IF r \in Sems THEN held[r][t]
     ELSE IF p_overridden[r] = t THEN p_nb_owning[r] ELSE 0]]

LockSleepers ==
  [r \in Mutexes \cup Sems |-> IF r \in Locked THEN Waiters(r) ELSE {}]

Service == INSTANCE Locks
  WITH Resources <- Mutexes \cup Sems,
       Capacities <- Takings \cup {1},
       open <- Locked,
       capacity <- LockCapacity,
       holds <- LockHolds,
       sleepers <- LockSleepers

\* When callers release only what they took, every call on a mutex or
\* semaphore, and every registration, destruction, exit and process removal
\* around it, is a step of the lock service the headers describe or changes
\* nothing of it: takings are counted against the capacity, a task sleeps
\* only on what is full, and leaves this sleep only when the resource is
\* handed to it or destroyed. The code reaches a fault where the service
\* hands over (UnlockHandsOver).
LocksImplemented == Service!Spec
=============================================================================
