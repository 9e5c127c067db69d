------------------------ MODULE KernelRefinesProofs ------------------------
(***************************************************************************)
(* The scheduler implements the lock service of Locks, for every number of *)
(* tasks and every capacity, when callers release only what they took.     *)
(***************************************************************************)
EXTENDS KernelRefines, KernelLockProofs

USE ConstantsOK

-----------------------------------------------------------------------------
(* The lock service's state, point by point *)

Resources == Mutexes \cup Sems

LEMMA ResourceKinds ==
  /\ \A r \in Resources : r \in Prims /\ r \notin Procs /\ r \notin Tasks
                          /\ r # None
  /\ \A r \in Mutexes : r \notin Sems
  /\ Locked \subseteq Resources
BY DEF Resources, Prims, Locked

\* The state of a resource.
LEMMA View ==
  ASSUME NEW r \in Resources
  PROVE  /\ LockCapacity[r] = IF r \notin Locked THEN 0
                              ELSE IF r \in Mutexes THEN 1
                              ELSE sem_nb_owners[r]
         /\ LockSleepers[r] = IF r \in Locked THEN Waiters(r) ELSE {}
         /\ \A t \in Tasks :
              LockHolds[r][t] = IF r \notin Locked THEN 0
                                ELSE IF r \in Sems THEN held[r][t]
                                ELSE IF p_overridden[r] = t
                                  THEN p_nb_owning[r] ELSE 0
BY DEF Resources, LockCapacity, LockSleepers, LockHolds

\* The same after a step.
LEMMA ViewAfter ==
  ASSUME NEW r \in Resources
  PROVE  /\ LockCapacity'[r] = IF r \notin Locked' THEN 0
                               ELSE IF r \in Mutexes THEN 1
                               ELSE sem_nb_owners'[r]
         /\ LockSleepers'[r] = IF r \in Locked' THEN Range(p_stopped'[r])
                               ELSE {}
         /\ \A t \in Tasks :
              LockHolds'[r][t] = IF r \notin Locked' THEN 0
                                 ELSE IF r \in Sems THEN held'[r][t]
                                 ELSE IF p_overridden'[r] = t
                                   THEN p_nb_owning'[r] ELSE 0
BY DEF Resources, LockCapacity, LockSleepers, LockHolds, Waiters

ViewTypes ==
  /\ LockCapacity \in [Resources -> Nat]
  /\ LockHolds \in [Resources -> [Tasks -> Nat]]
  /\ LockSleepers \in [Resources -> SUBSET Tasks]

LEMMA ViewType == TypeOK => ViewTypes
<1> SUFFICES ASSUME TypeOK PROVE ViewTypes
  OBVIOUS
<1>1. LockCapacity \in [Resources -> Nat]
  BY DEF TypeOK, LockCapacity, Resources
<1>2. \A r \in Mutexes : p_nb_owning[r] \in Nat
  BY DEF TypeOK, Prims
<1>3. LockHolds \in [Resources -> [Tasks -> Nat]]
  BY <1>2 DEF TypeOK, LockHolds, Resources
<1>4. \A r \in Resources : Waiters(r) \subseteq Tasks
  BY DEF TypeOK, Waiters, Range, Resources, Prims
<1>5. LockSleepers \in [Resources -> SUBSET Tasks]
  BY <1>4 DEF LockSleepers, Resources
<1> QED
  BY <1>1, <1>3, <1>5 DEF ViewTypes

LEMMA ViewTypeAfter == TypeOK' => ViewTypes'
BY ViewType, PTL

\* Functions that agree at every point are one.
LEMMA SameMatrix ==
  ASSUME NEW f \in [Resources -> [Tasks -> Nat]],
         NEW g \in [Resources -> [Tasks -> Nat]],
         \A r \in Resources, t \in Tasks : f[r][t] = g[r][t]
  PROVE  f = g
<1>1. \A r \in Resources : f[r] = g[r]
  OBVIOUS
<1> QED
  BY <1>1

LEMMA TotalIsTotal == \A h : Service!Total(h) = Total(h)
BY DEF Service!Total, Service!Units, Total, Units, Service!Cardinality,
   Cardinality

\* A mutex is full while it is owned, a semaphore when it is exhausted.
LEMMA FullIs ==
  ASSUME TypeOK, LockInv, NEW r \in Locked
  PROVE  /\ r \in Mutexes => (Service!Full(r) <=> p_nb_owning[r] # 0)
         /\ r \in Sems => (Service!Full(r) <=> Exhausted(r))
<1>1. r \in Resources /\ r \in live
  BY DEF Locked, Resources
<1>2. Service!Full(r) <=> Total(LockHolds[r]) = LockCapacity[r]
  BY TotalIsTotal DEF Service!Full
<1>3. LockHolds[r] \in [Tasks -> Nat] /\ IsFiniteSet(Tasks)
  BY <1>1, ViewType DEF ViewTypes
<1>4. ASSUME r \in Mutexes
      PROVE  Service!Full(r) <=> p_nb_owning[r] # 0
  <2>1. /\ LockCapacity[r] = 1
        /\ \A t \in Tasks : LockHolds[r][t] = IF p_overridden[r] = t
                                                THEN p_nb_owning[r] ELSE 0
    BY <1>1, <1>4, View, ResourceKinds
  <2>2. p_nb_owning[r] = IF p_overridden[r] = None THEN 0 ELSE 1
    BY <1>1, <1>4 DEF LockInv, MutexExclusion
  <2>3. CASE p_overridden[r] = None
    <3>1. \A t \in Tasks : LockHolds[r][t] = 0
      BY <2>1, <2>3
    <3>2. Total(LockHolds[r]) = 0
      BY <1>3, <3>1, TotalZero
    <3> QED
      BY <1>2, <2>1, <2>2, <2>3, <3>2
  <2>4. CASE p_overridden[r] # None
    <3> PICK t : t = p_overridden[r]
      OBVIOUS
    <3>1. t \in Tasks
      BY <1>1, <2>4, ResourceKinds DEF TypeOK
    <3>2. LockHolds[r][t] = 1 /\ \A u \in Tasks \ {t} : LockHolds[r][u] = 0
      BY <2>1, <2>2, <2>4, <3>1
    <3>3. Total(LockHolds[r]) = 1
      BY <1>3, <3>1, <3>2, TotalOne
    <3> QED
      BY <1>2, <2>1, <2>2, <2>4, <3>3
  <2> QED
    BY <2>3, <2>4
<1>5. ASSUME r \in Sems
      PROVE  Service!Full(r) <=> Exhausted(r)
  <2>1. /\ LockCapacity[r] = sem_nb_owners[r]
        /\ \A t \in Tasks : LockHolds[r][t] = held[r][t]
    BY <1>1, <1>5, View, ResourceKinds
  <2>2. held[r] \in [Tasks -> Nat]
    BY <1>5 DEF TypeOK
  <2>3. LockHolds[r] = held[r]
    BY <1>3, <2>1, <2>2
  <2>4. p_nb_owning[r] = Total(held[r])
    BY <1>1, <1>5 DEF LockInv, SemTakersCounted
  <2> QED
    BY <1>2, <2>1, <2>3, <2>4 DEF Exhausted
<1> QED
  BY <1>4, <1>5

\* A task that executes sleeps on nothing.
LEMMA CallerIsAwake ==
  ASSUME TypeOK, GraphInv, NEW t \in Tasks, t_stopper[t] = None
  PROVE  Service!Awake(t)
<1>1. ASSUME NEW r \in Resources PROVE t \notin LockSleepers[r]
  <2>1. r # None /\ (r \in Locked => r \in LivePrims)
    BY <1>1, ResourceKinds DEF Locked, LivePrims
  <2>2. r \in Locked => t \notin Waiters(r)
    BY <2>1 DEF GraphInv, Sleeping
  <2> QED
    BY <2>2, View
<1> QED
  BY <1>1 DEF Service!Awake, Resources

-----------------------------------------------------------------------------
(* The service's steps *)

Step == Service!Next \/ UNCHANGED Service!lockVars

\* A step changes nothing of r.
Still(r) ==
  /\ LockCapacity'[r] = LockCapacity[r]
  /\ LockSleepers'[r] = LockSleepers[r]
  /\ LockHolds'[r] = LockHolds[r]

LEMMA StillIs ==
  ASSUME TypeOK, TypeOK', NEW r \in Resources, r \in Locked' <=> r \in Locked,
         p_stopped'[r] = p_stopped[r],
         r \in Mutexes => /\ p_overridden'[r] = p_overridden[r]
                          /\ p_nb_owning'[r] = p_nb_owning[r],
         r \in Sems => /\ held'[r] = held[r]
                       /\ sem_nb_owners'[r] = sem_nb_owners[r]
  PROVE  Still(r)
<1>1. r \in Mutexes <=> r \notin Sems
  BY DEF Resources
<1>2. /\ LockCapacity'[r] = LockCapacity[r]
      /\ LockSleepers'[r] = LockSleepers[r]
  BY <1>1, View, ViewAfter DEF Waiters
<1>3. \A t \in Tasks : LockHolds'[r][t] = LockHolds[r][t]
  BY <1>1, View, ViewAfter
<1>4. LockHolds[r] \in [Tasks -> Nat] /\ LockHolds'[r] \in [Tasks -> Nat]
  BY ViewType, ViewTypeAfter DEF ViewTypes
<1>5. LockHolds'[r] = LockHolds[r]
  BY <1>3, <1>4
<1> QED
  BY <1>2, <1>5 DEF Still

\* Nothing changes.
LEMMA Skips ==
  ASSUME TypeOK, TypeOK', Locked' = Locked, \A r \in Resources : Still(r)
  PROVE  Step
<1>1. ViewTypes /\ ViewTypes'
  BY ViewType, ViewTypeAfter
<1>2. LockCapacity' = LockCapacity /\ LockSleepers' = LockSleepers
        /\ LockHolds' = LockHolds
  BY <1>1 DEF ViewTypes, Still
<1> QED
  BY <1>2 DEF Step, Service!lockVars

\* A task takes one unit of r.
LEMMA Takes ==
  ASSUME TypeOK, TypeOK', Locked' = Locked, NEW r \in Locked, NEW t \in Tasks,
         Service!Awake(t), ~Service!Full(r),
         \A q \in Resources \ {r} : Still(q),
         LockCapacity'[r] = LockCapacity[r],
         LockSleepers'[r] = LockSleepers[r],
         \A u \in Tasks : LockHolds'[r][u] = IF u = t THEN LockHolds[r][u] + 1
                                             ELSE LockHolds[r][u]
  PROVE  Step
<1>1. ViewTypes /\ ViewTypes' /\ r \in Resources
  BY ViewType, ViewTypeAfter, ResourceKinds
<1>2. LockCapacity' = LockCapacity /\ LockSleepers' = LockSleepers
  BY <1>1 DEF ViewTypes, Still
<1> PICK g : g = [LockHolds EXCEPT ![r][t] = @ + 1]
  OBVIOUS
<1>3. g \in [Resources -> [Tasks -> Nat]]
  BY <1>1 DEF ViewTypes
<1>4. \A q \in Resources, u \in Tasks : LockHolds'[q][u] = g[q][u]
  BY <1>1 DEF ViewTypes, Still
<1>5. LockHolds' = g
  BY <1>1, <1>3, <1>4, SameMatrix DEF ViewTypes
<1>6. Service!Take(t, r)
  BY <1>2, <1>5 DEF Service!Take
<1> QED
  BY <1>1, <1>6 DEF Step, Service!Next, Resources

\* A task gives one unit of r back; nobody waits for r.
LEMMA Gives ==
  ASSUME TypeOK, TypeOK', Locked' = Locked, NEW r \in Locked, NEW t \in Tasks,
         Service!Awake(t), LockHolds[r][t] > 0, LockSleepers[r] = {},
         \A q \in Resources \ {r} : Still(q),
         LockCapacity'[r] = LockCapacity[r],
         LockSleepers'[r] = LockSleepers[r],
         \A u \in Tasks : LockHolds'[r][u] = IF u = t THEN LockHolds[r][u] - 1
                                             ELSE LockHolds[r][u]
  PROVE  Step
<1>1. ViewTypes /\ ViewTypes' /\ r \in Resources
  BY ViewType, ViewTypeAfter, ResourceKinds
<1>2. LockCapacity' = LockCapacity /\ LockSleepers' = LockSleepers
  <2>1. \A q \in Resources : /\ LockCapacity'[q] = LockCapacity[q]
                             /\ LockSleepers'[q] = LockSleepers[q]
    BY DEF Still
  <2>2. LockCapacity' = LockCapacity
    BY <1>1, <2>1 DEF ViewTypes
  <2>3. LockSleepers' = LockSleepers
    BY <1>1, <2>1 DEF ViewTypes
  <2> QED
    BY <2>2, <2>3
<1> PICK g : g = [LockHolds EXCEPT ![r][t] = @ - 1]
  OBVIOUS
<1>3. g \in [Resources -> [Tasks -> Nat]]
  BY <1>1 DEF ViewTypes
<1>4. \A q \in Resources, u \in Tasks : LockHolds'[q][u] = g[q][u]
  BY <1>1 DEF ViewTypes, Still
<1>5. LockHolds' = g
  BY <1>1, <1>3, <1>4, SameMatrix DEF ViewTypes
<1>6. Service!Give(t, r)
  BY <1>2, <1>5 DEF Service!Give
<1> QED
  BY <1>1, <1>6 DEF Step, Service!Next, Resources

\* A task falls asleep on r.
LEMMA Sleeps ==
  ASSUME TypeOK, TypeOK', Locked' = Locked, NEW r \in Locked, NEW t \in Tasks,
         Service!Awake(t), Service!Full(r),
         \A q \in Resources \ {r} : Still(q),
         LockCapacity'[r] = LockCapacity[r],
         LockSleepers'[r] = LockSleepers[r] \cup {t},
         LockHolds'[r] = LockHolds[r]
  PROVE  Step
<1>1. ViewTypes /\ ViewTypes' /\ r \in Resources
  BY ViewType, ViewTypeAfter, ResourceKinds
<1>2. LockCapacity' = LockCapacity /\ LockHolds' = LockHolds
  BY <1>1 DEF ViewTypes, Still
<1>3. LockSleepers' = [LockSleepers EXCEPT ![r] = @ \cup {t}]
  BY <1>1 DEF ViewTypes, Still
<1>4. Service!Sleep(t, r)
  BY <1>2, <1>3 DEF Service!Sleep
<1> QED
  BY <1>1, <1>4 DEF Step, Service!Next, Resources

\* r is created, held by nobody, with a capacity the service knows.
LEMMA Creates ==
  ASSUME TypeOK, TypeOK', NEW r \in Resources \ Locked,
         Locked' = Locked \cup {r}, LockCapacity'[r] \in Takings \cup {1},
         \A q \in Resources \ {r} : Still(q),
         LockSleepers'[r] = {}, \A u \in Tasks : LockHolds'[r][u] = 0
  PROVE  Step
<1>1. ViewTypes /\ ViewTypes'
  BY ViewType, ViewTypeAfter
<1>2. LockSleepers[r] = {} /\ \A u \in Tasks : LockHolds[r][u] = 0
  BY View
<1>3. LockSleepers' = LockSleepers
  <2>1. \A q \in Resources : LockSleepers'[q] = LockSleepers[q]
    BY <1>2 DEF Still
  <2> QED
    BY <1>1, <2>1 DEF ViewTypes
<1>4. LockHolds' = LockHolds
  <2>1. \A q \in Resources, u \in Tasks : LockHolds'[q][u] = LockHolds[q][u]
    BY <1>2 DEF Still
  <2> QED
    BY <1>1, <2>1, SameMatrix DEF ViewTypes
<1>5. LockCapacity' = [LockCapacity EXCEPT ![r] = LockCapacity'[r]]
  BY <1>1 DEF ViewTypes, Still
<1>6. Service!Create(r)
  BY <1>3, <1>4, <1>5 DEF Service!Create
<1> QED
  BY <1>6 DEF Step, Service!Next, Resources

\* The resources of R are destroyed.
LEMMA Destroys ==
  ASSUME TypeOK, TypeOK', NEW R \in SUBSET Locked, Locked' = Locked \ R,
         \A q \in Resources \ R : Still(q)
  PROVE  Step
<1>1. ViewTypes /\ ViewTypes' /\ Locked \subseteq Resources
  BY ViewType, ViewTypeAfter, ResourceKinds
<1>2. \A r \in R : /\ r \in Resources /\ LockCapacity'[r] = 0
                   /\ LockSleepers'[r] = {}
                   /\ \A u \in Tasks : LockHolds'[r][u] = 0
  BY <1>1, ViewAfter
<1>3. LockCapacity' = [r \in Resources |-> IF r \in R THEN 0
                                           ELSE LockCapacity[r]]
  BY <1>1, <1>2 DEF ViewTypes, Still
<1>4. LockSleepers' = [r \in Resources |-> IF r \in R THEN {}
                                           ELSE LockSleepers[r]]
  BY <1>1, <1>2 DEF ViewTypes, Still
<1>5. LockHolds' = [r \in Resources |-> IF r \in R THEN Service!Nobody
                                        ELSE LockHolds[r]]
  <2> PICK g : g = [r \in Resources |-> IF r \in R THEN Service!Nobody
                                        ELSE LockHolds[r]]
    OBVIOUS
  <2>1. Service!Nobody \in [Tasks -> Nat]
    BY DEF Service!Nobody
  <2>2. g \in [Resources -> [Tasks -> Nat]]
    BY <1>1, <2>1 DEF ViewTypes
  <2>3. \A q \in Resources, u \in Tasks : LockHolds'[q][u] = g[q][u]
    BY <1>2 DEF Still, Service!Nobody
  <2>4. LockHolds' = g
    BY <1>1, <2>2, <2>3, SameMatrix DEF ViewTypes
  <2> QED
    BY <2>4
<1>6. Service!Destroy(R)
  BY <1>3, <1>4, <1>5 DEF Service!Destroy, Resources
<1> QED
  BY <1>6 DEF Step, Service!Next

-----------------------------------------------------------------------------
(* Calls on mutexes and semaphores *)

LEMMA MutexTakeStep ==
  ASSUME TypeOK, TypeOK', ThreadInv, GraphInv, LockInv,
         NEW th \in Threads, NEW m \in Mutexes, MutexTake(th, m)
  PROVE  Step
<1> PICK t : t = th_task[th]
  OBVIOUS
<1>1. /\ ThreadActive(th) /\ m \in live /\ p_nb_owning[m] = 0
      /\ TakeOwnership(m, t) /\ Override(m, t, t_status, p_updated)
      /\ UNCHANGED <<primVars, stopVars, live, held>>
  BY DEF MutexTake, Calls, Unlocked
<1>2. t \in Tasks /\ t_stopper[t] = None
  BY <1>1, CallerCovers
<1>3. m \in Resources /\ m \in Locked /\ Locked' = Locked /\ m \in Prims
        /\ m \notin Sems
  BY <1>1, ResourceKinds DEF Locked, Resources
<1>4. /\ p_nb_owning'[m] = 1 /\ p_overridden'[m] = t
      /\ \A q \in Prims \ {m} : /\ p_nb_owning'[q] = p_nb_owning[q]
                                /\ p_overridden'[q] = p_overridden[q]
  BY <1>1, <1>3 DEF TakeOwnership, Override, TypeOK
<1>5. p_overridden[m] = None /\ None \notin Tasks
  BY <1>1 DEF LockInv, MutexExclusion
<1>6. Service!Awake(t)
  BY <1>2, CallerIsAwake
<1>7. ~Service!Full(m)
  BY <1>1, <1>3, FullIs
<1>8. ASSUME NEW q \in Resources \ {m} PROVE Still(q)
  BY <1>1, <1>3, <1>4, StillIs, ResourceKinds DEF primVars, stopVars
<1>9. LockCapacity'[m] = LockCapacity[m] /\ LockSleepers'[m] = LockSleepers[m]
  BY <1>1, <1>3, View, ViewAfter DEF stopVars, Waiters
<1>10. \A u \in Tasks : /\ LockHolds[m][u] = 0
                        /\ LockHolds'[m][u] = IF u = t THEN 1 ELSE 0
  BY <1>3, <1>4, <1>5, View, ViewAfter
<1>11. \A u \in Tasks : LockHolds'[m][u] = IF u = t THEN LockHolds[m][u] + 1
                                           ELSE LockHolds[m][u]
  BY <1>10
<1> QED
  BY <1>2, <1>3, <1>6, <1>7, <1>8, <1>9, <1>11, Takes

LEMMA MutexUnlockStep ==
  ASSUME TypeOK, TypeOK', ThreadInv, GraphInv, LockInv,
         NEW th \in Threads, NEW m \in Mutexes, MutexUnlock(th, m)
  PROVE  Step
<1> PICK t : t = th_task[th]
  OBVIOUS
<1>1. /\ ThreadActive(th) /\ m \in live /\ p_overridden[m] = t
      /\ ~HasWaiters(m) /\ UnlocksOwn(th, m)
      /\ ReleaseOwnership(m, t) /\ Override(m, None, t_status, p_updated)
      /\ UNCHANGED <<primVars, stopVars, live, held>>
  BY DEF MutexUnlock, UnlocksOwn, Calls
<1>2. t \in Tasks /\ t_stopper[t] = None /\ p_nb_owning[m] = 1
  BY <1>1, CallerCovers, OwnerReleases
<1>3. m \in Resources /\ m \in Locked /\ Locked' = Locked /\ m \in Prims
        /\ m \notin Sems
  BY <1>1, ResourceKinds DEF Locked, Resources
<1>4. /\ p_nb_owning'[m] = 0 /\ p_overridden'[m] = None
      /\ \A q \in Prims \ {m} : /\ p_nb_owning'[q] = p_nb_owning[q]
                                /\ p_overridden'[q] = p_overridden[q]
  BY <1>1, <1>2, <1>3 DEF ReleaseOwnership, Override, TypeOK
<1>5. Service!Awake(t) /\ None \notin Tasks
  BY <1>2, CallerIsAwake
<1>6. LockSleepers[m] = {}
  <2>1. Waiters(m) = {}
    BY <1>1 DEF HasWaiters, Waiters, Range
  <2> QED
    BY <1>3, <2>1, View
<1>7. ASSUME NEW q \in Resources \ {m} PROVE Still(q)
  BY <1>1, <1>3, <1>4, StillIs, ResourceKinds DEF primVars, stopVars
<1>8. LockCapacity'[m] = LockCapacity[m] /\ LockSleepers'[m] = LockSleepers[m]
  BY <1>1, <1>3, View, ViewAfter DEF stopVars, Waiters
<1>9. \A u \in Tasks : /\ LockHolds[m][u] = IF u = t THEN 1 ELSE 0
                       /\ LockHolds'[m][u] = 0
  BY <1>1, <1>2, <1>3, <1>4, <1>5, View, ViewAfter
<1>10. /\ LockHolds[m][t] > 0
       /\ \A u \in Tasks : LockHolds'[m][u] = IF u = t THEN LockHolds[m][u] - 1
                                              ELSE LockHolds[m][u]
  BY <1>2, <1>9
<1> QED
  BY <1>2, <1>3, <1>5, <1>6, <1>7, <1>8, <1>10, Gives

\* A task is stopped on a full resource.
LEMMA BlockStep ==
  ASSUME TypeOK, TypeOK', ThreadInv, GraphInv, NEW r \in Locked,
         NEW th \in Threads, ThreadActive(th), Service!Full(r),
         StopThread(r, th), UNCHANGED <<primVars, ownVars, overrideVars, live>>
  PROVE  Step
<1> PICK t : t = th_task[th]
  OBVIOUS
<1>1. t \in Tasks /\ t_stopper[t] = None
  BY CallerAwake
<1>2. r \in Resources /\ r \in Prims /\ Locked' = Locked
  BY ResourceKinds DEF Locked
<1>3. /\ p_stopped'[r] = Append(p_stopped[r], t)
      /\ \A q \in Prims \ {r} : p_stopped'[q] = p_stopped[q]
  BY <1>2 DEF StopThread, StopTask, TypeOK
<1>4. Service!Awake(t)
  BY <1>1, CallerIsAwake
<1>5. ASSUME NEW q \in Resources \ {r} PROVE Still(q)
  BY <1>2, <1>3, StillIs, ResourceKinds DEF primVars, ownVars, overrideVars
<1>6. p_stopped[r] \in Seq(Tasks)
  BY <1>2 DEF TypeOK
<1>7. Range(p_stopped'[r]) = Waiters(r) \cup {t}
  BY <1>1, <1>3, <1>6, AppendWaiter DEF Waiters
<1>8. LockSleepers'[r] = LockSleepers[r] \cup {t}
  BY <1>2, <1>7, View, ViewAfter
<1>9. LockCapacity'[r] = LockCapacity[r]
  BY <1>2, View, ViewAfter DEF primVars
<1>10. LockHolds'[r] = LockHolds[r]
  <2>1. \A u \in Tasks : LockHolds'[r][u] = LockHolds[r][u]
    BY <1>2, View, ViewAfter DEF ownVars, overrideVars
  <2>2. LockHolds[r] \in [Tasks -> Nat] /\ LockHolds'[r] \in [Tasks -> Nat]
    BY <1>2, ViewType, ViewTypeAfter DEF ViewTypes
  <2> QED
    BY <2>1, <2>2
<1> QED
  BY <1>1, <1>2, <1>4, <1>5, <1>8, <1>9, <1>10, Sleeps

LEMMA SemTakeStep ==
  ASSUME TypeOK, TypeOK', ThreadInv, GraphInv, LockInv,
         NEW th \in Threads, NEW s \in Sems, SemTake(th, s)
  PROVE  Step
<1> PICK t : t = th_task[th]
  OBVIOUS
<1>1. /\ ThreadActive(th) /\ s \in live /\ ~Exhausted(s)
      /\ TakeOwnership(s, t)
      /\ held' = [held EXCEPT ![s][t] = @ + 1]
      /\ UNCHANGED <<primVars, overrideVars, stopVars, live>>
  BY DEF SemTake, Calls
<1>2. t \in Tasks /\ t_stopper[t] = None
  BY <1>1, CallerCovers
<1>3. s \in Resources /\ s \in Locked /\ Locked' = Locked /\ s \in Prims
        /\ s \notin Mutexes
  BY <1>1, ResourceKinds DEF Locked, Resources
<1>4. /\ \A q \in Prims \ {s} : p_nb_owning'[q] = p_nb_owning[q]
      /\ \A q \in Sems \ {s} : held'[q] = held[q]
      /\ \A u \in Tasks : held'[s][u] = IF u = t THEN held[s][u] + 1
                                        ELSE held[s][u]
  BY <1>1, <1>2, <1>3 DEF TakeOwnership, TypeOK
<1>5. Service!Awake(t)
  BY <1>2, CallerIsAwake
<1>6. ~Service!Full(s)
  BY <1>1, <1>3, FullIs
<1>7. ASSUME NEW q \in Resources \ {s} PROVE Still(q)
  BY <1>1, <1>3, <1>4, StillIs, ResourceKinds
     DEF primVars, stopVars, overrideVars
<1>8. LockCapacity'[s] = LockCapacity[s] /\ LockSleepers'[s] = LockSleepers[s]
  BY <1>1, <1>3, View, ViewAfter DEF stopVars, primVars, Waiters
<1>9. \A u \in Tasks : LockHolds'[s][u] = IF u = t THEN LockHolds[s][u] + 1
                                          ELSE LockHolds[s][u]
  BY <1>3, <1>4, View, ViewAfter
<1> QED
  BY <1>2, <1>3, <1>5, <1>6, <1>7, <1>8, <1>9, Takes

LEMMA SemReleaseStep ==
  ASSUME TypeOK, TypeOK', ThreadInv, GraphInv, LockInv, OwnersOnly,
         NEW th \in Threads, NEW s \in Sems, SemRelease(th, s)
  PROVE  Step
<1> PICK t : t = th_task[th]
  OBVIOUS
<1>1. /\ ThreadActive(th) /\ s \in live /\ ~HasWaiters(s)
      /\ MayRelease(th, s) /\ ReleaseOwnership(s, t) /\ Untake(s, t)
      /\ UNCHANGED <<primVars, overrideVars, stopVars, live>>
  BY DEF SemRelease, MayRelease, Calls
<1>2. t \in Tasks /\ t_stopper[t] = None /\ held[s][t] > 0
  BY <1>1, CallerCovers, TakerReleases
<1>3. s \in Resources /\ s \in Locked /\ Locked' = Locked /\ s \in Prims
        /\ s \notin Mutexes
  BY <1>1, ResourceKinds DEF Locked, Resources
<1>4. /\ \A q \in Prims \ {s} : p_nb_owning'[q] = p_nb_owning[q]
      /\ \A q \in Sems \ {s} : held'[q] = held[q]
      /\ \A u \in Tasks : held'[s][u] = IF u = t THEN held[s][u] - 1
                                        ELSE held[s][u]
  BY <1>1, <1>2, <1>3 DEF ReleaseOwnership, Untake, TypeOK
<1>5. Service!Awake(t)
  BY <1>2, CallerIsAwake
<1>6. LockSleepers[s] = {}
  <2>1. Waiters(s) = {}
    BY <1>1 DEF HasWaiters, Waiters, Range
  <2> QED
    BY <1>3, <2>1, View
<1>7. ASSUME NEW q \in Resources \ {s} PROVE Still(q)
  BY <1>1, <1>3, <1>4, StillIs, ResourceKinds
     DEF primVars, stopVars, overrideVars
<1>8. LockCapacity'[s] = LockCapacity[s] /\ LockSleepers'[s] = LockSleepers[s]
  BY <1>1, <1>3, View, ViewAfter DEF stopVars, primVars, Waiters
<1>9. /\ LockHolds[s][t] > 0
      /\ \A u \in Tasks : LockHolds'[s][u] = IF u = t THEN LockHolds[s][u] - 1
                                             ELSE LockHolds[s][u]
  BY <1>2, <1>3, <1>4, View, ViewAfter
<1> QED
  BY <1>2, <1>3, <1>5, <1>6, <1>7, <1>8, <1>9, Gives

-----------------------------------------------------------------------------
(* Steps the service does not see *)

LEMMA Unseen ==
  ASSUME TypeOK, TypeOK', Locked' = Locked,
         \A m \in Mutexes : /\ p_overridden'[m] = p_overridden[m]
                            /\ p_nb_owning'[m] = p_nb_owning[m],
         \A s \in Sems : held'[s] = held[s]
                         /\ sem_nb_owners'[s] = sem_nb_owners[s],
         \A r \in Resources : p_stopped'[r] = p_stopped[r]
  PROVE  Step
<1>1. ASSUME NEW r \in Resources PROVE Still(r)
  BY StillIs
<1> QED
  BY <1>1, Skips

LEMMA UnseenQuiet ==
  ASSUME TypeOK, TypeOK', Locked' = Locked,
         UNCHANGED <<p_overridden, ownVars, sem_nb_owners, p_stopped>>
  PROVE  Step
BY Unseen DEF ownVars

LEMMA FaultUnseen ==
  ASSUME TypeOK, TypeOK', NEW kind, Fault(kind)
  PROVE  Step
BY UnseenQuiet DEF Fault, overrideVars, primVars, stopVars, Locked

\* Tasks are no resources.
LEMMA TaskUnseen ==
  ASSUME NEW t \in Tasks, live' = live \cup {t} \/ live' = live \ {t}
  PROVE  Locked' = Locked
BY ResourceKinds DEF Locked, Resources

-----------------------------------------------------------------------------
(* Creation and destruction *)

LEMMA ConstructStep ==
  ASSUME TypeOK, TypeOK', GraphInv, LockInv,
         NEW r \in Resources, NEW prc \in Procs,
         MayConstruct(r, prc), InitPrim(r, prc), live' = live \cup {r},
         \A s \in Sems \ {r} : sem_nb_owners'[s] = sem_nb_owners[s],
         r \in Sems => sem_nb_owners'[r] \in Takings,
         UNCHANGED held
  PROVE  Step
<1>1. r \in Prims /\ r \notin Locked /\ Locked' = Locked \cup {r}
  BY ResourceKinds DEF Locked, MayConstruct, Resources
<1>2. r \in Sems => \A t \in Tasks : held[r][t] = 0
  BY ConstructedIsFree DEF Resources
<1>3. /\ p_stopped'[r] = <<>> /\ p_overridden'[r] = None
      /\ \A q \in Prims \ {r} : /\ p_stopped'[q] = p_stopped[q]
                                /\ p_overridden'[q] = p_overridden[q]
                                /\ p_nb_owning'[q] = p_nb_owning[q]
  BY <1>1 DEF InitPrim, TypeOK
<1>4. ASSUME NEW q \in Resources \ {r} PROVE Still(q)
  BY <1>1, <1>3, StillIs, ResourceKinds
<1>5. LockCapacity'[r] \in Takings \cup {1}
  BY <1>1, ViewAfter DEF Resources
<1>6. LockSleepers'[r] = {}
  <2>1. Range(p_stopped'[r]) = {}
    BY <1>3 DEF Range
  <2> QED
    BY <2>1, ViewAfter
<1>7. \A u \in Tasks : LockHolds'[r][u] = 0
  BY <1>2, <1>3, ViewAfter
<1> QED
  BY <1>1, <1>4, <1>5, <1>6, <1>7, Creates

LEMMA UnregisterPrimStep ==
  ASSUME TypeOK, TypeOK', NEW p \in Mutexes \cup Sems, UnregisterPrim(p)
  PROVE  Step
<1>1. /\ p \in live /\ live' = live \ {p}
      /\ p_stopped' = [p_stopped EXCEPT ![p] = <<>>]
      /\ held' = [s \in Sems |-> IF s = p THEN [t \in Tasks |-> 0]
                                 ELSE held[s]]
      /\ \E status, flagged : Override(p, None, status, flagged)
      /\ UNCHANGED <<sem_nb_owners, p_nb_owning>>
  BY DEF UnregisterPrim
<1>2. p \in Prims /\ {p} \in SUBSET Locked /\ Locked' = Locked \ {p}
  BY <1>1, ResourceKinds DEF Locked, Resources
<1>3. \A q \in Prims \ {p} : /\ p_stopped'[q] = p_stopped[q]
                             /\ p_overridden'[q] = p_overridden[q]
  BY <1>1, <1>2 DEF Override, TypeOK
<1>4. ASSUME NEW q \in Resources \ {p} PROVE Still(q)
  BY <1>1, <1>2, <1>3, StillIs, ResourceKinds
<1> QED
  BY <1>2, <1>4, Destroys

\* A process's removal destroys all its resources at once.
LEMMA UnregisterProcessStep ==
  ASSUME TypeOK, TypeOK', NEW prc \in Procs, UnregisterProcess(prc)
  PROVE  Step
<1> PICK R : R = {r \in Locked : p_process[r] = prc}
  OBVIOUS
<1>1. /\ live' = {x \in live : \/ x \in Tasks /\ t_process[x] # prc
                               \/ x \in Prims /\ p_process[x] # prc}
      /\ UNCHANGED <<primVars, ownVars, overrideVars, p_stopped>>
  BY DEF UnregisterProcess
<1>2. R \in SUBSET Locked /\ Locked' = Locked \ R
  BY <1>1, ResourceKinds DEF Locked, Resources
<1>3. ASSUME NEW q \in Resources \ R PROVE Still(q)
  BY <1>1, <1>2, StillIs DEF primVars, ownVars, overrideVars
<1> QED
  BY <1>2, <1>3, Destroys

-----------------------------------------------------------------------------
(* Every step *)

LEMMA MutexStep ==
  ASSUME TypeOK, TypeOK', ThreadInv, GraphInv, LockInv,
         NEW th \in Threads, NEW m \in Mutexes
  PROVE  /\ MutexTake(th, m) => Step
         /\ MutexBlock(th, m) => Step
         /\ MutexUnlockFails(th, m) => Step
         /\ MutexUnlock(th, m) => Step
         /\ MutexUnlockWild(th, m) => Step
<1>1. ASSUME MutexBlock(th, m) PROVE Step
  <2>1. m \in Locked /\ p_nb_owning[m] # 0
    BY <1>1 DEF MutexBlock, Calls, Unlocked, Locked
  <2>2. /\ ThreadActive(th) /\ StopThread(m, th)
        /\ UNCHANGED <<primVars, ownVars, overrideVars, live>>
    BY <1>1 DEF MutexBlock, Calls, StopThread, StopTask, ownVars
  <2>3. Service!Full(m)
    BY <2>1, FullIs
  <2> QED
    BY <2>1, <2>2, <2>3, BlockStep
<1>2. ASSUME MutexUnlockWild(th, m) PROVE Step
  BY <1>2, FaultUnseen DEF MutexUnlockWild
<1>3. ~MutexUnlockFails(th, m)
  BY OwnerReleases DEF MutexUnlockFails
<1> QED
  BY <1>1, <1>2, <1>3, MutexTakeStep, MutexUnlockStep

LEMMA SemStep ==
  ASSUME TypeOK, TypeOK', ThreadInv, GraphInv, LockInv, OwnersOnly,
         NEW th \in Threads, NEW s \in Sems
  PROVE  /\ SemTake(th, s) => Step
         /\ SemBlock(th, s) => Step
         /\ SemReleaseFails(th, s) => Step
         /\ SemRelease(th, s) => Step
         /\ SemReleaseWild(th, s) => Step
<1>1. ASSUME SemBlock(th, s) PROVE Step
  <2>1. s \in Locked /\ Exhausted(s)
    BY <1>1 DEF SemBlock, Calls, Locked
  <2>2. /\ ThreadActive(th) /\ StopThread(s, th)
        /\ UNCHANGED <<primVars, ownVars, overrideVars, live>>
    BY <1>1 DEF SemBlock, Calls, ownVars
  <2>3. Service!Full(s)
    BY <2>1, FullIs
  <2> QED
    BY <2>1, <2>2, <2>3, BlockStep
<1>2. ASSUME SemReleaseWild(th, s) PROVE Step
  BY <1>2, FaultUnseen DEF SemReleaseWild
<1>3. ~SemReleaseFails(th, s)
  BY TakerReleases DEF SemReleaseFails
<1> QED
  BY <1>1, <1>2, <1>3, SemTakeStep, SemReleaseStep

LEMMA ProcessStep ==
  ASSUME TypeOK, TypeOK', GraphInv, LockInv, ProcessNext
  PROVE  Step
<1> PICK prc \in Procs :
      \/ RegisterProcess(prc)
      \/ \E t \in Tasks : RegisterTask(prc, t)
      \/ \E m \in Mutexes : RegisterMutex(prc, m)
      \/ \E s \in Sems, n \in Takings : RegisterSem(prc, s, n)
      \/ UnregisterProcess(prc)
      \/ PauseProcess(prc)
      \/ PauseProcessAborts(prc)
      \/ ResumeProcess(prc)
      \/ ResumeProcessWild(prc)
  BY DEF ProcessNext
<1>1. CASE RegisterProcess(prc)
  <2>1. \A q \in Prims \ {prc} : /\ p_stopped'[q] = p_stopped[q]
                                 /\ p_overridden'[q] = p_overridden[q]
                                 /\ p_nb_owning'[q] = p_nb_owning[q]
    BY <1>1 DEF RegisterProcess, InitPrim, TypeOK
  <2>2. \A r \in Resources : r \in Prims \ {prc}
    BY ResourceKinds
  <2>3. Locked' = Locked /\ UNCHANGED <<held, sem_nb_owners>>
    BY <1>1 DEF RegisterProcess, Locked
  <2> QED
    BY <2>1, <2>2, <2>3, Unseen DEF Resources
<1>2. CASE \E t \in Tasks : RegisterTask(prc, t)
  <2> PICK t \in Tasks : RegisterTask(prc, t)
    BY <1>2
  <2>1. Locked' = Locked
    BY TaskUnseen DEF RegisterTask
  <2>2. /\ UNCHANGED <<p_overridden, p_nb_owning, held, p_stopped>>
        /\ UNCHANGED sem_nb_owners
    BY DEF RegisterTask, primVars
  <2> QED
    BY <2>1, <2>2, Unseen
<1>3. CASE \E m \in Mutexes : RegisterMutex(prc, m)
  <2> PICK m \in Mutexes : RegisterMutex(prc, m)
    BY <1>3
  <2>1. m \in Resources /\ m \notin Sems
    BY DEF Resources
  <2> QED
    BY <2>1, ConstructStep DEF RegisterMutex
<1>4. CASE \E s \in Sems, n \in Takings : RegisterSem(prc, s, n)
  <2> PICK s \in Sems, n \in Takings : RegisterSem(prc, s, n)
    BY <1>4
  <2>1. s \in Resources
    BY DEF Resources
  <2>2. /\ sem_nb_owners'[s] \in Takings
        /\ \A q \in Sems \ {s} : sem_nb_owners'[q] = sem_nb_owners[q]
    BY DEF RegisterSem, TypeOK
  <2> QED
    BY <2>1, <2>2, ConstructStep DEF RegisterSem
<1>5. CASE PauseProcess(prc)
  <2>1. \A q \in Prims \ {prc} : p_stopped'[q] = p_stopped[q]
    BY <1>5 DEF PauseProcess, TypeOK
  <2>2. \A r \in Resources : r \in Prims \ {prc}
    BY ResourceKinds
  <2>3. /\ Locked' = Locked
        /\ UNCHANGED <<p_overridden, p_nb_owning, held, sem_nb_owners>>
    BY <1>5 DEF PauseProcess, Locked, overrideVars, ownVars, primVars
  <2> QED
    BY <2>1, <2>2, <2>3, Unseen
<1>6. CASE ResumeProcess(prc)
  BY <1>6, UnseenQuiet
     DEF ResumeProcess, Locked, overrideVars, ownVars, primVars, stopVars
<1>7. CASE PauseProcessAborts(prc) \/ ResumeProcessWild(prc)
  BY <1>7, FaultUnseen DEF PauseProcessAborts, ResumeProcessWild
<1> QED
  BY <1>1, <1>2, <1>3, <1>4, <1>5, <1>6, <1>7, UnregisterProcessStep

\* Every call of the scheduler is a step of the lock service or none.
LEMMA NextStep ==
  ASSUME OwnersOnly
  PROVE  TypeOK /\ ThreadInv /\ GraphInv /\ LockInv /\ [Next]_vars => Step
<1> SUFFICES ASSUME TypeOK, ThreadInv, GraphInv, LockInv, [Next]_vars
             PROVE  Step
  OBVIOUS
<1>1. TypeOK'
  BY NextType
<1>2. CASE MutexNext
  BY <1>1, <1>2, MutexStep DEF MutexNext
<1>3. CASE SemNext
  BY <1>1, <1>3, SemStep DEF SemNext
<1>4. CASE ProcessNext
  BY <1>1, <1>4, ProcessStep
<1>5. CASE PrimNext
  BY <1>1, <1>5, UnregisterPrimStep, FaultUnseen
     DEF PrimNext, UnregisterPrimAborts
<1>6. CASE ThreadNext
  <2> PICK th \in Threads : \/ RegisterThread(th) \/ UnregisterThread(th)
                            \/ UnregisterTask(th) \/ UnregisterTaskWild(th)
    BY <1>6 DEF ThreadNext
  <2>1. CASE RegisterThread(th) \/ UnregisterThread(th)
    BY <1>1, <2>1, UnseenQuiet DEF RegisterThread, UnregisterThread, Locked,
       overrideVars, primVars, stopVars
  <2>2. CASE UnregisterTask(th)
    <3>1. th_task[th] \in Tasks /\ live' = live \ {th_task[th]}
      BY <2>2, CallerIsTask DEF UnregisterTask
    <3>2. Locked' = Locked
      BY <3>1, TaskUnseen
    <3> QED
      BY <1>1, <2>2, <3>2, UnseenQuiet
         DEF UnregisterTask, overrideVars, primVars
  <2>3. CASE UnregisterTaskWild(th)
    BY <1>1, <2>3, FaultUnseen DEF UnregisterTaskWild
  <2> QED
    BY <2>1, <2>2, <2>3
<1>7. CASE CommitNext
  BY <1>1, <1>7, UnseenQuiet DEF CommitNext, OpenCommit, CloseCommit, Locked,
     overrideVars, primVars, stopVars
<1>8. CASE UNCHANGED vars
  BY <1>1, <1>8, UnseenQuiet DEF vars, Locked, overrideVars, primVars, stopVars
<1> QED
  BY <1>2, <1>3, <1>4, <1>5, <1>6, <1>7, <1>8 DEF Next

LEMMA InitService == Init => Service!Init
<1> SUFFICES ASSUME Init PROVE Service!Init
  OBVIOUS
<1>1. Locked = {}
  BY DEF Init, Locked
<1> QED
  BY <1>1 DEF Service!Init, Service!Nobody, LockCapacity, LockHolds,
     LockSleepers

\* The scheduler implements the lock service that mutex.h and sem.h describe,
\* for as long as it runs and callers release only what they have taken.
THEOREM SchedulerImplementsLocks ==
  ASSUME OwnersOnly
  PROVE  Spec => LocksImplemented
<1>1. TypeOK /\ ThreadInv /\ GraphInv /\ LockInv /\ [Next]_vars
        => [Service!Next]_(Service!lockVars)
  BY NextStep DEF Step
<1> QED
  BY <1>1, InitService, TypeCorrect, ThreadInvHolds, GraphInvHolds,
     LockInvHolds, PTL DEF Spec, LocksImplemented, Service!Spec
=============================================================================
