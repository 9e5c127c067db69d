-------------------------- MODULE KernelLockProofs --------------------------
(***************************************************************************)
(* Mutexes and semaphores, for every number of tasks and every capacity,   *)
(* when callers release only what they have taken: nobody loses a lock,    *)
(* sleeps on a free one, or fails to give back what it holds.              *)
(***************************************************************************)
EXTENDS KernelGraphProofs, TotalProofs

USE ConstantsOK

-----------------------------------------------------------------------------
(* What a task owns *)

\* A task sleeps on such a primitive rightly.
Busy(p) ==
  /\ p \in Mutexes => p_nb_owning[p] # 0
  /\ p \in Sems => p_nb_owning[p] = sem_nb_owners[p]

MutexesOf(t) == {m \in Mutexes \cap live : p_overridden[m] = t}
TakingsOf(t) == [s \in Sems |-> held[s][t]]

LEMMA CoversIs ==
  OwnerCounterCovers <=>
    \A t \in LiveTasks :
      t_nb_owned[t] >= Cardinality(MutexesOf(t)) + Total(TakingsOf(t))
BY DEF OwnerCounterCovers, MutexesOf, TakingsOf

LEMMA OwnedTypes ==
  ASSUME TypeOK, NEW t \in Tasks
  PROVE  /\ IsFiniteSet(MutexesOf(t)) /\ Cardinality(MutexesOf(t)) \in Nat
         /\ TakingsOf(t) \in [Sems -> Nat] /\ Total(TakingsOf(t)) \in Nat
         /\ \A s \in Sems : held[s] \in [Tasks -> Nat]
                            /\ Total(held[s]) \in Nat
<1>1. IsFiniteSet(Mutexes) /\ IsFiniteSet(Sems) /\ IsFiniteSet(Tasks)
  OBVIOUS
<1>2. MutexesOf(t) \in SUBSET Mutexes
  BY DEF MutexesOf
<1>3. IsFiniteSet(MutexesOf(t))
  BY <1>1, <1>2, FS_Subset
<1>4. Cardinality(MutexesOf(t)) \in Nat
  BY <1>3, FS_CardinalityType
<1>5. TakingsOf(t) \in [Sems -> Nat]
  BY DEF TakingsOf, TypeOK
<1>6. Total(TakingsOf(t)) \in Nat
  BY <1>1, <1>5, TotalType
<1>7. ASSUME NEW s \in Sems
      PROVE  held[s] \in [Tasks -> Nat] /\ Total(held[s]) \in Nat
  <2>1. held[s] \in [Tasks -> Nat]
    BY DEF TypeOK
  <2> QED
    BY <1>1, <2>1, TotalType
<1> QED
  BY <1>3, <1>4, <1>5, <1>6, <1>7

\* A task whose counter does not shrink, and that owns no more than before,
\* still counts what it owns.
LEMMA CoversKept ==
  ASSUME TypeOK, TypeOK', OwnerCounterCovers, NEW u \in LiveTasks,
         t_nb_owned'[u] >= t_nb_owned[u],
         \A m \in Mutexes \cap live' :
           p_overridden'[m] = u => m \in live /\ p_overridden[m] = u,
         \A s \in Sems : held'[s][u] <= held[s][u]
  PROVE  t_nb_owned'[u] >= Cardinality(MutexesOf(u)') + Total(TakingsOf(u)')
<1>0. u \in Tasks
  BY DEF LiveTasks
<1>1. MutexesOf(u)' \in SUBSET MutexesOf(u)
  BY DEF MutexesOf
<1>2. Cardinality(MutexesOf(u)') <= Cardinality(MutexesOf(u))
  BY <1>0, <1>1, OwnedTypes, FS_Subset
<1>3. TakingsOf(u)' \in [Sems -> Nat]
  BY <1>0 DEF TakingsOf, TypeOK
<1>4. \A s \in Sems : TakingsOf(u)'[s] <= TakingsOf(u)[s]
  <2>1. ASSUME NEW s \in Sems
        PROVE  TakingsOf(u)'[s] = held'[s][u] /\ TakingsOf(u)[s] = held[s][u]
    BY DEF TakingsOf
  <2> QED
    BY <2>1
<1>5. TakingsOf(u) \in [Sems -> Nat] /\ IsFiniteSet(Sems)
  BY <1>0, OwnedTypes
<1>6. Total(TakingsOf(u)') <= Total(TakingsOf(u))
  BY <1>3, <1>4, <1>5, TotalAtMost
<1>7. t_nb_owned[u] >= Cardinality(MutexesOf(u)) + Total(TakingsOf(u))
  BY CoversIs
<1>8. Cardinality(MutexesOf(u)') \in Nat
  BY <1>0, <1>1, OwnedTypes, FS_Subset, FS_CardinalityType
<1>9. Total(TakingsOf(u)') \in Nat
  BY <1>3, <1>5, TotalType
<1>10. t_nb_owned[u] \in Nat /\ t_nb_owned'[u] \in Nat
  BY <1>0 DEF TypeOK
<1> QED
  BY <1>0, <1>2, <1>6, <1>7, <1>8, <1>9, <1>10, OwnedTypes

\* What proves the invariant of the next state.
LEMMA LocksAfter ==
  ASSUME \A p \in Prims :
           p_process'[p] # None => prc_status'[p_process'[p]] # UNREGISTERED,
         \A s \in Sems, t \in Tasks : held'[s][t] > 0 =>
           /\ s \in live' \/ p_process'[s] \notin s_processes' \cup {None}
           /\ t_status'[t] # UNREGISTERED,
         \A m \in Mutexes \cap live' :
           p_nb_owning'[m] = IF p_overridden'[m] = None THEN 0 ELSE 1,
         \A s \in Sems \cap live' :
           p_nb_owning'[s] = Total(held'[s])
             /\ p_nb_owning'[s] <= sem_nb_owners'[s],
         \A t \in LiveTasks' :
           /\ t_stopper'[t] \in Mutexes => p_nb_owning'[t_stopper'[t]] # 0
           /\ t_stopper'[t] \in Sems
                => p_nb_owning'[t_stopper'[t]] = sem_nb_owners'[t_stopper'[t]],
         \A t \in LiveTasks' :
           t_nb_owned'[t] >= Cardinality(MutexesOf(t)') + Total(TakingsOf(t)')
  PROVE  LockInv'
<1>1. Unheld'
  BY DEF Unheld
<1>2. MutexExclusion' /\ SemTakersCounted'
  BY DEF MutexExclusion, SemTakersCounted
<1>3. NoLostWakeup'
  BY DEF NoLostWakeup
<1>4. OwnerCounterCovers'
  BY DEF OwnerCounterCovers, MutexesOf, TakingsOf
<1> QED
  BY <1>1, <1>2, <1>3, <1>4 DEF LockInv

\* Steps that take nothing and give nothing back: objects may leave, and who
\* falls asleep does so on a busy primitive.
LEMMA LockFrame ==
  ASSUME TypeOK, TypeOK', LockInv,
         UNCHANGED <<p_process, ownVars, p_overridden, sem_nb_owners>>,
         \A prc \in Procs : prc_status[prc] # UNREGISTERED
                              => prc_status'[prc] # UNREGISTERED,
         \A u \in Tasks : t_status[u] # UNREGISTERED
                            => t_status'[u] # UNREGISTERED,
         live' \subseteq live, s_processes' \subseteq s_processes,
         \A s \in Sems : s \in live \ live'
                           => p_process[s] \notin s_processes' \cup {None},
         \A u \in LiveTasks' :
           t_stopper'[u] = t_stopper[u] \/ Busy(t_stopper'[u])
  PROVE  LockInv'
<1>1. \A p \in Prims :
        p_process'[p] # None => prc_status'[p_process'[p]] # UNREGISTERED
  BY DEF LockInv, Unheld, TypeOK
<1>2. \A s \in Sems, t \in Tasks : held'[s][t] > 0 =>
        /\ s \in live' \/ p_process'[s] \notin s_processes' \cup {None}
        /\ t_status'[t] # UNREGISTERED
  BY DEF LockInv, Unheld, ownVars
<1>3. \A m \in Mutexes \cap live' :
        p_nb_owning'[m] = IF p_overridden'[m] = None THEN 0 ELSE 1
  BY DEF LockInv, MutexExclusion, ownVars
<1>4. \A s \in Sems \cap live' :
        p_nb_owning'[s] = Total(held'[s])
          /\ p_nb_owning'[s] <= sem_nb_owners'[s]
  BY DEF LockInv, SemTakersCounted, ownVars
<1>5. LiveTasks' \subseteq LiveTasks
  BY DEF LiveTasks
<1>6. \A t \in LiveTasks' : Busy(t_stopper'[t])
  BY <1>5 DEF LockInv, NoLostWakeup, Busy
<1>7. \A t \in LiveTasks' :
        /\ t_stopper'[t] \in Mutexes => p_nb_owning'[t_stopper'[t]] # 0
        /\ t_stopper'[t] \in Sems
             => p_nb_owning'[t_stopper'[t]] = sem_nb_owners'[t_stopper'[t]]
  BY <1>6 DEF Busy, ownVars
<1>8. ASSUME NEW t \in LiveTasks'
      PROVE  t_nb_owned'[t]
               >= Cardinality(MutexesOf(t)') + Total(TakingsOf(t)')
  <2>1. t \in LiveTasks /\ t \in Tasks
    BY <1>5 DEF LiveTasks
  <2>2. t_nb_owned'[t] >= t_nb_owned[t]
    BY <2>1 DEF ownVars, TypeOK
  <2>3. \A s \in Sems : held'[s][t] <= held[s][t]
    BY <2>1 DEF ownVars, TypeOK
  <2> QED
    BY <2>1, <2>2, <2>3, CoversKept DEF LockInv
<1> QED
  BY <1>1, <1>2, <1>3, <1>4, <1>7, <1>8, LocksAfter

-----------------------------------------------------------------------------
(* Mutexes *)

\* The task of an active thread is a registered one.
LEMMA CallerCovers ==
  ASSUME TypeOK, ThreadInv, GraphInv, LockInv,
         NEW th \in Threads, ThreadActive(th), NEW t, t = th_task[th]
  PROVE  /\ t \in Tasks /\ t \in LiveTasks
         /\ t_nb_owned[t] >= Cardinality(MutexesOf(t)) + Total(TakingsOf(t))
         /\ t_nb_owned[t] \in Nat
         /\ t_stopper[t] = None /\ t_status[t] # UNREGISTERED
<1>1. t \in Tasks /\ t \in LiveTasks /\ t_stopper[t] = None
        /\ t_status[t] = ACTIVE
  BY CallerAwake
<1>2. OwnerCounterCovers
  BY DEF LockInv
<1>3. t_nb_owned[t] >= Cardinality(MutexesOf(t)) + Total(TakingsOf(t))
  BY <1>1, <1>2, CoversIs
<1> QED
  BY <1>1, <1>3 DEF TypeOK, ACTIVE, UNREGISTERED

\* Nobody sleeps on a primitive in use that lists no waiter.
LEMMA NoSleeper ==
  ASSUME TypeOK, GraphInv, NEW p \in Prims, ~HasWaiters(p),
         NEW u \in LiveTasks
  PROVE  t_stopper[u] # p
<1>1. Waiters(p) = {}
  BY DEF Waiters, HasWaiters, Range
<1>2. p # None
  BY DEF Prims
<1> QED
  BY <1>1, <1>2 DEF GraphInv, Sleeping

LEMMA MutexTakeLocks ==
  ASSUME TypeOK, TypeOK', ThreadInv, GraphInv, LockInv,
         NEW th \in Threads, NEW m \in Mutexes, MutexTake(th, m)
  PROVE  LockInv'
<1> PICK t : t = th_task[th]
  OBVIOUS
<1>1. /\ ThreadActive(th) /\ m \in live /\ p_nb_owning[m] = 0
      /\ TakeOwnership(m, t)
      /\ Override(m, t, t_status, p_updated)
      /\ UNCHANGED <<procVars, primVars, stopVars, live, held>>
  BY DEF MutexTake, Calls, Unlocked
<1>2. /\ t \in Tasks /\ t \in LiveTasks
      /\ t_nb_owned[t] >= Cardinality(MutexesOf(t)) + Total(TakingsOf(t))
      /\ t_nb_owned[t] \in Nat
  BY <1>1, CallerCovers
<1>3. /\ m \in Prims
      /\ p_nb_owning'[m] = 1
      /\ \A p \in Prims \ {m} : p_nb_owning'[p] = p_nb_owning[p]
      /\ t_nb_owned'[t] = t_nb_owned[t] + 1
      /\ \A u \in Tasks \ {t} : t_nb_owned'[u] = t_nb_owned[u]
  BY <1>1, <1>2 DEF TakeOwnership, TypeOK, Prims
<1>4. /\ p_overridden'[m] = t
      /\ \A p \in Prims \ {m} : p_overridden'[p] = p_overridden[p]
  BY <1>1, <1>3 DEF Override, TypeOK
<1>5. p_overridden[m] = None
  BY <1>1 DEF LockInv, MutexExclusion
<1>6. \A u \in Tasks : t_status[u] # UNREGISTERED
                         => t_status'[u] # UNREGISTERED
  BY <1>1, OverrideKeeps DEF TypeOK
<1>7. None \notin Tasks /\ m \notin Sems
  OBVIOUS
<1>8. \A p \in Prims :
        p_process'[p] # None => prc_status'[p_process'[p]] # UNREGISTERED
  BY <1>1 DEF LockInv, Unheld, primVars, procVars
<1>9. \A s \in Sems, u \in Tasks : held'[s][u] > 0 =>
        /\ s \in live' \/ p_process'[s] \notin s_processes' \cup {None}
        /\ t_status'[u] # UNREGISTERED
  BY <1>1, <1>6 DEF LockInv, Unheld, primVars, procVars
<1>10. \A q \in Mutexes \cap live' :
         p_nb_owning'[q] = IF p_overridden'[q] = None THEN 0 ELSE 1
  BY <1>1, <1>2, <1>3, <1>4, <1>7 DEF LockInv, MutexExclusion, Prims
<1>11. \A s \in Sems \cap live' :
         p_nb_owning'[s] = Total(held'[s])
           /\ p_nb_owning'[s] <= sem_nb_owners'[s]
  BY <1>1, <1>3, <1>7 DEF LockInv, SemTakersCounted, Prims, primVars
<1>12. ASSUME NEW u \in LiveTasks'
       PROVE  /\ t_stopper'[u] \in Mutexes => p_nb_owning'[t_stopper'[u]] # 0
              /\ t_stopper'[u] \in Sems
                   => p_nb_owning'[t_stopper'[u]] = sem_nb_owners'[t_stopper'[u]]
  <2>1. u \in LiveTasks /\ t_stopper'[u] = t_stopper[u]
    BY <1>1 DEF LiveTasks, stopVars
  <2>2. \A s \in Sems : p_nb_owning'[s] = p_nb_owning[s]
                        /\ sem_nb_owners'[s] = sem_nb_owners[s]
    BY <1>1, <1>3, <1>7 DEF Prims, primVars
  <2>3. \A q \in Mutexes : p_nb_owning[q] # 0 => p_nb_owning'[q] # 0
    BY <1>3 DEF Prims
  <2> QED
    BY <2>1, <2>2, <2>3 DEF LockInv, NoLostWakeup
<1>13. ASSUME NEW u \in LiveTasks'
       PROVE  t_nb_owned'[u]
                >= Cardinality(MutexesOf(u)') + Total(TakingsOf(u)')
  <2>1. u \in LiveTasks /\ u \in Tasks
    BY <1>1 DEF LiveTasks
  <2>2. CASE u # t
    <3>1. t_nb_owned'[u] >= t_nb_owned[u]
      BY <1>3, <2>1, <2>2 DEF TypeOK
    <3>2. \A q \in Mutexes \cap live' :
            p_overridden'[q] = u => q \in live /\ p_overridden[q] = u
      BY <1>1, <1>4, <2>2 DEF Prims
    <3>3. \A s \in Sems : held'[s][u] <= held[s][u]
      BY <1>1, <2>1 DEF TypeOK
    <3> QED
      BY <2>1, <3>1, <3>2, <3>3, CoversKept DEF LockInv
  <2>3. CASE u = t
    <3>1. MutexesOf(t)' = MutexesOf(t) \cup {m} /\ m \notin MutexesOf(t)
      BY <1>1, <1>2, <1>4, <1>5, <1>7 DEF MutexesOf, Prims
    <3>2. Cardinality(MutexesOf(t)') = Cardinality(MutexesOf(t)) + 1
      BY <1>2, <3>1, OwnedTypes, FS_AddElement
    <3>3. TakingsOf(t)' = TakingsOf(t)
      BY <1>1 DEF TakingsOf
    <3>4. Cardinality(MutexesOf(t)) \in Nat /\ Total(TakingsOf(t)) \in Nat
      BY <1>2, OwnedTypes
    <3>5. t_nb_owned'[t] >= Cardinality(MutexesOf(t)) + 1 + Total(TakingsOf(t))
      BY <1>2, <1>3, <3>4
    <3>6. t_nb_owned'[t] >= Cardinality(MutexesOf(t)') + Total(TakingsOf(t)')
      BY <3>2, <3>3, <3>5
    <3> QED
      BY <2>3, <3>6
  <2> QED
    BY <2>2, <2>3
<1> QED
  BY <1>8, <1>9, <1>10, <1>11, <1>12, <1>13, LocksAfter

\* The owner of a mutex releases it without failing.
LEMMA OwnerReleases ==
  ASSUME TypeOK, ThreadInv, GraphInv, LockInv,
         NEW th \in Threads, NEW m \in Mutexes, UnlocksOwn(th, m)
  PROVE  /\ Releases(m, th_task[th])
         /\ p_nb_owning[m] = 1
         /\ m \in MutexesOf(th_task[th])
<1> DEFINE t == th_task[th]
<1>1. ThreadActive(th) /\ m \in live /\ p_overridden[m] = t
  BY DEF UnlocksOwn, Calls
<1>2. /\ t \in Tasks /\ t_nb_owned[t] \in Nat
      /\ t_nb_owned[t] >= Cardinality(MutexesOf(t)) + Total(TakingsOf(t))
  BY <1>1, CallerCovers
<1>3. m \in MutexesOf(t)
  BY <1>1 DEF MutexesOf
<1>4. t # None
  BY <1>2
<1> HIDE DEF t
<1>5. p_nb_owning[m] = 1
  BY <1>1, <1>4 DEF LockInv, MutexExclusion
<1>6. Cardinality(MutexesOf(t)) # 0 /\ Cardinality(MutexesOf(t)) \in Nat
        /\ Total(TakingsOf(t)) \in Nat
  BY <1>2, <1>3, OwnedTypes, FS_EmptySet
<1>7. t_nb_owned[t] > 0
  BY <1>2, <1>6
<1> QED
  BY <1>3, <1>5, <1>7 DEF Releases, t

LEMMA MutexUnlockLocks ==
  ASSUME TypeOK, TypeOK', ThreadInv, GraphInv, LockInv,
         NEW th \in Threads, NEW m \in Mutexes, MutexUnlock(th, m)
  PROVE  LockInv'
<1> PICK t : t = th_task[th]
  OBVIOUS
<1>1. /\ ThreadActive(th) /\ m \in live /\ UnlocksOwn(th, m)
      /\ p_overridden[m] = t /\ ~HasWaiters(m)
      /\ Releases(m, t) /\ ReleaseOwnership(m, t)
      /\ Override(m, None, t_status, p_updated)
      /\ UNCHANGED <<procVars, primVars, stopVars, live, held>>
  BY DEF MutexUnlock, UnlocksOwn, Calls
<1>2. /\ t \in Tasks /\ t \in LiveTasks
      /\ t_nb_owned[t] >= Cardinality(MutexesOf(t)) + Total(TakingsOf(t))
      /\ t_nb_owned[t] \in Nat
  BY <1>1, CallerCovers
<1>3. p_nb_owning[m] = 1 /\ m \in MutexesOf(t)
  BY <1>1, OwnerReleases
<1>4. /\ m \in Prims
      /\ p_nb_owning'[m] = 0
      /\ \A p \in Prims \ {m} : p_nb_owning'[p] = p_nb_owning[p]
      /\ t_nb_owned'[t] = t_nb_owned[t] - 1
      /\ \A u \in Tasks \ {t} : t_nb_owned'[u] = t_nb_owned[u]
  BY <1>1, <1>2, <1>3 DEF ReleaseOwnership, TypeOK, Prims
<1>5. /\ p_overridden'[m] = None
      /\ \A p \in Prims \ {m} : p_overridden'[p] = p_overridden[p]
  BY <1>1, <1>4 DEF Override, TypeOK
<1>6. \A u \in Tasks : t_status[u] # UNREGISTERED
                         => t_status'[u] # UNREGISTERED
  BY <1>1, OverrideKeeps DEF TypeOK
<1>7. None \notin Tasks /\ m \notin Sems
  OBVIOUS
<1>8. \A p \in Prims :
        p_process'[p] # None => prc_status'[p_process'[p]] # UNREGISTERED
  BY <1>1 DEF LockInv, Unheld, primVars, procVars
<1>9. \A s \in Sems, u \in Tasks : held'[s][u] > 0 =>
        /\ s \in live' \/ p_process'[s] \notin s_processes' \cup {None}
        /\ t_status'[u] # UNREGISTERED
  BY <1>1, <1>6 DEF LockInv, Unheld, primVars, procVars
<1>10. \A q \in Mutexes \cap live' :
         p_nb_owning'[q] = IF p_overridden'[q] = None THEN 0 ELSE 1
  BY <1>1, <1>4, <1>5 DEF LockInv, MutexExclusion, Prims
<1>11. \A s \in Sems \cap live' :
         p_nb_owning'[s] = Total(held'[s])
           /\ p_nb_owning'[s] <= sem_nb_owners'[s]
  BY <1>1, <1>4, <1>7 DEF LockInv, SemTakersCounted, Prims, primVars
<1>12. ASSUME NEW u \in LiveTasks'
       PROVE  /\ t_stopper'[u] \in Mutexes => p_nb_owning'[t_stopper'[u]] # 0
              /\ t_stopper'[u] \in Sems
                   => p_nb_owning'[t_stopper'[u]] = sem_nb_owners'[t_stopper'[u]]
  <2>1. u \in LiveTasks /\ t_stopper'[u] = t_stopper[u]
    BY <1>1 DEF LiveTasks, stopVars
  <2>2. t_stopper[u] # m
    BY <1>1, <1>4, <2>1, NoSleeper
  <2>3. \A q \in (Mutexes \cup Sems) \ {m} : p_nb_owning'[q] = p_nb_owning[q]
    BY <1>4 DEF Prims
  <2>4. sem_nb_owners' = sem_nb_owners
    BY <1>1 DEF primVars
  <2> QED
    BY <2>1, <2>2, <2>3, <2>4 DEF LockInv, NoLostWakeup
<1>13. ASSUME NEW u \in LiveTasks'
       PROVE  t_nb_owned'[u]
                >= Cardinality(MutexesOf(u)') + Total(TakingsOf(u)')
  <2>1. u \in LiveTasks /\ u \in Tasks
    BY <1>1 DEF LiveTasks
  <2>2. CASE u # t
    <3>1. t_nb_owned'[u] >= t_nb_owned[u]
      BY <1>4, <2>1, <2>2 DEF TypeOK
    <3>2. \A q \in Mutexes \cap live' :
            p_overridden'[q] = u => q \in live /\ p_overridden[q] = u
      BY <1>1, <1>5, <1>7, <2>1 DEF Prims
    <3>3. \A s \in Sems : held'[s][u] <= held[s][u]
      BY <1>1, <2>1 DEF TypeOK
    <3> QED
      BY <2>1, <3>1, <3>2, <3>3, CoversKept DEF LockInv
  <2>3. CASE u = t
    <3>1. MutexesOf(t)' = MutexesOf(t) \ {m}
      BY <1>1, <1>2, <1>5, <1>7 DEF MutexesOf, Prims
    <3>2. Cardinality(MutexesOf(t)') = Cardinality(MutexesOf(t)) - 1
      <4>1. IsFiniteSet(MutexesOf(t))
        BY <1>2, OwnedTypes
      <4>2. Cardinality(MutexesOf(t) \ {m}) = Cardinality(MutexesOf(t)) - 1
        BY <1>3, <4>1, FS_RemoveElement
      <4> QED
        BY <3>1, <4>2
    <3>3. TakingsOf(t)' = TakingsOf(t)
      BY <1>1 DEF TakingsOf
    <3>4. Cardinality(MutexesOf(t)) \in Nat /\ Total(TakingsOf(t)) \in Nat
      BY <1>2, OwnedTypes
    <3>5. t_nb_owned'[t] >= Cardinality(MutexesOf(t)) - 1 + Total(TakingsOf(t))
      BY <1>2, <1>4, <3>4
    <3>6. t_nb_owned'[t] >= Cardinality(MutexesOf(t)') + Total(TakingsOf(t)')
      BY <3>2, <3>3, <3>5
    <3> QED
      BY <2>3, <3>6
  <2> QED
    BY <2>2, <2>3
<1> QED
  BY <1>8, <1>9, <1>10, <1>11, <1>12, <1>13, LocksAfter

-----------------------------------------------------------------------------
(* Semaphores *)

LEMMA SemTakeLocks ==
  ASSUME TypeOK, TypeOK', ThreadInv, GraphInv, LockInv,
         NEW th \in Threads, NEW s \in Sems, SemTake(th, s)
  PROVE  LockInv'
<1> PICK t : t = th_task[th]
  OBVIOUS
<1>1. /\ ThreadActive(th) /\ s \in live /\ ~Exhausted(s)
      /\ TakeOwnership(s, t)
      /\ held' = [held EXCEPT ![s][t] = @ + 1]
      /\ UNCHANGED <<procVars, primVars, overrideVars, stopVars, updateVars,
                     live>>
  BY DEF SemTake, Calls
<1>2. /\ t \in Tasks /\ t \in LiveTasks
      /\ t_nb_owned[t] >= Cardinality(MutexesOf(t)) + Total(TakingsOf(t))
      /\ t_nb_owned[t] \in Nat /\ t_status[t] # UNREGISTERED
  BY <1>1, CallerCovers
<1>3. /\ s \in Prims
      /\ p_nb_owning'[s] = p_nb_owning[s] + 1
      /\ \A p \in Prims \ {s} : p_nb_owning'[p] = p_nb_owning[p]
      /\ t_nb_owned'[t] = t_nb_owned[t] + 1
      /\ \A u \in Tasks \ {t} : t_nb_owned'[u] = t_nb_owned[u]
  BY <1>1, <1>2 DEF TakeOwnership, TypeOK, Prims
<1>4. /\ held'[s][t] = held[s][t] + 1
      /\ \A u \in Tasks \ {t} : held'[s][u] = held[s][u]
      /\ \A q \in Sems \ {s} : held'[q] = held[q]
  BY <1>1, <1>2 DEF TypeOK
<1>5. s \notin Mutexes /\ IsFiniteSet(Tasks) /\ IsFiniteSet(Sems)
  OBVIOUS
<1>6. \A p \in Prims :
        p_process'[p] # None => prc_status'[p_process'[p]] # UNREGISTERED
  BY <1>1 DEF LockInv, Unheld, primVars, procVars
<1>7. ASSUME NEW q \in Sems, NEW u \in Tasks, held'[q][u] > 0
      PROVE  /\ q \in live' \/ p_process'[q] \notin s_processes' \cup {None}
             /\ t_status'[u] # UNREGISTERED
  <2>1. CASE q = s
    <3>1. u = t \/ held[q][u] > 0
      BY <1>4, <1>7, <2>1
    <3> QED
      BY <1>1, <1>2, <2>1, <3>1 DEF LockInv, Unheld, updateVars
  <2>2. CASE q # s
    BY <1>1, <1>4, <1>7, <2>2
       DEF LockInv, Unheld, updateVars, primVars, procVars
  <2> QED
    BY <2>1, <2>2
<1>8. \A q \in Mutexes \cap live' :
        p_nb_owning'[q] = IF p_overridden'[q] = None THEN 0 ELSE 1
  BY <1>1, <1>3, <1>5 DEF LockInv, MutexExclusion, Prims, overrideVars
<1>9. ASSUME NEW q \in Sems \cap live'
      PROVE  /\ p_nb_owning'[q] = Total(held'[q])
             /\ p_nb_owning'[q] <= sem_nb_owners'[q]
  <2>1. /\ q \in live /\ sem_nb_owners'[q] = sem_nb_owners[q]
        /\ p_nb_owning[q] = Total(held[q])
        /\ p_nb_owning[q] <= sem_nb_owners[q]
    BY <1>1 DEF LockInv, SemTakersCounted, primVars
  <2>2. CASE q # s
    BY <1>3, <1>4, <2>1, <2>2 DEF Prims
  <2>3. CASE q = s
    <3>1. held[s] \in [Tasks -> Nat] /\ held'[s] \in [Tasks -> Nat]
      BY DEF TypeOK
    <3>2. Total(held'[s]) = Total(held[s]) + 1
      BY <1>2, <1>4, <1>5, <3>1, TotalRaised
    <3>3. p_nb_owning[s] \in Nat /\ sem_nb_owners[s] \in Nat
      BY <1>3 DEF TypeOK
    <3>4. p_nb_owning[s] # sem_nb_owners[s]
      BY <1>1 DEF Exhausted
    <3>5. p_nb_owning[s] + 1 <= sem_nb_owners[s]
      BY <2>1, <2>3, <3>3, <3>4
    <3> QED
      BY <1>3, <2>1, <2>3, <3>2, <3>5
  <2> QED
    BY <2>2, <2>3
<1>10. ASSUME NEW u \in LiveTasks'
       PROVE  /\ t_stopper'[u] \in Mutexes => p_nb_owning'[t_stopper'[u]] # 0
              /\ t_stopper'[u] \in Sems
                   => p_nb_owning'[t_stopper'[u]] = sem_nb_owners'[t_stopper'[u]]
  <2>1. u \in LiveTasks /\ t_stopper'[u] = t_stopper[u]
    BY <1>1 DEF LiveTasks, stopVars
  <2>2. t_stopper[u] # s
    BY <1>1, <2>1 DEF LockInv, NoLostWakeup, Exhausted
  <2>3. \A q \in (Mutexes \cup Sems) \ {s} : p_nb_owning'[q] = p_nb_owning[q]
    BY <1>3 DEF Prims
  <2>4. sem_nb_owners' = sem_nb_owners
    BY <1>1 DEF primVars
  <2> QED
    BY <2>1, <2>2, <2>3, <2>4 DEF LockInv, NoLostWakeup
<1>11. ASSUME NEW u \in LiveTasks'
       PROVE  t_nb_owned'[u]
                >= Cardinality(MutexesOf(u)') + Total(TakingsOf(u)')
  <2>1. u \in LiveTasks /\ u \in Tasks
    BY <1>1 DEF LiveTasks
  <2>2. CASE u # t
    <3>1. t_nb_owned'[u] >= t_nb_owned[u]
      BY <1>3, <2>1, <2>2 DEF TypeOK
    <3>2. \A q \in Mutexes \cap live' :
            p_overridden'[q] = u => q \in live /\ p_overridden[q] = u
      BY <1>1 DEF overrideVars
    <3>3. \A q \in Sems : held'[q][u] <= held[q][u]
      <4>1. \A q \in Sems : held'[q][u] = held[q][u]
        BY <1>4, <2>1, <2>2
      <4>2. \A q \in Sems : held[q][u] \in Nat
        BY <2>1 DEF TypeOK
      <4> QED
        BY <4>1, <4>2
    <3> QED
      BY <2>1, <3>1, <3>2, <3>3, CoversKept DEF LockInv
  <2>3. CASE u = t
    <3>1. MutexesOf(t)' = MutexesOf(t)
      BY <1>1 DEF MutexesOf, overrideVars
    <3>2. TakingsOf(t)' \in [Sems -> Nat]
      BY <1>2 DEF TakingsOf, TypeOK
    <3>3. /\ TakingsOf(t)'[s] = TakingsOf(t)[s] + 1
          /\ \A q \in Sems \ {s} : TakingsOf(t)'[q] = TakingsOf(t)[q]
      BY <1>4 DEF TakingsOf
    <3>4. /\ Cardinality(MutexesOf(t)) \in Nat
          /\ TakingsOf(t) \in [Sems -> Nat] /\ Total(TakingsOf(t)) \in Nat
      BY <1>2, OwnedTypes
    <3>5. Total(TakingsOf(t)') = Total(TakingsOf(t)) + 1
      BY <1>5, <3>2, <3>3, <3>4, TotalRaised
    <3>6. t_nb_owned'[t] >= Cardinality(MutexesOf(t)) + Total(TakingsOf(t)) + 1
      BY <1>2, <1>3, <3>4
    <3>7. t_nb_owned'[t] >= Cardinality(MutexesOf(t)') + Total(TakingsOf(t)')
      BY <3>1, <3>4, <3>5, <3>6
    <3> QED
      BY <2>3, <3>7
  <2> QED
    BY <2>2, <2>3
<1> QED
  BY <1>6, <1>7, <1>8, <1>9, <1>10, <1>11, LocksAfter

\* A task that has taken a semaphore releases it without failing.
LEMMA TakerReleases ==
  ASSUME TypeOK, ThreadInv, GraphInv, LockInv, OwnersOnly,
         NEW th \in Threads, NEW s \in Sems, MayRelease(th, s)
  PROVE  Releases(s, th_task[th]) /\ held[s][th_task[th]] > 0
<1> PICK t : t = th_task[th]
  OBVIOUS
<1>1. ThreadActive(th) /\ s \in live /\ held[s][t] > 0
  BY DEF MayRelease, Calls
<1>2. /\ t \in Tasks /\ t_nb_owned[t] \in Nat
      /\ t_nb_owned[t] >= Cardinality(MutexesOf(t)) + Total(TakingsOf(t))
  BY <1>1, CallerCovers
<1>3. IsFiniteSet(Tasks) /\ IsFiniteSet(Sems)
  OBVIOUS
<1>4. /\ Cardinality(MutexesOf(t)) \in Nat
      /\ TakingsOf(t) \in [Sems -> Nat] /\ Total(TakingsOf(t)) \in Nat
      /\ held[s] \in [Tasks -> Nat]
  BY <1>2, OwnedTypes
<1>5. TakingsOf(t)[s] > 0
  BY <1>1 DEF TakingsOf
<1>6. Total(TakingsOf(t)) > 0
  BY <1>3, <1>4, <1>5, TotalPositive
<1>7. t_nb_owned[t] > 0
  BY <1>2, <1>4, <1>6
<1>8. Total(held[s]) > 0
  BY <1>1, <1>2, <1>3, <1>4, TotalPositive
<1>9. p_nb_owning[s] > 0
  BY <1>1, <1>8 DEF LockInv, SemTakersCounted
<1> QED
  BY <1>1, <1>7, <1>9 DEF Releases

LEMMA SemReleaseLocks ==
  ASSUME TypeOK, TypeOK', ThreadInv, GraphInv, LockInv, OwnersOnly,
         NEW th \in Threads, NEW s \in Sems, SemRelease(th, s)
  PROVE  LockInv'
<1> PICK t : t = th_task[th]
  OBVIOUS
<1>1. /\ ThreadActive(th) /\ s \in live /\ MayRelease(th, s)
      /\ Releases(s, t) /\ ReleaseOwnership(s, t) /\ ~HasWaiters(s)
      /\ Untake(s, t)
      /\ UNCHANGED <<procVars, primVars, overrideVars, stopVars, updateVars,
                     live>>
  BY DEF SemRelease, MayRelease, Calls
<1>2. /\ t \in Tasks /\ t \in LiveTasks
      /\ t_nb_owned[t] >= Cardinality(MutexesOf(t)) + Total(TakingsOf(t))
      /\ t_nb_owned[t] \in Nat /\ t_status[t] # UNREGISTERED
  BY <1>1, CallerCovers
<1>3. /\ s \in Prims
      /\ p_nb_owning'[s] = p_nb_owning[s] - 1
      /\ \A p \in Prims \ {s} : p_nb_owning'[p] = p_nb_owning[p]
      /\ t_nb_owned'[t] = t_nb_owned[t] - 1
      /\ \A u \in Tasks \ {t} : t_nb_owned'[u] = t_nb_owned[u]
  BY <1>1, <1>2 DEF ReleaseOwnership, Releases, TypeOK, Prims
<1>4. held[s][t] > 0
  BY <1>1, TakerReleases
<1>5. /\ held'[s][t] = held[s][t] - 1
      /\ \A u \in Tasks \ {t} : held'[s][u] = held[s][u]
      /\ \A q \in Sems \ {s} : held'[q] = held[q]
  BY <1>1, <1>2, <1>4 DEF Untake, TypeOK
<1>6. s \notin Mutexes /\ IsFiniteSet(Tasks) /\ IsFiniteSet(Sems)
  OBVIOUS
<1>7. \A q \in Sems, u \in Tasks :
        held[q][u] \in Nat /\ held'[q][u] \in Nat
          /\ held'[q][u] <= held[q][u]
  <2> SUFFICES ASSUME NEW q \in Sems, NEW u \in Tasks
               PROVE  held[q][u] \in Nat /\ held'[q][u] \in Nat
                        /\ held'[q][u] <= held[q][u]
    OBVIOUS
  <2>1. held[q][u] \in Nat /\ held'[q][u] \in Nat
    BY DEF TypeOK
  <2>2. held'[q][u] = held[q][u] \/ held'[q][u] = held[q][u] - 1
    BY <1>5
  <2> QED
    BY <2>1, <2>2
<1>8. \A p \in Prims :
        p_process'[p] # None => prc_status'[p_process'[p]] # UNREGISTERED
  BY <1>1 DEF LockInv, Unheld, primVars, procVars
<1>9. ASSUME NEW q \in Sems, NEW u \in Tasks, held'[q][u] > 0
      PROVE  /\ q \in live' \/ p_process'[q] \notin s_processes' \cup {None}
             /\ t_status'[u] # UNREGISTERED
  <2>1. held[q][u] > 0
    <3>1. held[q][u] \in Nat /\ held'[q][u] \in Nat
            /\ held'[q][u] <= held[q][u]
      BY <1>7
    <3> QED
      BY <1>9, <3>1
  <2> QED
    BY <1>1, <2>1 DEF LockInv, Unheld, updateVars, primVars, procVars
<1>10. \A q \in Mutexes \cap live' :
         p_nb_owning'[q] = IF p_overridden'[q] = None THEN 0 ELSE 1
  BY <1>1, <1>3, <1>6 DEF LockInv, MutexExclusion, Prims, overrideVars
<1>11. ASSUME NEW q \in Sems \cap live'
       PROVE  /\ p_nb_owning'[q] = Total(held'[q])
              /\ p_nb_owning'[q] <= sem_nb_owners'[q]
  <2>1. /\ q \in live /\ sem_nb_owners'[q] = sem_nb_owners[q]
        /\ p_nb_owning[q] = Total(held[q])
        /\ p_nb_owning[q] <= sem_nb_owners[q]
    BY <1>1 DEF LockInv, SemTakersCounted, primVars
  <2>2. CASE q # s
    BY <1>3, <1>5, <2>1, <2>2 DEF Prims
  <2>3. CASE q = s
    <3>1. held[s] \in [Tasks -> Nat] /\ held'[s] \in [Tasks -> Nat]
      BY DEF TypeOK
    <3>2. held[s][t] = held'[s][t] + 1
      BY <1>2, <1>5, <3>1
    <3>3. \A u \in Tasks \ {t} : held[s][u] = held'[s][u]
      BY <1>5
    <3>4. Total(held[s]) = Total(held'[s]) + 1
      BY <1>2, <1>6, <3>1, <3>2, <3>3, TotalRaised
    <3>5. /\ Total(held'[s]) \in Nat
          /\ p_nb_owning[s] \in Nat /\ sem_nb_owners[s] \in Nat
      BY <1>3, <1>6, <3>1, TotalType DEF TypeOK
    <3>6. /\ p_nb_owning'[s] = Total(held'[s])
          /\ p_nb_owning'[s] <= sem_nb_owners[s]
      BY <1>3, <2>1, <2>3, <3>4, <3>5
    <3> QED
      BY <2>1, <2>3, <3>6
  <2> QED
    BY <2>2, <2>3
<1>12. ASSUME NEW u \in LiveTasks'
       PROVE  /\ t_stopper'[u] \in Mutexes => p_nb_owning'[t_stopper'[u]] # 0
              /\ t_stopper'[u] \in Sems
                   => p_nb_owning'[t_stopper'[u]] = sem_nb_owners'[t_stopper'[u]]
  <2>1. u \in LiveTasks /\ t_stopper'[u] = t_stopper[u]
    BY <1>1 DEF LiveTasks, stopVars
  <2>2. t_stopper[u] # s
    BY <1>1, <1>3, <2>1, NoSleeper
  <2>3. \A q \in (Mutexes \cup Sems) \ {s} : p_nb_owning'[q] = p_nb_owning[q]
    BY <1>3 DEF Prims
  <2>4. sem_nb_owners' = sem_nb_owners
    BY <1>1 DEF primVars
  <2> QED
    BY <2>1, <2>2, <2>3, <2>4 DEF LockInv, NoLostWakeup
<1>13. ASSUME NEW u \in LiveTasks'
       PROVE  t_nb_owned'[u]
                >= Cardinality(MutexesOf(u)') + Total(TakingsOf(u)')
  <2>1. u \in LiveTasks /\ u \in Tasks
    BY <1>1 DEF LiveTasks
  <2>2. CASE u # t
    <3>1. t_nb_owned'[u] >= t_nb_owned[u]
      BY <1>3, <2>1, <2>2 DEF TypeOK
    <3>2. \A q \in Mutexes \cap live' :
            p_overridden'[q] = u => q \in live /\ p_overridden[q] = u
      BY <1>1 DEF overrideVars
    <3>3. \A q \in Sems : held'[q][u] <= held[q][u]
      BY <1>7, <2>1
    <3> QED
      BY <2>1, <3>1, <3>2, <3>3, CoversKept DEF LockInv
  <2>3. CASE u = t
    <3>1. MutexesOf(t)' = MutexesOf(t)
      BY <1>1 DEF MutexesOf, overrideVars
    <3>2. TakingsOf(t)' \in [Sems -> Nat]
      BY <1>2 DEF TakingsOf, TypeOK
    <3>3. /\ TakingsOf(t)'[s] = held'[s][t] /\ TakingsOf(t)[s] = held[s][t]
          /\ \A q \in Sems \ {s} : TakingsOf(t)[q] = TakingsOf(t)'[q]
      BY <1>5 DEF TakingsOf
    <3>4. TakingsOf(t)[s] = TakingsOf(t)'[s] + 1
      BY <1>2, <1>5, <1>7, <3>3
    <3>5. /\ Cardinality(MutexesOf(t)) \in Nat
          /\ TakingsOf(t) \in [Sems -> Nat] /\ Total(TakingsOf(t)) \in Nat
      BY <1>2, OwnedTypes
    <3>6. Total(TakingsOf(t)) = Total(TakingsOf(t)') + 1
      BY <1>6, <3>2, <3>3, <3>4, <3>5, TotalRaised
    <3>7. Total(TakingsOf(t)') \in Nat
      BY <1>6, <3>2, TotalType
    <3>8. t_nb_owned'[t] >= Cardinality(MutexesOf(t)) + Total(TakingsOf(t)')
      BY <1>2, <1>3, <3>5, <3>6, <3>7
    <3> QED
      BY <2>3, <3>1, <3>8
  <2> QED
    BY <2>2, <2>3
<1> QED
  BY <1>8, <1>9, <1>10, <1>11, <1>12, <1>13, LocksAfter

-----------------------------------------------------------------------------
(* Registration *)

\* A primitive that may be constructed is one nobody holds or sleeps on.
LEMMA ConstructedIsFree ==
  ASSUME TypeOK, GraphInv, LockInv, NEW p \in Mutexes \cup Sems,
         NEW prc \in Procs, MayConstruct(p, prc)
  PROVE  /\ p \in Sems => \A t \in Tasks : held[p][t] = 0
         /\ \A t \in LiveTasks : t_stopper[t] # p
         /\ prc_status[prc] # UNREGISTERED
<1>1. p \notin live /\ prc \in s_processes
        /\ p_process[p] \in s_processes \cup {None}
  BY DEF MayConstruct
<1>2. ASSUME p \in Sems, NEW t \in Tasks PROVE held[p][t] = 0
  <2>1. held[p][t] \in Nat
    BY <1>2 DEF TypeOK
  <2> QED
    BY <1>1, <1>2, <2>1 DEF LockInv, Unheld
<1>3. p \notin s_processes /\ p # None
  BY DEF TypeOK
<1>4. p \notin LivePrims
  BY <1>1, <1>3 DEF LivePrims
<1>5. \A t \in LiveTasks : t_stopper[t] # p
  BY <1>3, <1>4 DEF GraphInv, Sleeping
<1>6. prc_status[prc] # UNREGISTERED
  BY <1>1 DEF GraphInv, Placed
<1> QED
  BY <1>2, <1>5, <1>6

LEMMA ConstructLocks ==
  ASSUME TypeOK, TypeOK', GraphInv, LockInv,
         NEW p \in Mutexes \cup Sems, NEW prc \in Procs,
         MayConstruct(p, prc), InitPrim(p, prc), live' = live \cup {p},
         \A s \in Sems \ {p} : sem_nb_owners'[s] = sem_nb_owners[s],
         UNCHANGED <<procVars, t_status, t_stopper, t_nb_owned, held>>
  PROVE  LockInv'
<1>1. /\ p \in Sems => \A t \in Tasks : held[p][t] = 0
      /\ \A t \in LiveTasks : t_stopper[t] # p
      /\ prc_status[prc] # UNREGISTERED
  BY ConstructedIsFree
<1>2. /\ p \in Prims /\ p \notin Tasks /\ p \notin live
      /\ prc \in s_processes
  BY DEF Prims, MayConstruct
<1>3. /\ p_process'[p] = prc /\ p_nb_owning'[p] = 0 /\ p_overridden'[p] = None
      /\ \A q \in Prims \ {p} :
           /\ p_process'[q] = p_process[q]
           /\ p_nb_owning'[q] = p_nb_owning[q]
           /\ p_overridden'[q] = p_overridden[q]
  BY <1>2 DEF InitPrim, TypeOK
<1>4. s_processes' = s_processes /\ prc_status' = prc_status
  BY DEF procVars
<1>5. \A q \in Prims :
        p_process'[q] # None => prc_status'[p_process'[q]] # UNREGISTERED
  BY <1>1, <1>3, <1>4 DEF LockInv, Unheld
<1>6. \A s \in Sems, t \in Tasks : held'[s][t] > 0 =>
        /\ s \in live' \/ p_process'[s] \notin s_processes' \cup {None}
        /\ t_status'[t] # UNREGISTERED
  BY <1>1, <1>3, <1>4 DEF LockInv, Unheld, Prims
<1>7. \A m \in Mutexes \cap live' :
        p_nb_owning'[m] = IF p_overridden'[m] = None THEN 0 ELSE 1
  BY <1>3 DEF LockInv, MutexExclusion, Prims
<1>8. ASSUME NEW s \in Sems \cap live'
      PROVE  /\ p_nb_owning'[s] = Total(held'[s])
             /\ p_nb_owning'[s] <= sem_nb_owners'[s]
  <2>1. CASE s = p
    <3>1. held[p] \in [Tasks -> Nat] /\ IsFiniteSet(Tasks)
      BY <2>1 DEF TypeOK
    <3>2. Total(held[p]) = 0
      BY <1>1, <2>1, <3>1, TotalZero
    <3>3. sem_nb_owners'[p] \in Nat
      BY <2>1 DEF TypeOK
    <3> QED
      BY <1>3, <2>1, <3>2, <3>3
  <2>2. CASE s # p
    BY <1>3, <2>2 DEF LockInv, SemTakersCounted, Prims
  <2> QED
    BY <2>1, <2>2
<1>9. LiveTasks' = LiveTasks
  BY <1>2 DEF LiveTasks
<1>10. ASSUME NEW t \in LiveTasks'
       PROVE  /\ t_stopper'[t] \in Mutexes => p_nb_owning'[t_stopper'[t]] # 0
              /\ t_stopper'[t] \in Sems
                   => p_nb_owning'[t_stopper'[t]] = sem_nb_owners'[t_stopper'[t]]
  <2>1. t \in LiveTasks /\ t_stopper'[t] = t_stopper[t] /\ t_stopper[t] # p
    BY <1>1, <1>9
  <2>2. \A q \in (Mutexes \cup Sems) \ {p} : p_nb_owning'[q] = p_nb_owning[q]
    BY <1>3 DEF Prims
  <2> QED
    BY <2>1, <2>2 DEF LockInv, NoLostWakeup
<1>11. ASSUME NEW t \in LiveTasks'
       PROVE  t_nb_owned'[t]
                >= Cardinality(MutexesOf(t)') + Total(TakingsOf(t)')
  <2>1. t \in LiveTasks /\ t \in Tasks /\ t # None
    BY <1>9 DEF LiveTasks
  <2>2. t_nb_owned'[t] >= t_nb_owned[t]
    BY <2>1 DEF TypeOK
  <2>3. \A m \in Mutexes \cap live' :
          p_overridden'[m] = t => m \in live /\ p_overridden[m] = t
    BY <1>3, <2>1 DEF Prims
  <2>4. \A s \in Sems : held'[s][t] <= held[s][t]
    BY <2>1 DEF TypeOK
  <2> QED
    BY <2>1, <2>2, <2>3, <2>4, CoversKept DEF LockInv
<1> QED
  BY <1>5, <1>6, <1>7, <1>8, <1>10, <1>11, LocksAfter

\* A process is registered for the first time: no primitive is its own yet.
LEMMA RegisterProcessLocks ==
  ASSUME TypeOK, TypeOK', GraphInv, LockInv, NEW prc \in Procs,
         RegisterProcess(prc)
  PROVE  LockInv'
<1>1. /\ prc_status[prc] = UNREGISTERED
      /\ s_processes' = s_processes \cup {prc}
      /\ prc_status' = [prc_status EXCEPT ![prc] = ACTIVE]
      /\ InitPrim(prc, prc)
      /\ UNCHANGED <<t_status, t_stopper, t_nb_owned, sem_nb_owners, live, held>>
  BY DEF RegisterProcess
<1>2. prc \in Prims /\ prc \notin Mutexes /\ prc \notin Sems /\ prc # None
  BY DEF Prims
<1>3. /\ p_process'[prc] = prc
      /\ \A q \in Prims \ {prc} :
           /\ p_process'[q] = p_process[q]
           /\ p_nb_owning'[q] = p_nb_owning[q]
           /\ p_overridden'[q] = p_overridden[q]
  BY <1>1, <1>2 DEF InitPrim, TypeOK
<1>4. /\ prc_status'[prc] # UNREGISTERED
      /\ \A k \in Procs \ {prc} : prc_status'[k] = prc_status[k]
  BY <1>1 DEF TypeOK, ACTIVE, UNREGISTERED
<1>5. \A q \in Prims :
        p_process'[q] # None => prc_status'[p_process'[q]] # UNREGISTERED
  <2> SUFFICES ASSUME NEW q \in Prims \ {prc}, p_process[q] # None
               PROVE  prc_status'[p_process[q]] # UNREGISTERED
    BY <1>3, <1>4
  <2>1. p_process[q] \in Procs /\ prc_status[p_process[q]] # UNREGISTERED
    BY DEF LockInv, Unheld, TypeOK
  <2> QED
    BY <1>4, <2>1
<1>6. ASSUME NEW s \in Sems, NEW t \in Tasks, held'[s][t] > 0
      PROVE  /\ s \in live' \/ p_process'[s] \notin s_processes' \cup {None}
             /\ t_status'[t] # UNREGISTERED
  <2>1. /\ s \in live \/ p_process[s] \notin s_processes \cup {None}
        /\ t_status[t] # UNREGISTERED
    BY <1>1, <1>6 DEF LockInv, Unheld
  <2>2. s \in Prims /\ p_process'[s] = p_process[s]
    BY <1>2, <1>3 DEF Prims
  <2>3. p_process[s] # None => p_process[s] # prc
    BY <1>1, <2>2 DEF LockInv, Unheld
  <2> QED
    BY <1>1, <2>1, <2>2, <2>3
<1>7. \A q \in Mutexes \cup Sems :
        p_nb_owning'[q] = p_nb_owning[q] /\ p_overridden'[q] = p_overridden[q]
  BY <1>2, <1>3 DEF Prims
<1>8. \A m \in Mutexes \cap live' :
        p_nb_owning'[m] = IF p_overridden'[m] = None THEN 0 ELSE 1
  BY <1>1, <1>7 DEF LockInv, MutexExclusion
<1>9. \A s \in Sems \cap live' :
        p_nb_owning'[s] = Total(held'[s])
          /\ p_nb_owning'[s] <= sem_nb_owners'[s]
  BY <1>1, <1>7 DEF LockInv, SemTakersCounted
<1>10. LiveTasks' = LiveTasks
  BY <1>1 DEF LiveTasks
<1>11. \A t \in LiveTasks' :
         /\ t_stopper'[t] \in Mutexes => p_nb_owning'[t_stopper'[t]] # 0
         /\ t_stopper'[t] \in Sems
              => p_nb_owning'[t_stopper'[t]] = sem_nb_owners'[t_stopper'[t]]
  BY <1>1, <1>7, <1>10 DEF LockInv, NoLostWakeup
<1>12. ASSUME NEW t \in LiveTasks'
       PROVE  t_nb_owned'[t]
                >= Cardinality(MutexesOf(t)') + Total(TakingsOf(t)')
  <2>1. t \in LiveTasks /\ t \in Tasks
    BY <1>10 DEF LiveTasks
  <2>2. t_nb_owned'[t] >= t_nb_owned[t]
    BY <1>1, <2>1 DEF TypeOK
  <2>3. \A m \in Mutexes \cap live' :
          p_overridden'[m] = t => m \in live /\ p_overridden[m] = t
    BY <1>1, <1>7
  <2>4. \A s \in Sems : held'[s][t] <= held[s][t]
    BY <1>1, <2>1 DEF TypeOK
  <2> QED
    BY <2>1, <2>2, <2>3, <2>4, CoversKept DEF LockInv
<1> QED
  BY <1>5, <1>6, <1>8, <1>9, <1>11, <1>12, LocksAfter

\* A task is registered for the first time: it owns nothing.
LEMMA RegisterTaskLocks ==
  ASSUME TypeOK, TypeOK', GraphInv, LockInv, NEW prc \in Procs,
         NEW t \in Tasks, RegisterTask(prc, t)
  PROVE  LockInv'
<1>1. /\ t_status[t] = UNREGISTERED
      /\ t_status' = [t_status EXCEPT ![t] = ACTIVE]
      /\ t_nb_owned' = [t_nb_owned EXCEPT ![t] = 0]
      /\ t_stopper' = [t_stopper EXCEPT ![t] = None]
      /\ live' = live \cup {t}
      /\ UNCHANGED <<s_processes, prc_status, primVars, p_nb_owning, held,
                     p_overridden>>
  BY DEF RegisterTask
<1>2. /\ t_status'[t] # UNREGISTERED
      /\ t_nb_owned'[t] = 0 /\ t_stopper'[t] = None
      /\ \A u \in Tasks \ {t} :
           /\ t_status'[u] = t_status[u]
           /\ t_nb_owned'[u] = t_nb_owned[u]
           /\ t_stopper'[u] = t_stopper[u]
  BY <1>1 DEF TypeOK, ACTIVE, UNREGISTERED
<1>3. \A x \in Mutexes \cup Sems : x \in live' <=> x \in live
  BY <1>1
<1>4. \A q \in Prims :
        p_process'[q] # None => prc_status'[p_process'[q]] # UNREGISTERED
  BY <1>1 DEF LockInv, Unheld, primVars
<1>5. \A s \in Sems, u \in Tasks : held'[s][u] > 0 =>
        /\ s \in live' \/ p_process'[s] \notin s_processes' \cup {None}
        /\ t_status'[u] # UNREGISTERED
  BY <1>1, <1>2, <1>3 DEF LockInv, Unheld, primVars
<1>6. \A m \in Mutexes \cap live' :
        p_nb_owning'[m] = IF p_overridden'[m] = None THEN 0 ELSE 1
  BY <1>1, <1>3 DEF LockInv, MutexExclusion
<1>7. \A s \in Sems \cap live' :
        p_nb_owning'[s] = Total(held'[s])
          /\ p_nb_owning'[s] <= sem_nb_owners'[s]
  BY <1>1, <1>3 DEF LockInv, SemTakersCounted, primVars
<1>8. None \notin Mutexes \cup Sems
  OBVIOUS
<1>9. \A u \in LiveTasks' : u \in Tasks /\ (u # t => u \in LiveTasks)
  BY <1>1 DEF LiveTasks
<1>10. ASSUME NEW u \in LiveTasks'
       PROVE  /\ t_stopper'[u] \in Mutexes => p_nb_owning'[t_stopper'[u]] # 0
              /\ t_stopper'[u] \in Sems
                   => p_nb_owning'[t_stopper'[u]] = sem_nb_owners'[t_stopper'[u]]
  <2>1. CASE u = t
    BY <1>2, <1>8, <2>1
  <2>2. CASE u # t
    BY <1>1, <1>2, <1>9, <2>2 DEF LockInv, NoLostWakeup, primVars
  <2> QED
    BY <2>1, <2>2
<1>11. ASSUME NEW u \in LiveTasks'
       PROVE  t_nb_owned'[u]
                >= Cardinality(MutexesOf(u)') + Total(TakingsOf(u)')
  <2>1. CASE u # t
    <3>1. u \in LiveTasks /\ u \in Tasks
      BY <1>9, <2>1
    <3>2. t_nb_owned'[u] >= t_nb_owned[u]
      BY <1>2, <2>1, <3>1 DEF TypeOK
    <3>3. \A m \in Mutexes \cap live' :
            p_overridden'[m] = u => m \in live /\ p_overridden[m] = u
      BY <1>1, <1>3
    <3>4. \A s \in Sems : held'[s][u] <= held[s][u]
      BY <1>1, <3>1 DEF TypeOK
    <3> QED
      BY <3>1, <3>2, <3>3, <3>4, CoversKept DEF LockInv
  <2>2. CASE u = t
    <3>1. \A m \in Mutexes : p_overridden'[m] # t
      BY <1>1 DEF GraphInv, Overriding, Prims
    <3>2. MutexesOf(t)' = {}
      BY <3>1 DEF MutexesOf
    <3>3. TakingsOf(t)' \in [Sems -> Nat] /\ IsFiniteSet(Sems)
      BY DEF TakingsOf, TypeOK
    <3>4. \A s \in Sems : held[s][t] = 0
      <4>1. \A s \in Sems : held[s][t] \in Nat
        BY DEF TypeOK
      <4> QED
        BY <1>1, <4>1 DEF LockInv, Unheld
    <3>5. \A s \in Sems : TakingsOf(t)'[s] = 0
      BY <1>1, <3>4 DEF TakingsOf
    <3>6. Total(TakingsOf(t)') = 0
      BY <3>3, <3>5, TotalZero
    <3>7. Cardinality(MutexesOf(t)') = 0
      BY <3>2, FS_EmptySet
    <3> QED
      BY <1>2, <2>2, <3>6, <3>7
  <2> QED
    BY <2>1, <2>2
<1> QED
  BY <1>4, <1>5, <1>6, <1>7, <1>10, <1>11, LocksAfter

\* A primitive is destroyed with the record of who holds it.
LEMMA UnregisterPrimLocks ==
  ASSUME TypeOK, TypeOK', GraphInv, LockInv, NEW p \in Mutexes \cup Sems,
         UnregisterPrim(p)
  PROVE  LockInv'
<1> PICK status :
      /\ status = [u \in Tasks |->
                     IF u \in Resumed(p) THEN ACTIVE
                     ELSE MarkUpdated(t_status, Overridden(ResumeFlags(p)))[u]]
      /\ Override(p, None, status, p_updated \cup ResumeFlags(p))
  BY DEF UnregisterPrim
<1>1. /\ p \in live /\ live' = live \ {p}
      /\ t_stopper' = [u \in Tasks |-> IF u \in Resumed(p) THEN None
                                       ELSE t_stopper[u]]
      /\ held' = [s \in Sems |-> IF s = p THEN [u \in Tasks |-> 0]
                                 ELSE held[s]]
      /\ UNCHANGED <<procVars, p_process, sem_nb_owners, p_nb_owning,
                     t_nb_owned>>
  BY DEF UnregisterPrim
<1>2. p \in Prims /\ p \notin Tasks
  BY DEF Prims
<1>3. /\ p_overridden'[p] = None
      /\ \A q \in Prims \ {p} : p_overridden'[q] = p_overridden[q]
  BY <1>2 DEF Override, TypeOK
<1>4. ASSUME NEW u \in Tasks, t_status[u] # UNREGISTERED
      PROVE  t_status'[u] # UNREGISTERED
  <2> PICK marked : marked = MarkUpdated(t_status, Overridden(ResumeFlags(p)))
    OBVIOUS
  <2>0. t_status \in [Tasks -> Statuses]
    BY DEF TypeOK
  <2>1. marked \in [Tasks -> Statuses] /\ marked[u] # UNREGISTERED
    BY <1>4, <2>0, MarkUpdatedType, MarkUpdatedKeeps
  <2>2. status[u] # UNREGISTERED
    BY <2>1 DEF ACTIVE, UNREGISTERED
  <2>3. status \in [Tasks -> Statuses]
    <3>1. ACTIVE \in Statuses
      BY DEF ACTIVE, Statuses
    <3> QED
      BY <2>1, <3>1
  <2> QED
    BY <2>2, <2>3, OverrideKeeps
<1>5. \A q \in Prims :
        p_process'[q] # None => prc_status'[p_process'[q]] # UNREGISTERED
  BY <1>1 DEF LockInv, Unheld, procVars
<1>6. \A s \in Sems \ {p} : held'[s] = held[s]
  BY <1>1
<1>7. p \in Sems => \A u \in Tasks : held'[p][u] = 0
  BY <1>1
<1>8. \A s \in Sems, u \in Tasks : held'[s][u] > 0 =>
        /\ s \in live' \/ p_process'[s] \notin s_processes' \cup {None}
        /\ t_status'[u] # UNREGISTERED
  BY <1>1, <1>4, <1>6, <1>7 DEF LockInv, Unheld, procVars
<1>9. \A m \in Mutexes \cap live' :
        p_nb_owning'[m] = IF p_overridden'[m] = None THEN 0 ELSE 1
  BY <1>1, <1>3 DEF LockInv, MutexExclusion, Prims
<1>10. \A s \in Sems \cap live' :
         p_nb_owning'[s] = Total(held'[s])
           /\ p_nb_owning'[s] <= sem_nb_owners'[s]
  BY <1>1, <1>6 DEF LockInv, SemTakersCounted
<1>11. LiveTasks' = LiveTasks /\ None \notin Mutexes \cup Sems
  BY <1>1, <1>2 DEF LiveTasks
<1>12. ASSUME NEW u \in LiveTasks'
       PROVE  /\ t_stopper'[u] \in Mutexes => p_nb_owning'[t_stopper'[u]] # 0
              /\ t_stopper'[u] \in Sems
                   => p_nb_owning'[t_stopper'[u]] = sem_nb_owners'[t_stopper'[u]]
  <2>1. u \in LiveTasks /\ t_stopper'[u] \in {None, t_stopper[u]}
    BY <1>1, <1>11 DEF LiveTasks
  <2> QED
    BY <1>1, <1>11, <2>1 DEF LockInv, NoLostWakeup
<1>13. ASSUME NEW u \in LiveTasks'
       PROVE  t_nb_owned'[u]
                >= Cardinality(MutexesOf(u)') + Total(TakingsOf(u)')
  <2>1. u \in LiveTasks /\ u \in Tasks /\ u # None
    BY <1>11 DEF LiveTasks
  <2>2. t_nb_owned'[u] >= t_nb_owned[u]
    BY <1>1, <2>1 DEF TypeOK
  <2>3. \A m \in Mutexes \cap live' :
          p_overridden'[m] = u => m \in live /\ p_overridden[m] = u
    BY <1>1, <1>3, <2>1 DEF Prims
  <2>4. ASSUME NEW s \in Sems PROVE held'[s][u] <= held[s][u]
    <3>1. held[s][u] \in Nat
      BY <2>1 DEF TypeOK
    <3>2. held'[s][u] = held[s][u] \/ held'[s][u] = 0
      BY <1>6, <1>7, <2>1
    <3> QED
      BY <3>1, <3>2
  <2> QED
    BY <2>1, <2>2, <2>3, <2>4, CoversKept DEF LockInv
<1> QED
  BY <1>5, <1>8, <1>9, <1>10, <1>12, <1>13, LocksAfter

-----------------------------------------------------------------------------
(* Every step *)

\* Stopping a task on a busy primitive.
LEMMA BlockLocks ==
  ASSUME TypeOK, TypeOK', LockInv, NEW p \in Mutexes \cup Sems,
         NEW th \in Threads, ThreadActive(th), Busy(p), StopThread(p, th),
         UNCHANGED <<procVars, primVars, overrideVars, live, ownVars>>
  PROVE  LockInv'
<1>1. th_task[th] \in Tasks
  BY CallerIsTask
<1>2. \A u \in Tasks : t_status[u] # UNREGISTERED
                         => t_status'[u] # UNREGISTERED
  BY <1>1, StopTaskKeeps DEF StopThread
<1>3. \A u \in Tasks : t_stopper'[u] = t_stopper[u] \/ t_stopper'[u] = p
  BY <1>1 DEF StopThread, StopTask, TypeOK
<1>4. \A u \in LiveTasks' : t_stopper'[u] = t_stopper[u] \/ Busy(t_stopper'[u])
  BY <1>3 DEF LiveTasks
<1> QED
  BY <1>2, <1>4, LockFrame DEF procVars, primVars, overrideVars

\* Steps that leave the graph as it is.
LEMMA QuietLocks ==
  ASSUME TypeOK, TypeOK', LockInv,
         UNCHANGED <<procVars, primVars, ownVars, overrideVars, stopVars,
                     updateVars, live>>
  PROVE  LockInv'
BY LockFrame
   DEF procVars, primVars, overrideVars, stopVars, updateVars

LEMMA MutexLocks ==
  ASSUME TypeOK, TypeOK', ThreadInv, GraphInv, LockInv,
         NEW th \in Threads, NEW m \in Mutexes
  PROVE  /\ MutexTake(th, m) => LockInv'
         /\ MutexBlock(th, m) => LockInv'
         /\ MutexUnlockFails(th, m) => LockInv'
         /\ MutexUnlock(th, m) => LockInv'
         /\ MutexUnlockWild(th, m) => LockInv'
<1>1. ASSUME MutexBlock(th, m) PROVE LockInv'
  <2>1. Busy(m)
    BY <1>1 DEF MutexBlock, Unlocked, Busy
  <2>2. /\ ThreadActive(th) /\ StopThread(m, th)
        /\ UNCHANGED <<procVars, primVars, overrideVars, live, ownVars>>
    BY <1>1 DEF MutexBlock, Calls
  <2> QED
    BY <2>1, <2>2, BlockLocks
<1>2. ASSUME MutexUnlockWild(th, m) PROVE LockInv'
  BY <1>2, QuietLocks DEF MutexUnlockWild, Fault
<1>3. ~MutexUnlockFails(th, m)
  BY OwnerReleases DEF MutexUnlockFails
<1> QED
  BY <1>1, <1>2, <1>3, MutexTakeLocks, MutexUnlockLocks

LEMMA SemLocks ==
  ASSUME TypeOK, TypeOK', ThreadInv, GraphInv, LockInv, OwnersOnly,
         NEW th \in Threads, NEW s \in Sems
  PROVE  /\ SemTake(th, s) => LockInv'
         /\ SemBlock(th, s) => LockInv'
         /\ SemReleaseFails(th, s) => LockInv'
         /\ SemRelease(th, s) => LockInv'
         /\ SemReleaseWild(th, s) => LockInv'
<1>1. ASSUME SemBlock(th, s) PROVE LockInv'
  <2>1. Busy(s)
    BY <1>1 DEF SemBlock, Exhausted, Busy
  <2>2. /\ ThreadActive(th) /\ StopThread(s, th)
        /\ UNCHANGED <<procVars, primVars, overrideVars, live, ownVars>>
    BY <1>1 DEF SemBlock, Calls
  <2> QED
    BY <2>1, <2>2, BlockLocks
<1>2. ASSUME SemReleaseWild(th, s) PROVE LockInv'
  BY <1>2, QuietLocks DEF SemReleaseWild, Fault
<1>3. ~SemReleaseFails(th, s)
  BY TakerReleases DEF SemReleaseFails
<1> QED
  BY <1>1, <1>2, <1>3, SemTakeLocks, SemReleaseLocks

\* A pause stops tasks on the process, which is no lock.
LEMMA PauseLocks ==
  ASSUME TypeOK, TypeOK', LockInv, NEW prc \in Procs, PauseProcess(prc)
  PROVE  LockInv'
<1> PICK T : T = Pausable(prc)
  OBVIOUS
<1>1. /\ t_stopper' = [t \in Tasks |-> IF t \in T THEN prc ELSE t_stopper[t]]
      /\ t_status' = [t \in Tasks |-> IF t \in T THEN STOPPED
                                      ELSE t_status[t]]
      /\ prc_status' = [prc_status EXCEPT ![prc] = STOPPED]
      /\ UNCHANGED <<s_processes, primVars, ownVars, overrideVars, live>>
  BY DEF PauseProcess
<1>2. \A k \in Procs : prc_status[k] # UNREGISTERED
                         => prc_status'[k] # UNREGISTERED
  BY <1>1 DEF TypeOK, STOPPED, UNREGISTERED
<1>3. \A u \in Tasks : t_status[u] # UNREGISTERED
                         => t_status'[u] # UNREGISTERED
  BY <1>1 DEF STOPPED, UNREGISTERED
<1>4. Busy(prc)
  BY DEF Busy
<1>5. \A u \in LiveTasks' : t_stopper'[u] = t_stopper[u] \/ Busy(t_stopper'[u])
  BY <1>1, <1>4 DEF LiveTasks
<1> QED
  BY <1>1, <1>2, <1>3, <1>5, LockFrame DEF primVars, overrideVars

LEMMA UnregisterProcessLocks ==
  ASSUME TypeOK, TypeOK', LockInv, NEW prc \in Procs, UnregisterProcess(prc)
  PROVE  LockInv'
<1>1. /\ s_processes' = s_processes \ {prc}
      /\ live' = {x \in live : \/ x \in Tasks /\ t_process[x] # prc
                               \/ x \in Prims /\ p_process[x] # prc}
      /\ UNCHANGED <<prc_status, primVars, ownVars, overrideVars, t_stopper,
                     updateVars>>
  BY DEF UnregisterProcess
<1>2. \A s \in Sems : s \in live \ live'
                        => p_process[s] \notin s_processes' \cup {None}
  BY <1>1 DEF Prims
<1> QED
  BY <1>1, <1>2, LockFrame DEF primVars, overrideVars, updateVars

LEMMA ResumeLocks ==
  ASSUME TypeOK, TypeOK', LockInv, NEW prc \in Procs, ResumeProcess(prc)
  PROVE  LockInv'
<1>1. /\ prc_status' = [prc_status EXCEPT ![prc] = ACTIVE]
      /\ UNCHANGED <<s_processes, primVars, ownVars, overrideVars, stopVars,
                     updateVars, live>>
  BY DEF ResumeProcess
<1>2. \A k \in Procs : prc_status[k] # UNREGISTERED
                         => prc_status'[k] # UNREGISTERED
  BY <1>1 DEF TypeOK, ACTIVE, UNREGISTERED
<1> QED
  BY <1>1, <1>2, LockFrame DEF primVars, overrideVars, updateVars, stopVars

LEMMA UnregisterTaskLocks ==
  ASSUME TypeOK, TypeOK', LockInv, NEW th \in Threads, th_task[th] \in Tasks,
         UnregisterTask(th)
  PROVE  LockInv'
<1>1. /\ live' = live \ {th_task[th]}
      /\ UNCHANGED <<s_processes, prc_status, primVars, ownVars, overrideVars,
                     t_stopper, updateVars>>
  BY DEF UnregisterTask
<1> QED
  BY <1>1, LockFrame DEF primVars, overrideVars, updateVars

LEMMA CloseCommitLocks ==
  ASSUME TypeOK, TypeOK', LockInv, CloseCommit
  PROVE  LockInv'
<1>1. /\ Schedule
      /\ UNCHANGED <<procVars, primVars, ownVars, overrideVars, stopVars, live>>
  BY DEF CloseCommit
<1>2. \A u \in Tasks : t_status[u] # UNREGISTERED
                         => t_status'[u] # UNREGISTERED
  BY <1>1 DEF Schedule, updateVars, STOPPED, UNREGISTERED
<1> QED
  BY <1>1, <1>2, LockFrame DEF procVars, primVars, overrideVars, stopVars

LEMMA InitLocks == Init => LockInv
<1> SUFFICES ASSUME Init PROVE LockInv
  OBVIOUS
<1>1. Unheld
  BY DEF Init, Unheld
<1>2. live = {}
  BY DEF Init
<1>3. MutexExclusion /\ SemTakersCounted /\ NoLostWakeup /\ OwnerCounterCovers
  BY <1>2 DEF MutexExclusion, SemTakersCounted, NoLostWakeup,
              OwnerCounterCovers, LiveTasks
<1> QED
  BY <1>1, <1>3 DEF LockInv

LEMMA NextLocks ==
  ASSUME OwnersOnly
  PROVE  TypeOK /\ ThreadInv /\ GraphInv /\ LockInv /\ [Next]_vars => LockInv'
<1> SUFFICES ASSUME TypeOK, ThreadInv, GraphInv, LockInv, [Next]_vars
             PROVE  LockInv'
  OBVIOUS
<1>1. TypeOK'
  BY NextType
<1>2. ASSUME NEW kind, Fault(kind) PROVE LockInv'
  BY <1>1, <1>2, QuietLocks DEF Fault
<1>3. CASE MutexNext
  BY <1>1, <1>3, MutexLocks DEF MutexNext
<1>4. CASE SemNext
  BY <1>1, <1>4, SemLocks DEF SemNext
<1>5. CASE ProcessNext
  <2> PICK prc \in Procs :
        \/ RegisterProcess(prc)
        \/ \E t \in Tasks : RegisterTask(prc, t)
        \/ \E m \in Mutexes : RegisterMutex(prc, m)
        \/ \E s \in Sems, n \in Takings : RegisterSem(prc, s, n)
        \/ UnregisterProcess(prc)
        \/ PauseProcess(prc)
        \/ PauseProcessAborts(prc)
        \/ ResumeProcess(prc)
        \/ ResumeProcessWild(prc)
    BY <1>5 DEF ProcessNext
  <2>1. ASSUME NEW m \in Mutexes, RegisterMutex(prc, m) PROVE LockInv'
    BY <1>1, <2>1, ConstructLocks DEF RegisterMutex
  <2>2. ASSUME NEW s \in Sems, NEW n \in Takings, RegisterSem(prc, s, n)
        PROVE  LockInv'
    <3>1. \A q \in Sems \ {s} : sem_nb_owners'[q] = sem_nb_owners[q]
      BY <2>2 DEF RegisterSem, TypeOK
    <3> QED
      BY <1>1, <2>2, <3>1, ConstructLocks DEF RegisterSem
  <2>3. CASE PauseProcessAborts(prc) \/ ResumeProcessWild(prc)
    BY <1>2, <2>3 DEF PauseProcessAborts, ResumeProcessWild
  <2> QED
    BY <1>1, <2>1, <2>2, <2>3, RegisterProcessLocks, RegisterTaskLocks,
       UnregisterProcessLocks, PauseLocks, ResumeLocks
<1>6. CASE PrimNext
  BY <1>1, <1>2, <1>6, UnregisterPrimLocks DEF PrimNext, UnregisterPrimAborts
<1>7. CASE ThreadNext
  <2> PICK th \in Threads : \/ RegisterThread(th) \/ UnregisterThread(th)
                            \/ UnregisterTask(th) \/ UnregisterTaskWild(th)
    BY <1>7 DEF ThreadNext
  <2>1. CASE RegisterThread(th)
    BY <1>1, <2>1, QuietLocks DEF RegisterThread
  <2>2. CASE UnregisterThread(th)
    BY <1>1, <2>2, QuietLocks DEF UnregisterThread
  <2>3. CASE UnregisterTask(th)
    <3>1. th_task[th] \in Tasks
      BY <2>3, CallerIsTask DEF UnregisterTask
    <3> QED
      BY <1>1, <2>3, <3>1, UnregisterTaskLocks
  <2>4. CASE UnregisterTaskWild(th)
    BY <1>2, <2>4 DEF UnregisterTaskWild
  <2> QED
    BY <2>1, <2>2, <2>3, <2>4
<1>8. CASE OpenCommit
  BY <1>1, <1>8, QuietLocks DEF OpenCommit
<1>9. CASE CloseCommit
  BY <1>1, <1>9, CloseCommitLocks
<1>10. CASE UNCHANGED vars
  BY <1>1, <1>10, QuietLocks DEF vars
<1> QED
  BY <1>3, <1>4, <1>5, <1>6, <1>7, <1>8, <1>9, <1>10 DEF Next, CommitNext

\* Locks and semaphores keep their books in every behaviour in which callers
\* release only what they have taken: the inductive invariant, on top of
\* GraphInv, of the theorems below.
THEOREM LockInvHolds ==
  ASSUME OwnersOnly
  PROVE  Spec => []LockInv
BY InitLocks, NextLocks, TypeCorrect, ThreadInvHolds, GraphInvHolds,
   PTL DEF Spec

\* A mutex in use is owned once while it overrides the task that locked it,
\* and by nobody otherwise.
THEOREM MutexesExclude ==
  ASSUME OwnersOnly
  PROVE  Spec => []MutexExclusion
<1>1. LockInv => MutexExclusion
  BY DEF LockInv
<1> QED
  BY <1>1, LockInvHolds, PTL

\* A semaphore counts exactly what its takers have not given back, within
\* its capacity.
THEOREM TakersAreCounted ==
  ASSUME OwnersOnly
  PROVE  Spec => []SemTakersCounted
<1>1. LockInv => SemTakersCounted
  BY DEF LockInv
<1> QED
  BY <1>1, LockInvHolds, PTL

\* No task sleeps on a free mutex or on a semaphore with takings left.
THEOREM NoWakeupIsLost ==
  ASSUME OwnersOnly
  PROVE  Spec => []NoLostWakeup
<1>1. LockInv => NoLostWakeup
  BY DEF LockInv
<1> QED
  BY <1>1, LockInvHolds, PTL

\* A task's counter covers all it owns, so the release of what it took, which
\* decreases the primitive's counter before it looks at the task's, never
\* fails half way.
THEOREM OwnersAreCovered ==
  ASSUME OwnersOnly
  PROVE  Spec => []OwnerCounterCovers
<1>1. LockInv => OwnerCounterCovers
  BY DEF LockInv
<1> QED
  BY <1>1, LockInvHolds, PTL

-----------------------------------------------------------------------------
(* Who a mutex passes to *)

\* Steps that override nobody else.
LEMMA SameOwners ==
  ASSUME \A m \in Mutexes \cap live \cap live' :
           p_overridden'[m] = p_overridden[m]
  PROVE  NotStolen
BY DEF NotStolen

LEMMA NextNotStolen ==
  TypeOK /\ LockInv /\ [Next]_vars => NotStolen
<1> SUFFICES ASSUME TypeOK, LockInv, [Next]_vars PROVE NotStolen
  OBVIOUS
<1>1. ASSUME UNCHANGED p_overridden PROVE NotStolen
  BY <1>1, SameOwners
<1>2. ASSUME NEW kind, Fault(kind) PROVE NotStolen
  BY <1>1, <1>2 DEF Fault, overrideVars
<1>3. CASE MutexNext
  <2> PICK th \in Threads, m \in Mutexes :
        \/ MutexTake(th, m) \/ MutexBlock(th, m) \/ MutexUnlockFails(th, m)
        \/ MutexUnlock(th, m) \/ MutexUnlockWild(th, m)
    BY <1>3 DEF MutexNext
  <2>0. m \in Prims
    BY DEF Prims
  <2>1. CASE MutexTake(th, m)
    <3>1. p_nb_owning[m] = 0 /\ m \in live
      BY <2>1 DEF MutexTake, Unlocked, Calls
    <3>2. p_overridden[m] = None
      BY <3>1 DEF LockInv, MutexExclusion
    <3>3. \A q \in Mutexes \ {m} : p_overridden'[q] = p_overridden[q]
      BY <2>0, <2>1 DEF MutexTake, Override, TypeOK, Prims
    <3> QED
      BY <3>2, <3>3 DEF NotStolen
  <2>2. CASE MutexUnlock(th, m)
    <3>1. ThreadActive(th) /\ p_overridden[m] = th_task[th]
      BY <2>2 DEF MutexUnlock, UnlocksOwn, Calls
    <3>2. /\ p_overridden'[m] = None
          /\ \A q \in Mutexes \ {m} : p_overridden'[q] = p_overridden[q]
      BY <2>0, <2>2 DEF MutexUnlock, Override, TypeOK, Prims
    <3> QED
      BY <3>1, <3>2 DEF NotStolen
  <2>3. CASE MutexBlock(th, m) \/ MutexUnlockFails(th, m)
    BY <1>1, <2>3 DEF MutexBlock, MutexUnlockFails, overrideVars
  <2>4. CASE MutexUnlockWild(th, m)
    BY <1>2, <2>4 DEF MutexUnlockWild
  <2> QED
    BY <2>1, <2>2, <2>3, <2>4
<1>4. CASE SemNext
  BY <1>1, <1>2, <1>4 DEF SemNext, SemTake, SemBlock, SemReleaseFails,
     SemRelease, SemReleaseWild, overrideVars
<1>5. CASE ProcessNext
  <2> PICK prc \in Procs :
        \/ RegisterProcess(prc)
        \/ \E t \in Tasks : RegisterTask(prc, t)
        \/ \E m \in Mutexes : RegisterMutex(prc, m)
        \/ \E s \in Sems, n \in Takings : RegisterSem(prc, s, n)
        \/ UnregisterProcess(prc)
        \/ PauseProcess(prc)
        \/ PauseProcessAborts(prc)
        \/ ResumeProcess(prc)
        \/ ResumeProcessWild(prc)
    BY <1>5 DEF ProcessNext
  <2>1. CASE RegisterProcess(prc)
    <3>1. \A q \in Prims \ {prc} : p_overridden'[q] = p_overridden[q]
      BY <2>1 DEF RegisterProcess, InitPrim, TypeOK
    <3>2. \A m \in Mutexes : m \in Prims /\ m # prc
      BY DEF Prims
    <3> QED
      BY <3>1, <3>2, SameOwners
  <2>2. ASSUME NEW p \in Mutexes \cup Sems, MayConstruct(p, prc),
               InitPrim(p, prc)
        PROVE  NotStolen
    <3>1. \A q \in Prims \ {p} : p_overridden'[q] = p_overridden[q]
      BY <2>2 DEF InitPrim, TypeOK
    <3>2. \A m \in Mutexes \cap live : m \in Prims /\ m # p
      BY <2>2 DEF Prims, MayConstruct
    <3> QED
      BY <3>1, <3>2, SameOwners
  <2>3. CASE \/ \E m \in Mutexes : RegisterMutex(prc, m)
             \/ \E s \in Sems, n \in Takings : RegisterSem(prc, s, n)
    BY <2>2, <2>3 DEF RegisterMutex, RegisterSem
  <2>4. CASE PauseProcessAborts(prc) \/ ResumeProcessWild(prc)
    BY <1>2, <2>4 DEF PauseProcessAborts, ResumeProcessWild
  <2> QED
    BY <1>1, <2>1, <2>3, <2>4 DEF RegisterTask, UnregisterProcess,
       PauseProcess, ResumeProcess, overrideVars
<1>6. CASE PrimNext
  <2>1. ASSUME NEW p \in Mutexes \cup Sems, UnregisterPrim(p)
        PROVE  NotStolen
    <3>1. p \in Prims /\ p \notin live'
      BY <2>1 DEF UnregisterPrim, Prims
    <3>2. \E status, flagged : Override(p, None, status, flagged)
      BY <2>1 DEF UnregisterPrim
    <3>3. \A q \in Prims \ {p} : p_overridden'[q] = p_overridden[q]
      BY <3>1, <3>2 DEF Override, TypeOK
    <3>4. \A m \in Mutexes \cap live' : m \in Prims /\ m # p
      BY <3>1 DEF Prims
    <3> QED
      BY <3>3, <3>4, SameOwners
  <2> QED
    BY <1>2, <1>6, <2>1 DEF PrimNext, UnregisterPrimAborts
<1>7. CASE ThreadNext
  BY <1>1, <1>2, <1>7 DEF ThreadNext, RegisterThread, UnregisterThread,
     UnregisterTask, UnregisterTaskWild, overrideVars
<1>8. CASE CommitNext
  BY <1>1, <1>8 DEF CommitNext, OpenCommit, CloseCommit, overrideVars
<1>9. CASE UNCHANGED vars
  BY <1>1, <1>9 DEF vars, overrideVars
<1> QED
  BY <1>3, <1>4, <1>5, <1>6, <1>7, <1>8, <1>9 DEF Next

\* A locked mutex in use passes to no other task: only its owner's unlock
\* frees it.
THEOREM LocksAreNotStolen ==
  ASSUME OwnersOnly
  PROVE  Spec => LockNotStolen
BY NextNotStolen, TypeCorrect, LockInvHolds, PTL DEF Spec, LockNotStolen
=============================================================================
