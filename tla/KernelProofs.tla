---------------------------- MODULE KernelProofs ----------------------------
(***************************************************************************)
(* What holds of the scheduler for every number of threads, tasks,         *)
(* primitives and processes, every width and every bound.                  *)
(***************************************************************************)
EXTENDS KernelProps, FiniteSetTheorems, TLAPS

USE ConstantsOK

-----------------------------------------------------------------------------
(* The operators the calls are built from *)

\* Flagging any set of tasks leaves statuses statuses.
LEMMA MarkUpdatedType ==
  ASSUME NEW status \in [Tasks -> Statuses], NEW T
  PROVE  MarkUpdated(status, T) \in [Tasks -> Statuses]
BY DEF MarkUpdated, Statuses, HasUpdated, STASK_STATUS_UPDATED

\* Propagation flags primitives that were not flagged.
LEMMA PropagatesType ==
  ASSUME NEW p, NEW status, NEW flagged, NEW t
  PROVE  /\ PrimPropagates(p, status, flagged) \subseteq Prims
         /\ TaskPropagates(t, status, flagged) \subseteq Prims
BY DEF PrimPropagates, TaskPropagates

\* A set of tasks has a whole number of them.
LEMMA TaskCount == \A X \in SUBSET Tasks : Cardinality(X) \in Nat
<1> SUFFICES ASSUME NEW X \in SUBSET Tasks PROVE Cardinality(X) \in Nat
  OBVIOUS
<1>1. IsFiniteSet(X)
  BY FS_Subset
<1> QED
  BY <1>1, FS_CardinalityType

\* Ending an override and beginning another keeps the types of what it
\* touches.
LEMMA OverrideType ==
  ASSUME TypeOK, NEW p \in Prims, NEW t \in Tasks \cup {None},
         NEW status \in [Tasks -> Statuses], NEW flagged \in SUBSET Prims,
         Override(p, t, status, flagged)
  PROVE  /\ p_overridden' \in [Prims -> Tasks \cup {None}]
         /\ t_overriders' \in [Tasks -> SUBSET Prims]
         /\ t_nb_overrides' \in [Tasks -> Int]
         /\ p_updated' \subseteq Prims
         /\ t_status' \in [Tasks -> Statuses]
<1> DEFINE Q == TaskPropagates(p_overridden[p], status, flagged)
<1>1. Q \subseteq Prims
  BY PropagatesType
<1>2. t_status' \in [Tasks -> Statuses]
  BY MarkUpdatedType DEF Override
<1>3. p_updated' \subseteq Prims
  BY <1>1 DEF Override
<1>4. p_overridden' \in [Prims -> Tasks \cup {None}]
  BY DEF Override, TypeOK
<1>5. t_overriders' \in [Tasks -> SUBSET Prims]
  BY DEF Override, TypeOK
<1>6. t_nb_overrides' \in [Tasks -> Int]
  BY DEF Override, TypeOK
<1> QED
  BY <1>2, <1>3, <1>4, <1>5, <1>6

\* So do assignments of threads,
LEMMA AssignTasksType ==
  ASSUME TypeOK, NEW D \in SUBSET Threads, NEW a \in [D -> Tasks \cup {None}],
         NEW gone \in SUBSET Tasks, AssignTasks(D, a, gone)
  PROVE  /\ t_thread' \in [Tasks -> Threads \cup {None}]
         /\ t_commit' \in [Tasks -> Usize]
         /\ th_history' \in [Threads -> SUBSET Tasks]
         /\ th_history_size' \in [Threads -> Int]
         /\ th_task' \in [Threads -> Tasks \cup {None}]
         /\ th_commit' \in [Threads -> Usize]
<1> DEFINE Leaves(u, th) ==
             t_thread[u] = th /\ (u \in gone \/ \E d \in D \ {th} : a[d] = u)
           Joins(u, th) == th \in D /\ a[th] = u /\ t_thread[u] # th
<1>1. t_thread' \in [Tasks -> Threads \cup {None}]
  BY DEF AssignTasks, TypeOK
<1>2. t_commit' \in [Tasks -> Usize]
  BY DEF AssignTasks, TypeOK
<1>3. th_history' \in [Threads -> SUBSET Tasks]
  BY DEF AssignTasks, TypeOK
<1>4. th_history_size' \in [Threads -> Int]
  <2> DEFINE lost(th) == Cardinality({u \in Tasks : Leaves(u, th)})
             won(th) == Cardinality({u \in Tasks : Joins(u, th)})
  <2>1. \A th \in Threads : lost(th) \in Nat /\ won(th) \in Nat
    <3> SUFFICES ASSUME NEW th \in Threads
                 PROVE lost(th) \in Nat /\ won(th) \in Nat
      OBVIOUS
    <3>1. {u \in Tasks : Leaves(u, th)} \in SUBSET Tasks
      OBVIOUS
    <3>2. {u \in Tasks : Joins(u, th)} \in SUBSET Tasks
      OBVIOUS
    <3> HIDE DEF Leaves, Joins
    <3> QED
      BY <3>1, <3>2, TaskCount
  <2>2. th_history_size' = [th \in Threads |->
                              th_history_size[th] - lost(th) + won(th)]
    BY Zenon DEF AssignTasks
  <2> HIDE DEF lost, won
  <2> QED
    BY <2>1, <2>2 DEF TypeOK
<1>5. th_task' \in [Threads -> Tasks \cup {None}]
  BY DEF AssignTasks, TypeOK
<1>6. th_commit' \in [Threads -> Usize]
  BY DEF AssignTasks, TypeOK, Usize, NoCommit
<1> QED
  BY <1>1, <1>2, <1>3, <1>4, <1>5, <1>6

\* and the stopping of a task.
LEMMA StopTaskType ==
  ASSUME TypeOK, NEW p \in Prims, NEW t \in Tasks, StopTask(p, t)
  PROVE  /\ t_stopper' \in [Tasks -> Prims \cup {None}]
         /\ p_stopped' \in [Prims -> Seq(Tasks)]
         /\ p_nb_stopped' \in [Prims -> Int]
         /\ s_actives' \subseteq Tasks
         /\ p_updated' \subseteq Prims
         /\ t_status' \in [Tasks -> Statuses]
<1> DEFINE Q == PrimPropagates(p, t_status, p_updated)
           marked == MarkUpdated(t_status, Overridden(Q))
<1>1. Q \subseteq Prims
  BY PropagatesType
<1>2. marked \in [Tasks -> Statuses]
  BY MarkUpdatedType DEF TypeOK
<1>3. t_status' \in [Tasks -> Statuses]
  <2>1. t_status' = [marked EXCEPT ![t] = STOPPED]
    BY DEF StopTask
  <2> HIDE DEF marked
  <2> QED
    BY <1>2, <2>1 DEF Statuses, STOPPED
<1>4. p_updated' \subseteq Prims
  BY <1>1 DEF StopTask, TypeOK
<1>5. p_stopped' \in [Prims -> Seq(Tasks)]
  BY DEF StopTask, TypeOK
<1>6. /\ t_stopper' \in [Tasks -> Prims \cup {None}]
      /\ p_nb_stopped' \in [Prims -> Int]
      /\ s_actives' \subseteq Tasks
  BY DEF StopTask, TypeOK
<1> QED
  BY <1>3, <1>4, <1>5, <1>6

\* An assignment of one thread, whatever it is given.
LEMMA AssignOneIs ==
  ASSUME NEW th \in Threads, NEW t, NEW gone, s_actives \subseteq Tasks,
         AssignOne(th, t, gone)
  PROVE  \E a \in [{th} -> Tasks \cup {None}] : AssignTasks({th}, a, gone)
BY DEF AssignOne, Assignments

\* The thread that calls executes a task.
LEMMA CallerIsTask ==
  ASSUME TypeOK, NEW th \in Threads, ThreadActive(th)
  PROVE  th_task[th] \in Tasks
BY DEF TypeOK, ThreadActive

\* A call that only stops the calling thread's task keeps all types.
LEMMA StopThreadType ==
  ASSUME TypeOK, NEW p \in Prims, NEW th \in Threads, ThreadActive(th),
         StopThread(p, th),
         UNCHANGED <<commitVars, s_threads, procVars, primVars, ownVars,
                     overrideVars, live, fault>>
  PROVE  TypeOK'
<1>1. th_task[th] \in Tasks
  BY CallerIsTask
<1>2. StopTask(p, th_task[th])
  BY DEF StopThread
<1>3. PICK a \in [{th} -> Tasks \cup {None}] : AssignTasks({th}, a, {})
  BY AssignOneIs DEF StopThread, TypeOK
<1>4. /\ t_thread' \in [Tasks -> Threads \cup {None}]
      /\ t_commit' \in [Tasks -> Usize]
      /\ th_history' \in [Threads -> SUBSET Tasks]
      /\ th_history_size' \in [Threads -> Int]
      /\ th_task' \in [Threads -> Tasks \cup {None}]
      /\ th_commit' \in [Threads -> Usize]
  BY <1>3, AssignTasksType
<1>5. /\ t_stopper' \in [Tasks -> Prims \cup {None}]
      /\ p_stopped' \in [Prims -> Seq(Tasks)]
      /\ p_nb_stopped' \in [Prims -> Int]
      /\ s_actives' \subseteq Tasks
      /\ p_updated' \subseteq Prims
      /\ t_status' \in [Tasks -> Statuses]
  BY <1>1, <1>2, StopTaskType
<1> QED
  BY <1>4, <1>5 DEF TypeOK, commitVars, procVars, primVars, ownVars,
     overrideVars

\* Taking ownership keeps both counters whole numbers,
LEMMA TakeOwnershipType ==
  ASSUME TypeOK, NEW p \in Prims, NEW t \in Tasks, TakeOwnership(p, t)
  PROVE  /\ p_nb_owning' \in [Prims -> Nat]
         /\ t_nb_owned' \in [Tasks -> Nat]
BY DEF TypeOK, TakeOwnership

\* and so does releasing it: neither goes below zero.
LEMMA ReleaseOwnershipType ==
  ASSUME TypeOK, NEW p \in Prims, NEW t \in Tasks, ReleaseOwnership(p, t)
  PROVE  /\ p_nb_owning' \in [Prims -> Nat]
         /\ t_nb_owned' \in [Tasks -> Nat]
BY DEF TypeOK, ReleaseOwnership, Releases

\* A fault changes nothing but fault.
LEMMA FaultType ==
  ASSUME TypeOK, NEW kind \in {"abort", "wild"}, Fault(kind)
  PROVE  TypeOK'
BY DEF TypeOK, Fault, commitVars, procVars, primVars, execVars, ownVars,
   overrideVars, stopVars, updateVars

-----------------------------------------------------------------------------
(* Type correctness, call by call *)

\* The calls on a mutex keep all types.
LEMMA MutexType ==
  ASSUME TypeOK, NEW th \in Threads, NEW m \in Mutexes
  PROVE  /\ MutexTake(th, m) => TypeOK'
         /\ MutexBlock(th, m) => TypeOK'
         /\ MutexUnlockFails(th, m) => TypeOK'
         /\ MutexUnlock(th, m) => TypeOK'
         /\ MutexUnlockWild(th, m) => TypeOK'
<1> DEFINE t == th_task[th]
<1>1. m \in Prims
  BY DEF Prims
<1>2. Calls(th, m) => t \in Tasks
  BY CallerIsTask DEF Calls
<1>3. t_status \in [Tasks -> Statuses] /\ p_updated \in SUBSET Prims
  BY DEF TypeOK
<1>4. ASSUME MutexTake(th, m) PROVE TypeOK'
  <2>1. t \in Tasks
    BY <1>2, <1>4 DEF MutexTake
  <2>2. p_nb_owning' \in [Prims -> Nat] /\ t_nb_owned' \in [Tasks -> Nat]
    BY <1>1, <1>4, <2>1, TakeOwnershipType DEF MutexTake
  <2>3. Override(m, t, t_status, p_updated)
    BY <1>4 DEF MutexTake
  <2>4. /\ p_overridden' \in [Prims -> Tasks \cup {None}]
        /\ t_overriders' \in [Tasks -> SUBSET Prims]
        /\ t_nb_overrides' \in [Tasks -> Int]
        /\ p_updated' \subseteq Prims
        /\ t_status' \in [Tasks -> Statuses]
    BY <1>1, <1>3, <2>1, <2>3, OverrideType
  <2> QED
    BY <1>4, <2>2, <2>4 DEF TypeOK, MutexTake, commitVars, procVars,
       primVars, execVars, stopVars
<1>5. ASSUME MutexBlock(th, m) PROVE TypeOK'
  BY <1>1, <1>5, StopThreadType DEF MutexBlock, Calls
<1>6. ASSUME MutexUnlockFails(th, m) PROVE TypeOK'
  <2>1. t \in Tasks
    BY <1>2, <1>6 DEF MutexUnlockFails, UnlocksOwn
  <2>2. p_nb_owning' \in [Prims -> Nat] /\ t_nb_owned' \in [Tasks -> Nat]
    BY <1>1, <1>6, <2>1, ReleaseOwnershipType DEF MutexUnlockFails
  <2> QED
    BY <1>6, <2>2 DEF TypeOK, MutexUnlockFails, commitVars, procVars,
       primVars, execVars, overrideVars, stopVars, updateVars
<1>7. ASSUME MutexUnlock(th, m) PROVE TypeOK'
  <2>1. t \in Tasks
    BY <1>2, <1>7 DEF MutexUnlock, UnlocksOwn
  <2>2. p_nb_owning' \in [Prims -> Nat] /\ t_nb_owned' \in [Tasks -> Nat]
    BY <1>1, <1>7, <2>1, ReleaseOwnershipType DEF MutexUnlock
  <2>3. Override(m, None, t_status, p_updated)
    BY <1>7 DEF MutexUnlock
  <2>4. /\ p_overridden' \in [Prims -> Tasks \cup {None}]
        /\ t_overriders' \in [Tasks -> SUBSET Prims]
        /\ t_nb_overrides' \in [Tasks -> Int]
        /\ p_updated' \subseteq Prims
        /\ t_status' \in [Tasks -> Statuses]
    BY <1>1, <1>3, <2>3, OverrideType
  <2> QED
    BY <1>7, <2>2, <2>4 DEF TypeOK, MutexUnlock, commitVars, procVars,
       primVars, execVars, stopVars
<1>8. ASSUME MutexUnlockWild(th, m) PROVE TypeOK'
  BY <1>8, FaultType DEF MutexUnlockWild
<1> QED
  BY <1>4, <1>5, <1>6, <1>7, <1>8

\* The calls on a semaphore keep all types.
LEMMA SemType ==
  ASSUME TypeOK, NEW th \in Threads, NEW s \in Sems
  PROVE  /\ SemTake(th, s) => TypeOK'
         /\ SemBlock(th, s) => TypeOK'
         /\ SemReleaseFails(th, s) => TypeOK'
         /\ SemRelease(th, s) => TypeOK'
         /\ SemReleaseWild(th, s) => TypeOK'
<1> DEFINE t == th_task[th]
<1>1. s \in Prims
  BY DEF Prims
<1>2. Calls(th, s) => t \in Tasks
  BY CallerIsTask DEF Calls
<1>3. held[s] \in [Tasks -> Nat]
  BY DEF TypeOK
<1>4. ASSUME SemTake(th, s) PROVE TypeOK'
  <2>1. t \in Tasks
    BY <1>2, <1>4 DEF SemTake
  <2>2. p_nb_owning' \in [Prims -> Nat] /\ t_nb_owned' \in [Tasks -> Nat]
    BY <1>1, <1>4, <2>1, TakeOwnershipType DEF SemTake
  <2>3. held' \in [Sems -> [Tasks -> Nat]]
    BY <1>3, <1>4, <2>1 DEF SemTake, TypeOK
  <2> QED
    BY <1>4, <2>2, <2>3 DEF TypeOK, SemTake, commitVars, procVars,
       primVars, execVars, overrideVars, stopVars, updateVars
<1>5. ASSUME SemBlock(th, s) PROVE TypeOK'
  BY <1>1, <1>5, StopThreadType DEF SemBlock, Calls
<1>6. ASSUME SemReleaseFails(th, s) PROVE TypeOK'
  <2>1. t \in Tasks
    BY <1>2, <1>6 DEF SemReleaseFails, MayRelease
  <2>2. p_nb_owning' \in [Prims -> Nat] /\ t_nb_owned' \in [Tasks -> Nat]
    BY <1>1, <1>6, <2>1, ReleaseOwnershipType DEF SemReleaseFails
  <2> QED
    BY <1>6, <2>2 DEF TypeOK, SemReleaseFails, commitVars, procVars,
       primVars, execVars, overrideVars, stopVars, updateVars
<1>7. ASSUME SemRelease(th, s) PROVE TypeOK'
  <2>1. t \in Tasks
    BY <1>2, <1>7 DEF SemRelease, MayRelease
  <2>2. p_nb_owning' \in [Prims -> Nat] /\ t_nb_owned' \in [Tasks -> Nat]
    BY <1>1, <1>7, <2>1, ReleaseOwnershipType DEF SemRelease
  <2>3. held' \in [Sems -> [Tasks -> Nat]]
    BY <1>3, <1>7, <2>1 DEF SemRelease, Untake, TypeOK
  <2> QED
    BY <1>7, <2>2, <2>3 DEF TypeOK, SemRelease, commitVars, procVars,
       primVars, execVars, overrideVars, stopVars, updateVars
<1>8. ASSUME SemReleaseWild(th, s) PROVE TypeOK'
  BY <1>8, FaultType DEF SemReleaseWild
<1> QED
  BY <1>4, <1>5, <1>6, <1>7, <1>8

\* A primitive is initialised with values of its types.
LEMMA InitPrimType ==
  ASSUME TypeOK, NEW p \in Prims, NEW prc \in Procs, InitPrim(p, prc)
  PROVE  /\ p_process' \in [Prims -> Procs \cup {None}]
         /\ p_updated' \subseteq Prims
         /\ p_nb_owning' \in [Prims -> Nat]
         /\ p_nb_stopped' \in [Prims -> Int]
         /\ p_stopped' \in [Prims -> Seq(Tasks)]
         /\ p_overridden' \in [Prims -> Tasks \cup {None}]
         /\ prc_nb_primitives' \in [Procs -> Usize]
BY DEF InitPrim, TypeOK, Usize

\* The calls that register objects with a process, remove it or resume it
\* keep all types.
LEMMA ProcessType ==
  ASSUME TypeOK, NEW prc \in Procs
  PROVE  /\ RegisterProcess(prc) => TypeOK'
         /\ \A t \in Tasks : RegisterTask(prc, t) => TypeOK'
         /\ \A m \in Mutexes : RegisterMutex(prc, m) => TypeOK'
         /\ \A s \in Sems, n \in Takings : RegisterSem(prc, s, n) => TypeOK'
         /\ UnregisterProcess(prc) => TypeOK'
         /\ ResumeProcess(prc) => TypeOK'
<1>1. ASSUME RegisterProcess(prc) PROVE TypeOK'
  <2>1. prc \in Prims /\ InitPrim(prc, prc)
    BY <1>1 DEF Prims, RegisterProcess
  <2>2. /\ p_process' \in [Prims -> Procs \cup {None}]
        /\ p_updated' \subseteq Prims
        /\ p_nb_owning' \in [Prims -> Nat]
        /\ p_nb_stopped' \in [Prims -> Int]
        /\ p_stopped' \in [Prims -> Seq(Tasks)]
        /\ p_overridden' \in [Prims -> Tasks \cup {None}]
        /\ prc_nb_primitives' \in [Procs -> Usize]
    BY <2>1, InitPrimType
  <2>3. /\ s_processes' \subseteq Procs
        /\ prc_status' \in [Procs -> Statuses]
        /\ prc_tasks' \in [Procs -> SUBSET Tasks]
        /\ prc_nb_tasks' \in [Procs -> Int]
    BY <1>1 DEF RegisterProcess, TypeOK, Statuses, ACTIVE
  <2> QED
    BY <1>1, <2>2, <2>3 DEF RegisterProcess, TypeOK, commitVars, execVars
<1>2. ASSUME NEW t \in Tasks, RegisterTask(prc, t) PROVE TypeOK'
  BY <1>2 DEF RegisterTask, TypeOK, Statuses, ACTIVE, NoCommit, Usize,
     commitVars, primVars
<1>3. ASSUME NEW m \in Mutexes, RegisterMutex(prc, m) PROVE TypeOK'
  <2>1. m \in Prims /\ InitPrim(m, prc)
    BY <1>3 DEF Prims, RegisterMutex
  <2> QED
    BY <1>3, <2>1, InitPrimType DEF RegisterMutex, TypeOK, commitVars,
       execVars, procVars
<1>4. ASSUME NEW s \in Sems, NEW n \in Takings, RegisterSem(prc, s, n)
      PROVE TypeOK'
  <2>1. s \in Prims /\ InitPrim(s, prc)
    BY <1>4 DEF Prims, RegisterSem
  <2> QED
    BY <1>4, <2>1, InitPrimType DEF RegisterSem, TypeOK, commitVars,
       execVars, procVars
<1>5. ASSUME UnregisterProcess(prc) PROVE TypeOK'
  BY <1>5 DEF UnregisterProcess, TypeOK, commitVars, execVars, primVars,
     ownVars, overrideVars, updateVars
<1>6. ASSUME ResumeProcess(prc) PROVE TypeOK'
  BY <1>6 DEF ResumeProcess, TypeOK, Statuses, ACTIVE, commitVars,
     execVars, primVars, ownVars, overrideVars, stopVars, updateVars
<1> QED
  BY <1>1, <1>2, <1>3, <1>4, <1>5, <1>6

\* sched_pause_process appends the tasks it stops to the process's list.
LEMMA PauseType ==
  ASSUME TypeOK, NEW prc \in Procs, PauseProcess(prc)
  PROVE  TypeOK'
<1> DEFINE T == Pausable(prc)
<1>1. T \in SUBSET Tasks
  BY DEF Pausable, TypeOK
<1>2. Cardinality(T) \in Nat
  BY <1>1, TaskCount
<1>3. p_stopped' \in [Prims -> Seq(Tasks)]
  <2>1. PICK q \in Injection(1 .. Cardinality(T), T) :
          p_stopped' = [p_stopped EXCEPT ![prc] = @ \o q]
    BY DEF PauseProcess
  <2>2. q \in [1 .. Cardinality(T) -> Tasks]
    BY <1>1, <2>1 DEF Injection
  <2>3. q \in Seq(Tasks)
    BY <1>2, <2>2
  <2>4. prc \in Prims /\ p_stopped[prc] \in Seq(Tasks)
    BY DEF Prims, TypeOK
  <2>5. p_stopped[prc] \o q \in Seq(Tasks)
    BY <2>3, <2>4
  <2> QED
    BY <2>1, <2>5 DEF TypeOK
<1>4. p_nb_stopped' \in [Prims -> Int]
  <2>1. p_nb_stopped' =
          [p_nb_stopped EXCEPT ![prc] = @ + Cardinality(T)]
    BY DEF PauseProcess
  <2>2. p_nb_stopped \in [Prims -> Int] /\ prc \in Prims
    BY DEF TypeOK, Prims
  <2> HIDE DEF T
  <2> QED
    BY <1>2, <2>1, <2>2
<1>5. p_updated' \subseteq Prims
  BY DEF PauseProcess, TypeOK, Prims
<1>6. t_stopper' \in [Tasks -> Prims \cup {None}]
  BY DEF PauseProcess, TypeOK, Prims
<1>7. t_status' \in [Tasks -> Statuses]
  BY DEF PauseProcess, TypeOK, Statuses, STOPPED
<1>8. prc_status' \in [Procs -> Statuses] /\ s_actives' \subseteq Tasks
  BY DEF PauseProcess, TypeOK, Statuses, STOPPED
<1> QED
  BY <1>3, <1>4, <1>5, <1>6, <1>7, <1>8 DEF PauseProcess, TypeOK,
     commitVars, execVars, primVars, ownVars, overrideVars

\* The end of a primitive keeps all types.
LEMMA UnregisterPrimType ==
  ASSUME TypeOK, NEW p \in Mutexes \cup Sems, UnregisterPrim(p)
  PROVE  TypeOK'
<1> DEFINE marked == MarkUpdated(t_status, Overridden(ResumeFlags(p)))
           status == [t \in Tasks |->
                        IF t \in Resumed(p) THEN ACTIVE ELSE marked[t]]
           flagged == p_updated \cup ResumeFlags(p)
<1>1. p \in Prims
  BY DEF Prims
<1>2. marked \in [Tasks -> Statuses]
  BY MarkUpdatedType DEF TypeOK
<1>3. status \in [Tasks -> Statuses]
  <2> HIDE DEF marked
  <2> QED
    BY <1>2 DEF ACTIVE, Statuses
<1>4. flagged \in SUBSET Prims
  BY PropagatesType DEF ResumeFlags, TypeOK
<1>5. Override(p, None, status, flagged)
  BY DEF UnregisterPrim
<1>6. /\ p_overridden' \in [Prims -> Tasks \cup {None}]
      /\ t_overriders' \in [Tasks -> SUBSET Prims]
      /\ t_nb_overrides' \in [Tasks -> Int]
      /\ p_updated' \subseteq Prims
      /\ t_status' \in [Tasks -> Statuses]
  <2> HIDE DEF status, flagged
  <2> QED
    BY <1>1, <1>3, <1>4, <1>5, OverrideType
<1>7. Resumed(p) \subseteq Tasks /\ Len(p_stopped[p]) \in Nat
  BY <1>1 DEF Resumed, TypeOK
<1>8. /\ s_actives' \subseteq Tasks
      /\ t_stopper' \in [Tasks -> Prims \cup {None}]
      /\ p_nb_stopped' \in [Prims -> Int]
      /\ p_stopped' \in [Prims -> Seq(Tasks)]
  <2>1. s_actives' \subseteq Tasks
    BY <1>7 DEF UnregisterPrim, TypeOK
  <2>2. t_stopper' \in [Tasks -> Prims \cup {None}]
    BY DEF UnregisterPrim, TypeOK
  <2>3. p_nb_stopped' \in [Prims -> Int]
    <3>1. p_nb_stopped' =
            [p_nb_stopped EXCEPT ![p] = @ - Len(p_stopped[p])]
      BY DEF UnregisterPrim
    <3>2. p_nb_stopped \in [Prims -> Int]
      BY DEF TypeOK
    <3> QED
      BY <1>1, <1>7, <3>1, <3>2
  <2>4. p_stopped' \in [Prims -> Seq(Tasks)]
    <3>1. p_stopped' = [p_stopped EXCEPT ![p] = <<>>]
      BY DEF UnregisterPrim
    <3>2. p_stopped \in [Prims -> Seq(Tasks)] /\ <<>> \in Seq(Tasks)
      BY DEF TypeOK
    <3> QED
      BY <3>1, <3>2
  <2> QED
    BY <2>1, <2>2, <2>3, <2>4
<1>9. prc_nb_primitives' \in [Procs -> Usize]
  <2>1. \A n \in Usize : Dec(n) \in Usize
    BY DEF Usize, Dec
  <2>2. prc_nb_primitives' =
          [prc_nb_primitives EXCEPT ![p_process[p]] = Dec(@)]
    BY DEF UnregisterPrim
  <2> QED
    BY <2>1, <2>2 DEF TypeOK
<1>10. held' \in [Sems -> [Tasks -> Nat]]
  BY DEF UnregisterPrim, TypeOK
<1>11. live' \subseteq Tasks \cup Mutexes \cup Sems
  BY DEF UnregisterPrim, TypeOK
<1> QED
  BY <1>6, <1>8, <1>9, <1>10, <1>11 DEF UnregisterPrim, TypeOK, commitVars,
     procVars, execVars

\* Threads that come and go and tasks that exit keep all types.
LEMMA ThreadType ==
  ASSUME TypeOK, NEW th \in Threads
  PROVE  /\ RegisterThread(th) => TypeOK'
         /\ UnregisterThread(th) => TypeOK'
         /\ UnregisterTask(th) => TypeOK'
<1>1. ASSUME RegisterThread(th) PROVE TypeOK'
  BY <1>1 DEF RegisterThread, TypeOK, NoCommit, Usize, commitVars, procVars,
     primVars, ownVars, overrideVars, stopVars, updateVars
<1>2. ASSUME UnregisterThread(th) PROVE TypeOK'
  <2> DEFINE a == [d \in {} |-> None]
  <2>1. a \in [{} -> Tasks \cup {None}] /\ th_history[th] \in SUBSET Tasks
    BY DEF TypeOK
  <2>2. AssignTasks({}, a, th_history[th])
    BY <1>2 DEF UnregisterThread
  <2> HIDE DEF a
  <2> QED
    BY <1>2, <2>1, <2>2, AssignTasksType DEF UnregisterThread, TypeOK,
       commitVars, procVars, primVars, ownVars, overrideVars, stopVars,
       updateVars
<1>3. ASSUME UnregisterTask(th) PROVE TypeOK'
  <2> DEFINE t == th_task[th]
  <2>1. t \in Tasks
    BY <1>3, CallerIsTask DEF UnregisterTask
  <2>2. PICK a \in [{th} -> Tasks \cup {None}] : AssignTasks({th}, a, {t})
    BY <1>3, AssignOneIs DEF UnregisterTask, TypeOK
  <2>3. prc_nb_tasks' \in [Procs -> Int]
    <3>1. prc_nb_tasks' = [prc_nb_tasks EXCEPT ![t_process[t]] = @ - 1]
      BY <1>3 DEF UnregisterTask, Uncount
    <3>2. prc_nb_tasks \in [Procs -> Int]
      BY DEF TypeOK
    <3>3. CASE t_process[t] \in Procs
      BY <3>1, <3>2, <3>3
    <3>4. CASE t_process[t] \notin Procs
      BY <3>1, <3>2, <3>4
    <3> QED
      BY <3>3, <3>4
  <2>4. {t} \in SUBSET Tasks /\ {th} \in SUBSET Threads
    BY <2>1
  <2>5. /\ t_thread' \in [Tasks -> Threads \cup {None}]
        /\ t_commit' \in [Tasks -> Usize]
        /\ th_history' \in [Threads -> SUBSET Tasks]
        /\ th_history_size' \in [Threads -> Int]
        /\ th_task' \in [Threads -> Tasks \cup {None}]
        /\ th_commit' \in [Threads -> Usize]
    BY <2>2, <2>4, AssignTasksType
  <2> QED
    BY <1>3, <2>3, <2>5 DEF UnregisterTask, TypeOK, commitVars, primVars,
       ownVars, overrideVars, updateVars
<1> QED
  BY <1>1, <1>2, <1>3

\* Opening and closing a commit keeps all types; the index stays in its
\* width.
LEMMA CommitType ==
  ASSUME TypeOK
  PROVE  /\ OpenCommit => TypeOK'
         /\ CloseCommit => TypeOK'
<1>1. ASSUME OpenCommit PROVE TypeOK'
  BY <1>1 DEF OpenCommit, TypeOK, Inc, Usize, procVars, primVars, execVars,
     ownVars, overrideVars, stopVars, updateVars
<1>2. ASSUME CloseCommit PROVE TypeOK'
  <2>1. PICK a \in [s_threads -> Tasks \cup {None}] :
          AssignTasks(s_threads, a, {})
    BY <1>2 DEF CloseCommit, Assignments, TypeOK
  <2>2. p_updated' \subseteq Prims /\ t_status' \in [Tasks -> Statuses]
    BY <1>2 DEF CloseCommit, Schedule, TypeOK, Statuses, STOPPED, updateVars
  <2> QED
    BY <1>2, <2>1, <2>2, AssignTasksType DEF CloseCommit, TypeOK, procVars,
       primVars, ownVars, overrideVars, stopVars
<1> QED
  BY <1>1, <1>2

-----------------------------------------------------------------------------
(* Type correctness of every behaviour *)

\* The zeroed memory the scheduler starts in has the right types.
LEMMA InitType == Init => TypeOK
<1> SUFFICES ASSUME Init PROVE TypeOK
  OBVIOUS
<1>1. NoCommit \in Usize /\ 0 \in Usize
  BY DEF NoCommit, Usize
<1>2. UNREGISTERED \in Statuses
  BY DEF UNREGISTERED, Statuses
<1>3. /\ s_commit_opened \in BOOLEAN
      /\ s_commit_index \in Usize
      /\ s_actives \subseteq Tasks
      /\ s_threads \subseteq Threads
      /\ s_processes \subseteq Procs
      /\ live \subseteq Tasks \cup Mutexes \cup Sems
      /\ fault \in {"none", "abort", "wild"}
  BY <1>1 DEF Init
<1>4. /\ th_commit \in [Threads -> Usize]
      /\ th_task \in [Threads -> Tasks \cup {None}]
      /\ th_history \in [Threads -> SUBSET Tasks]
      /\ th_history_size \in [Threads -> Int]
  BY <1>1 DEF Init
<1>5. /\ t_status \in [Tasks -> Statuses]
      /\ t_commit \in [Tasks -> Usize]
      /\ t_process \in [Tasks -> Procs \cup {None}]
      /\ t_thread \in [Tasks -> Threads \cup {None}]
      /\ t_nb_owned \in [Tasks -> Nat]
      /\ t_stopper \in [Tasks -> Prims \cup {None}]
      /\ t_nb_overrides \in [Tasks -> Int]
      /\ t_overriders \in [Tasks -> SUBSET Prims]
  BY <1>1, <1>2 DEF Init
<1>6. /\ p_process \in [Prims -> Procs \cup {None}]
      /\ p_updated \subseteq Prims
      /\ p_nb_owning \in [Prims -> Nat]
      /\ p_nb_stopped \in [Prims -> Int]
      /\ p_stopped \in [Prims -> Seq(Tasks)]
      /\ p_overridden \in [Prims -> Tasks \cup {None}]
  BY DEF Init
<1>7. /\ sem_nb_owners \in [Sems -> Nat]
      /\ prc_status \in [Procs -> Statuses]
      /\ prc_tasks \in [Procs -> SUBSET Tasks]
      /\ prc_nb_tasks \in [Procs -> Int]
      /\ prc_nb_primitives \in [Procs -> Usize]
  BY <1>1, <1>2 DEF Init
<1>8. held \in [Sems -> [Tasks -> Nat]]
  BY DEF Init
<1> QED
  BY <1>3, <1>4, <1>5, <1>6, <1>7, <1>8 DEF TypeOK

\* Every call keeps all types.
LEMMA NextType == TypeOK /\ [Next]_vars => TypeOK'
<1> SUFFICES ASSUME TypeOK, [Next]_vars PROVE TypeOK'
  OBVIOUS
<1>1. CASE MutexNext
  BY <1>1, MutexType DEF MutexNext
<1>2. CASE SemNext
  BY <1>2, SemType DEF SemNext
<1>3. CASE ProcessNext
  <2>1. ASSUME NEW prc \in Procs,
               PauseProcessAborts(prc) \/ ResumeProcessWild(prc)
        PROVE  TypeOK'
    BY <2>1, FaultType DEF PauseProcessAborts, ResumeProcessWild
  <2> QED
    BY <1>3, <2>1, ProcessType, PauseType DEF ProcessNext
<1>4. CASE PrimNext
  BY <1>4, UnregisterPrimType, FaultType DEF PrimNext, UnregisterPrimAborts
<1>5. CASE ThreadNext
  BY <1>5, ThreadType, FaultType DEF ThreadNext, UnregisterTaskWild
<1>6. CASE CommitNext
  BY <1>6, CommitType DEF CommitNext
<1>7. CASE UNCHANGED vars
  BY <1>7 DEF vars, TypeOK, commitVars, procVars, primVars, execVars,
     ownVars, overrideVars, stopVars, updateVars
<1> QED
  BY <1>1, <1>2, <1>3, <1>4, <1>5, <1>6, <1>7 DEF Next

\* Every field of every object keeps its type in every behaviour: counters
\* of owners never go below zero, no status leaves its two bits, and the
\* unsigned counter of primitives stays in its width.
THEOREM TypeCorrect == Spec => []TypeOK
BY InitType, NextType, PTL DEF Spec

-----------------------------------------------------------------------------
(* Threads run current tasks, one each *)

\* Flagging leaves ACTIVE tasks ACTIVE and registered tasks registered.
LEMMA MarkUpdatedKeeps ==
  ASSUME NEW status \in [Tasks -> Statuses], NEW T, NEW u \in Tasks
  PROVE  /\ status[u] = ACTIVE => MarkUpdated(status, T)[u] = ACTIVE
         /\ status[u] # UNREGISTERED
              => MarkUpdated(status, T)[u] # UNREGISTERED
BY DEF MarkUpdated, Statuses, HasUpdated, STASK_STATUS_UPDATED, ACTIVE,
   UNREGISTERED

\* Taking A out of a set and putting other elements B in it changes its
\* cardinality by the difference.
LEMMA CardinalityChange ==
  ASSUME NEW S \in SUBSET Tasks, NEW A \in SUBSET S, NEW B \in SUBSET Tasks,
         B \cap S = {}
  PROVE  Cardinality((S \ A) \cup B)
           = Cardinality(S) - Cardinality(A) + Cardinality(B)
<1>1. IsFiniteSet(Tasks)
  OBVIOUS
<1>2. IsFiniteSet(S) /\ IsFiniteSet(A) /\ IsFiniteSet(B)
  BY <1>1, FS_Subset
<1>3. IsFiniteSet(S \ A) /\
      Cardinality(S \ A) = Cardinality(S) - Cardinality(S \cap A)
  BY <1>2, FS_Difference
<1>4. Cardinality((S \ A) \cup B)
        = Cardinality(S \ A) + Cardinality(B) - Cardinality((S \ A) \cap B)
  BY <1>2, <1>3, FS_Union
<1>5. S \cap A = A /\ (S \ A) \cap B = {}
  OBVIOUS
<1>6. Cardinality({}) = 0
  BY FS_EmptySet
<1>7. /\ Cardinality(S) \in Nat /\ Cardinality(A) \in Nat
      /\ Cardinality(B) \in Nat
  BY TaskCount
<1>8. Cardinality(S \ A) = Cardinality(S) - Cardinality(A)
  BY <1>3, <1>5
<1>9. Cardinality((S \ A) \cap B) = 0
  BY <1>5, <1>6
<1>10. Cardinality((S \ A) \cup B)
         = (Cardinality(S) - Cardinality(A)) + Cardinality(B) - 0
  BY <1>4, <1>8, <1>9
<1> QED
  BY <1>7, <1>10

\* The assignments a policy may make: no task to two threads, none that is
\* being unregistered.
Assigns(D, a, gone) ==
  /\ a \in [D -> Tasks \cup {None}]
  /\ \A d, e \in D : a[d] = a[e] /\ a[d] # None => d = e
  /\ \A d \in D : a[d] \notin gone

\* What thread_assign_task and thread_unregister_task do to each thread.
Assigned(D, a, gone) ==
  /\ \A d \in D :
       /\ th_task'[d] = a[d]
       /\ a[d] # None => /\ th_commit'[d] = s_commit_index
                         /\ t_commit'[a[d]] = s_commit_index
  /\ \A th \in Threads \ D : th_task'[th] # None =>
       /\ th_task'[th] = th_task[th]
       /\ th_commit'[th] = th_commit[th]
       /\ th_task[th] \notin gone
  /\ \A th \in Threads \ D : th_history'[th] \subseteq th_history[th]
  /\ \A u \in Tasks : t_commit[u] = s_commit_index
                        => t_commit'[u] = s_commit_index
  /\ \A u \in Tasks : t_thread'[u] # None =>
       t_thread[u] # None \/ \E d \in D : a[d] = u

\* They do it whatever the assignment is.
LEMMA AssignTasksDoes ==
  ASSUME TypeOK, HistoryExact, NEW D \in SUBSET Threads, NEW a,
         NEW gone \in SUBSET Tasks, Assigns(D, a, gone),
         AssignTasks(D, a, gone)
  PROVE  Assigned(D, a, gone)
<1>1. \A d \in D :
        /\ th_task'[d] = a[d]
        /\ a[d] # None => th_commit'[d] = s_commit_index
                            /\ t_commit'[a[d]] = s_commit_index
  BY DEF AssignTasks, Assigns
<1>2. ASSUME NEW th \in Threads \ D, th_task'[th] # None
      PROVE  /\ th_task'[th] = th_task[th]
             /\ th_commit'[th] = th_commit[th]
             /\ th_task[th] \notin gone
  <2>1. th_task[th] # None /\ th_task'[th] = th_task[th]
    BY <1>2 DEF AssignTasks
  <2>2. th_task[th] \in Tasks /\ t_thread[th_task[th]] = th
    BY <2>1 DEF HistoryExact, TypeOK
  <2>3. ~ \E u \in Tasks :
            /\ t_thread[u] = th /\ (u \in gone \/ \E d \in D \ {th} : a[d] = u)
            /\ th_task[th] = u
    BY <1>2 DEF AssignTasks
  <2> QED
    BY <2>1, <2>2, <2>3 DEF AssignTasks
<1>3. \A th \in Threads \ D : th_history'[th] \subseteq th_history[th]
  BY DEF AssignTasks
<1>4. \A u \in Tasks : t_commit[u] = s_commit_index
                         => t_commit'[u] = s_commit_index
  BY DEF AssignTasks
<1>5. \A u \in Tasks : t_thread'[u] # None =>
        t_thread[u] # None \/ \E d \in D : a[d] = u
  BY DEF AssignTasks
<1> QED
  BY <1>1, <1>2, <1>3, <1>4, <1>5 DEF Assigned

\* Any such assignment keeps the histories exact.
LEMMA AssignTasksHistory ==
  ASSUME TypeOK, HistoryExact, NEW D \in SUBSET Threads, NEW a,
         NEW gone \in SUBSET Tasks, Assigns(D, a, gone),
         AssignTasks(D, a, gone)
  PROVE  HistoryExact'
<1> DEFINE Leaves(u, th) ==
             t_thread[u] = th /\ (u \in gone \/ \E d \in D \ {th} : a[d] = u)
           Joins(u, th) == th \in D /\ a[th] = u /\ t_thread[u] # th
           lost(th) == {u \in Tasks : Leaves(u, th)}
           won(th) == {u \in Tasks : Joins(u, th)}
<1> SUFFICES ASSUME NEW th \in Threads
             PROVE  /\ th_history'[th] = {t \in Tasks : t_thread'[t] = th}
                    /\ th_history_size'[th] = Cardinality(th_history'[th])
                    /\ th_task'[th] # None
                         => th_task'[th] \in th_history'[th]
  BY DEF HistoryExact
<1>1. /\ th_history[th] = {t \in Tasks : t_thread[t] = th}
      /\ th_history_size[th] = Cardinality(th_history[th])
      /\ th_task[th] # None => th_task[th] \in th_history[th]
  BY DEF HistoryExact
<1>2. /\ th_history'[th] = (th_history[th] \ lost(th)) \cup won(th)
      /\ th_history_size'[th] = th_history_size[th]
           - Cardinality(lost(th)) + Cardinality(won(th))
  BY Zenon DEF AssignTasks
<1>3. ASSUME NEW u \in Tasks
      PROVE  u \in th_history'[th] <=> t_thread'[u] = th
  <2>1. u \in th_history'[th] <=>
          (t_thread[u] = th /\ ~Leaves(u, th)) \/ Joins(u, th)
    BY <1>1, <1>2
  <2>2. CASE \E d \in D : a[d] = u
    <3>1. PICK d \in D : a[d] = u
      BY <2>2
    <3>2. \A e \in D : a[e] = u => e = d
      BY <3>1 DEF Assigns
    <3>3. t_thread'[u] = d
      <4>1. t_thread'[u] = CHOOSE e \in D : a[e] = u
        BY <3>1 DEF AssignTasks
      <4> QED
        BY <3>1, <3>2, <4>1
    <3>4. u \notin gone
      BY <3>1 DEF Assigns
    <3> QED
      BY <2>1, <3>1, <3>2, <3>3, <3>4
  <2>3. CASE ~ \E d \in D : a[d] = u
    <3>1. t_thread'[u] = IF u \in gone THEN None ELSE t_thread[u]
      BY <2>3 DEF AssignTasks
    <3>2. None # th
      OBVIOUS
    <3> QED
      BY <2>1, <2>3, <3>1, <3>2
  <2> QED
    BY <2>2, <2>3
<1>4. th_history'[th] \subseteq Tasks
  BY <1>1, <1>2
<1>5. th_history'[th] = {t \in Tasks : t_thread'[t] = th}
  BY <1>3, <1>4
<1>6. th_history_size'[th] = Cardinality(th_history'[th])
  <2>1. th_history[th] \in SUBSET Tasks
    BY <1>1
  <2>2. lost(th) \in SUBSET th_history[th]
    BY <1>1
  <2>3. won(th) \in SUBSET Tasks /\ won(th) \cap th_history[th] = {}
    BY <1>1
  <2> HIDE DEF lost, won
  <2> QED
    BY <1>1, <1>2, <2>1, <2>2, <2>3, CardinalityChange
<1>7. ASSUME th_task'[th] # None PROVE th_task'[th] \in th_history'[th]
  <2>1. CASE th \in D
    <3>1. th_task'[th] = a[th] /\ a[th] \in Tasks
      BY <1>7, <2>1, AssignTasksDoes DEF Assigns, Assigned
    <3>2. \A e \in D : a[e] = a[th] => e = th
      BY <1>7, <2>1, <3>1 DEF Assigns
    <3>3. a[th] \notin gone
      BY <2>1 DEF Assigns
    <3> QED
      BY <1>1, <1>2, <2>1, <3>1, <3>2, <3>3
  <2>2. CASE th \notin D
    <3>1. th_task'[th] = th_task[th]
      BY <1>7, <2>2, AssignTasksDoes DEF Assigned
    <3>2. th_task[th] \in Tasks /\ t_thread[th_task[th]] = th
      BY <1>1, <1>7, <3>1
    <3>3. ~Leaves(th_task[th], th)
      BY <1>7, <2>2, <3>2 DEF AssignTasks
    <3> QED
      BY <1>1, <1>2, <3>1, <3>2, <3>3
  <2> QED
    BY <2>1, <2>2
<1> QED
  BY <1>5, <1>6, <1>7

\* A call that assigns the threads of D keeps ThreadInv when it hands out
\* listed tasks, leaves every other thread a listed task or none, and, while
\* a commit stays open, assigns nobody.
LEMMA AssignKeeps ==
  ASSUME TypeOK, ThreadInv, NEW D \in SUBSET s_threads, NEW a,
         NEW gone \in SUBSET Tasks, Assigns(D, a, gone),
         AssignTasks(D, a, gone),
         s_commit_index' = s_commit_index,
         s_threads' \subseteq s_threads,
         \A th \in s_threads \ s_threads' : th_history'[th] = {},
         Listed',
         \A u \in Tasks : t_status[u] # UNREGISTERED
                            => t_status'[u] # UNREGISTERED,
         \A d \in D : a[d] # None => a[d] \in s_actives',
         s_commit_opened' => s_commit_opened /\ D = {},
         ~s_commit_opened' =>
           \A th \in s_threads' \ D : th_task'[th] # None =>
             ~s_commit_opened /\ th_task[th] \in s_actives'
  PROVE  ThreadInv'
<1>1. HistoryExact /\ D \in SUBSET Threads /\ s_threads \subseteq Threads
  BY DEF ThreadInv, TypeOK
<1>2. Assigned(D, a, gone)
  BY <1>1, AssignTasksDoes
<1>3. HistoryExact'
  BY <1>1, AssignTasksHistory
<1>4. Registered'
  <2>1. \A u \in s_actives' : t_status'[u] # UNREGISTERED
    BY DEF Listed, ACTIVE, UNREGISTERED
  <2>2. \A u \in Tasks : t_thread[u] # None => t_status[u] # UNREGISTERED
    BY DEF ThreadInv, Registered
  <2>3. \A u \in Tasks, d \in D : a[d] = u => u # None
    OBVIOUS
  <2> SUFFICES ASSUME NEW u \in Tasks, t_thread'[u] # None
               PROVE  t_status'[u] # UNREGISTERED
    BY DEF Registered
  <2> QED
    BY <1>2, <2>1, <2>2, <2>3 DEF Assigned
<1>5. Forgotten'
  <2>1. \A th \in Threads \ s_threads : th_history[th] = {}
    BY DEF ThreadInv, Forgotten
  <2> SUFFICES ASSUME NEW th \in Threads \ s_threads'
               PROVE  th_history'[th] = {}
    BY DEF Forgotten
  <2>2. CASE th \in s_threads
    BY <2>2
  <2>3. CASE th \notin s_threads
    BY <1>2, <2>1, <2>3 DEF Assigned
  <2> QED
    BY <2>2, <2>3
<1>6. Stamped'
  <2>1. \A th \in s_threads : th_task[th] # None =>
          (th_commit[th] = s_commit_index <=> ~s_commit_opened)
    BY DEF ThreadInv, Stamped
  <2> SUFFICES ASSUME NEW th \in s_threads', th_task'[th] # None
               PROVE  th_commit'[th] = s_commit_index' <=> ~s_commit_opened'
    BY DEF Stamped
  <2>2. CASE th \in D
    BY <1>2, <2>2 DEF Assigned
  <2>3. CASE th \notin D
    <3>1. th_task'[th] = th_task[th] /\ th_commit'[th] = th_commit[th]
      BY <1>1, <1>2, <2>3 DEF Assigned
    <3>2. s_commit_opened' <=> s_commit_opened
      BY <2>3
    <3> QED
      BY <2>1, <3>1, <3>2
  <2> QED
    BY <2>2, <2>3
<1>7. Current'
  <2>1. ~s_commit_opened => \A th \in s_threads : th_task[th] # None =>
          th_task[th] \in s_actives /\ t_commit[th_task[th]] = s_commit_index
    BY DEF ThreadInv, Current, TaskActive
  <2> SUFFICES ASSUME ~s_commit_opened',
                      NEW th \in s_threads', th_task'[th] # None
               PROVE  /\ th_task'[th] \in s_actives'
                      /\ t_commit'[th_task'[th]] = s_commit_index'
    BY DEF Current, TaskActive
  <2>2. CASE th \in D
    BY <1>2, <2>2 DEF Assigned
  <2>3. CASE th \notin D
    <3>1. th_task'[th] = th_task[th] /\ th_task[th] \in Tasks
      BY <1>1, <1>2, <2>3 DEF TypeOK, Assigned
    <3>2. ~s_commit_opened /\ th_task[th] \in s_actives'
      BY <2>3
    <3> QED
      BY <1>2, <2>1, <3>1, <3>2 DEF Assigned
  <2> QED
    BY <2>2, <2>3
<1> QED
  BY <1>3, <1>4, <1>5, <1>6, <1>7 DEF ThreadInv

\* A call that assigns no thread and opens no commit keeps ThreadInv when it
\* lists only ACTIVE tasks and, outside a commit, takes no task off the list.
LEMMA QuietKeeps ==
  ASSUME ThreadInv, UNCHANGED <<execVars, commitVars, s_threads>>, Listed',
         \A u \in Tasks : t_status[u] # UNREGISTERED
                            => t_status'[u] # UNREGISTERED,
         ~s_commit_opened => s_actives \subseteq s_actives'
  PROVE  ThreadInv'
<1>1. HistoryExact' /\ Forgotten' /\ Stamped'
  BY DEF ThreadInv, HistoryExact, Forgotten, Stamped, execVars, commitVars
<1>2. Registered'
  BY DEF ThreadInv, Registered, execVars
<1>3. Current'
  BY DEF ThreadInv, Current, TaskActive, execVars, commitVars
<1> QED
  BY <1>1, <1>2, <1>3 DEF ThreadInv

\* While some thread is active no commit is open, its task is listed, and no
\* other thread runs this task.
LEMMA ActiveThread ==
  ASSUME TypeOK, ThreadInv, NEW th \in Threads, ThreadActive(th)
  PROVE  /\ th \in s_threads
         /\ ~s_commit_opened
         /\ th_task[th] \in s_actives
         /\ t_status[th_task[th]] = ACTIVE
         /\ TaskActive(th_task[th])
         /\ \A o \in s_threads \ {th} : th_task[o] # th_task[th]
<1>1. th \in s_threads /\ ~s_commit_opened
  BY DEF ThreadActive, ThreadInv, Stamped
<1>2. th_task[th] \in s_actives /\ TaskActive(th_task[th])
  BY <1>1 DEF ThreadActive, ThreadInv, Current
<1>3. t_status[th_task[th]] = ACTIVE
  BY <1>2 DEF ThreadInv, Listed
<1>4. \A o \in s_threads \ {th} : th_task[o] # th_task[th]
  BY DEF ThreadActive, ThreadInv, HistoryExact, TypeOK
<1> QED
  BY <1>1, <1>2, <1>3, <1>4

\* An active thread whose task leaves the active list, and is maybe forgotten,
\* is given another one: ThreadInv is kept.
LEMMA OneThreadKeeps ==
  ASSUME TypeOK, ThreadInv, NEW th \in Threads, ThreadActive(th),
         NEW gone \in SUBSET {th_task[th]},
         AssignOne(th, th_task[th], gone),
         s_actives' = s_actives \ {th_task[th]},
         UNCHANGED <<commitVars, s_threads>>,
         \A u \in Tasks : t_status[u] # UNREGISTERED
                            => t_status'[u] # UNREGISTERED,
         \A u \in Tasks \ {th_task[th]} :
           t_status[u] = ACTIVE => t_status'[u] = ACTIVE
  PROVE  ThreadInv'
<1> DEFINE t == th_task[th]
           busy == {th_task[o] : o \in s_threads \ {th}}
<1>1. /\ th \in s_threads /\ ~s_commit_opened
      /\ \A o \in s_threads \ {th} : th_task[o] # t
  BY ActiveThread
<1>2. t \in Tasks /\ s_actives \subseteq Tasks
  BY CallerIsTask DEF TypeOK
<1>3. PICK a \in Assignments({th}, s_actives \ (busy \cup {t})) :
        AssignTasks({th}, a, gone)
  BY DEF AssignOne
<1>4. /\ a \in [{th} -> Tasks \cup {None}]
      /\ a[th] # None => a[th] \in s_actives \ {t}
  BY <1>2, <1>3 DEF Assignments
<1>5. Assigns({th}, a, gone)
  BY <1>2, <1>4 DEF Assigns
<1>6. Listed'
  BY <1>2 DEF ThreadInv, Listed
<1>7. HistoryExact /\ {th} \in SUBSET Threads /\ s_threads \subseteq Threads
  BY DEF ThreadInv, TypeOK
<1>8. Assigned({th}, a, gone)
  BY <1>2, <1>3, <1>5, <1>7, AssignTasksDoes
<1>9. \A o \in s_threads' \ {th} : th_task'[o] # None =>
        ~s_commit_opened /\ th_task[o] \in s_actives'
  <2> SUFFICES ASSUME NEW o \in s_threads \ {th}, th_task'[o] # None
               PROVE  th_task[o] \in s_actives'
    BY <1>1
  <2>1. th_task'[o] = th_task[o]
    BY <1>7, <1>8 DEF Assigned
  <2>2. th_task[o] \in s_actives
    BY <1>1, <2>1 DEF ThreadInv, Current
  <2> QED
    BY <1>1, <2>2
<1>10. gone \in SUBSET Tasks /\ {th} \in SUBSET s_threads
  BY <1>1, <1>2
<1>11. /\ s_commit_index' = s_commit_index
       /\ s_commit_opened' = s_commit_opened
       /\ s_threads' = s_threads
  BY DEF commitVars
<1>12. \A d \in {th} : a[d] # None => a[d] \in s_actives'
  BY <1>4
<1> QED
  BY <1>1, <1>3, <1>5, <1>6, <1>9, <1>10, <1>11, <1>12, AssignKeeps

\* An override leaves ACTIVE tasks ACTIVE and registered tasks registered.
LEMMA OverrideKeeps ==
  ASSUME NEW p, NEW t, NEW status \in [Tasks -> Statuses], NEW flagged,
         Override(p, t, status, flagged), NEW u \in Tasks
  PROVE  /\ status[u] = ACTIVE => t_status'[u] = ACTIVE
         /\ status[u] # UNREGISTERED => t_status'[u] # UNREGISTERED
BY MarkUpdatedKeeps DEF Override

\* Stopping t leaves the other ACTIVE tasks ACTIVE and all registered tasks
\* registered.
LEMMA StopTaskKeeps ==
  ASSUME TypeOK, NEW p, NEW t \in Tasks, StopTask(p, t), NEW u \in Tasks
  PROVE  /\ u # t /\ t_status[u] = ACTIVE => t_status'[u] = ACTIVE
         /\ t_status[u] # UNREGISTERED => t_status'[u] # UNREGISTERED
<1> DEFINE T == Overridden(PrimPropagates(p, t_status, p_updated))
           marked == MarkUpdated(t_status, T)
<1>1. /\ t_status[u] = ACTIVE => marked[u] = ACTIVE
      /\ t_status[u] # UNREGISTERED => marked[u] # UNREGISTERED
  BY MarkUpdatedKeeps DEF TypeOK
<1>2. marked \in [Tasks -> Statuses]
  BY MarkUpdatedType DEF TypeOK
<1>3. t_status' = [marked EXCEPT ![t] = STOPPED]
  BY DEF StopTask
<1> HIDE DEF marked
<1>4. t_status'[u] = IF u = t THEN STOPPED ELSE marked[u]
  BY <1>2, <1>3
<1> QED
  BY <1>1, <1>4 DEF STOPPED, UNREGISTERED

\* A task that blocks hands its thread on.
LEMMA StopThreadKeeps ==
  ASSUME TypeOK, ThreadInv, NEW p, NEW th \in Threads, ThreadActive(th),
         StopThread(p, th), UNCHANGED <<commitVars, s_threads>>
  PROVE  ThreadInv'
<1>1. th_task[th] \in Tasks
  BY CallerIsTask
<1>2. StopTask(p, th_task[th]) /\ AssignOne(th, th_task[th], {})
  BY DEF StopThread
<1>3. s_actives' = s_actives \ {th_task[th]}
  BY <1>2 DEF StopTask
<1>4. /\ \A u \in Tasks : t_status[u] # UNREGISTERED
                            => t_status'[u] # UNREGISTERED
      /\ \A u \in Tasks \ {th_task[th]} :
           t_status[u] = ACTIVE => t_status'[u] = ACTIVE
  BY <1>1, <1>2, StopTaskKeeps
<1> QED
  BY <1>2, <1>3, <1>4, OneThreadKeeps

\* A fault changes neither threads nor tasks.
LEMMA FaultKeeps ==
  ASSUME ThreadInv, NEW kind, Fault(kind)
  PROVE  ThreadInv'
<1>1. UNCHANGED <<execVars, commitVars, s_threads, s_actives, t_status>>
  BY DEF Fault, stopVars, updateVars
<1>2. Listed'
  BY <1>1 DEF ThreadInv, Listed
<1> QED
  BY <1>1, <1>2, QuietKeeps

\* The calls on a mutex keep ThreadInv.
LEMMA MutexKeeps ==
  ASSUME TypeOK, ThreadInv, NEW th \in Threads, NEW m \in Mutexes
  PROVE  /\ MutexTake(th, m) => ThreadInv'
         /\ MutexBlock(th, m) => ThreadInv'
         /\ MutexUnlockFails(th, m) => ThreadInv'
         /\ MutexUnlock(th, m) => ThreadInv'
         /\ MutexUnlockWild(th, m) => ThreadInv'
<1>1. t_status \in [Tasks -> Statuses] /\ s_actives \subseteq Tasks
  BY DEF TypeOK
<1>2. ASSUME NEW t, Override(m, t, t_status, p_updated),
             UNCHANGED <<execVars, commitVars, s_threads, s_actives>>
      PROVE  ThreadInv'
  <2>1. \A u \in Tasks :
          /\ t_status[u] = ACTIVE => t_status'[u] = ACTIVE
          /\ t_status[u] # UNREGISTERED => t_status'[u] # UNREGISTERED
    BY <1>1, <1>2, OverrideKeeps
  <2>2. Listed'
    BY <1>1, <1>2, <2>1 DEF ThreadInv, Listed
  <2> QED
    BY <1>2, <2>1, <2>2, QuietKeeps
<1>3. ASSUME MutexTake(th, m) PROVE ThreadInv'
  BY <1>2, <1>3 DEF MutexTake, stopVars
<1>4. ASSUME MutexBlock(th, m) PROVE ThreadInv'
  BY <1>4, StopThreadKeeps DEF MutexBlock, Calls
<1>5. ASSUME MutexUnlockFails(th, m) PROVE ThreadInv'
  <2>1. UNCHANGED <<execVars, commitVars, s_threads, s_actives, t_status>>
    BY <1>5 DEF MutexUnlockFails, stopVars, updateVars
  <2>2. Listed'
    BY <2>1 DEF ThreadInv, Listed
  <2> QED
    BY <2>1, <2>2, QuietKeeps
<1>6. ASSUME MutexUnlock(th, m) PROVE ThreadInv'
  BY <1>2, <1>6 DEF MutexUnlock, stopVars
<1>7. ASSUME MutexUnlockWild(th, m) PROVE ThreadInv'
  BY <1>7, FaultKeeps DEF MutexUnlockWild
<1> QED
  BY <1>3, <1>4, <1>5, <1>6, <1>7

\* The calls on a semaphore keep ThreadInv.
LEMMA SemKeeps ==
  ASSUME TypeOK, ThreadInv, NEW th \in Threads, NEW s \in Sems
  PROVE  /\ SemTake(th, s) => ThreadInv'
         /\ SemBlock(th, s) => ThreadInv'
         /\ SemReleaseFails(th, s) => ThreadInv'
         /\ SemRelease(th, s) => ThreadInv'
         /\ SemReleaseWild(th, s) => ThreadInv'
<1>1. ASSUME SemTake(th, s) \/ SemReleaseFails(th, s) \/ SemRelease(th, s)
      PROVE  ThreadInv'
  <2>1. UNCHANGED <<execVars, commitVars, s_threads, s_actives, t_status>>
    BY <1>1 DEF SemTake, SemReleaseFails, SemRelease, stopVars, updateVars
  <2>2. Listed'
    BY <2>1 DEF ThreadInv, Listed
  <2> QED
    BY <2>1, <2>2, QuietKeeps
<1>2. ASSUME SemBlock(th, s) PROVE ThreadInv'
  BY <1>2, StopThreadKeeps DEF SemBlock, Calls
<1>3. ASSUME SemReleaseWild(th, s) PROVE ThreadInv'
  BY <1>3, FaultKeeps DEF SemReleaseWild
<1> QED
  BY <1>1, <1>2, <1>3

\* Registering a task keeps ThreadInv: a task that is not registered names no
\* thread, so no thread executes it.
LEMMA RegisterTaskKeeps ==
  ASSUME TypeOK, ThreadInv, NEW prc \in Procs, NEW t \in Tasks,
         RegisterTask(prc, t)
  PROVE  ThreadInv'
<1>1. /\ UNCHANGED <<th_commit, th_task, th_history, th_history_size,
                     commitVars, s_threads>>
      /\ s_actives' = s_actives \cup {t}
  BY DEF RegisterTask
<1>2. t_thread[t] = None /\ t_thread' = t_thread
  <2>1. t_thread[t] = None
    BY DEF RegisterTask, ThreadInv, Registered
  <2> QED
    BY <2>1 DEF RegisterTask, TypeOK
<1>3. \A u \in Tasks : t_status'[u] = IF u = t THEN ACTIVE ELSE t_status[u]
  BY DEF RegisterTask, TypeOK
<1>4. \A u \in Tasks \ {t} : t_commit'[u] = t_commit[u]
  BY DEF RegisterTask, TypeOK
<1>5. HistoryExact' /\ Forgotten' /\ Stamped'
  BY <1>1, <1>2 DEF ThreadInv, HistoryExact, Forgotten, Stamped, commitVars
<1>6. Registered'
  BY <1>2, <1>3 DEF ThreadInv, Registered, ACTIVE, UNREGISTERED
<1>7. Listed'
  BY <1>1, <1>3 DEF ThreadInv, Listed, TypeOK
<1>8. Current'
  <2> SUFFICES ASSUME ~s_commit_opened,
                      NEW th \in s_threads, th_task[th] # None
               PROVE  /\ th_task[th] \in s_actives'
                      /\ t_commit'[th_task[th]] = s_commit_index
    BY <1>1 DEF Current, TaskActive, commitVars
  <2>1. th_task[th] \in Tasks /\ t_thread[th_task[th]] = th
    BY DEF ThreadInv, HistoryExact, TypeOK
  <2>2. th_task[th] # t
    BY <1>2, <2>1 DEF TypeOK
  <2>3. th_task[th] \in s_actives /\ t_commit[th_task[th]] = s_commit_index
    BY DEF ThreadInv, Current, TaskActive
  <2> QED
    BY <1>1, <1>4, <2>1, <2>2, <2>3
<1> QED
  BY <1>5, <1>6, <1>7, <1>8 DEF ThreadInv

\* The calls on a process keep ThreadInv: those that take tasks off the list
\* come while a commit is open.
LEMMA ProcessKeeps ==
  ASSUME TypeOK, ThreadInv, NEW prc \in Procs
  PROVE  /\ RegisterProcess(prc) => ThreadInv'
         /\ \A m \in Mutexes : RegisterMutex(prc, m) => ThreadInv'
         /\ \A s \in Sems, n \in Takings : RegisterSem(prc, s, n) => ThreadInv'
         /\ UnregisterProcess(prc) => ThreadInv'
         /\ PauseProcess(prc) => ThreadInv'
         /\ ResumeProcess(prc) => ThreadInv'
<1>1. ASSUME UNCHANGED <<execVars, commitVars, s_threads, s_actives, t_status>>
      PROVE  ThreadInv'
  <2>1. Listed'
    BY <1>1 DEF ThreadInv, Listed
  <2> QED
    BY <1>1, <2>1, QuietKeeps
<1>2. ASSUME RegisterProcess(prc) PROVE ThreadInv'
  BY <1>1, <1>2 DEF RegisterProcess
<1>3. ASSUME NEW m \in Mutexes, RegisterMutex(prc, m) PROVE ThreadInv'
  BY <1>1, <1>3 DEF RegisterMutex
<1>4. ASSUME NEW s \in Sems, NEW n \in Takings, RegisterSem(prc, s, n)
      PROVE  ThreadInv'
  BY <1>1, <1>4 DEF RegisterSem
<1>5. ASSUME ResumeProcess(prc) PROVE ThreadInv'
  BY <1>1, <1>5 DEF ResumeProcess, stopVars, updateVars
<1>6. ASSUME UnregisterProcess(prc) PROVE ThreadInv'
  <2>1. /\ UNCHANGED <<execVars, commitVars, s_threads, t_status>>
        /\ s_commit_opened
        /\ s_actives' \subseteq s_actives
    BY <1>6 DEF UnregisterProcess, updateVars
  <2>2. Listed'
    BY <2>1 DEF ThreadInv, Listed
  <2> QED
    BY <2>1, <2>2, QuietKeeps
<1>7. ASSUME PauseProcess(prc) PROVE ThreadInv'
  <2>1. /\ UNCHANGED <<execVars, commitVars, s_threads>>
        /\ s_commit_opened
        /\ s_actives' = s_actives \ Pausable(prc)
    BY <1>7 DEF PauseProcess, MayPause
  <2>2. \A u \in Tasks :
          t_status'[u] = IF u \in Pausable(prc) THEN STOPPED ELSE t_status[u]
    BY <1>7 DEF PauseProcess
  <2>3. Listed'
    BY <2>1, <2>2 DEF ThreadInv, Listed, TypeOK
  <2>4. \A u \in Tasks : t_status[u] # UNREGISTERED
                           => t_status'[u] # UNREGISTERED
    BY <2>2 DEF STOPPED, UNREGISTERED
  <2> QED
    BY <2>1, <2>3, <2>4, QuietKeeps
<1> QED
  BY <1>2, <1>3, <1>4, <1>5, <1>6, <1>7

\* The end of a mutex or semaphore lists its waiters again.
LEMMA UnregisterPrimKeeps ==
  ASSUME TypeOK, ThreadInv, NEW p \in Mutexes \cup Sems, UnregisterPrim(p)
  PROVE  ThreadInv'
<1> DEFINE marked == MarkUpdated(t_status, Overridden(ResumeFlags(p)))
           status == [t \in Tasks |->
                        IF t \in Resumed(p) THEN ACTIVE ELSE marked[t]]
           flagged == p_updated \cup ResumeFlags(p)
<1>1. marked \in [Tasks -> Statuses]
  BY MarkUpdatedType DEF TypeOK
<1>2. \A u \in Tasks :
        /\ t_status[u] = ACTIVE => marked[u] = ACTIVE
        /\ t_status[u] # UNREGISTERED => marked[u] # UNREGISTERED
  BY MarkUpdatedKeeps DEF TypeOK
<1>3. /\ UNCHANGED <<execVars, commitVars, s_threads>>
      /\ s_actives' = s_actives \cup Resumed(p)
      /\ Override(p, None, status, flagged)
  BY DEF UnregisterPrim
<1>4. Resumed(p) \subseteq Tasks /\ s_actives \subseteq Tasks
  BY DEF Resumed, TypeOK, Prims
<1> HIDE DEF marked
<1>5. status \in [Tasks -> Statuses]
  BY <1>1 DEF Statuses, ACTIVE
<1>6. \A u \in Tasks :
        /\ t_status[u] = ACTIVE \/ u \in Resumed(p) => status[u] = ACTIVE
        /\ t_status[u] # UNREGISTERED => status[u] # UNREGISTERED
  BY <1>2 DEF ACTIVE, UNREGISTERED
<1> HIDE DEF status, flagged
<1>7. \A u \in Tasks :
        /\ status[u] = ACTIVE => t_status'[u] = ACTIVE
        /\ status[u] # UNREGISTERED => t_status'[u] # UNREGISTERED
  BY <1>3, <1>5, OverrideKeeps
<1>8. Listed'
  BY <1>3, <1>4, <1>6, <1>7 DEF ThreadInv, Listed
<1> QED
  BY <1>3, <1>6, <1>7, <1>8, QuietKeeps

\* Threads come and go, and tasks exit, without breaking ThreadInv.
LEMMA ThreadKeeps ==
  ASSUME TypeOK, ThreadInv, NEW th \in Threads
  PROVE  /\ RegisterThread(th) => ThreadInv'
         /\ UnregisterThread(th) => ThreadInv'
         /\ UnregisterTask(th) => ThreadInv'
<1>1. ASSUME RegisterThread(th) PROVE ThreadInv'
  <2>1. /\ UNCHANGED <<commitVars, s_actives, t_status, t_thread, t_commit>>
        /\ s_threads' = s_threads \cup {th}
    BY <1>1 DEF RegisterThread, stopVars, updateVars
  <2>2. /\ th_task'[th] = None
        /\ th_history'[th] = {} /\ th_history_size'[th] = 0
        /\ \A o \in Threads \ {th} :
             /\ th_task'[o] = th_task[o]
             /\ th_commit'[o] = th_commit[o]
             /\ th_history'[o] = th_history[o]
             /\ th_history_size'[o] = th_history_size[o]
    BY <1>1 DEF RegisterThread, TypeOK
  <2>3. th_history[th] = {} /\ s_threads \subseteq Threads
    BY <1>1 DEF RegisterThread, ThreadInv, Forgotten, TypeOK
  <2>4. Cardinality({}) = 0
    BY FS_EmptySet
  <2>5. HistoryExact'
    <3> SUFFICES ASSUME NEW o \in Threads
                 PROVE  /\ th_history'[o] = {t \in Tasks : t_thread[t] = o}
                        /\ th_history_size'[o] = Cardinality(th_history'[o])
                        /\ th_task'[o] # None
                             => th_task'[o] \in th_history'[o]
      BY <2>1 DEF HistoryExact
    <3>1. /\ th_history[o] = {t \in Tasks : t_thread[t] = o}
          /\ th_history_size[o] = Cardinality(th_history[o])
          /\ th_task[o] # None => th_task[o] \in th_history[o]
      BY DEF ThreadInv, HistoryExact
    <3> QED
      BY <2>2, <2>3, <2>4, <3>1
  <2>6. Registered' /\ Listed'
    BY <2>1 DEF ThreadInv, Registered, Listed
  <2>7. Forgotten' /\ Stamped'
    BY <2>1, <2>2, <2>3 DEF ThreadInv, Forgotten, Stamped, commitVars
  <2>8. Current'
    BY <2>1, <2>2, <2>3 DEF ThreadInv, Current, TaskActive, commitVars
  <2> QED
    BY <2>5, <2>6, <2>7, <2>8 DEF ThreadInv
<1>2. ASSUME UnregisterThread(th) PROVE ThreadInv'
  <2> DEFINE a == [d \in {} |-> None]
             gone == th_history[th]
  <2>1. /\ UNCHANGED <<commitVars, s_actives, t_status>>
        /\ s_commit_opened
        /\ s_threads' = s_threads \ {th}
        /\ AssignTasks({}, a, gone)
    BY <1>2 DEF UnregisterThread, stopVars, updateVars
  <2>2. gone \in SUBSET Tasks /\ gone = {t \in Tasks : t_thread[t] = th}
    BY DEF TypeOK, ThreadInv, HistoryExact
  <2>3. Assigns({}, a, gone)
    BY DEF Assigns
  <2>4. th_history'[th] = {}
    BY <2>1, <2>2 DEF AssignTasks
  <2>5. Listed'
    BY <2>1 DEF ThreadInv, Listed
  <2>6. s_commit_index' = s_commit_index /\ s_commit_opened' = s_commit_opened
    BY <2>1 DEF commitVars
  <2>7. {} \in SUBSET s_threads
    OBVIOUS
  <2> HIDE DEF a, gone
  <2> QED
    BY <2>1, <2>2, <2>3, <2>4, <2>5, <2>6, <2>7, AssignKeeps
<1>3. ASSUME UnregisterTask(th) PROVE ThreadInv'
  <2>1. /\ ThreadActive(th)
        /\ AssignOne(th, th_task[th], {th_task[th]})
        /\ s_actives' = s_actives \ {th_task[th]}
        /\ UNCHANGED <<commitVars, s_threads, t_status>>
    BY <1>3 DEF UnregisterTask, updateVars
  <2> QED
    BY <2>1, OneThreadKeeps
<1> QED
  BY <1>1, <1>2, <1>3

\* Opening a commit leaves no thread's index current; closing one assigns
\* every thread.
LEMMA CommitKeeps ==
  ASSUME TypeOK, ThreadInv
  PROVE  /\ OpenCommit => ThreadInv'
         /\ CloseCommit => ThreadInv'
<1>1. ASSUME OpenCommit PROVE ThreadInv'
  <2>1. /\ UNCHANGED <<execVars, s_threads, s_actives, t_status>>
        /\ ~s_commit_opened /\ s_commit_opened'
        /\ s_commit_index' = Inc(s_commit_index)
    BY <1>1 DEF OpenCommit, stopVars, updateVars
  <2>2. Inc(s_commit_index) # s_commit_index
    BY DEF Inc, TypeOK, Usize
  <2>3. HistoryExact' /\ Registered' /\ Forgotten' /\ Listed'
    BY <2>1 DEF ThreadInv, HistoryExact, Registered, Forgotten, Listed,
       execVars
  <2>4. Stamped' /\ Current'
    BY <2>1, <2>2 DEF ThreadInv, Stamped, Current, execVars
  <2> QED
    BY <2>3, <2>4 DEF ThreadInv
<1>2. ASSUME CloseCommit PROVE ThreadInv'
  <2>1. /\ UNCHANGED <<s_commit_index, s_threads, s_actives>>
        /\ ~s_commit_opened'
    BY <1>2 DEF CloseCommit, stopVars
  <2>2. PICK a \in Assignments(s_threads, s_actives) :
          AssignTasks(s_threads, a, {})
    BY <1>2 DEF CloseCommit
  <2>3. Assigns(s_threads, a, {})
    BY <2>2 DEF Assignments, Assigns, TypeOK
  <2>4. \A d \in s_threads : a[d] # None => a[d] \in s_actives'
    BY <2>1, <2>2 DEF Assignments
  <2>5. \A u \in Tasks :
          /\ t_status[u] = ACTIVE => t_status'[u] = ACTIVE
          /\ t_status[u] # UNREGISTERED => t_status'[u] # UNREGISTERED
    BY <1>2 DEF CloseCommit, Schedule, updateVars, ACTIVE, STOPPED,
       UNREGISTERED, STASK_STATUS_UPDATED
  <2>6. Listed'
    BY <2>1, <2>5 DEF ThreadInv, Listed, TypeOK
  <2>7. {} \in SUBSET Tasks /\ s_threads \in SUBSET s_threads
    OBVIOUS
  <2> QED
    BY <2>1, <2>2, <2>3, <2>4, <2>5, <2>6, <2>7, AssignKeeps
<1> QED
  BY <1>1, <1>2

\* Nothing is registered, nobody executes.
LEMMA InitThreadInv == Init => ThreadInv
<1> SUFFICES ASSUME Init PROVE ThreadInv
  OBVIOUS
<1>1. Cardinality({}) = 0
  BY FS_EmptySet
<1>2. HistoryExact
  <2> SUFFICES ASSUME NEW th \in Threads
               PROVE  /\ th_history[th] = {t \in Tasks : t_thread[t] = th}
                      /\ th_history_size[th] = Cardinality(th_history[th])
                      /\ th_task[th] = None
    BY DEF HistoryExact
  <2>1. {t \in Tasks : t_thread[t] = th} = {}
    BY DEF Init
  <2> QED
    BY <1>1, <2>1 DEF Init
<1>3. Registered /\ Forgotten /\ Stamped /\ Current /\ Listed
  BY DEF Init, Registered, Forgotten, Stamped, Current, Listed
<1> QED
  BY <1>2, <1>3 DEF ThreadInv

\* Every call keeps ThreadInv.
LEMMA NextThreadInv == TypeOK /\ ThreadInv /\ [Next]_vars => ThreadInv'
<1> SUFFICES ASSUME TypeOK, ThreadInv, [Next]_vars PROVE ThreadInv'
  OBVIOUS
<1>1. CASE MutexNext
  BY <1>1, MutexKeeps DEF MutexNext
<1>2. CASE SemNext
  BY <1>2, SemKeeps DEF SemNext
<1>3. CASE ProcessNext
  <2>1. ASSUME NEW prc \in Procs,
               PauseProcessAborts(prc) \/ ResumeProcessWild(prc)
        PROVE  ThreadInv'
    BY <2>1, FaultKeeps DEF PauseProcessAborts, ResumeProcessWild
  <2> QED
    BY <1>3, <2>1, ProcessKeeps, RegisterTaskKeeps DEF ProcessNext
<1>4. CASE PrimNext
  BY <1>4, UnregisterPrimKeeps, FaultKeeps DEF PrimNext, UnregisterPrimAborts
<1>5. CASE ThreadNext
  BY <1>5, ThreadKeeps, FaultKeeps DEF ThreadNext, UnregisterTaskWild
<1>6. CASE CommitNext
  BY <1>6, CommitKeeps DEF CommitNext
<1>7. CASE UNCHANGED vars
  <2>1. UNCHANGED <<execVars, commitVars, s_threads, s_actives, t_status>>
    BY <1>7 DEF vars, stopVars, updateVars
  <2>2. Listed'
    BY <2>1 DEF ThreadInv, Listed
  <2> QED
    BY <2>1, <2>2, QuietKeeps
<1> QED
  BY <1>1, <1>2, <1>3, <1>4, <1>5, <1>6, <1>7 DEF Next

\* Threads, histories, stamps and the active list agree in every behaviour of
\* the scheduler: the inductive invariant of the theorems below.
THEOREM ThreadInvHolds == Spec => []ThreadInv
BY InitType, NextType, InitThreadInv, NextThreadInv, PTL DEF Spec

\* A thread's history holds exactly the tasks that name the thread, counted,
\* the one it executes among them: no two threads ever execute one task.
THEOREM HistoryIsExact == Spec => []HistoryExact
<1>1. ThreadInv => HistoryExact
  BY DEF ThreadInv
<1> QED
  BY <1>1, ThreadInvHolds, PTL

\* No thread counts as active while a commit is open, although the index
\* wraps.
THEOREM CommitIsIdle == Spec => []IdleWhileCommitOpen
<1>1. TypeOK /\ ThreadInv => IdleWhileCommitOpen
  BY ActiveThread DEF IdleWhileCommitOpen
<1> QED
  BY <1>1, TypeCorrect, ThreadInvHolds, PTL

\* An active thread executes a listed ACTIVE task of the current commit,
\* never one that exited, sleeps or was paused or removed with its process.
THEOREM RunningTasksAreSchedulable == Spec => []RunningIsSchedulable
<1>1. TypeOK /\ ThreadInv => RunningIsSchedulable
  BY ActiveThread DEF RunningIsSchedulable
<1> QED
  BY <1>1, TypeCorrect, ThreadInvHolds, PTL

-----------------------------------------------------------------------------
(* What a step may do to running tasks *)

\* A call that assigns one thread anew leaves the tasks of the others alone.
LEMMA OneThreadAlone ==
  ASSUME TypeOK, ThreadInv, NEW th \in Threads, ThreadActive(th),
         NEW gone \in SUBSET {th_task[th]},
         AssignOne(th, th_task[th], gone),
         s_actives' = s_actives \ {th_task[th]}
  PROVE  NoPreemption /\ OnlyItself
<1> DEFINE t == th_task[th]
           busy == {th_task[o] : o \in s_threads \ {th}}
<1>1. OnlyItself
  BY DEF OnlyItself
<1>2. NoPreemption
  <2> SUFFICES ASSUME NEW o \in Threads, ThreadActive(o),
                      th_task'[o] # th_task[o], o # th
               PROVE  FALSE
    BY DEF NoPreemption
  <2>1. PICK a \in Assignments({th}, s_actives \ (busy \cup {t})) :
          AssignTasks({th}, a, gone)
    BY DEF AssignOne
  <2>2. o \in s_threads /\ th_task[o] # t /\ th_task[o] # None
    BY ActiveThread DEF ThreadActive
  <2>3. th_task[o] \in busy
    BY <2>2
  <2>4. a[th] # th_task[o]
    <3>1. a[th] \in (s_actives \ (busy \cup {t})) \cup {None}
      BY <2>1 DEF Assignments
    <3> HIDE DEF busy
    <3> QED
      BY <2>2, <2>3, <3>1
  <2>5. th_task'[o] = th_task[o]
    BY <2>1, <2>2, <2>4 DEF AssignTasks
  <2> QED
    BY <2>5
<1> QED
  BY <1>1, <1>2

\* A call that assigns no active thread and keeps the list, or comes while a
\* commit is open, preempts nobody.
LEMMA OthersAlone ==
  ASSUME TypeOK, ThreadInv,
         \/ s_commit_opened
         \/ /\ s_actives \subseteq s_actives'
            /\ \A th \in s_threads : th_task'[th] = th_task[th]
  PROVE  NoPreemption /\ OnlyItself
<1>1. CASE s_commit_opened
  <2>1. \A th \in Threads : ~ThreadActive(th)
    BY <1>1, ActiveThread
  <2> QED
    BY <1>1, <2>1 DEF NoPreemption, OnlyItself
<1>2. CASE /\ s_actives \subseteq s_actives'
           /\ \A th \in s_threads : th_task'[th] = th_task[th]
  BY <1>2 DEF NoPreemption, OnlyItself, ThreadActive
<1> QED
  BY <1>1, <1>2

\* No call preempts: it reassigns one active thread, or none.
LEMMA NextAlone ==
  TypeOK /\ ThreadInv /\ [Next]_vars => NoPreemption /\ OnlyItself
<1> SUFFICES ASSUME TypeOK, ThreadInv, [Next]_vars
             PROVE  NoPreemption /\ OnlyItself
  OBVIOUS
<1>1. ASSUME NEW p, NEW th \in Threads, ThreadActive(th), StopThread(p, th)
      PROVE  NoPreemption /\ OnlyItself
  <2>1. AssignOne(th, th_task[th], {}) /\ s_actives' = s_actives \ {th_task[th]}
    BY <1>1 DEF StopThread, StopTask
  <2> QED
    BY <1>1, <2>1, OneThreadAlone
<1>2. ASSUME s_actives' = s_actives /\ th_task' = th_task
      PROVE  NoPreemption /\ OnlyItself
  BY <1>2, OthersAlone
<1>3. ASSUME NEW kind, Fault(kind) PROVE NoPreemption /\ OnlyItself
  BY <1>2, <1>3 DEF Fault, execVars, stopVars
<1>4. CASE MutexNext
  <2> SUFFICES ASSUME NEW th \in Threads, NEW m \in Mutexes,
                      \/ MutexTake(th, m) \/ MutexBlock(th, m)
                      \/ MutexUnlockFails(th, m) \/ MutexUnlock(th, m)
                      \/ MutexUnlockWild(th, m)
               PROVE  NoPreemption /\ OnlyItself
    BY <1>4 DEF MutexNext
  <2>1. CASE MutexTake(th, m)
    BY <1>2, <2>1 DEF MutexTake, execVars, stopVars
  <2>2. CASE MutexBlock(th, m)
    BY <1>1, <2>2 DEF MutexBlock, Calls
  <2>3. CASE MutexUnlockFails(th, m)
    BY <1>2, <2>3 DEF MutexUnlockFails, execVars, stopVars
  <2>4. CASE MutexUnlock(th, m)
    BY <1>2, <2>4 DEF MutexUnlock, execVars, stopVars
  <2>5. CASE MutexUnlockWild(th, m)
    BY <1>3, <2>5 DEF MutexUnlockWild
  <2> QED
    BY <2>1, <2>2, <2>3, <2>4, <2>5
<1>5. CASE SemNext
  <2> SUFFICES ASSUME NEW th \in Threads, NEW s \in Sems,
                      \/ SemTake(th, s) \/ SemBlock(th, s)
                      \/ SemReleaseFails(th, s) \/ SemRelease(th, s)
                      \/ SemReleaseWild(th, s)
               PROVE  NoPreemption /\ OnlyItself
    BY <1>5 DEF SemNext
  <2>1. CASE SemTake(th, s)
    BY <1>2, <2>1 DEF SemTake, execVars, stopVars
  <2>2. CASE SemBlock(th, s)
    BY <1>1, <2>2 DEF SemBlock, Calls
  <2>3. CASE SemReleaseFails(th, s)
    BY <1>2, <2>3 DEF SemReleaseFails, execVars, stopVars
  <2>4. CASE SemRelease(th, s)
    BY <1>2, <2>4 DEF SemRelease, execVars, stopVars
  <2>5. CASE SemReleaseWild(th, s)
    BY <1>3, <2>5 DEF SemReleaseWild
  <2> QED
    BY <2>1, <2>2, <2>3, <2>4, <2>5
<1>6. CASE ProcessNext
  <2> PICK prc \in Procs :
        \/ RegisterProcess(prc)
        \/ \E t \in Tasks : RegisterTask(prc, t)
        \/ \E m \in Mutexes : RegisterMutex(prc, m)
        \/ \E s \in Sems, n \in Takings : RegisterSem(prc, s, n)
        \/ UnregisterProcess(prc)
        \/ PauseProcess(prc)
        \/ PauseProcessAborts(prc)
        \/ ResumeProcess(prc)
        \/ ResumeProcessWild(prc)
    BY <1>6 DEF ProcessNext
  <2>1. CASE RegisterProcess(prc)
    BY <1>2, <2>1 DEF RegisterProcess, execVars
  <2>2. ASSUME NEW t \in Tasks, RegisterTask(prc, t)
        PROVE  NoPreemption /\ OnlyItself
    <3>1. s_actives \subseteq s_actives' /\ th_task' = th_task
      BY <2>2 DEF RegisterTask
    <3> QED
      BY <3>1, OthersAlone
  <2>3. ASSUME NEW m \in Mutexes, RegisterMutex(prc, m)
        PROVE  NoPreemption /\ OnlyItself
    BY <1>2, <2>3 DEF RegisterMutex, execVars
  <2>4. ASSUME NEW s \in Sems, NEW n \in Takings, RegisterSem(prc, s, n)
        PROVE  NoPreemption /\ OnlyItself
    BY <1>2, <2>4 DEF RegisterSem, execVars
  <2>5. CASE \/ UnregisterProcess(prc) \/ PauseProcess(prc)
             \/ PauseProcessAborts(prc)
             \/ ResumeProcess(prc) \/ ResumeProcessWild(prc)
    <3>1. s_commit_opened
      BY <2>5 DEF UnregisterProcess, PauseProcess, PauseProcessAborts,
         MayPause, ResumeProcess, ResumeProcessWild, MayResume
    <3> QED
      BY <3>1, OthersAlone
  <2> QED
    BY <2>1, <2>2, <2>3, <2>4, <2>5
<1>7. CASE PrimNext
  <2> PICK p \in Mutexes \cup Sems : UnregisterPrim(p) \/ UnregisterPrimAborts(p)
    BY <1>7 DEF PrimNext
  <2>1. CASE UnregisterPrim(p)
    <3>1. s_actives \subseteq s_actives' /\ th_task' = th_task
      BY <2>1 DEF UnregisterPrim, execVars
    <3> QED
      BY <3>1, OthersAlone
  <2>2. CASE UnregisterPrimAborts(p)
    BY <1>3, <2>2 DEF UnregisterPrimAborts
  <2> QED
    BY <2>1, <2>2
<1>8. CASE ThreadNext
  <2> PICK th \in Threads : \/ RegisterThread(th) \/ UnregisterThread(th)
                            \/ UnregisterTask(th) \/ UnregisterTaskWild(th)
    BY <1>8 DEF ThreadNext
  <2>1. CASE RegisterThread(th)
    <3>1. /\ s_actives' = s_actives
          /\ \A o \in s_threads : th_task'[o] = th_task[o]
      BY <2>1 DEF RegisterThread, stopVars, TypeOK
    <3> QED
      BY <3>1, OthersAlone
  <2>2. CASE UnregisterThread(th)
    BY <2>2, OthersAlone DEF UnregisterThread
  <2>3. CASE UnregisterTask(th)
    BY <2>3, OneThreadAlone DEF UnregisterTask
  <2>4. CASE UnregisterTaskWild(th)
    BY <1>3, <2>4 DEF UnregisterTaskWild
  <2> QED
    BY <2>1, <2>2, <2>3, <2>4
<1>9. CASE OpenCommit
  BY <1>2, <1>9 DEF OpenCommit, execVars, stopVars
<1>10. CASE CloseCommit
  BY <1>10, OthersAlone DEF CloseCommit
<1>11. CASE UNCHANGED vars
  BY <1>2, <1>11 DEF vars, execVars, stopVars
<1> QED
  BY <1>4, <1>5, <1>6, <1>7, <1>8, <1>9, <1>10, <1>11 DEF Next, CommitNext

\* Between two commits a thread changes its task only when this task leaves
\* the active list.
THEOREM NobodyIsPreempted == Spec => NoPreemptionOutsideCommit
<1>1. TypeOK /\ ThreadInv /\ [Next]_vars => [NoPreemption]_vars
  BY NextAlone
<1> QED
  BY <1>1, TypeCorrect, ThreadInvHolds, PTL
     DEF Spec, NoPreemptionOutsideCommit

\* Outside a commit only the task an active thread executes leaves the active
\* list.
THEOREM OnlyRunningTasksLeave == Spec => OnlyItselfLeavesActives
<1>1. TypeOK /\ ThreadInv /\ [Next]_vars => [OnlyItself]_vars
  BY NextAlone
<1> QED
  BY <1>1, TypeCorrect, ThreadInvHolds, PTL DEF Spec, OnlyItselfLeavesActives
=============================================================================
