---------------------------- MODULE KernelProps ----------------------------
(***************************************************************************)
(* What the scheduler's calls, however they interleave, keep true.         *)
(***************************************************************************)
EXTENDS Kernel, Total

LiveTasks == live \cap Tasks

\* The primitives in use: registered ones, and those of registered processes.
LivePrims == (live \cap Prims) \cup s_processes

Waiters(p) == Range(p_stopped[p])

-----------------------------------------------------------------------------
(* Threads, tasks and commits *)

\* A thread's task is in the thread's own history, so no two threads execute
\* one task; a history holds exactly the tasks that name its thread, and
\* counts them (thread_assign_task, thread_unregister_task).
HistoryExact ==
  \A th \in Threads :
    /\ th_history[th] = {t \in Tasks : t_thread[t] = th}
    /\ th_history_size[th] = Cardinality(th_history[th])
    /\ th_task[th] # None => th_task[th] \in th_history[th]

\* While a commit is open no thread counts as active, whatever was paused,
\* unregistered or registered meanwhile and however the commit index wraps:
\* the header calls it the certitude they are idle.
IdleWhileCommitOpen ==
  s_commit_opened => \A th \in Threads : ~ThreadActive(th)

\* An active thread executes a task that is registered, ACTIVE and stamped
\* with the current commit: never one that has exited, sleeps on a primitive
\* or was removed with its process.
RunningIsSchedulable ==
  \A th \in Threads : ThreadActive(th) =>
    /\ th_task[th] \in s_actives
    /\ t_status[th_task[th]] = ACTIVE
    /\ TaskActive(th_task[th])

\* The active list holds exactly the registered tasks that nothing stopped,
\* through blocking, resuming, exit, pause and process removal.
ActivesExact == s_actives = {t \in LiveTasks : t_status[t] = ACTIVE}

\* A process counts exactly its registered tasks.
TasksCounted ==
  \A prc \in s_processes :
    prc_nb_tasks[prc] = Cardinality({t \in LiveTasks : t_process[t] = prc})

\* A step takes an active thread's task away only off the active list.
NoPreemption ==
  \A th \in Threads :
    ThreadActive(th) /\ ~s_commit_opened' /\ th_task'[th] # th_task[th]
      => th_task[th] \notin s_actives'

\* Outside a commit a thread changes its task only because this task left
\* the active list: nobody is preempted between two commits.
NoPreemptionOutsideCommit == [][NoPreemption]_vars

\* A step takes a task off the active list only from an active thread.
OnlyItself ==
  ~s_commit_opened => \A t \in s_actives \ s_actives' :
    \E th \in Threads : ThreadActive(th) /\ th_task[th] = t

\* Outside a commit a task leaves the active list only by a call of its own,
\* so while a thread executes it.
OnlyItselfLeavesActives == [][OnlyItself]_vars

\* Only registered tasks name a thread.
Registered ==
  \A t \in Tasks : t_thread[t] # None => t_status[t] # UNREGISTERED

\* A thread that is not registered has no history.
Forgotten == \A th \in Threads \ s_threads : th_history[th] = {}

\* A thread with a task carries the commit's index exactly while no commit is
\* open.
Stamped ==
  \A th \in s_threads : th_task[th] # None =>
    (th_commit[th] = s_commit_index <=> ~s_commit_opened)

\* Outside a commit a thread's task is listed and carries the index too.
Current ==
  ~s_commit_opened => \A th \in s_threads : th_task[th] # None =>
    th_task[th] \in s_actives /\ TaskActive(th_task[th])

\* Only tasks whose status is ACTIVE are listed.
Listed == \A t \in s_actives : t_status[t] = ACTIVE

\* What the assignments and commits of sched.c keep true of threads together:
\* the inductive invariant behind HistoryExact, IdleWhileCommitOpen,
\* RunningIsSchedulable and the two action properties.
ThreadInv ==
  HistoryExact /\ Registered /\ Forgotten /\ Stamped /\ Current /\ Listed

-----------------------------------------------------------------------------
(* Primitives and tasks *)

\* A registered task sleeps on a primitive exactly when it is in this
\* primitive's list, once, and the primitive is in use: no waiter is left
\* behind by an unregistered primitive. Each list's length is counted.
StoppedExact ==
  /\ \A t \in LiveTasks :
       /\ t_stopper[t] # None <=> t_status[t] # ACTIVE
       /\ t_stopper[t] # None => t_stopper[t] \in LivePrims
  /\ \A p \in LivePrims :
       /\ p_nb_stopped[p] = Len(p_stopped[p])
       /\ Cardinality(Waiters(p)) = Len(p_stopped[p])
       /\ \A t \in LiveTasks : t \in Waiters(p) <=> t_stopper[t] = p

\* A primitive in use overrides exactly the task that lists it among its
\* overriders, a registered one of its process, which counts its overriders.
OverrideExact ==
  /\ \A p \in LivePrims, t \in Tasks :
       p \in t_overriders[t] <=> p_overridden[p] = t
  /\ \A p \in LivePrims :
       p_overridden[p] # None =>
         /\ p_overridden[p] \in LiveTasks
         /\ t_process[p_overridden[p]] = p_process[p]
  /\ \A t \in LiveTasks : t_nb_overrides[t] = Cardinality(t_overriders[t])

\* Propagation stops at the first object it finds flagged. No primitive misses
\* an update by that: above a flagged primitive, or a flagged sleeping task,
\* the next primitive is flagged. The task in between may have lost its own
\* flag by falling asleep after the primitive was flagged: it is then missed
\* (ModifiedTreeFlagged). An awake task always looks flagged, since the flag
\* is a bit of ACTIVE.
FlagsClimb ==
  /\ \A p \in p_updated \cap LivePrims :
       p_overridden[p] # None /\ t_stopper[p_overridden[p]] # None
         => t_stopper[p_overridden[p]] \in p_updated
  /\ \A t \in LiveTasks :
       t_status[t] = STOPPED + STASK_STATUS_UPDATED
         => t_stopper[t] \in p_updated

\* A process lists the tasks registered to it, exited ones included; tasks
\* and primitives in use belong to processes in use.
Placed ==
  /\ \A prc \in Procs :
       /\ prc_tasks[prc] = {t \in Tasks : t_process[t] = prc}
       /\ prc_status[prc] = UNREGISTERED
            => prc \notin s_processes /\ prc_tasks[prc] = {}
  /\ \A prc \in s_processes : p_process[prc] = prc
  /\ \A t \in Tasks : t_process[t] = None <=> t_status[t] = UNREGISTERED
  /\ \A t \in LiveTasks : t_process[t] \in s_processes
  /\ \A p \in live \cap Prims : p_process[p] \in s_processes

\* Overrides agree on both sides, for primitives out of use too; only a
\* mutex overrides, and one that is out of use does so only if its process
\* is gone.
Overriding ==
  /\ \A p \in Prims, t \in Tasks :
       p \in t_overriders[t] <=> p_overridden[p] = t
  /\ \A p \in Prims : p_overridden[p] # None =>
       /\ p \in Mutexes
       /\ t_process[p_overridden[p]] = p_process[p]
       /\ t_status[p_overridden[p]] # UNREGISTERED
       /\ p_process[p] \in s_processes => {p, p_overridden[p]} \subseteq live
  /\ \A t \in LiveTasks : t_nb_overrides[t] = Cardinality(t_overriders[t])

\* A task sleeps on a primitive of its own process, which lists it. Exited
\* tasks may sleep too, on the process: a pause stops them.
Sleeping ==
  /\ \A t \in LiveTasks :
       /\ t_stopper[t] # None <=> t_status[t] # ACTIVE
       /\ t_stopper[t] # None =>
            /\ t_stopper[t] \in LivePrims
            /\ p_process[t_stopper[t]] = t_process[t]
            /\ t \in Waiters(t_stopper[t])
  /\ \A p \in LivePrims :
       /\ \A t \in Waiters(p) :
            t_stopper[t] = p /\ t_status[t] \notin {UNREGISTERED, ACTIVE}
       /\ p \in live => Waiters(p) \subseteq live
       /\ p_nb_stopped[p] = Len(p_stopped[p])
       /\ Cardinality(Waiters(p)) = Len(p_stopped[p])

\* What the calls of sched.c keep true of processes, tasks and primitives
\* together: the inductive invariant behind ActivesExact, TasksCounted,
\* StoppedExact, OverrideExact and FlagsClimb.
GraphInv ==
  /\ Placed /\ ActivesExact /\ TasksCounted
  /\ Overriding /\ Sleeping /\ FlagsClimb

-----------------------------------------------------------------------------
(* Locks and semaphores, when callers release only what they have taken *)

\* A mutex in use is counted as owned, once, exactly while it overrides the
\* task that locked it.
MutexExclusion ==
  \A m \in Mutexes \cap live :
    p_nb_owning[m] = IF p_overridden[m] = None THEN 0 ELSE 1

\* A step changes whom a locked mutex in use overrides only as an unlock of
\* its owner.
NotStolen ==
  \A m \in Mutexes \cap live \cap live' :
    p_overridden[m] # None /\ p_overridden'[m] # p_overridden[m]
      => /\ p_overridden'[m] = None
         /\ \E th \in Threads :
              ThreadActive(th) /\ th_task[th] = p_overridden[m]

\* A locked mutex in use passes to no other task but through an unlock of
\* its owner or a destruction.
LockNotStolen == [][NotStolen]_vars

\* The takings of a semaphore in use are those its takers have not given
\* back, exited ones included, and never exceed its capacity.
SemTakersCounted ==
  \A s \in Sems \cap live :
    /\ p_nb_owning[s] = Total(held[s])
    /\ p_nb_owning[s] <= sem_nb_owners[s]

\* A task sleeps on a mutex only while it is locked, on a semaphore only
\* while it is exhausted.
NoLostWakeup ==
  \A t \in LiveTasks :
    /\ t_stopper[t] \in Mutexes => p_nb_owning[t_stopper[t]] # 0
    /\ t_stopper[t] \in Sems
         => p_nb_owning[t_stopper[t]] = sem_nb_owners[t_stopper[t]]

\* A task's count of owned primitives covers the mutexes that override it and
\* the semaphore takings it holds: a release it is entitled to cannot fail.
OwnerCounterCovers ==
  \A t \in LiveTasks :
    t_nb_owned[t] >=
      Cardinality({m \in Mutexes \cap live : p_overridden[m] = t})
        + Total([s \in Sems |-> held[s][t]])

\* A semaphore that is taken is in use, or its process is gone; its takers
\* were registered, and so was the process of every primitive.
Unheld ==
  /\ \A p \in Prims :
       p_process[p] # None => prc_status[p_process[p]] # UNREGISTERED
  /\ \A s \in Sems, t \in Tasks : held[s][t] > 0 =>
       /\ s \in live \/ p_process[s] \notin s_processes \cup {None}
       /\ t_status[t] # UNREGISTERED

\* What the calls of mutex.c and sem.c keep true together when callers
\* release only what they have taken: the inductive invariant, on top of
\* GraphInv, behind the properties of this section.
LockInv ==
  /\ Unheld /\ MutexExclusion /\ SemTakersCounted
  /\ NoLostWakeup /\ OwnerCounterCovers

-----------------------------------------------------------------------------
(* What the headers promise and the code does not do: each of these is     *)
(* refuted by a run of its own.                                            *)

\* mutex.h: an unlock picks one of the stopped tasks as the new owner.
UnlockHandsOver ==
  [][\A th \in Threads, m \in Mutexes :
       (MutexUnlock(th, m) \/ MutexUnlockWild(th, m)) /\ Waiters(m) # {}
         => p_overridden'[m] \in Waiters(m)]_vars

\* sched.h: the flag of a task tells that its overriding tree was modified. So
\* when a task falls asleep on a primitive, the task that this one overrides is
\* flagged, unless it sleeps there itself.
ModifiedTreeFlagged ==
  [][\A p \in LivePrims :
       Len(p_stopped'[p]) > Len(p_stopped[p])
         => \/ p_overridden[p] \in Waiters(p)' \cup {None}
            \/ HasUpdated(t_status'[p_overridden[p]])]_vars

\* sched.h: a task that exits makes every primitive that overrides it release
\* its override.
ExitReleasesOverrides ==
  [][\A th \in Threads, p \in LivePrims :
       (UnregisterTask(th) \/ UnregisterTaskWild(th))
         => p_overridden'[p] # th_task[th]]_vars

\* sched.h: the resumption of a process reactivates all tasks its primitive
\* stopped.
ResumeRestartsTasks ==
  [][\A prc \in Procs :
       (ResumeProcess(prc) \/ ResumeProcessWild(prc))
         => \A t \in Waiters(prc) : t_status'[t] = ACTIVE]_vars
=============================================================================
