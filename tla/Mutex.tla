------------------------------- MODULE Mutex -------------------------------
(***************************************************************************)
(* The calls of src/sched/mutex.c a task makes on a mutex it shares with   *)
(* the other tasks of its process.  A mutex is locked by the task it       *)
(* overrides (p_overridden) and counts one owner (p_nb_owning).            *)
(***************************************************************************)
EXTENDS Sched

\* Mutant of Unlocked: the owner is not looked at.
AlwaysUnlocked(m) == TRUE
Unlocked(m) == p_nb_owning[m] = 0

\* The branch sched_mutex_lock and sched_mutex_lock_nb share: the mutex is
\* free, the thread's task takes it. A failed sched_mutex_lock_nb changes
\* nothing.
MutexTake(th, m) ==
  /\ Calls(th, m)
  /\ Unlocked(m)
  /\ TakeOwnership(m, th_task[th])
  /\ Override(m, th_task[th], t_status, p_updated)
  /\ UNCHANGED <<commitVars, s_threads, procVars, primVars, execVars,
                 stopVars, live, held, fault>>

\* sched_mutex_lock of a locked mutex: the task sleeps on it.
MutexBlock(th, m) ==
  /\ Calls(th, m)
  /\ ~Unlocked(m)
  /\ StopThread(m, th)
  /\ UNCHANGED <<commitVars, s_threads, procVars, primVars, ownVars,
                 overrideVars, live, fault>>

\* Mutant of UnlocksOwn: any task may unlock.
UnlocksAny(th, m) ==
  /\ Calls(th, m)
  /\ p_overridden[m] # None

\* The guards under which sched_mutex_unlock neither returns 1 nor 2. Both
\* of these returns leave everything as it is.
UnlocksOwn(th, m) ==
  /\ Calls(th, m)
  /\ p_overridden[m] = th_task[th]

\* sched_mutex_unlock returns 3: the release failed half way, and the mutex
\* still overrides the task.
MutexUnlockFails(th, m) ==
  /\ UnlocksOwn(th, m)
  /\ ~Releases(m, th_task[th])
  /\ ReleaseOwnership(m, th_task[th])
  /\ UNCHANGED <<commitVars, s_threads, procVars, primVars, execVars,
                 overrideVars, stopVars, updateVars, live, held, fault>>

\* sched_mutex_unlock of a mutex nobody waits for.
MutexUnlock(th, m) ==
  /\ UnlocksOwn(th, m)
  /\ Releases(m, th_task[th])
  /\ ~HasWaiters(m)
  /\ ReleaseOwnership(m, th_task[th])
  /\ Override(m, None, t_status, p_updated)
  /\ UNCHANGED <<commitVars, s_threads, procVars, primVars, execVars,
                 stopVars, live, held, fault>>

\* sched_mutex_unlock of a mutex with waiters: primitive_resume_task is given
\* the task that would contain the list's head, which lies in the mutex.
MutexUnlockWild(th, m) ==
  /\ UnlocksOwn(th, m)
  /\ Releases(m, th_task[th])
  /\ HasWaiters(m)
  /\ Fault("wild")

MutexNext ==
  \E th \in Threads, m \in Mutexes :
    \/ MutexTake(th, m)
    \/ MutexBlock(th, m)
    \/ MutexUnlockFails(th, m)
    \/ MutexUnlock(th, m)
    \/ MutexUnlockWild(th, m)
=============================================================================
