-------------------------------- MODULE Sem --------------------------------
(***************************************************************************)
(* The calls of src/sched/sem.c a task makes on a semaphore it shares with *)
(* the other tasks of its process.  The semaphore counts its takings in    *)
(* p_nb_owning, up to sem_nb_owners; it does not record who took it, and   *)
(* it overrides nobody.  held is that record, kept by the model alone.     *)
(***************************************************************************)
EXTENDS Sched

\* Mutant of Exhausted: off by one.
ExhaustedLate(s) == p_nb_owning[s] > sem_nb_owners[s]
Exhausted(s) == p_nb_owning[s] = sem_nb_owners[s]

\* The branch sched_sem_take and sched_sem_take_nb share. A failed
\* sched_sem_take_nb changes nothing.
SemTake(th, s) ==
  /\ Calls(th, s)
  /\ ~Exhausted(s)
  /\ TakeOwnership(s, th_task[th])
  /\ held' = [held EXCEPT ![s][th_task[th]] = @ + 1]
  /\ UNCHANGED <<commitVars, s_threads, procVars, primVars, execVars,
                 overrideVars, stopVars, updateVars, live, fault>>

\* sched_sem_take of an exhausted semaphore: the task sleeps on it.
SemBlock(th, s) ==
  /\ Calls(th, s)
  /\ Exhausted(s)
  /\ StopThread(s, th)
  /\ UNCHANGED <<commitVars, s_threads, procVars, primVars, ownVars,
                 overrideVars, live, fault>>

\* Under OwnersOnly a task releases only what it has taken; the code itself
\* lets a task that owns any primitive release any semaphore.
MayRelease(th, s) ==
  /\ Calls(th, s)
  /\ OwnersOnly => held[s][th_task[th]] > 0

\* The caller's record of a release: its own taking if it has one.
Untake(s, t) ==
  held' = [held EXCEPT ![s][t] = IF @ > 0 THEN @ - 1 ELSE 0]

\* sched_sem_release returns 1.
SemReleaseFails(th, s) ==
  /\ MayRelease(th, s)
  /\ ~Releases(s, th_task[th])
  /\ ReleaseOwnership(s, th_task[th])
  /\ UNCHANGED <<commitVars, s_threads, procVars, primVars, execVars,
                 overrideVars, stopVars, updateVars, live, held, fault>>

\* sched_sem_release of a semaphore nobody waits for.
SemRelease(th, s) ==
  /\ MayRelease(th, s)
  /\ Releases(s, th_task[th])
  /\ ~HasWaiters(s)
  /\ ReleaseOwnership(s, th_task[th])
  /\ Untake(s, th_task[th])
  /\ UNCHANGED <<commitVars, s_threads, procVars, primVars, execVars,
                 overrideVars, stopVars, updateVars, live, fault>>

\* sched_sem_release of a semaphore with waiters: as in MutexUnlockWild, the
\* object resumed is not a task.
SemReleaseWild(th, s) ==
  /\ MayRelease(th, s)
  /\ Releases(s, th_task[th])
  /\ HasWaiters(s)
  /\ Fault("wild")

SemNext ==
  \E th \in Threads, s \in Sems :
    \/ SemTake(th, s)
    \/ SemBlock(th, s)
    \/ SemReleaseFails(th, s)
    \/ SemRelease(th, s)
    \/ SemReleaseWild(th, s)
=============================================================================
