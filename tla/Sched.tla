------------------------------- MODULE Sched -------------------------------
(***************************************************************************)
(* The scheduler's object graph (include/sched/sched.h) and the internal   *)
(* functions of src/sched/sched.c that change it: update propagation,      *)
(* thread assignment, ownership, overriding, stopping.  The public calls   *)
(* are actions built from these in Mutex, Sem and Kernel.                  *)
(*                                                                         *)
(* Every public call runs with the scheduler's spinlock held (sched.h:393),*)
(* so a call is one atomic step.  A pointer is an object or None.  A list  *)
(* whose order the code never reads is a set; p_stopped, whose first task  *)
(* the code singles out, is a sequence.                                    *)
(***************************************************************************)
EXTENDS Integers, FiniteSets, Sequences, Functions

CONSTANTS
  Threads,     \* struct sthread objects
  Tasks,       \* struct stask objects; each is registered at most once
  Mutexes,     \* struct sched_mutex objects
  Sems,        \* struct sched_sem objects
  Procs,       \* struct sprocess objects; each is registered at most once
  None,        \* the null pointer
  UsizeMax,    \* (usize) -1
  CommitBound, \* model bound: no commit is opened past this index; above
               \* UsizeMax it bounds nothing and the index wraps around
  OwnedBound,  \* model bound: a task that counts this many owned primitives
               \* takes no other one
  Takings,     \* the capacities sched_sem_ctor is called with
  Debug,       \* built with -DDEBUG: a false ns_check stops the machine
  OwnersOnly   \* callers release only semaphores they have taken

ASSUME ConstantsOK ==
  /\ \A S \in {Threads, Tasks, Mutexes, Sems, Procs} :
       IsFiniteSet(S) /\ None \notin S
  /\ Tasks \cap (Mutexes \cup Sems \cup Procs) = {}
  /\ Mutexes \cap Sems = {}
  /\ Mutexes \cap Procs = {}
  /\ Sems \cap Procs = {}
  /\ UsizeMax \in Nat \ {0}
  /\ CommitBound \in Nat
  /\ OwnedBound \in Nat
  /\ Takings \subseteq Nat
  /\ Debug \in BOOLEAN
  /\ OwnersOnly \in BOOLEAN

VARIABLES
  s_commit_opened, s_commit_index, s_actives, s_threads, s_processes,
  th_commit, th_task, th_history, th_history_size,
  t_status, t_commit, t_process, t_thread, t_nb_owned,
  t_stopper, t_nb_overrides, t_overriders,
  p_process, p_updated, p_nb_owning, p_nb_stopped, p_stopped, p_overridden,
  sem_nb_owners,
  prc_status, prc_tasks, prc_nb_tasks, prc_nb_primitives,
  live,   \* history: the tasks, mutexes and semaphores now registered
  held,   \* history: held[s][t], takings of s that t has not released
  fault   \* how the machine stopped, "none" while it runs

commitVars == <<s_commit_opened, s_commit_index>>
procVars == <<s_processes, prc_status, prc_tasks, prc_nb_tasks, t_process>>
primVars == <<p_process, prc_nb_primitives, sem_nb_owners>>
execVars == <<th_commit, th_task, th_history, th_history_size,
              t_thread, t_commit>>
ownVars == <<p_nb_owning, t_nb_owned, held>>
overrideVars == <<p_overridden, t_overriders, t_nb_overrides>>
stopVars == <<t_stopper, p_stopped, p_nb_stopped, s_actives>>
updateVars == <<t_status, p_updated>>

vars == <<commitVars, s_threads, procVars, primVars, execVars, ownVars,
          overrideVars, stopVars, updateVars, live, fault>>

\* A process embeds the primitive that pauses it (p_prim): the process
\* itself stands for that primitive.
Prims == Mutexes \cup Sems \cup Procs

\* enum sched_status; a task's t_status also carries STASK_STATUS_UPDATED,
\* which is the same bit as SCHED_STATUS_ACTIVE.
UNREGISTERED == 0
STOPPED == 1
ACTIVE == 2
STASK_STATUS_UPDATED == 2
Statuses == 0 .. 3

NoCommit == UsizeMax
Usize == 0 .. UsizeMax
\* Mutant of Inc: the index is not increased.
IncForgotten(n) == n
Inc(n) == IF n = UsizeMax THEN 0 ELSE n + 1
\* Mutant of Dec: the width is forgotten.
DecSigned(n) == n - 1
Dec(n) == IF n = 0 THEN UsizeMax ELSE n - 1

TypeOK ==
  /\ s_commit_opened \in BOOLEAN
  /\ s_commit_index \in Usize
  /\ s_actives \subseteq Tasks
  /\ s_threads \subseteq Threads
  /\ s_processes \subseteq Procs
  /\ th_commit \in [Threads -> Usize]
  /\ th_task \in [Threads -> Tasks \cup {None}]
  /\ th_history \in [Threads -> SUBSET Tasks]
  /\ th_history_size \in [Threads -> Int]
  /\ t_status \in [Tasks -> Statuses]
  /\ t_commit \in [Tasks -> Usize]
  /\ t_process \in [Tasks -> Procs \cup {None}]
  /\ t_thread \in [Tasks -> Threads \cup {None}]
  /\ t_nb_owned \in [Tasks -> Nat]
  /\ t_stopper \in [Tasks -> Prims \cup {None}]
  /\ t_nb_overrides \in [Tasks -> Int]
  /\ t_overriders \in [Tasks -> SUBSET Prims]
  /\ p_process \in [Prims -> Procs \cup {None}]
  /\ p_updated \subseteq Prims
  /\ p_nb_owning \in [Prims -> Nat]
  /\ p_nb_stopped \in [Prims -> Int]
  /\ p_stopped \in [Prims -> Seq(Tasks)]
  /\ p_overridden \in [Prims -> Tasks \cup {None}]
  /\ sem_nb_owners \in [Sems -> Nat]
  /\ prc_status \in [Procs -> Statuses]
  /\ prc_tasks \in [Procs -> SUBSET Tasks]
  /\ prc_nb_tasks \in [Procs -> Int]
  /\ prc_nb_primitives \in [Procs -> Usize]
  /\ live \subseteq Tasks \cup Mutexes \cup Sems
  /\ held \in [Sems -> [Tasks -> Nat]]
  /\ fault \in {"none", "abort", "wild"}

-----------------------------------------------------------------------------
(* Active checks *)

TaskActive(t) == t_commit[t] = s_commit_index

ThreadActive(th) ==
  /\ th \in s_threads
  /\ th_commit[th] = s_commit_index
  /\ th_task[th] # None

(***************************************************************************)
(* The machine stops: ns_check found a false condition in a debug build    *)
(* ("abort"), or the code dereferences a pointer that is no object of its  *)
(* type ("wild").  Nothing is promised of the states behind a fault, so    *)
(* the rest of the state is left as the call found it, and no call follows. *)
(***************************************************************************)
Running == fault = "none"

Fault(kind) ==
  /\ fault' = kind
  /\ UNCHANGED <<commitVars, s_threads, procVars, primVars, execVars,
                 ownVars, overrideVars, stopVars, updateVars, live>>

-----------------------------------------------------------------------------
(* Update propagation *)

HasUpdated(s) == s >= STASK_STATUS_UPDATED

\* Mutant of MarkUpdated: the flag is added, where it should be or-ed.
MarkUpdatedAdds(status, T) ==
  [t \in Tasks |-> IF t \in T THEN status[t] + STASK_STATUS_UPDATED
                   ELSE status[t]]

\* status with the bit STASK_STATUS_UPDATED or-ed into every task of T.
MarkUpdated(status, T) ==
  [t \in Tasks |-> IF t \in T /\ ~HasUpdated(status[t])
                     THEN status[t] + STASK_STATUS_UPDATED ELSE status[t]]

\* One turn of the propagation loops: from primitive q, through the task it
\* overrides, to the primitive r that stopped this task.
Climbs(q, r, status, flagged) ==
  /\ q \notin flagged
  /\ p_overridden[q] # None
  /\ ~HasUpdated(status[p_overridden[q]])
  /\ t_stopper[p_overridden[q]] = r

\* Mutant of PrimPropagates: the loop does not go past the first primitive.
PrimPropagatesOnce(p, status, flagged) == {p} \ flagged

\* The primitives primitive_propagate_update(p) flags: those the loop
\* reaches from p before it meets an object that is already flagged.
PrimPropagates(p, status, flagged) ==
  {q \in Prims \ flagged :
     \A S \in SUBSET Prims :
       (p \in S /\ \A o \in S, r \in Prims :
                      Climbs(o, r, status, flagged) => r \in S)
       => q \in S}

\* The primitives task_propagate_update(t) flags.
TaskPropagates(t, status, flagged) ==
  IF t = None \/ HasUpdated(status[t]) \/ t_stopper[t] = None
    THEN {}
    ELSE PrimPropagates(t_stopper[t], status, flagged)

\* The tasks marked along with the primitives of Q.
Overridden(Q) == {p_overridden[q] : q \in Q} \ {None}

-----------------------------------------------------------------------------
(* Thread functions *)

\* External: the tasks a scheduler implementation may give to the threads D
\* out of pool. No task goes to two threads and no thread is left idle while
\* a task of pool is.
Assignments(D, pool) ==
  {a \in [D -> pool \cup {None}] :
     /\ \A d, e \in D : a[d] = a[e] /\ a[d] # None => d = e
     /\ (\E d \in D : a[d] = None) => pool \subseteq {a[d] : d \in D}}

\* thread_assign_task(d, a[d]) for every thread d of D, after
\* thread_unregister_task on every task of gone.
AssignTasks(D, a, gone) ==
  LET Leaves(u, th) ==
        t_thread[u] = th /\ (u \in gone \/ \E d \in D \ {th} : a[d] = u)
      Joins(u, th) == th \in D /\ a[th] = u /\ t_thread[u] # th
      given == {a[d] : d \in D} \ {None}
      dropped(th) == \E u \in Tasks : Leaves(u, th) /\ th_task[th] = u
  IN  /\ t_thread' = [u \in Tasks |->
            IF u \in given THEN CHOOSE d \in D : a[d] = u
            ELSE IF u \in gone THEN None ELSE t_thread[u]]
      /\ t_commit' = [u \in Tasks |->
            IF u \in given THEN s_commit_index ELSE t_commit[u]]
      /\ th_history' = [th \in Threads |->
            (th_history[th] \ {u \in Tasks : Leaves(u, th)})
              \cup {u \in Tasks : Joins(u, th)}]
      /\ th_history_size' = [th \in Threads |->
            th_history_size[th] - Cardinality({u \in Tasks : Leaves(u, th)})
              + Cardinality({u \in Tasks : Joins(u, th)})]
      /\ th_task' = [th \in Threads |->
            IF th \in D THEN a[th]
            ELSE IF dropped(th) THEN None ELSE th_task[th]]
      /\ th_commit' = [th \in Threads |->
            IF th \in D
              THEN IF a[th] = None THEN NoCommit ELSE s_commit_index
              ELSE IF dropped(th) THEN NoCommit ELSE th_commit[th]]

\* s_assign_one: gives thread th a task of the active list that no other
\* thread runs; t, which th ran, has just left this list. The step also
\* performs thread_unregister_task on the tasks of gone.
AssignOne(th, t, gone) ==
  LET busy == {th_task[o] : o \in s_threads \ {th}}
  IN  \E a \in Assignments({th}, s_actives \ (busy \cup {t})) :
        AssignTasks({th}, a, gone)

-----------------------------------------------------------------------------
(* Primitive functions *)

\* Mutant of TakeOwnership: the task's counter is forgotten.
TakeOwnershipOneSided(p, t) ==
  /\ p_nb_owning' = [p_nb_owning EXCEPT ![p] = @ + 1]
  /\ UNCHANGED t_nb_owned
TakeOwnership(p, t) ==
  /\ t_nb_owned[t] < OwnedBound
  /\ p_nb_owning' = [p_nb_owning EXCEPT ![p] = @ + 1]
  /\ t_nb_owned' = [t_nb_owned EXCEPT ![t] = @ + 1]

\* The release returns 0: both counters were positive.
Releases(p, t) == p_nb_owning[p] > 0 /\ t_nb_owned[t] > 0

\* The primitive's counter is decreased before the task's is looked at: a
\* failed release may have decreased the former alone.
ReleaseOwnership(p, t) ==
  /\ p_nb_owning' = [p_nb_owning EXCEPT ![p] = IF @ > 0 THEN @ - 1 ELSE 0]
  /\ t_nb_owned' = IF Releases(p, t)
                     THEN [t_nb_owned EXCEPT ![t] = @ - 1] ELSE t_nb_owned

\* _prim_un_override(p), then, unless t is None, the rest of
\* primitive_override_task(p, t). status and flagged are t_status and
\* p_updated as the calls before this one left them.
Override(p, t, status, flagged) ==
  LET old == p_overridden[p]
      Q == TaskPropagates(old, status, flagged)
      Delta(u) == (IF u = t THEN 1 ELSE 0) - (IF u = old THEN 1 ELSE 0)
  IN  /\ p_overridden' = [p_overridden EXCEPT ![p] = t]
      /\ t_overriders' = [u \in Tasks |->
            IF u = t THEN t_overriders[u] \cup {p}
            ELSE IF u = old THEN t_overriders[u] \ {p} ELSE t_overriders[u]]
      /\ t_nb_overrides' = [u \in Tasks |-> t_nb_overrides[u] + Delta(u)]
      /\ p_updated' = flagged \cup Q
      /\ t_status' = MarkUpdated(status, {old} \cup Overridden(Q))

\* primitive_stop_task(p, t). The propagation runs while t is still ACTIVE.
StopTask(p, t) ==
  LET Q == PrimPropagates(p, t_status, p_updated)
  IN  /\ t_stopper' = [t_stopper EXCEPT ![t] = p]
      /\ p_stopped' = [p_stopped EXCEPT ![p] = Append(@, t)]
      /\ p_nb_stopped' = [p_nb_stopped EXCEPT ![p] = @ + 1]
      /\ s_actives' = s_actives \ {t}
      /\ p_updated' = p_updated \cup Q
      /\ t_status' = [MarkUpdated(t_status, Overridden(Q))
                        EXCEPT ![t] = STOPPED]

\* Mutants of StopThread: no task is asked for; tasks are asked for all
\* threads.
StopThreadOnly(p, th) ==
  /\ StopTask(p, th_task[th])
  /\ UNCHANGED execVars
StopThreadAll(p, th) ==
  /\ StopTask(p, th_task[th])
  /\ \E a \in Assignments(s_threads, s_actives \ {th_task[th]}) :
       AssignTasks(s_threads, a, {})

\* primitive_stop_thread(p, th).
StopThread(p, th) ==
  /\ StopTask(p, th_task[th])
  /\ AssignOne(th, th_task[th], {})

\* Mutant of HasWaiters: nobody is looked for.
NeverWaiters(p) == FALSE
HasWaiters(p) == p_stopped[p] # <<>>

\* Mutant of Calls: the primitive may be another process's.
CallsAny(th, p) ==
  /\ Running
  /\ ThreadActive(th)
  /\ p \in live

\* A task calls the primitive p from the thread th that executes it; p
\* belongs to the task's process (sched.h:124).
Calls(th, p) ==
  /\ Running
  /\ ThreadActive(th)
  /\ p \in live
  /\ p_process[p] = t_process[th_task[th]]
=============================================================================
