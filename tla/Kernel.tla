------------------------------- MODULE Kernel -------------------------------
(***************************************************************************)
(* The whole scheduler: the calls tasks make on mutexes and semaphores,    *)
(* and the registration, commit and process calls of src/sched/sched.c the *)
(* kernel makes.  Threads, the kernel and the scheduling interrupt         *)
(* interleave call by call.  What a call's header says it aborts on, or    *)
(* asks of its caller, is a guard.                                         *)
(***************************************************************************)
EXTENDS Mutex, Sem

-----------------------------------------------------------------------------
(* Registration of processes, tasks and primitives *)

\* process_register_prim. It clears the process's count of primitives.
InitPrim(p, prc) ==
  /\ p_process' = [p_process EXCEPT ![p] = prc]
  /\ p_updated' = p_updated \ {p}
  /\ p_nb_owning' = [p_nb_owning EXCEPT ![p] = 0]
  /\ p_nb_stopped' = [p_nb_stopped EXCEPT ![p] = 0]
  /\ p_stopped' = [p_stopped EXCEPT ![p] = <<>>]
  /\ p_overridden' = [p_overridden EXCEPT ![p] = None]
  /\ prc_nb_primitives' = [prc_nb_primitives EXCEPT ![prc] = 0]

\* sched_register_process.
RegisterProcess(prc) ==
  /\ Running
  /\ prc_status[prc] = UNREGISTERED
  /\ s_processes' = s_processes \cup {prc}
  /\ prc_status' = [prc_status EXCEPT ![prc] = ACTIVE]
  /\ prc_tasks' = [prc_tasks EXCEPT ![prc] = {}]
  /\ prc_nb_tasks' = [prc_nb_tasks EXCEPT ![prc] = 0]
  /\ InitPrim(prc, prc)
  /\ UNCHANGED <<commitVars, s_threads, execVars, t_process, t_status,
                 t_stopper, t_nb_owned, t_overriders, t_nb_overrides,
                 s_actives, sem_nb_owners, live, held, fault>>

\* process_register_task. It looks at the status of neither the process nor
\* the task.
RegisterTask(prc, t) ==
  /\ Running
  /\ prc \in s_processes
  /\ t_status[t] = UNREGISTERED
  /\ t_status' = [t_status EXCEPT ![t] = ACTIVE]
  /\ s_actives' = s_actives \cup {t}
  /\ t_commit' = [t_commit EXCEPT ![t] = NoCommit]
  /\ t_process' = [t_process EXCEPT ![t] = prc]
  /\ prc_tasks' = [prc_tasks EXCEPT ![prc] = @ \cup {t}]
  /\ prc_nb_tasks' = [prc_nb_tasks EXCEPT ![prc] = @ + 1]
  /\ t_nb_owned' = [t_nb_owned EXCEPT ![t] = 0]
  /\ t_nb_overrides' = [t_nb_overrides EXCEPT ![t] = 0]
  /\ t_overriders' = [t_overriders EXCEPT ![t] = {}]
  /\ t_stopper' = [t_stopper EXCEPT ![t] = None]
  /\ t_thread' = [t_thread EXCEPT ![t] = None]
  /\ live' = live \cup {t}
  /\ UNCHANGED <<commitVars, s_threads, s_processes, prc_status, primVars,
                 th_commit, th_task, th_history, th_history_size,
                 p_nb_owning, held, p_overridden, p_stopped, p_nb_stopped,
                 p_updated, fault>>

\* A mutex or semaphore may be constructed again after it was unregistered,
\* but not while links of a process that is gone may still lead to it.
MayConstruct(p, prc) ==
  /\ Running
  /\ prc \in s_processes
  /\ p \notin live
  /\ p_process[p] \in s_processes \cup {None}

\* sched_mutex_ctor.
RegisterMutex(prc, m) ==
  /\ MayConstruct(m, prc)
  /\ InitPrim(m, prc)
  /\ live' = live \cup {m}
  /\ UNCHANGED <<commitVars, s_threads, procVars, execVars, t_status,
                 t_stopper, t_nb_owned, t_overriders, t_nb_overrides,
                 s_actives, sem_nb_owners, held, fault>>

\* sched_sem_ctor.
RegisterSem(prc, s, nb_takings) ==
  /\ MayConstruct(s, prc)
  /\ InitPrim(s, prc)
  /\ sem_nb_owners' = [sem_nb_owners EXCEPT ![s] = nb_takings]
  /\ live' = live \cup {s}
  /\ UNCHANGED <<commitVars, s_threads, procVars, execVars, t_status,
                 t_stopper, t_nb_owned, t_overriders, t_nb_overrides,
                 s_actives, held, fault>>

-----------------------------------------------------------------------------
(* Unregistration of primitives and tasks *)

\* Mutant of Resumed: only the first waiter is resumed.
ResumedFirst(p) == {p_stopped[p][i] : i \in DOMAIN p_stopped[p] \cap {1}}
\* The tasks the walk of process_unregister_prim resumes.
Resumed(p) == {p_stopped[p][i] : i \in DOMAIN p_stopped[p]}

\* The primitives the first primitive_resume_task of process_unregister_prim
\* flags; the later ones find p flagged already.
ResumeFlags(p) ==
  IF HasWaiters(p) THEN PrimPropagates(p, t_status, p_updated) ELSE {}

\* primitive_resume_task finds a task that is not exactly STOPPED: it was
\* flagged before, or by the resuming of the first waiter.
ResumeAborts(p) ==
  \E i \in DOMAIN p_stopped[p] :
    \/ t_status[p_stopped[p][i]] # STOPPED
    \/ i > 1 /\ p_stopped[p][i] \in Overridden(ResumeFlags(p))

\* process_unregister_prim: every waiter is resumed, none takes ownership.
UnregisterPrim(p) ==
  LET status == [t \in Tasks |->
                   IF t \in Resumed(p) THEN ACTIVE
                   ELSE MarkUpdated(t_status, Overridden(ResumeFlags(p)))[t]]
  IN  /\ Running
      /\ p \in live
      /\ ~(Debug /\ ResumeAborts(p))
      /\ s_actives' = s_actives \cup Resumed(p)
      /\ t_stopper' = [t \in Tasks |->
                         IF t \in Resumed(p) THEN None ELSE t_stopper[t]]
      /\ p_stopped' = [p_stopped EXCEPT ![p] = <<>>]
      /\ p_nb_stopped' = [p_nb_stopped EXCEPT ![p] = @ - Len(p_stopped[p])]
      /\ Override(p, None, status, p_updated \cup ResumeFlags(p))
      /\ prc_nb_primitives' =
           [prc_nb_primitives EXCEPT ![p_process[p]] = Dec(@)]
      /\ live' = live \ {p}
      /\ held' = [s \in Sems |-> IF s = p THEN [t \in Tasks |-> 0]
                                 ELSE held[s]]
      /\ UNCHANGED <<commitVars, s_threads, procVars, execVars, p_process,
                     sem_nb_owners, p_nb_owning, t_nb_owned, fault>>

UnregisterPrimAborts(p) ==
  /\ Running
  /\ p \in live
  /\ Debug
  /\ ResumeAborts(p)
  /\ Fault("abort")

\* Mutant of Uncount: the task that left is still counted.
StillCounted(t) == UNCHANGED prc_nb_tasks
Uncount(t) ==
  prc_nb_tasks' = [prc_nb_tasks EXCEPT ![t_process[t]] = @ - 1]

\* process_unregister_task by a task no primitive overrides. The task keeps
\* its status and its place in its process's list.
UnregisterTask(th) ==
  LET t == th_task[th]
  IN  /\ Running
      /\ ThreadActive(th)
      /\ t_overriders[t] = {}
      /\ s_actives' = s_actives \ {t}
      /\ AssignOne(th, t, {t})
      /\ Uncount(t)
      /\ live' = live \ {t}
      /\ UNCHANGED <<commitVars, s_threads, s_processes, prc_status,
                     prc_tasks, t_process, primVars, ownVars, overrideVars,
                     t_stopper, p_stopped, p_nb_stopped, updateVars, fault>>

\* The walk over t_overriders goes by the member p_overriders, but
\* primitive_override_task links primitives by p_siblings.
UnregisterTaskWild(th) ==
  /\ Running
  /\ ThreadActive(th)
  /\ t_overriders[th_task[th]] # {}
  /\ Fault("wild")

-----------------------------------------------------------------------------
(* Threads and commits *)

\* sched_register_thread.
RegisterThread(th) ==
  /\ Running
  /\ th \notin s_threads
  /\ s_threads' = s_threads \cup {th}
  /\ th_commit' = [th_commit EXCEPT ![th] = NoCommit]
  /\ th_task' = [th_task EXCEPT ![th] = None]
  /\ th_history' = [th_history EXCEPT ![th] = {}]
  /\ th_history_size' = [th_history_size EXCEPT ![th] = 0]
  /\ UNCHANGED <<commitVars, procVars, primVars, t_thread, t_commit, ownVars,
                 overrideVars, stopVars, updateVars, live, fault>>

\* Mutant of UnregisterThread: the history is left as it is.
UnregisterThreadOnly(th) ==
  /\ Running
  /\ s_commit_opened
  /\ th \in s_threads
  /\ s_threads' = s_threads \ {th}
  /\ UNCHANGED <<commitVars, procVars, primVars, execVars, ownVars,
                 overrideVars, stopVars, updateVars, live, fault>>

\* sched_unregister_thread: thread_unregister_task on its whole history.
UnregisterThread(th) ==
  /\ Running
  /\ s_commit_opened
  /\ th \in s_threads
  /\ AssignTasks({}, [d \in {} |-> None], th_history[th])
  /\ s_threads' = s_threads \ {th}
  /\ UNCHANGED <<commitVars, procVars, primVars, ownVars, overrideVars,
                 stopVars, updateVars, live, fault>>

\* sched_open_commit.
OpenCommit ==
  /\ Running
  /\ ~s_commit_opened
  /\ s_commit_index < CommitBound
  /\ s_commit_opened' = TRUE
  /\ s_commit_index' = Inc(s_commit_index)
  /\ UNCHANGED <<s_threads, procVars, primVars, execVars, ownVars,
                 overrideVars, stopVars, updateVars, live, fault>>

\* External: s_schedule reads the objects whose priority changed since the
\* last commit; it may leave their flags or clear them all.
Schedule ==
  \/ UNCHANGED updateVars
  \/ /\ p_updated' = {}
     /\ t_status' = [t \in Tasks |->
          IF t_status[t] = STOPPED + STASK_STATUS_UPDATED
            THEN STOPPED ELSE t_status[t]]

\* sched_close_commit; s_assign_all gives every thread a task or None.
CloseCommit ==
  /\ Running
  /\ s_commit_opened
  /\ s_commit_opened' = FALSE
  /\ Schedule
  /\ \E a \in Assignments(s_threads, s_actives) :
       AssignTasks(s_threads, a, {})
  /\ UNCHANGED <<s_commit_index, s_threads, procVars, primVars, ownVars,
                 overrideVars, stopVars, live, fault>>

-----------------------------------------------------------------------------
(* Processes *)

\* sched_unregister_process. Links to its tasks and primitives stay.
UnregisterProcess(prc) ==
  /\ Running
  /\ s_commit_opened
  /\ prc \in s_processes
  /\ s_actives' = s_actives \ {t \in prc_tasks[prc] : t_status[t] = ACTIVE}
  /\ s_processes' = s_processes \ {prc}
  /\ live' = {x \in live : \/ x \in Tasks /\ t_process[x] # prc
                           \/ x \in Prims /\ p_process[x] # prc}
  /\ UNCHANGED <<commitVars, s_threads, prc_status, prc_tasks, prc_nb_tasks,
                 t_process, primVars, execVars, ownVars, overrideVars,
                 t_stopper, p_stopped, p_nb_stopped, updateVars, fault>>

\* Mutant of MayPause: no commit is asked for.
MayPauseAnytime(prc) ==
  /\ Running
  /\ prc \in s_processes
  /\ prc_status[prc] = ACTIVE
MayPause(prc) ==
  /\ Running
  /\ s_commit_opened
  /\ prc \in s_processes
  /\ prc_status[prc] = ACTIVE

\* Mutant of Pausable: the status is not looked at.
PausableAll(prc) == prc_tasks[prc]
\* The tasks sched_pause_process stops: those whose status is ACTIVE, the
\* unregistered ones that are still in the list among them.
Pausable(prc) == {t \in prc_tasks[prc] : t_status[t] = ACTIVE}

\* primitive_stop_task asks for a task of the current commit, but the commit
\* was opened after the task was last assigned.
PauseAborts(prc) ==
  Debug /\ \E t \in Pausable(prc) : ~TaskActive(t)

\* sched_pause_process. p_prim overrides nobody, so it alone is flagged.
PauseProcess(prc) ==
  LET T == Pausable(prc)
  IN  /\ MayPause(prc)
      /\ ~PauseAborts(prc)
      /\ \E q \in Injection(1 .. Cardinality(T), T) :
           p_stopped' = [p_stopped EXCEPT ![prc] = @ \o q]
      /\ p_nb_stopped' = [p_nb_stopped EXCEPT ![prc] = @ + Cardinality(T)]
      /\ t_stopper' = [t \in Tasks |-> IF t \in T THEN prc ELSE t_stopper[t]]
      /\ t_status' = [t \in Tasks |-> IF t \in T THEN STOPPED
                                      ELSE t_status[t]]
      /\ p_updated' = IF T = {} THEN p_updated ELSE p_updated \cup {prc}
      /\ s_actives' = s_actives \ T
      /\ prc_status' = [prc_status EXCEPT ![prc] = STOPPED]
      /\ UNCHANGED <<commitVars, s_threads, s_processes, prc_tasks,
                     prc_nb_tasks, t_process, primVars, execVars, ownVars,
                     overrideVars, live, fault>>

PauseProcessAborts(prc) ==
  /\ MayPause(prc)
  /\ PauseAborts(prc)
  /\ Fault("abort")

MayResume(prc) ==
  /\ Running
  /\ s_commit_opened
  /\ prc \in s_processes
  /\ prc_status[prc] = STOPPED

\* sched_resume_process of a process none of whose tasks was stopped.
ResumeProcess(prc) ==
  /\ MayResume(prc)
  /\ ~HasWaiters(prc)
  /\ prc_status' = [prc_status EXCEPT ![prc] = ACTIVE]
  /\ UNCHANGED <<commitVars, s_threads, s_processes, prc_tasks, prc_nb_tasks,
                 t_process, primVars, execVars, ownVars, overrideVars,
                 stopVars, updateVars, live, fault>>

\* The walk over p_stopped goes by the member t_siblings, but
\* primitive_stop_task links tasks by t_stopped.
ResumeProcessWild(prc) ==
  /\ MayResume(prc)
  /\ HasWaiters(prc)
  /\ Fault("wild")

-----------------------------------------------------------------------------
(* The specification *)

\* Nothing is registered: the objects lie in zeroed memory.
Init ==
  /\ s_commit_opened = FALSE
  /\ s_commit_index = 0
  /\ s_actives = {} /\ s_threads = {} /\ s_processes = {}
  /\ th_commit = [th \in Threads |-> NoCommit]
  /\ th_task = [th \in Threads |-> None]
  /\ th_history = [th \in Threads |-> {}]
  /\ th_history_size = [th \in Threads |-> 0]
  /\ t_status = [t \in Tasks |-> UNREGISTERED]
  /\ t_commit = [t \in Tasks |-> NoCommit]
  /\ t_process = [t \in Tasks |-> None]
  /\ t_thread = [t \in Tasks |-> None]
  /\ t_nb_owned = [t \in Tasks |-> 0]
  /\ t_stopper = [t \in Tasks |-> None]
  /\ t_nb_overrides = [t \in Tasks |-> 0]
  /\ t_overriders = [t \in Tasks |-> {}]
  /\ p_process = [p \in Prims |-> None]
  /\ p_updated = {}
  /\ p_nb_owning = [p \in Prims |-> 0]
  /\ p_nb_stopped = [p \in Prims |-> 0]
  /\ p_stopped = [p \in Prims |-> <<>>]
  /\ p_overridden = [p \in Prims |-> None]
  /\ sem_nb_owners = [s \in Sems |-> 0]
  /\ prc_status = [prc \in Procs |-> UNREGISTERED]
  /\ prc_tasks = [prc \in Procs |-> {}]
  /\ prc_nb_tasks = [prc \in Procs |-> 0]
  /\ prc_nb_primitives = [prc \in Procs |-> 0]
  /\ live = {}
  /\ held = [s \in Sems |-> [t \in Tasks |-> 0]]
  /\ fault = "none"

ProcessNext ==
  \E prc \in Procs :
    \/ RegisterProcess(prc)
    \/ \E t \in Tasks : RegisterTask(prc, t)
    \/ \E m \in Mutexes : RegisterMutex(prc, m)
    \/ \E s \in Sems, n \in Takings : RegisterSem(prc, s, n)
    \/ UnregisterProcess(prc)
    \/ PauseProcess(prc)
    \/ PauseProcessAborts(prc)
    \/ ResumeProcess(prc)
    \/ ResumeProcessWild(prc)

PrimNext ==
  \E p \in Mutexes \cup Sems : UnregisterPrim(p) \/ UnregisterPrimAborts(p)

ThreadNext ==
  \E th \in Threads :
    \/ RegisterThread(th)
    \/ UnregisterThread(th)
    \/ UnregisterTask(th)
    \/ UnregisterTaskWild(th)

CommitNext == OpenCommit \/ CloseCommit

Next ==
  \/ MutexNext \/ SemNext \/ ProcessNext \/ PrimNext
  \/ ThreadNext \/ CommitNext

Spec == Init /\ [][Next]_vars
=============================================================================
