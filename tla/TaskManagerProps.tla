-------------------------- MODULE TaskManagerProps --------------------------
(***************************************************************************)
(* What contexts that share a task manager keep true, and the pool they    *)
(* implement.  What needs a lock that excludes says so.                    *)
(***************************************************************************)
EXTENDS TaskManager

Labels == {
  "taskman_exec", "mgr_register_task", "task_insertion",
  "mgr_add_free_task", "adding", "waiting", "mgr_remove_free_task",
  "checking", "removing", "execution", "mgr_cleanup_task", "task_reset",
  "exec_exit", "done"}

\* The type invariant: flags are flags, and a context executes what task_init
\* was given (taskman.c:92-102) or what the memory held.
TypeOK ==
  /\ pc \in [Contexts -> Labels]
  /\ abort \subseteq Contexts
  /\ exclusive \in BOOLEAN
  /\ lock \in Contexts \cup {Outsider, None}
  /\ m_free_tasks \subseteq Contexts
  /\ m_tree \subseteq Contexts
  /\ t_linked \in [Contexts -> BOOLEAN]
  /\ t_root \in [Contexts -> BOOLEAN]
  /\ t_ready \in [Contexts -> BOOLEAN]
  /\ t_args \in [Contexts -> Roots \cup Subs \cup {Garbage, None}]
  /\ delay \in [Contexts -> {"now", "later", "never"}]
  /\ given \in [Contexts -> Roots \cup Subs \cup {None}]
  /\ out \subseteq Roots
  /\ init \in [task : Contexts \cup {None}, args : Subs \cup {None},
               todo : SUBSET {"args", "ready"}]
  /\ dirty \subseteq Contexts
  /\ fault \in {"none", "wild"}

-----------------------------------------------------------------------------
(* Under a lock: what the steps keep true together                         *)

Jobs == Roots \cup Subs
Waiting == {"waiting", "mgr_remove_free_task"}

\* The lock is held exactly by whoever is between lock and unlock.
LockHeld ==
  /\ \A c \in Contexts :
       lock = c <=> pc[c] \in {"adding", "checking", "removing"}
  /\ lock = Outsider <=> init.task # None
  /\ init.task # None <=> init.todo # {}
  /\ init.task # None => init.args \in Subs

\* What was given and not executed is still to come: the task is ready, or
\* about to be made so.
GivenIsReady ==
  \A c \in Contexts : given[c] # None =>
    /\ pc[c] \in Waiting \cup {"checking", "execution"}
    /\ t_ready[c] \/ (init.task = c /\ "ready" \in init.todo)

\* A context has something to execute only from task_init to task_reset.
ArgsAreGiven ==
  \A c \in Contexts :
    t_args[c] \in Jobs =>
      given[c] # None \/ pc[c] \in {"mgr_cleanup_task", "task_reset"}

\* Who is in the free list, or about to be given something, was not given
\* anything yet and waits, or runs because of garbage.
FreeIsUngiven ==
  \A c \in Contexts :
    /\ c \in m_free_tasks =>
         /\ given[c] = None /\ init.task # c
         /\ pc[c] \in Waiting \cup {"checking", "removing", "execution"}
    /\ init.task = c /\ "args" \in init.todo =>
         /\ given[c] = None /\ pc[c] \in Waiting \cup {"execution"}
         /\ t_ready[c] \/ "ready" \in init.todo

\* Who waits and was given nothing is in the list or about to be given
\* something; unless its frame was dirty, it takes itself for ready only then.
UngivenIsFree ==
  \A c \in Contexts :
    /\ pc[c] \in Waiting \cup {"checking", "removing"} /\ given[c] = None
         => c \in m_free_tasks \/ (init.task = c /\ "args" \in init.todo)
    /\ c \notin dirty /\ (t_ready[c] \/ pc[c] = "execution") =>
         \/ given[c] # None
         \/ init.task = c /\ "args" \in init.todo
         \/ pc[c] \in {"mgr_cleanup_task", "task_reset"}
    /\ c \notin dirty /\ init.task = c /\ "ready" \in init.todo =>
         /\ ~t_ready[c] /\ pc[c] \in Waiting
         /\ given[c] # None \/ "args" \in init.todo

\* What locked insertions, removals and initialisations of taskman.c keep true
\* together: the inductive invariant behind the two properties that follow.
PoolInv ==
  exclusive =>
    LockHeld /\ GivenIsReady /\ ArgsAreGiven /\ FreeIsUngiven /\ UngivenIsFree

\* Under a lock, while nobody holds it, the free list holds exactly the tasks
\* of the contexts that wait and were given nothing: no task that runs, that
\* another context initialised, or whose frame is gone (mgr_add_free_task,
\* mgr_remove_free_task). A frame whose garbage reads as ready may be left in.
FreeListExact ==
  exclusive /\ lock = None =>
    \A c \in Contexts \ dirty :
      c \in m_free_tasks <=>
        /\ pc[c] \in {"waiting", "mgr_remove_free_task"}
        /\ given[c] = None

\* Under a lock, a context that goes for another task or leaves has executed
\* all it was given, also when it was given it while its delay ended or its
\* abort flag was raised (the comment at taskman.c:428).
NothingGivenIsLost ==
  exclusive => \A c \in Contexts :
    pc[c] \in {"task_insertion", "mgr_add_free_task", "adding", "exec_exit",
               "done"} => given[c] = None

\* Under a lock, a root that m_ready handed out is with exactly one context,
\* which is marked to recycle it, until m_cleanup has it back: it is executed
\* before and never recycled twice.
RootsRecycledOnce ==
  exclusive => \A r \in Roots :
    r \in out <=>
      Cardinality({c \in Contexts :
        /\ pc[c] \in {"execution", "mgr_cleanup_task"}
        /\ t_args[c] = r
        /\ t_root[c]}) = 1

\* Under a lock, these alone make the code work on memory that is no object:
\* a frame whose garbage was taken for a ready flag, a first insertion of a
\* list node that nothing initialised, a tree that keeps the node of a
\* context that left, two registrations at once, and a waiting context that
\* saw task_init set t_ready before the function.
WildHasCause ==
  exclusive /\ fault = "wild" =>
    \/ dirty # {}
    \/ \E c \in Contexts : pc[c] = "adding" /\ ~t_linked[c]
    \/ Stale # {}
    \/ \E c, d \in Contexts :
         c # d /\ pc[c] = "mgr_register_task" /\ pc[d] = "mgr_register_task"
    \/ init.todo = {"args"}

\* A context whose abort flag is raised leaves, whether it waits, was given
\* a task, or is between two, with or without a lock (taskman.c:376).
AbortStops ==
  \A c \in Contexts :
    c \in abort /\ pc[c] # "taskman_exec"
      ~> pc[c] = "done" \/ fault = "wild"

-----------------------------------------------------------------------------
(* The pool. The removal that finds a task ready, the store that makes it  *)
(* so, the lock and the lists are invisible, and a fault ends everything.  *)
(* A manager whose lock excludes nobody implements a pool nobody enters.   *)

PoolStatus(c) ==
  CASE ~exclusive \/ pc[c] \in {"taskman_exec", "mgr_register_task"} -> "away"
    [] exclusive /\ pc[c] \in {"waiting", "mgr_remove_free_task", "checking",
                               "removing", "execution"} ->
         IF given[c] = None THEN "free" ELSE "given"
    [] exclusive /\ pc[c] = "mgr_cleanup_task" -> "spent"
    [] exclusive /\ pc[c] = "done" -> "gone"
    [] OTHER -> "idle"

PoolJob(c) ==
  IF ~exclusive THEN None
  ELSE IF pc[c] = "mgr_cleanup_task" THEN t_args[c] ELSE given[c]

Promise == INSTANCE Pool
  WITH status <- [c \in Contexts |-> PoolStatus(c)],
       job <- [c \in Contexts |-> PoolJob(c)],
       asked <- abort,
       out <- IF exclusive THEN out ELSE {}

\* Under a lock, taskman_exec does what its comment promises (360-379): a
\* context is given one task at a time, from m_ready or from the free list,
\* executes it once, recycles it if it is a root, and leaves only when its
\* abort flag is set and nothing is left to execute.
PoolImplemented == Promise!Spec

-----------------------------------------------------------------------------
(* What a comment says and the code does not do; refuted by a run.         *)

\* "A task is first created and initialized" (taskman.c:363): a context
\* executes nothing that it was not given.
ExecutesOnlyGiven ==
  [][\A c \in Contexts :
       Execute(c) \/ ExecuteWild(c) => given[c] # None]_vars
=============================================================================
