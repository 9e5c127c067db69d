---------------------------- MODULE TaskManager ----------------------------
(***************************************************************************)
(* src/taskman.c: execution contexts that call taskman_exec on one task    *)
(* manager, race for its free list, execute what they are given and leave  *)
(* when their abort flag is set.  A context stands for its call and for    *)
(* the struct taskman_task in its stack frame, which nothing initialises.  *)
(* A step ends where another context can be noticed: at a lock, an unlock, *)
(* a read of the abort flag or of t_ready, a list operation, a call out.   *)
(*                                                                         *)
(* mgr_lock and mgr_unlock have no body.  exclusive says whether they do   *)
(* what their comments say: FALSE is the code as it is.                    *)
(***************************************************************************)
EXTENDS FiniteSets

CONSTANTS
  Contexts,  \* the calls of taskman_exec, each with an abort flag of its own
  Roots,     \* root argument structs that m_ready can hand out
  Subs,      \* functions and arguments another execution context can give
  Outsider,  \* this other execution context
  Garbage,   \* what memory holds that was never written
  None,      \* the null pointer
  Unlocked   \* model bound: the contexts that enter when no lock excludes

ASSUME DistinctValues ==
  /\ Roots \cap Subs = {}
  /\ None \notin Contexts \cup Roots \cup Subs
  /\ Garbage \notin Contexts \cup Roots \cup Subs \cup {None}
  /\ Outsider \notin Contexts \cup {None}
  /\ Unlocked \subseteq Contexts

VARIABLES
  pc,           \* pc[c]: where c is, by label or function of taskman.c
  abort,        \* the contexts whose abort flag is set
  exclusive,    \* mgr_lock excludes
  lock,         \* who is between mgr_lock and mgr_unlock, None if nobody is
  m_free_tasks, \* the contexts linked in the free list
  m_tree,       \* the contexts linked in the task tree
  t_linked,     \* t_list was written: the task was in the free list once
  t_root,
  t_ready,
  t_args,       \* t_function and t_args: what task_exec would execute
  delay,        \* what m_ready returned last: "now", "later", "never" (-1)
  given,        \* history: what task_init gave the context to execute last
                \* and it has not executed, None if nothing
  out,          \* external: the roots m_ready gave and nothing recycled
  init,         \* external: the task_init in progress in another context
  dirty,        \* history: the frames whose garbage had t_ready set
  fault         \* "wild" when the code works on memory that is no object

lockVars == <<exclusive, lock>>
listVars == <<m_free_tasks, m_tree, t_linked>>
taskVars == <<t_root, t_ready, t_args, given>>
extVars == <<abort, out, init>>
vars == <<pc, delay, dirty, fault, lockVars, listVars, taskVars, extVars>>

NoInit == [task |-> None, args |-> None, todo |-> {}]

\* taskman_init sets the list and copies the operations. It leaves m_tree as
\* it is: the manager lies in zeroed memory.
Init ==
  /\ pc = [c \in Contexts |-> "taskman_exec"]
  /\ abort = {}
  /\ exclusive \in BOOLEAN
  /\ lock = None
  /\ m_free_tasks = {}
  /\ m_tree = {}
  /\ t_linked = [c \in Contexts |-> FALSE]
  /\ t_root = [c \in Contexts |-> FALSE]
  /\ t_ready = [c \in Contexts |-> FALSE]
  /\ t_args = [c \in Contexts |-> Garbage]
  /\ delay = [c \in Contexts |-> "now"]
  /\ given = [c \in Contexts |-> None]
  /\ out = {}
  /\ init = NoInit
  /\ dirty = {}
  /\ fault = "none"

-----------------------------------------------------------------------------
(* Steps *)

At(c, label) == fault = "none" /\ pc[c] = label
Goto(c, label) == pc' = [pc EXCEPT ![c] = label]

\* Mutant of Acquire: a lock that is held is taken.
AcquireHeld(x) ==
  /\ lock' = IF exclusive THEN x ELSE None
  /\ UNCHANGED exclusive
Acquire(x) ==
  /\ lock = None
  /\ lock' = IF exclusive THEN x ELSE None
  /\ UNCHANGED exclusive
Release == lock' = None /\ UNCHANGED exclusive

Wild ==
  /\ fault' = "wild"
  /\ UNCHANGED <<pc, delay, dirty, lockVars, listVars, taskVars, extVars>>

\* The contexts whose task is being linked or unlinked.
Linking == {c \in Contexts : pc[c] \in {"adding", "removing"}}

\* Two list operations overlap.
Overlap(c) == Linking \ {c} # {} \/ init.task # None

-----------------------------------------------------------------------------
(* Registration and exit *)

\* taskman_exec is called: its frame holds whatever the stack held.
Enter(c) ==
  /\ At(c, "taskman_exec")
  /\ exclusive \/ c \in Unlocked
  /\ Goto(c, "mgr_register_task")
  /\ \E root, ready \in BOOLEAN :
       /\ t_root' = [t_root EXCEPT ![c] = root]
       /\ t_ready' = [t_ready EXCEPT ![c] = ready]
       /\ dirty' = IF ready THEN dirty \cup {c} ELSE dirty
  /\ UNCHANGED <<delay, fault, lockVars, listVars, t_args, given, extVars>>

\* Nodes in frames that are gone.
Stale == {c \in m_tree : pc[c] = "done"}

\* mgr_register_task takes no lock. Insertions that overlap may also lose a
\* node; a tree with more nodes can go wrong wherever one with fewer can.
InsertNode(c) ==
  /\ At(c, "mgr_register_task")
  /\ Goto(c, "task_insertion")
  /\ m_tree' = m_tree \cup {c}
  /\ UNCHANGED <<delay, dirty, fault, lockVars, m_free_tasks, t_linked,
                 taskVars, extVars>>

\* avl_tree_insert meets a node that is gone, or another insertion.
InsertNodeWild(c) ==
  /\ At(c, "mgr_register_task")
  /\ \/ Stale # {}
     \/ \E d \in Contexts \ {c} : pc[d] = "mgr_register_task"
  /\ Wild

\* The label exec_exit. mgr_unregister_task has no body: the tree keeps the
\* node, and the frame is gone.
Exit(c) ==
  /\ At(c, "exec_exit")
  /\ Goto(c, "done")
  /\ UNCHANGED <<delay, dirty, fault, lockVars, listVars, taskVars, extVars>>

-----------------------------------------------------------------------------
(* Insertion *)

TestAbort(c) ==
  /\ At(c, "task_insertion")
  /\ Goto(c, IF c \in abort THEN "exec_exit" ELSE "mgr_add_free_task")
  /\ UNCHANGED <<delay, dirty, fault, lockVars, listVars, taskVars, extVars>>

LockAdd(c) ==
  /\ At(c, "mgr_add_free_task")
  /\ Acquire(c)
  /\ Goto(c, "adding")
  /\ UNCHANGED <<delay, dirty, fault, listVars, taskVars, extVars>>

\* Mutant of MarkRoot: the task is not marked.
MarkRootNot(c) == UNCHANGED t_root
MarkRoot(c) == t_root' = [t_root EXCEPT ![c] = TRUE]

\* m_ready hands out a root and returns 0: the task is initialised with it.
AddRoot(c) ==
  /\ At(c, "adding")
  /\ \E r \in Roots \ out :
       /\ out' = out \cup {r}
       /\ t_args' = [t_args EXCEPT ![c] = r]
       /\ given' = [given EXCEPT ![c] = r]
  /\ t_ready' = [t_ready EXCEPT ![c] = TRUE]
  /\ MarkRoot(c)
  /\ delay' = [delay EXCEPT ![c] = "now"]
  /\ Release
  /\ Goto(c, "execution")
  /\ UNCHANGED <<dirty, fault, listVars, abort, init>>

\* m_ready returns a delay: the task is linked in the free list.
AddFree(c) ==
  /\ At(c, "adding")
  /\ \E d \in {"later", "never"} : delay' = [delay EXCEPT ![c] = d]
  /\ m_free_tasks' = m_free_tasks \cup {c}
  /\ t_linked' = [t_linked EXCEPT ![c] = TRUE]
  /\ Release
  /\ Goto(c, "waiting")
  /\ UNCHANGED <<dirty, fault, m_tree, taskVars, extVars>>

\* dlist_concat of a node that nothing initialised, which may happen to be a
\* list, or during another list operation.
AddFreeWild(c) ==
  /\ At(c, "adding")
  /\ ~t_linked[c] \/ Overlap(c)
  /\ Wild

-----------------------------------------------------------------------------
(* Waiting and removal *)

\* taskman_exec reads no delay behind its wait: its last value is dropped.
ForgetDelay(c) == delay' = [delay EXCEPT ![c] = "now"]

\* The wait reads t_ready, which is not volatile, without the lock. The read
\* of the abort flag before it may have found the flag not yet set.
Wake(c) ==
  /\ At(c, "waiting")
  /\ delay[c] = "never"
  /\ t_ready[c]
  /\ Goto(c, "execution")
  /\ ForgetDelay(c)
  /\ UNCHANGED <<dirty, fault, lockVars, listVars, taskVars, extVars>>

\* Mutant of WaitEnds: a context that waits to be activated does not look at
\* its abort flag.
WaitEndsLater(c) == delay[c] = "later"
\* The delay is over, or the abort flag was found set.
WaitEnds(c) == delay[c] = "later" \/ c \in abort

StopWaiting(c) ==
  /\ At(c, "waiting")
  /\ WaitEnds(c)
  /\ Goto(c, "mgr_remove_free_task")
  /\ UNCHANGED <<delay, dirty, fault, lockVars, listVars, taskVars, extVars>>

LockRemove(c) ==
  /\ At(c, "mgr_remove_free_task")
  /\ Acquire(c)
  /\ Goto(c, "checking")
  /\ UNCHANGED <<delay, dirty, fault, listVars, taskVars, extVars>>

\* mgr_remove_free_task returns 0.
FindReady(c) ==
  /\ At(c, "checking")
  /\ t_ready[c]
  /\ Release
  /\ Goto(c, "execution")
  /\ ForgetDelay(c)
  /\ UNCHANGED <<dirty, fault, listVars, taskVars, extVars>>

\* Mutant of FindsFree: the removal does not look at t_ready.
FindsFreeAlways(c) == TRUE
FindsFree(c) == ~t_ready[c]

FindFree(c) ==
  /\ At(c, "checking")
  /\ FindsFree(c)
  /\ Goto(c, "removing")
  /\ UNCHANGED <<delay, dirty, fault, lockVars, listVars, taskVars, extVars>>

\* Mutant of Unlink: dlist_remove is forgotten.
UnlinkNot(c) == UNCHANGED m_free_tasks
\* A task that was unlinked before is a list of its own: nothing happens.
Unlink(c) == m_free_tasks' = m_free_tasks \ {c}

\* mgr_remove_free_task returns 1: the context leaves or inserts again.
Remove(c) ==
  /\ At(c, "removing")
  /\ Unlink(c)
  /\ Release
  /\ Goto(c, IF delay[c] = "never" THEN "exec_exit" ELSE "task_insertion")
  /\ ForgetDelay(c)
  /\ UNCHANGED <<dirty, fault, m_tree, t_linked, taskVars, extVars>>

RemoveWild(c) ==
  /\ At(c, "removing")
  /\ Overlap(c)
  /\ Wild

-----------------------------------------------------------------------------
(* Execution *)

\* task_exec; the function is taken to return.
Execute(c) ==
  /\ At(c, "execution")
  /\ t_args[c] \in Roots \cup Subs
  /\ given' = [given EXCEPT ![c] = None]
  /\ Goto(c, "mgr_cleanup_task")
  /\ UNCHANGED <<delay, dirty, fault, lockVars, listVars, t_root, t_ready,
                 t_args, extVars>>

\* t_function is null or was never written.
ExecuteWild(c) ==
  /\ At(c, "execution")
  /\ t_args[c] \notin Roots \cup Subs
  /\ Wild

\* mgr_cleanup_task calls m_cleanup between lock and unlock. t_root is never
\* cleared: the arguments may also be a sub-task's.
Recycle(c) ==
  /\ At(c, "mgr_cleanup_task")
  /\ t_root[c]
  /\ lock = None
  /\ out' = out \ {t_args[c]}
  /\ Goto(c, "task_reset")
  /\ UNCHANGED <<delay, dirty, fault, lockVars, listVars, taskVars, abort,
                 init>>

\* Mutant of ResetReady: t_ready keeps its value.
ResetReadyNot(c) == UNCHANGED t_ready
ResetReady(c) == t_ready' = [t_ready EXCEPT ![c] = FALSE]

Reset(c) ==
  /\ \/ At(c, "task_reset")
     \/ At(c, "mgr_cleanup_task") /\ ~t_root[c]
  /\ t_args' = [t_args EXCEPT ![c] = None]
  /\ ResetReady(c)
  /\ Goto(c, "task_insertion")
  /\ UNCHANGED <<delay, dirty, fault, lockVars, listVars, t_root, given,
                 extVars>>

-----------------------------------------------------------------------------
(* Outside: the abort flags, and the context that initialises free tasks *)

RaiseAbort(c) ==
  /\ fault = "none"
  /\ pc[c] # "done"
  /\ abort' = abort \cup {c}
  /\ UNCHANGED <<pc, delay, dirty, fault, lockVars, listVars, taskVars, out,
                 init>>

\* Another execution context takes a task off the free list, under the lock,
\* to initialise it ...
PickFree(c) ==
  /\ fault = "none"
  /\ init.task = None
  /\ c \in m_free_tasks
  /\ Acquire(Outsider)
  /\ m_free_tasks' = m_free_tasks \ {c}
  /\ \E s \in Subs :
       init' = [task |-> c, args |-> s, todo |-> {"args", "ready"}]
  /\ UNCHANGED <<pc, delay, dirty, fault, m_tree, t_linked, taskVars, abort,
                 out>>

\* Mutant of StoreReady: the flag is given the arguments.
StoreArgsTwice(c) == t_ready' = [t_ready EXCEPT ![c] = init.args]
StoreReady(c) == t_ready' = [t_ready EXCEPT ![c] = TRUE]

StoreArgs(c) ==
  /\ t_args' = [t_args EXCEPT ![c] = init.args]
  /\ given' = [given EXCEPT ![c] = init.args]

\* ... with task_init, whose stores nothing orders: a context that reads
\* t_ready without the lock may see them in either order.
StoreInit ==
  LET c == init.task
  IN  /\ fault = "none"
      /\ c # None
      /\ \E x \in init.todo :
           /\ IF x = "args" THEN StoreArgs(c) /\ UNCHANGED t_ready
              ELSE StoreReady(c) /\ UNCHANGED <<t_args, given>>
           /\ IF init.todo = {x}
                THEN init' = NoInit /\ Release
                ELSE /\ init' = [init EXCEPT !.todo = @ \ {x}]
                     /\ UNCHANGED lockVars
      /\ UNCHANGED <<pc, delay, dirty, fault, listVars, t_root, abort, out>>

\* It writes to a frame that is gone.
StoreWild ==
  /\ fault = "none"
  /\ init.task # None
  /\ pc[init.task] = "done"
  /\ Wild

-----------------------------------------------------------------------------
(* The specification *)

\* The steps of c that wait for the lock.
LockStep(c) == LockAdd(c) \/ LockRemove(c) \/ Recycle(c)

\* The steps c goes on with as soon as it is scheduled.
OwnStep(c) ==
  \/ InsertNode(c) \/ InsertNodeWild(c) \/ Exit(c)
  \/ TestAbort(c)
  \/ AddRoot(c) \/ AddFree(c) \/ AddFreeWild(c)
  \/ StopWaiting(c) \/ FindReady(c) \/ FindFree(c)
  \/ Remove(c) \/ RemoveWild(c)
  \/ Execute(c) \/ ExecuteWild(c) \/ Reset(c)

Outside ==
  \/ \E c \in Contexts : RaiseAbort(c) \/ PickFree(c)
  \/ StoreInit
  \/ StoreWild

Next ==
  \/ \E c \in Contexts : Enter(c) \/ LockStep(c) \/ OwnStep(c) \/ Wake(c)
  \/ Outside

\* Every context is scheduled, the lock is handed out fairly, and whoever
\* initialises a task finishes. Nothing makes a context see that its t_ready
\* changed: the compiler may read it once.
Fairness ==
  /\ \A c \in Contexts : WF_vars(OwnStep(c)) /\ SF_vars(LockStep(c))
  /\ WF_vars(StoreInit \/ StoreWild)

Spec == Init /\ [][Next]_vars /\ Fairness
=============================================================================
