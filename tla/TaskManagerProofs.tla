------------------------- MODULE TaskManagerProofs -------------------------
(***************************************************************************)
(* What holds of a task manager for any number of contexts, roots and      *)
(* sub-tasks, and that it implements Pool.                                 *)
(***************************************************************************)
EXTENDS TaskManagerProps, FiniteSetTheorems, TLAPS

USE DistinctValues

\* Every step keeps the types.
LEMMA StepType == TypeOK /\ [Next]_vars => TypeOK'
<1> SUFFICES ASSUME TypeOK, [Next]_vars PROVE TypeOK'
  OBVIOUS
<1> USE DEF TypeOK, At, Goto, Labels, lockVars, listVars, taskVars, extVars
<1>1. ASSUME NEW c \in Contexts, Enter(c) PROVE TypeOK'
  BY <1>1 DEF Enter
<1>2. ASSUME NEW c \in Contexts, LockStep(c) PROVE TypeOK'
  BY <1>2 DEF LockStep, LockAdd, LockRemove, Recycle, Acquire
<1>3. ASSUME NEW c \in Contexts, OwnStep(c) PROVE TypeOK'
  <2>1. CASE InsertNode(c) \/ Exit(c) \/ TestAbort(c)
    BY <2>1 DEF InsertNode, Exit, TestAbort
  <2>2. CASE InsertNodeWild(c) \/ AddFreeWild(c) \/ RemoveWild(c)
               \/ ExecuteWild(c)
    BY <2>2 DEF InsertNodeWild, AddFreeWild, RemoveWild, ExecuteWild, Wild
  <2>3. CASE AddRoot(c)
    BY <2>3 DEF AddRoot, MarkRoot, Release
  <2>4. CASE AddFree(c)
    BY <2>4 DEF AddFree, Release
  <2>5. CASE StopWaiting(c) \/ FindReady(c) \/ FindFree(c)
    BY <2>5 DEF StopWaiting, FindReady, FindFree, ForgetDelay, Release
  <2>6. CASE Remove(c)
    BY <2>6 DEF Remove, ForgetDelay, Unlink, Release
  <2>7. CASE Execute(c)
    BY <2>7 DEF Execute
  <2>8. CASE Reset(c)
    BY <2>8 DEF Reset, ResetReady
  <2> QED
    BY <1>3, <2>1, <2>2, <2>3, <2>4, <2>5, <2>6, <2>7, <2>8 DEF OwnStep
<1>4. ASSUME NEW c \in Contexts, Wake(c) PROVE TypeOK'
  BY <1>4 DEF Wake, ForgetDelay
<1>5. CASE Outside
  <2>1. ASSUME NEW c \in Contexts, RaiseAbort(c) PROVE TypeOK'
    BY <2>1 DEF RaiseAbort
  <2>2. ASSUME NEW c \in Contexts, PickFree(c) PROVE TypeOK'
    BY <2>2 DEF PickFree, Acquire
  <2>3. CASE StoreInit
    <3> DEFINE c == init.task
    <3>1. c \in Contexts /\ init.args \in Roots \cup Subs \cup {None}
      BY <2>3 DEF StoreInit
    <3>2. init.todo \ {"args"} \in SUBSET {"args", "ready"}
            /\ init.todo \ {"ready"} \in SUBSET {"args", "ready"}
      OBVIOUS
    <3>3. PICK y \in {"args", "ready"} :
            /\ IF y = "args" THEN StoreArgs(c) /\ UNCHANGED t_ready
               ELSE StoreReady(c) /\ UNCHANGED <<t_args, given>>
            /\ IF init.todo = {y}
                 THEN init' = NoInit /\ Release
                 ELSE /\ init' = [init EXCEPT !.todo = @ \ {y}]
                      /\ UNCHANGED lockVars
      BY <2>3 DEF StoreInit
    <3>4. t_ready' \in [Contexts -> BOOLEAN]
      BY <3>1, <3>3 DEF StoreReady
    <3>5. /\ t_args' \in [Contexts -> Roots \cup Subs \cup {Garbage, None}]
          /\ given' \in [Contexts -> Roots \cup Subs \cup {None}]
      BY <3>1, <3>3 DEF StoreArgs
    <3>6. /\ init' \in [task : Contexts \cup {None}, args : Subs \cup {None},
                        todo : SUBSET {"args", "ready"}]
          /\ lock' \in Contexts \cup {Outsider, None}
          /\ exclusive' \in BOOLEAN
      BY <3>2, <3>3 DEF NoInit, Release
    <3> QED
      BY <2>3, <3>4, <3>5, <3>6 DEF StoreInit
  <2>4. CASE StoreWild
    BY <2>4 DEF StoreWild, Wild
  <2> QED
    BY <1>5, <2>1, <2>2, <2>3, <2>4 DEF Outside
<1>6. CASE UNCHANGED vars
  BY <1>6 DEF vars
<1> QED
  BY <1>1, <1>2, <1>3, <1>4, <1>5, <1>6 DEF Next

\* Flags stay flags, and a context executes what it was given or what the
\* memory held: taskman.c in any interleaving, with or without a lock.
THEOREM TaskTypes == Spec => []TypeOK
<1>1. Init => TypeOK
  BY DEF Init, TypeOK, Labels, NoInit
<1> QED
  BY <1>1, StepType, PTL DEF Spec

-----------------------------------------------------------------------------
(* Under a lock that excludes *)

PoolParts ==
  LockHeld /\ GivenIsReady /\ ArgsAreGiven /\ FreeIsUngiven /\ UngivenIsFree

\* A context's own steps, under a lock, keep the parts of PoolInv.
LEMMA ContextKeeps ==
  ASSUME TypeOK, exclusive, PoolParts, NEW c \in Contexts,
         Enter(c) \/ LockStep(c) \/ OwnStep(c) \/ Wake(c)
  PROVE  PoolParts'
<1> USE DEF TypeOK, PoolParts, LockHeld, GivenIsReady, ArgsAreGiven,
            FreeIsUngiven, UngivenIsFree, Waiting, Jobs, At, Goto,
            lockVars, listVars, taskVars, extVars
<1>1. CASE Enter(c)
  BY <1>1 DEF Enter
<1>2. CASE LockAdd(c)
  BY <1>2 DEF LockAdd, Acquire
<1>3. CASE LockRemove(c)
  BY <1>3 DEF LockRemove, Acquire
<1>4. CASE Recycle(c)
  BY <1>4 DEF Recycle
<1>5a. CASE InsertNode(c)
  BY <1>5a DEF InsertNode
<1>5b. CASE Exit(c)
  BY <1>5b DEF Exit
<1>5c. CASE TestAbort(c)
  BY <1>5c DEF TestAbort
<1>6. CASE InsertNodeWild(c) \/ AddFreeWild(c) \/ RemoveWild(c)
             \/ ExecuteWild(c)
  <2>1. UNCHANGED <<pc, dirty, lock, m_free_tasks, t_ready, t_args, given,
                    init>>
    BY <1>6 DEF InsertNodeWild, AddFreeWild, RemoveWild, ExecuteWild, Wild
  <2> QED
    BY <2>1
<1>7. CASE AddRoot(c)
  BY <1>7 DEF AddRoot, MarkRoot, Release
<1>8. CASE AddFree(c)
  BY <1>8 DEF AddFree, Release
<1>9a. CASE StopWaiting(c)
  BY <1>9a DEF StopWaiting
<1>9b. CASE FindReady(c)
  BY <1>9b DEF FindReady, Release
<1>10. CASE FindFree(c)
  BY <1>10 DEF FindFree, FindsFree
<1>11. CASE Remove(c)
  BY <1>11 DEF Remove, Unlink, Release
<1>12. CASE Execute(c)
  BY <1>12 DEF Execute
<1>13. CASE Reset(c)
  BY <1>13 DEF Reset, ResetReady
<1>14. CASE Wake(c)
  BY <1>14 DEF Wake
<1> QED
  BY <1>1, <1>2, <1>3, <1>4, <1>5a, <1>5b, <1>5c, <1>6, <1>7, <1>8,
     <1>9a, <1>9b, <1>10, <1>11, <1>12, <1>13, <1>14 DEF LockStep, OwnStep

\* So do the steps from outside.
LEMMA OutsideKeeps ==
  ASSUME TypeOK, exclusive, PoolParts, Outside
  PROVE  PoolParts'
<1> USE DEF TypeOK, PoolParts, LockHeld, GivenIsReady, ArgsAreGiven,
            FreeIsUngiven, UngivenIsFree, Waiting, Jobs,
            lockVars, listVars, taskVars, extVars
<1>1. ASSUME NEW c \in Contexts, RaiseAbort(c) PROVE PoolParts'
  BY <1>1 DEF RaiseAbort
<1>2. ASSUME NEW c \in Contexts, PickFree(c) PROVE PoolParts'
  BY <1>2 DEF PickFree, Acquire
<1>3. CASE StoreInit
  <2> DEFINE d == init.task
  <2>1. /\ d \in Contexts /\ lock = Outsider
        /\ init = [task |-> d, args |-> init.args, todo |-> init.todo]
        /\ init.args \in Subs
        /\ UNCHANGED <<pc, dirty, m_free_tasks>>
    BY <1>3 DEF StoreInit
  <2>2. PICK x \in init.todo :
          /\ IF x = "args" THEN StoreArgs(d) /\ UNCHANGED t_ready
             ELSE StoreReady(d) /\ UNCHANGED <<t_args, given>>
          /\ IF init.todo = {x}
               THEN init' = NoInit /\ Release
               ELSE /\ init' = [init EXCEPT !.todo = @ \ {x}]
                    /\ UNCHANGED lockVars
    BY <1>3 DEF StoreInit
  <2>3. /\ init'.todo = init.todo \ {x}
        /\ init'.task = IF init.todo = {x} THEN None ELSE d
        /\ lock' = IF init.todo = {x} THEN None ELSE Outsider
        /\ init'.task # None => init'.args \in Subs
    <3>1. CASE init.todo = {x}
      BY <2>2, <3>1 DEF NoInit, Release
    <3>2. CASE init.todo # {x}
      BY <2>1, <2>2, <3>2
    <3> QED
      BY <3>1, <3>2
  <2>4. LockHeld'
    BY <2>1, <2>3
  <2>5. CASE x = "args"
    <3>1. /\ t_args' = [t_args EXCEPT ![d] = init.args]
          /\ given' = [given EXCEPT ![d] = init.args]
          /\ UNCHANGED t_ready
      BY <2>2, <2>5 DEF StoreArgs
    <3>2. /\ given[d] = None /\ d \notin m_free_tasks
          /\ pc[d] \in Waiting \cup {"execution"}
          /\ t_ready[d] \/ "ready" \in init.todo
      BY <2>1, <2>5
    <3>3. GivenIsReady'
      BY <2>1, <2>2, <2>3, <2>5, <3>1, <3>2
    <3>4. ArgsAreGiven'
      BY <2>1, <2>5, <3>1
    <3>5. FreeIsUngiven'
      BY <2>1, <2>2, <2>3, <2>5, <3>1, <3>2
    <3>6. UngivenIsFree'
      BY <2>1, <2>2, <2>3, <2>5, <3>1, <3>2
    <3> QED
      BY <2>4, <3>3, <3>4, <3>5, <3>6
  <2>6. CASE x = "ready"
    <3>1. /\ t_ready' = [t_ready EXCEPT ![d] = TRUE]
          /\ UNCHANGED <<t_args, given>>
      BY <2>2, <2>6 DEF StoreReady
    <3>2. GivenIsReady'
      BY <2>1, <2>2, <2>3, <2>6, <3>1
    <3>3. ArgsAreGiven'
      BY <2>1, <2>6, <3>1
    <3>4. FreeIsUngiven'
      BY <2>1, <2>2, <2>3, <2>6, <3>1
    <3>5. UngivenIsFree'
      BY <2>1, <2>2, <2>3, <2>6, <3>1
    <3> QED
      BY <2>4, <3>2, <3>3, <3>4, <3>5
  <2>7. x \in {"args", "ready"}
    OBVIOUS
  <2> QED
    BY <2>5, <2>6, <2>7
<1>4. CASE StoreWild
  BY <1>4 DEF StoreWild, Wild
<1> QED
  BY <1>1, <1>2, <1>3, <1>4 DEF Outside

\* Whether the lock excludes never changes.
LEMMA SameLock == [Next]_vars => UNCHANGED exclusive
<1> SUFFICES ASSUME [Next]_vars PROVE UNCHANGED exclusive
  OBVIOUS
<1> USE DEF lockVars
<1>1. ASSUME NEW c \in Contexts,
             Enter(c) \/ LockStep(c) \/ OwnStep(c) \/ Wake(c)
      PROVE  UNCHANGED exclusive
  BY <1>1 DEF Enter, LockStep, OwnStep, Wake, LockAdd, LockRemove, Recycle,
     Acquire, InsertNode, InsertNodeWild, Exit, TestAbort, AddRoot, AddFree,
     AddFreeWild, StopWaiting, FindReady, FindFree, Remove, RemoveWild,
     Execute, ExecuteWild, Reset, Wild, Release
<1>2. CASE Outside
  BY <1>2 DEF Outside, RaiseAbort, PickFree, Acquire, StoreInit, StoreWild,
     Wild, Release
<1>3. CASE UNCHANGED vars
  BY <1>3 DEF vars
<1> QED
  BY <1>1, <1>2, <1>3 DEF Next

\* PoolInv is inductive with the types.
LEMMA PoolStep == TypeOK /\ PoolInv /\ [Next]_vars => PoolInv'
<1> SUFFICES ASSUME TypeOK, PoolInv, [Next]_vars, exclusive PROVE PoolParts'
  BY SameLock DEF PoolInv, PoolParts
<1>1. PoolParts
  BY DEF PoolInv, PoolParts
<1>2. CASE UNCHANGED vars
  BY <1>1, <1>2 DEF vars, lockVars, listVars, taskVars, extVars, PoolParts,
     LockHeld, GivenIsReady, ArgsAreGiven, FreeIsUngiven, UngivenIsFree
<1> QED
  BY <1>1, <1>2, ContextKeeps, OutsideKeeps DEF Next

\* Insertions, removals and initialisations that exclude each other keep the
\* free list, the flags and the functions in step (taskman.c:142-220).
THEOREM PoolInvHolds == Spec => []PoolInv
<1>1. Init => PoolInv
  BY DEF Init, NoInit, PoolInv, LockHeld, GivenIsReady, ArgsAreGiven,
     FreeIsUngiven, UngivenIsFree, Waiting, Jobs
<1> QED
  BY <1>1, PoolStep, TaskTypes, PTL DEF Spec

\* A context that goes for another task or leaves has executed all it was
\* given.
THEOREM NothingIsLost == Spec => []NothingGivenIsLost
<1>1. PoolInv => NothingGivenIsLost
  BY DEF PoolInv, GivenIsReady, NothingGivenIsLost, Waiting
<1> QED
  BY <1>1, PoolInvHolds, PTL

\* While nobody holds the lock, the free list holds exactly the tasks that
\* wait and were given nothing, dirty frames excepted.
THEOREM FreeListIsExact == Spec => []FreeListExact
<1>1. TypeOK /\ PoolInv => FreeListExact
  <2> SUFFICES ASSUME TypeOK, PoolInv, exclusive, lock = None,
                      NEW c \in Contexts \ dirty
               PROVE  c \in m_free_tasks <=>
                        /\ pc[c] \in Waiting
                        /\ given[c] = None
    BY DEF FreeListExact, Waiting
  <2>1. init.task = None /\ pc[c] \notin {"adding", "checking", "removing"}
    BY DEF PoolInv, LockHeld
  <2> QED
    BY <2>1 DEF PoolInv, FreeIsUngiven, UngivenIsFree, Waiting
<1> QED
  BY <1>1, PoolInvHolds, TaskTypes, PTL

-----------------------------------------------------------------------------
(* What is executed, and where the roots are *)

\* What a context was given is what it would execute.
GivenIsStored == \A c \in Contexts : given[c] # None => t_args[c] = given[c]

\* A root is in the frame of a context that is marked and executes it, or has.
RootsAreMarked ==
  \A c \in Contexts :
    t_args[c] \in Roots =>
      t_root[c] /\ pc[c] \in {"execution", "mgr_cleanup_task", "task_reset"}

\* r is in the frame of c and not recycled.
Has(c, r) == t_args[c] = r /\ pc[c] # "task_reset"

\* A root is out while one context has it.
RootsAreHad ==
  \A r \in Roots :
    /\ r \in out <=> \E c \in Contexts : Has(c, r)
    /\ \A c, d \in Contexts : Has(c, r) /\ Has(d, r) => c = d

\* Who leaves was asked to.
LeaversAreAsked ==
  \A c \in Contexts :
    /\ pc[c] = "exec_exit" => c \in abort
    /\ pc[c] \in {"mgr_remove_free_task", "checking", "removing"}
         /\ delay[c] = "never" => c \in abort

FrameParts == GivenIsStored /\ RootsAreMarked /\ RootsAreHad /\ LeaversAreAsked

FrameInv == exclusive => FrameParts

\* Steps that leave frames and the roots handed out alone keep FrameParts.
LEMMA QuietFrames ==
  ASSUME TypeOK, FrameParts, UNCHANGED <<t_args, t_root, given, out>>,
         abort \subseteq abort', LeaversAreAsked',
         \A c \in Contexts : t_args[c] \in Roots => pc'[c] = pc[c]
  PROVE  FrameParts'
<1>1. GivenIsStored' /\ RootsAreMarked'
  BY DEF FrameParts, GivenIsStored, RootsAreMarked
<1>2. \A c \in Contexts, r \in Roots : Has(c, r)' = Has(c, r)
  BY DEF Has
<1>3. RootsAreHad'
  BY <1>2 DEF FrameParts, RootsAreHad
<1> QED
  BY <1>1, <1>3 DEF FrameParts

\* A context's own steps keep FrameParts under a lock.
LEMMA ContextFrames ==
  ASSUME TypeOK, PoolParts, FrameParts, NEW c \in Contexts,
         Enter(c) \/ LockStep(c) \/ OwnStep(c) \/ Wake(c)
  PROVE  FrameParts'
<1> USE DEF At, Goto, lockVars, listVars, taskVars, extVars
<1>t. /\ pc \in [Contexts -> Labels] /\ abort \subseteq Contexts
      /\ t_root \in [Contexts -> BOOLEAN]
      /\ t_args \in [Contexts -> Roots \cup Subs \cup {Garbage, None}]
      /\ delay \in [Contexts -> {"now", "later", "never"}]
      /\ given \in [Contexts -> Roots \cup Subs \cup {None}]
      /\ out \subseteq Roots
  BY DEF TypeOK
<1>m. t_args[c] \in Roots =>
        t_root[c] /\ pc[c] \in {"execution", "mgr_cleanup_task", "task_reset"}
  BY DEF FrameParts, RootsAreMarked
<1>a. LeaversAreAsked
  BY DEF FrameParts
<1>1. CASE Enter(c)
  <2>1. /\ pc[c] = "taskman_exec" /\ pc' = [pc EXCEPT ![c] = "mgr_register_task"]
        /\ \A d \in Contexts : d # c => t_root'[d] = t_root[d]
        /\ UNCHANGED <<t_args, given, out, abort, delay>>
    BY <1>1, <1>t DEF Enter
  <2>2. t_args[c] \notin Roots
    BY <1>m, <2>1
  <2>3. GivenIsStored' /\ RootsAreMarked' /\ LeaversAreAsked'
    BY <1>t, <2>1, <2>2
    DEF FrameParts, GivenIsStored, RootsAreMarked, LeaversAreAsked
  <2>4. \A d \in Contexts, r \in Roots : Has(d, r)' = Has(d, r)
    BY <1>t, <2>1, <2>2 DEF Has
  <2>5. RootsAreHad'
    BY <2>1, <2>4 DEF FrameParts, RootsAreHad
  <2> QED
    BY <2>3, <2>5 DEF FrameParts
<1>2. CASE \/ LockAdd(c) \/ LockRemove(c) \/ InsertNode(c) \/ Exit(c)
           \/ TestAbort(c) \/ AddFree(c) \/ StopWaiting(c) \/ FindReady(c)
           \/ FindFree(c) \/ Remove(c) \/ Wake(c)
  <2>1. /\ UNCHANGED <<t_args, t_root, given, out, abort>>
        /\ \A d \in Contexts : d # c => pc'[d] = pc[d] /\ delay'[d] = delay[d]
        /\ pc[c] \notin {"execution", "mgr_cleanup_task", "task_reset"}
    BY <1>2, <1>t
    DEF LockAdd, LockRemove, InsertNode, Exit, TestAbort, AddFree, StopWaiting,
        FindReady, FindFree, Remove, Wake, ForgetDelay
  <2>2. /\ pc'[c] = "exec_exit" => c \in abort
        /\ pc'[c] \in {"mgr_remove_free_task", "checking", "removing"}
             /\ delay'[c] = "never" => c \in abort
    BY <1>2, <1>t, <1>a
    DEF LockAdd, LockRemove, InsertNode, Exit, TestAbort, AddFree, StopWaiting,
        FindReady, FindFree, Remove, Wake, ForgetDelay, WaitEnds,
        LeaversAreAsked
  <2>3. LeaversAreAsked'
    BY <1>a, <2>1, <2>2 DEF LeaversAreAsked
  <2>4. \A d \in Contexts : t_args[d] \in Roots => pc'[d] = pc[d]
    BY <1>m, <2>1
  <2> QED
    BY <2>1, <2>3, <2>4, QuietFrames
<1>3. CASE InsertNodeWild(c) \/ AddFreeWild(c) \/ RemoveWild(c)
             \/ ExecuteWild(c)
  <2>1. UNCHANGED <<pc, delay, t_args, t_root, given, out, abort>>
    BY <1>3 DEF InsertNodeWild, AddFreeWild, RemoveWild, ExecuteWild, Wild
  <2> QED
    BY <1>a, <2>1, QuietFrames DEF LeaversAreAsked
<1>4. CASE AddRoot(c)
  <2>1. PICK r \in Roots \ out :
          /\ out' = out \cup {r}
          /\ t_args' = [t_args EXCEPT ![c] = r]
          /\ given' = [given EXCEPT ![c] = r]
    BY <1>4 DEF AddRoot
  <2>2. /\ pc[c] = "adding" /\ pc' = [pc EXCEPT ![c] = "execution"]
        /\ t_root' = [t_root EXCEPT ![c] = TRUE]
        /\ delay' = [delay EXCEPT ![c] = "now"]
        /\ UNCHANGED abort
    BY <1>4 DEF AddRoot, MarkRoot
  <2>3. GivenIsStored' /\ RootsAreMarked' /\ LeaversAreAsked'
    BY <1>t, <2>1, <2>2
    DEF FrameParts, GivenIsStored, RootsAreMarked, LeaversAreAsked
  <2>4. \A q \in Roots : ~Has(c, q)
    BY <1>m, <2>2 DEF Has
  <2>5. \A d \in Contexts, q \in Roots :
          Has(d, q)' <=> Has(d, q) \/ (d = c /\ q = r)
    BY <1>t, <2>1, <2>2, <2>4 DEF Has
  <2>6. \A d \in Contexts : ~Has(d, r)
    BY <2>1 DEF FrameParts, RootsAreHad
  <2>7. RootsAreHad'
    <3> SUFFICES ASSUME NEW q \in Roots
                 PROVE  /\ q \in out' <=> \E d \in Contexts : Has(d, q)'
                        /\ \A d, e \in Contexts :
                             Has(d, q)' /\ Has(e, q)' => d = e
      BY DEF RootsAreHad
    <3> QED
      BY <2>1, <2>5, <2>6 DEF FrameParts, RootsAreHad
  <2> QED
    BY <2>3, <2>7 DEF FrameParts
<1>5. CASE Execute(c)
  <2>1. /\ pc[c] = "execution" /\ pc' = [pc EXCEPT ![c] = "mgr_cleanup_task"]
        /\ given' = [given EXCEPT ![c] = None]
        /\ UNCHANGED <<t_args, t_root, delay, out, abort>>
    BY <1>5 DEF Execute
  <2>2. GivenIsStored' /\ RootsAreMarked' /\ LeaversAreAsked'
    BY <1>t, <2>1
    DEF FrameParts, GivenIsStored, RootsAreMarked, LeaversAreAsked
  <2>3. \A d \in Contexts, r \in Roots : Has(d, r)' = Has(d, r)
    BY <1>t, <2>1 DEF Has
  <2>4. RootsAreHad'
    BY <2>1, <2>3 DEF FrameParts, RootsAreHad
  <2> QED
    BY <2>2, <2>4 DEF FrameParts
<1>6. CASE Recycle(c)
  <2>1. /\ pc[c] = "mgr_cleanup_task" /\ pc' = [pc EXCEPT ![c] = "task_reset"]
        /\ out' = out \ {t_args[c]}
        /\ UNCHANGED <<t_args, t_root, given, delay, abort>>
    BY <1>6 DEF Recycle
  <2>2. GivenIsStored' /\ RootsAreMarked' /\ LeaversAreAsked'
    BY <1>t, <2>1
    DEF FrameParts, GivenIsStored, RootsAreMarked, LeaversAreAsked
  <2>3. \A d \in Contexts, q \in Roots : Has(d, q)' <=> Has(d, q) /\ d # c
    BY <1>t, <2>1 DEF Has
  <2>4. \A q \in Roots : Has(c, q) <=> q = t_args[c]
    BY <2>1 DEF Has
  <2>5. RootsAreHad'
    <3> SUFFICES ASSUME NEW q \in Roots
                 PROVE  /\ q \in out' <=> \E d \in Contexts : Has(d, q)'
                        /\ \A d, e \in Contexts :
                             Has(d, q)' /\ Has(e, q)' => d = e
      BY DEF RootsAreHad
    <3> QED
      BY <2>1, <2>3, <2>4 DEF FrameParts, RootsAreHad
  <2> QED
    BY <2>2, <2>5 DEF FrameParts
<1>7. CASE Reset(c)
  <2>1. /\ pc[c] \in {"mgr_cleanup_task", "task_reset"}
        /\ pc[c] = "mgr_cleanup_task" => ~t_root[c]
        /\ pc' = [pc EXCEPT ![c] = "task_insertion"]
        /\ t_args' = [t_args EXCEPT ![c] = None]
        /\ UNCHANGED <<t_root, given, delay, out, abort>>
    BY <1>7 DEF Reset
  <2>2. given[c] = None
    BY <2>1 DEF PoolParts, GivenIsReady, Waiting
  <2>3. GivenIsStored' /\ RootsAreMarked' /\ LeaversAreAsked'
    BY <1>t, <2>1, <2>2, DistinctValues
    DEF FrameParts, GivenIsStored, RootsAreMarked, LeaversAreAsked
  <2>4. \A d \in Contexts, r \in Roots : Has(d, r)' = Has(d, r)
    BY <1>t, <1>m, <2>1, DistinctValues DEF Has
  <2>5. RootsAreHad'
    BY <2>1, <2>4 DEF FrameParts, RootsAreHad
  <2> QED
    BY <2>3, <2>5 DEF FrameParts
<1> QED
  BY <1>1, <1>2, <1>3, <1>4, <1>5, <1>6, <1>7 DEF LockStep, OwnStep

\* So do the steps from outside.
LEMMA OutsideFrames ==
  ASSUME TypeOK, PoolParts, FrameParts, Outside
  PROVE  FrameParts'
<1> USE DEF lockVars, listVars, taskVars, extVars
<1>a. LeaversAreAsked
  BY DEF FrameParts
<1>1. CASE \E c \in Contexts : RaiseAbort(c) \/ PickFree(c)
  <2>1. /\ UNCHANGED <<pc, delay, t_args, t_root, given, out>>
        /\ abort \subseteq abort'
    BY <1>1 DEF RaiseAbort, PickFree
  <2> QED
    BY <1>a, <2>1, QuietFrames DEF LeaversAreAsked
<1>2. CASE StoreWild
  <2>1. UNCHANGED <<pc, delay, t_args, t_root, given, out, abort>>
    BY <1>2 DEF StoreWild, Wild
  <2> QED
    BY <1>a, <2>1, QuietFrames DEF LeaversAreAsked
<1>3. CASE StoreInit
  <2> DEFINE d == init.task
  <2>1. /\ d \in Contexts /\ init.args \in Subs
        /\ UNCHANGED <<pc, delay, t_root, out, abort>>
    BY <1>3 DEF StoreInit, TypeOK, PoolParts, LockHeld
  <2>2. CASE UNCHANGED <<t_args, given>>
    BY <1>a, <2>1, <2>2, QuietFrames DEF LeaversAreAsked
  <2>3. CASE "args" \in init.todo /\ StoreArgs(d)
    <3>1. /\ t_args' = [t_args EXCEPT ![d] = init.args]
          /\ given' = [given EXCEPT ![d] = init.args]
      BY <2>3 DEF StoreArgs
    <3>2. given[d] = None /\ pc[d] \in Waiting \cup {"execution"}
      BY <2>1, <2>3 DEF PoolParts, FreeIsUngiven
    <3>3. t_args[d] \notin Roots
      BY <2>1, <3>2 DEF PoolParts, ArgsAreGiven, Jobs, Waiting
    <3>4. GivenIsStored' /\ RootsAreMarked' /\ LeaversAreAsked'
      BY <2>1, <3>1, DistinctValues
      DEF TypeOK, FrameParts, GivenIsStored, RootsAreMarked, LeaversAreAsked
    <3>5. \A e \in Contexts, r \in Roots : Has(e, r)' = Has(e, r)
      BY <2>1, <3>1, <3>3, DistinctValues DEF TypeOK, Has
    <3>6. RootsAreHad'
      BY <2>1, <3>5 DEF FrameParts, RootsAreHad
    <3> QED
      BY <3>4, <3>6 DEF FrameParts
  <2> QED
    BY <1>3, <2>2, <2>3 DEF StoreInit
<1> QED
  BY <1>1, <1>2, <1>3 DEF Outside

\* FrameInv is inductive with PoolInv.
LEMMA FrameStep ==
  TypeOK /\ PoolInv /\ FrameInv /\ [Next]_vars => FrameInv'
<1> SUFFICES ASSUME TypeOK, PoolInv, FrameInv, [Next]_vars, exclusive
             PROVE  FrameParts'
  BY SameLock DEF FrameInv
<1>1. PoolParts /\ FrameParts
  BY DEF PoolInv, PoolParts, FrameInv
<1>2. CASE UNCHANGED vars
  BY <1>1, <1>2, QuietFrames
  DEF vars, taskVars, extVars, FrameParts, LeaversAreAsked
<1> QED
  BY <1>1, <1>2, ContextFrames, OutsideFrames DEF Next

LEMMA FramesHold == Spec => []FrameInv
<1>1. Init => FrameInv
  BY DEF Init, FrameInv, FrameParts, GivenIsStored, RootsAreMarked,
     RootsAreHad, Has, LeaversAreAsked
<1> QED
  BY <1>1, FrameStep, TaskTypes, PoolInvHolds, PTL DEF Spec

\* A root handed out is with exactly one context, which will recycle it.
THEOREM RootsAreRecycledOnce == Spec => []RootsRecycledOnce
<1>1. TypeOK /\ PoolInv /\ FrameInv => RootsRecycledOnce
  <2> SUFFICES ASSUME TypeOK, FrameParts, NEW r \in Roots
               PROVE  r \in out <=>
                        Cardinality({c \in Contexts :
                          /\ pc[c] \in {"execution", "mgr_cleanup_task"}
                          /\ t_args[c] = r
                          /\ t_root[c]}) = 1
    BY DEF FrameInv, RootsRecycledOnce
  <2> DEFINE Havers == {c \in Contexts :
                          /\ pc[c] \in {"execution", "mgr_cleanup_task"}
                          /\ t_args[c] = r
                          /\ t_root[c]}
  <2>1. \A c \in Contexts : c \in Havers <=> Has(c, r)
    BY DEF FrameParts, RootsAreMarked, Has
  <2>2. CASE r \in out
    <3>1. PICK c \in Contexts : Has(c, r)
      BY <2>2 DEF FrameParts, RootsAreHad
    <3>2. Havers = {c}
      BY <2>1, <3>1 DEF FrameParts, RootsAreHad
    <3> QED
      BY <2>2, <3>2, FS_Singleton
  <2>3. CASE r \notin out
    <3>1. Havers = {}
      BY <2>1, <2>3 DEF FrameParts, RootsAreHad
    <3> QED
      BY <2>3, <3>1, FS_EmptySet
  <2> QED
    BY <2>2, <2>3
<1> QED
  BY <1>1, TaskTypes, PoolInvHolds, FramesHold, PTL

-----------------------------------------------------------------------------
(* The refinement of Pool *)

PoolKeeps(c) == PoolStatus(c)' = PoolStatus(c) /\ PoolJob(c)' = PoolJob(c)

PoolStatuses == [c \in Contexts |-> PoolStatus(c)]
PoolJobs == [c \in Contexts |-> PoolJob(c)]

\* The pool does not see a step that keeps what it sees.
LEMMA PoolStutters ==
  ASSUME UNCHANGED <<exclusive, abort>>, exclusive => UNCHANGED out,
         \A c \in Contexts : PoolKeeps(c)
  PROVE  UNCHANGED Promise!poolVars
BY DEF PoolKeeps, Promise!poolVars

\* It sees one context move when the others keep their place.
LEMMA PoolMoves ==
  ASSUME NEW c \in Contexts, UNCHANGED exclusive,
         \A d \in Contexts \ {c} :
           pc'[d] = pc[d] /\ given'[d] = given[d] /\ t_args'[d] = t_args[d]
  PROVE  /\ \A d \in Contexts \ {c} : PoolKeeps(d)
         /\ PoolStatuses' = [PoolStatuses EXCEPT ![c] = PoolStatus(c)']
         /\ PoolJobs' = [PoolJobs EXCEPT ![c] = PoolJob(c)']
<1>1. \A d \in Contexts \ {c} : PoolKeeps(d)
  BY DEF PoolKeeps, PoolStatus, PoolJob
<1> QED
  BY <1>1 DEF PoolKeeps, PoolStatuses, PoolJobs

\* A context's own steps are steps of the pool.
LEMMA ContextRefines ==
  ASSUME TypeOK, exclusive, UNCHANGED exclusive, PoolParts, FrameParts,
         NEW c \in Contexts,
         Enter(c) \/ LockStep(c) \/ OwnStep(c) \/ Wake(c)
  PROVE  [Promise!Next]_(Promise!poolVars)
<1> USE DEF At, Goto, lockVars, listVars, taskVars, extVars
<1>t. /\ pc \in [Contexts -> Labels]
      /\ t_args \in [Contexts -> Roots \cup Subs \cup {Garbage, None}]
      /\ given \in [Contexts -> Roots \cup Subs \cup {None}]
      /\ out \subseteq Roots
  BY DEF TypeOK
<1>g. given[c] # None =>
        /\ pc[c] \in {"waiting", "mgr_remove_free_task", "checking",
                      "execution"}
        /\ t_args[c] = given[c]
  BY DEF PoolParts, GivenIsReady, Waiting, FrameParts, GivenIsStored
<1>1. CASE \/ Enter(c) \/ LockAdd(c) \/ TestAbort(c)
           \/ StopWaiting(c) \/ LockRemove(c) \/ FindReady(c) \/ FindFree(c)
           \/ Wake(c)
  <2>1. UNCHANGED <<abort, out, given, t_args>>
    BY <1>1 DEF Enter, LockAdd, TestAbort, StopWaiting, LockRemove, FindReady,
       FindFree, Wake
  <2>2. \A d \in Contexts \ {c} : pc'[d] = pc[d]
    BY <1>1, <1>t DEF Enter, LockAdd, TestAbort, StopWaiting, LockRemove,
       FindReady, FindFree, Wake
  <2>3. PoolKeeps(c)
    BY <1>1, <1>t DEF Enter, LockAdd, TestAbort, StopWaiting, LockRemove,
       FindReady, FindFree, Wake, PoolKeeps, PoolStatus, PoolJob
  <2> QED
    BY <2>1, <2>2, <2>3, PoolMoves, PoolStutters
<1>2. CASE InsertNodeWild(c) \/ AddFreeWild(c) \/ RemoveWild(c)
             \/ ExecuteWild(c)
  <2>1. UNCHANGED <<pc, abort, out, given, t_args>>
    BY <1>2 DEF InsertNodeWild, AddFreeWild, RemoveWild, ExecuteWild, Wild
  <2> QED
    BY <2>1, PoolStutters DEF PoolKeeps, PoolStatus, PoolJob
<1>3. CASE InsertNode(c)
  <2>1. /\ UNCHANGED <<abort, out, given, t_args>>
        /\ pc[c] = "mgr_register_task"
        /\ pc' = [pc EXCEPT ![c] = "task_insertion"]
    BY <1>3 DEF InsertNode
  <2>2. /\ PoolStatus(c) = "away" /\ PoolStatus(c)' = "idle"
        /\ PoolJob(c)' = PoolJob(c)
    BY <1>t, <2>1 DEF PoolStatus, PoolJob
  <2>3. Promise!Enter(c)
    BY <1>t, <2>1, <2>2, PoolMoves
    DEF Promise!Enter, Promise!Becomes, PoolStatuses, PoolJobs
  <2> QED
    BY <2>3 DEF Promise!Next
<1>4. CASE Exit(c)
  <2>1. /\ UNCHANGED <<abort, out, given, t_args>>
        /\ pc[c] = "exec_exit" /\ pc' = [pc EXCEPT ![c] = "done"]
    BY <1>4 DEF Exit
  <2>2. /\ PoolStatus(c) = "idle" /\ PoolStatus(c)' = "gone"
        /\ PoolJob(c)' = PoolJob(c)
    BY <1>t, <2>1 DEF PoolStatus, PoolJob
  <2>3. c \in abort
    BY <2>1 DEF FrameParts, LeaversAreAsked
  <2>4. Promise!Leave(c)
    BY <1>t, <2>1, <2>2, <2>3, PoolMoves
    DEF Promise!Leave, Promise!Becomes, PoolStatuses, PoolJobs
  <2> QED
    BY <2>4 DEF Promise!Next
<1>5. CASE AddRoot(c)
  <2>1. PICK r \in Roots \ out :
          /\ out' = out \cup {r}
          /\ t_args' = [t_args EXCEPT ![c] = r]
          /\ given' = [given EXCEPT ![c] = r]
    BY <1>5 DEF AddRoot
  <2>2. /\ pc[c] = "adding" /\ pc' = [pc EXCEPT ![c] = "execution"]
        /\ UNCHANGED abort
    BY <1>5 DEF AddRoot
  <2>3. /\ PoolStatus(c) = "idle" /\ PoolStatus(c)' = "given"
        /\ PoolJob(c)' = r
    BY <1>t, <2>1, <2>2, DistinctValues DEF PoolStatus, PoolJob
  <2>4. Promise!GiveRoot(c, r)
    BY <1>t, <2>1, <2>2, <2>3, PoolMoves
    DEF Promise!GiveRoot, Promise!Becomes, PoolStatuses, PoolJobs
  <2> QED
    BY <2>4 DEF Promise!Next
<1>6. CASE AddFree(c)
  <2>1. /\ UNCHANGED <<abort, out, given, t_args>>
        /\ pc[c] = "adding" /\ pc' = [pc EXCEPT ![c] = "waiting"]
    BY <1>6 DEF AddFree
  <2>2. /\ PoolStatus(c) = "idle" /\ PoolStatus(c)' = "free"
        /\ PoolJob(c)' = PoolJob(c)
    BY <1>t, <1>g, <2>1 DEF PoolStatus, PoolJob
  <2>3. Promise!Offer(c)
    BY <1>t, <2>1, <2>2, PoolMoves
    DEF Promise!Offer, Promise!Becomes, PoolStatuses, PoolJobs
  <2> QED
    BY <2>3 DEF Promise!Next
<1>7. CASE Remove(c)
  <2>1. /\ UNCHANGED <<abort, out, given, t_args>>
        /\ pc[c] = "removing"
        /\ \/ pc' = [pc EXCEPT ![c] = "exec_exit"]
           \/ pc' = [pc EXCEPT ![c] = "task_insertion"]
    BY <1>7 DEF Remove
  <2>2. /\ PoolStatus(c) = "free" /\ PoolStatus(c)' = "idle"
        /\ PoolJob(c)' = PoolJob(c)
    BY <1>t, <1>g, <2>1 DEF PoolStatus, PoolJob
  <2>3. Promise!Withdraw(c)
    BY <1>t, <2>1, <2>2, PoolMoves
    DEF Promise!Withdraw, Promise!Becomes, PoolStatuses, PoolJobs
  <2> QED
    BY <2>3 DEF Promise!Next
<1>8. CASE Execute(c)
  <2>1. /\ pc[c] = "execution" /\ pc' = [pc EXCEPT ![c] = "mgr_cleanup_task"]
        /\ t_args[c] \in Jobs
        /\ given' = [given EXCEPT ![c] = None]
        /\ UNCHANGED <<abort, out, t_args>>
    BY <1>8 DEF Execute, Jobs
  <2>2. given[c] # None
    BY <2>1 DEF PoolParts, ArgsAreGiven
  <2>3. /\ PoolStatus(c) = "given" /\ PoolStatus(c)' = "spent"
        /\ PoolJob(c)' = PoolJob(c)
    BY <1>t, <1>g, <2>1, <2>2 DEF PoolStatus, PoolJob
  <2>4. Promise!Execute(c)
    BY <1>t, <2>1, <2>3, PoolMoves
    DEF Promise!Execute, Promise!Becomes, PoolStatuses, PoolJobs
  <2> QED
    BY <2>4 DEF Promise!Next
<1>9. CASE (Recycle(c) \/ Reset(c)) /\ pc[c] = "mgr_cleanup_task"
  <2>1. /\ pc' = [pc EXCEPT ![c] = "task_reset"]
             \/ pc' = [pc EXCEPT ![c] = "task_insertion"]
        /\ \A d \in Contexts \ {c} : t_args'[d] = t_args[d]
        /\ UNCHANGED <<abort, given>>
    BY <1>9, <1>t DEF Recycle, Reset
  <2>2. out' = out \ {t_args[c]}
    <3>1. CASE Recycle(c)
      BY <3>1 DEF Recycle
    <3>2. CASE Reset(c)
      <4>1. ~t_root[c] /\ UNCHANGED out
        BY <1>9, <3>2 DEF Reset
      <4>2. t_args[c] \notin Roots
        BY <4>1 DEF FrameParts, RootsAreMarked
      <4> QED
        BY <1>t, <4>1, <4>2
    <3> QED
      BY <1>9, <3>1, <3>2
  <2>3. /\ PoolStatus(c) = "spent" /\ PoolStatus(c)' = "idle"
        /\ PoolJob(c) = t_args[c] /\ PoolJob(c)' = None
    BY <1>t, <1>g, <1>9, <2>1 DEF PoolStatus, PoolJob
  <2>4. Promise!Recycle(c)
    BY <1>t, <2>1, <2>2, <2>3, PoolMoves
    DEF Promise!Recycle, Promise!Becomes, PoolStatuses, PoolJobs
  <2> QED
    BY <2>4 DEF Promise!Next
<1>10. CASE Reset(c) /\ pc[c] = "task_reset"
  <2>1. /\ pc' = [pc EXCEPT ![c] = "task_insertion"]
        /\ \A d \in Contexts \ {c} : t_args'[d] = t_args[d]
        /\ UNCHANGED <<abort, given, out>>
    BY <1>10, <1>t DEF Reset
  <2>2. PoolKeeps(c)
    BY <1>t, <1>10, <2>1 DEF PoolKeeps, PoolStatus, PoolJob
  <2> QED
    BY <1>t, <2>1, <2>2, PoolMoves, PoolStutters
<1>11. Recycle(c) \/ Reset(c) => pc[c] \in {"mgr_cleanup_task", "task_reset"}
  BY DEF Recycle, Reset
<1>12. Recycle(c) => pc[c] = "mgr_cleanup_task"
  BY DEF Recycle
<1> QED
  BY <1>1, <1>2, <1>3, <1>4, <1>5, <1>6, <1>7, <1>8, <1>9, <1>10, <1>11,
     <1>12 DEF LockStep, OwnStep

\* So are the steps from outside.
LEMMA OutsideRefines ==
  ASSUME TypeOK, exclusive, UNCHANGED exclusive, PoolParts, FrameParts, Outside
  PROVE  [Promise!Next]_(Promise!poolVars)
<1> USE DEF lockVars, listVars, taskVars, extVars
<1>1. ASSUME NEW c \in Contexts, RaiseAbort(c)
      PROVE  Promise!Ask(c)
  <2>1. /\ abort' = abort \cup {c}
        /\ UNCHANGED <<pc, given, t_args, out>>
    BY <1>1 DEF RaiseAbort
  <2> QED
    BY <2>1 DEF Promise!Ask, PoolStatus, PoolJob
<1>2. ASSUME NEW c \in Contexts, PickFree(c)
      PROVE  UNCHANGED Promise!poolVars
  <2>1. UNCHANGED <<pc, abort, out, given, t_args>>
    BY <1>2 DEF PickFree
  <2> QED
    BY <2>1, PoolStutters DEF PoolKeeps, PoolStatus, PoolJob
<1>3. CASE StoreWild
  <2>1. UNCHANGED <<pc, abort, out, given, t_args>>
    BY <1>3 DEF StoreWild, Wild
  <2> QED
    BY <2>1, PoolStutters DEF PoolKeeps, PoolStatus, PoolJob
<1>4. CASE StoreInit
  <2>1. PICK d \in Contexts, s \in Subs :
          /\ d = init.task /\ s = init.args
          /\ UNCHANGED <<pc, out, abort>>
    BY <1>4 DEF StoreInit, TypeOK, PoolParts, LockHeld
  <2>2. CASE UNCHANGED <<t_args, given>>
    BY <2>1, <2>2, PoolStutters DEF PoolKeeps, PoolStatus, PoolJob
  <2>3. CASE "args" \in init.todo /\ StoreArgs(d)
    <3>1. /\ t_args' = [t_args EXCEPT ![d] = s]
          /\ given' = [given EXCEPT ![d] = s]
      BY <2>1, <2>3 DEF StoreArgs
    <3>2. given[d] = None /\ pc[d] \in Waiting \cup {"execution"}
      BY <2>1, <2>3 DEF PoolParts, FreeIsUngiven
    <3>3. /\ PoolStatus(d) = "free" /\ PoolStatus(d)' = "given"
          /\ PoolJob(d)' = s
      <4>1. s # None /\ given'[d] = s
        BY <3>1, DistinctValues DEF TypeOK
      <4> QED
        BY <2>1, <3>2, <4>1 DEF Waiting, PoolStatus, PoolJob
    <3>4. \A e \in Contexts \ {d} :
            t_args'[e] = t_args[e] /\ given'[e] = given[e]
      BY <2>1, <3>1 DEF TypeOK
    <3>5. Promise!GiveSub(d, s)
      BY <2>1, <3>3, <3>4, PoolMoves
      DEF Promise!GiveSub, Promise!Becomes, PoolStatuses, PoolJobs
    <3> QED
      BY <2>1, <3>5 DEF Promise!Next
  <2> QED
    BY <1>4, <2>1, <2>2, <2>3 DEF StoreInit
<1> QED
  BY <1>1, <1>2, <1>3, <1>4 DEF Outside, Promise!Next

\* Nobody enters the pool of a manager whose lock excludes nobody.
LEMMA UnlockedRefines ==
  ASSUME ~exclusive, UNCHANGED exclusive, [Next]_vars
  PROVE  [Promise!Next]_(Promise!poolVars)
<1>1. \A c \in Contexts : PoolKeeps(c)
  BY DEF PoolKeeps, PoolStatus, PoolJob
<1>2. CASE UNCHANGED abort
  BY <1>1, <1>2, PoolStutters
<1>3. ASSUME NEW c \in Contexts, RaiseAbort(c)
      PROVE  Promise!Ask(c)
  BY <1>3 DEF RaiseAbort, Promise!Ask, PoolStatus, PoolJob
<1>4. ASSUME NEW c \in Contexts,
             Enter(c) \/ LockStep(c) \/ OwnStep(c) \/ Wake(c)
      PROVE  UNCHANGED abort
  BY <1>4 DEF Enter, LockStep, OwnStep, Wake, LockAdd, LockRemove, Recycle,
     InsertNode, InsertNodeWild, Exit, TestAbort, AddRoot, AddFree,
     AddFreeWild, StopWaiting, FindReady, FindFree, Remove, RemoveWild,
     Execute, ExecuteWild, Reset, Wild, extVars
<1>5. (\E c \in Contexts : PickFree(c)) \/ StoreInit \/ StoreWild
        => UNCHANGED abort
  BY DEF PickFree, StoreInit, StoreWild, Wild, extVars
<1>6. UNCHANGED vars => UNCHANGED abort
  BY DEF vars, extVars
<1> QED
  BY <1>2, <1>3, <1>4, <1>5, <1>6 DEF Next, Outside, Promise!Next

\* Whatever contexts do between locks, what they are given, execute, recycle
\* and leave with is what the comment of taskman_exec promises.
THEOREM PoolIsImplemented == Spec => PoolImplemented
<1>1. Init => Promise!Init
  BY DEF Init, Promise!Init, PoolStatus, PoolJob
<1>2. TypeOK /\ PoolInv /\ FrameInv /\ [Next]_vars
        => [Promise!Next]_(Promise!poolVars)
  <2> SUFFICES ASSUME TypeOK, PoolInv, FrameInv, [Next]_vars
               PROVE  [Promise!Next]_(Promise!poolVars)
    OBVIOUS
  <2>1. UNCHANGED exclusive
    BY SameLock
  <2>2. CASE ~exclusive
    BY <2>1, <2>2, UnlockedRefines
  <2>3. CASE exclusive
    <3>1. PoolParts /\ FrameParts
      BY <2>3 DEF PoolInv, PoolParts, FrameInv
    <3>2. CASE UNCHANGED vars
      <4>1. UNCHANGED <<pc, abort, out, given, t_args>>
        BY <3>2 DEF vars, taskVars, extVars
      <4> QED
        BY <2>1, <4>1, PoolStutters DEF PoolKeeps, PoolStatus, PoolJob
    <3> QED
      BY <2>1, <2>3, <3>1, <3>2, ContextRefines, OutsideRefines DEF Next
  <2> QED
    BY <2>2, <2>3
<1> QED
  BY <1>1, <1>2, TaskTypes, PoolInvHolds, FramesHold, PTL
  DEF Spec, PoolImplemented, Promise!Spec

-----------------------------------------------------------------------------
(* What goes wild *)

Cause ==
  \/ dirty # {}
  \/ \E c \in Contexts : pc[c] = "adding" /\ ~t_linked[c]
  \/ Stale # {}
  \/ \E c, d \in Contexts :
       c # d /\ pc[c] = "mgr_register_task" /\ pc[d] = "mgr_register_task"
  \/ init.todo = {"args"}

\* Under a lock, list operations do not overlap.
LEMMA LockedAlone ==
  ASSUME LockHeld, NEW c \in Contexts, pc[c] \in {"adding", "removing"}
  PROVE  ~Overlap(c)
<1>1. lock = c
  BY DEF LockHeld
<1>2. \A d \in Contexts \ {c} : pc[d] \notin {"adding", "removing"}
  BY <1>1 DEF LockHeld
<1>3. init.task = None
  BY <1>1, DistinctValues DEF LockHeld
<1> QED
  BY <1>2, <1>3 DEF Overlap, Linking

\* A context that executes nothing it was given runs because of garbage, or
\* saw that it was ready before it could see what to execute.
LEMMA UngivenHasCause ==
  ASSUME TypeOK, PoolParts, FrameParts, NEW c \in Contexts,
         pc[c] = "execution", t_args[c] \notin Jobs
  PROVE  Cause
<1>1. given[c] = None
  BY DEF FrameParts, GivenIsStored, TypeOK, Jobs
<1>2. SUFFICES ASSUME c \notin dirty PROVE init.todo = {"args"}
  BY DEF Cause
<1>3. init.task = c /\ "args" \in init.todo
  BY <1>1, <1>2 DEF PoolParts, UngivenIsFree
<1>4. "ready" \notin init.todo
  BY <1>2, <1>3 DEF PoolParts, UngivenIsFree, Waiting
<1>5. init.todo \subseteq {"args", "ready"}
  BY DEF TypeOK
<1> QED
  BY <1>3, <1>4, <1>5

\* Whoever initialises a task whose frame is gone took it for free because of
\* garbage.
LEMMA GoneHasCause ==
  ASSUME TypeOK, PoolParts, init.task # None, pc[init.task] = "done"
  PROVE  Cause
<1>1. init.task \in Contexts /\ init.todo \subseteq {"args", "ready"}
  BY DEF TypeOK
<1>2. "args" \notin init.todo
  BY <1>1 DEF PoolParts, FreeIsUngiven, Waiting
<1>3. "ready" \in init.todo
  BY <1>1, <1>2 DEF PoolParts, LockHeld
<1>4. init.task \in dirty
  BY <1>1, <1>3 DEF PoolParts, UngivenIsFree, Waiting
<1> QED
  BY <1>4 DEF Cause

LEMMA WildStep ==
  TypeOK /\ PoolInv /\ FrameInv /\ WildHasCause /\ [Next]_vars
    => WildHasCause'
<1> SUFFICES ASSUME TypeOK, PoolInv, FrameInv, WildHasCause, [Next]_vars,
                    exclusive', fault' = "wild"
             PROVE  Cause'
  BY DEF WildHasCause, Cause, Stale
<1>1. exclusive
  BY SameLock
<1>2. PoolParts /\ FrameParts
  BY <1>1 DEF PoolInv, FrameInv, PoolParts
<1>3. ASSUME Cause, UNCHANGED <<dirty, pc, t_linked, m_tree, init>>
      PROVE  Cause'
  BY <1>3 DEF Cause, Stale
<1>4. CASE UNCHANGED vars
  <2>1. Cause
    BY <1>1, <1>4 DEF vars, WildHasCause, Cause
  <2> QED
    BY <1>3, <1>4, <2>1 DEF vars, listVars, extVars
<1>5. CASE Next
  <2>1. /\ UNCHANGED <<dirty, pc, t_linked, m_tree, init>>
        /\ \/ \E c \in Contexts : \/ InsertNodeWild(c) \/ AddFreeWild(c)
                                  \/ RemoveWild(c) \/ ExecuteWild(c)
           \/ StoreWild
    BY <1>5 DEF Next, Enter, LockStep, OwnStep, Wake, Outside, LockAdd,
       LockRemove, Recycle, InsertNode, InsertNodeWild, Exit, TestAbort,
       AddRoot, AddFree, AddFreeWild, StopWaiting, FindReady, FindFree, Remove,
       RemoveWild, Execute, ExecuteWild, Reset, RaiseAbort, PickFree,
       StoreInit, StoreWild, Wild, At, listVars, extVars
  <2>2. ASSUME NEW c \in Contexts, InsertNodeWild(c) PROVE Cause
    BY <2>2 DEF InsertNodeWild, At, Cause
  <2>3. ASSUME NEW c \in Contexts, AddFreeWild(c) PROVE Cause
    BY <1>2, <2>3, LockedAlone DEF AddFreeWild, At, Cause, PoolParts
  <2>4. ASSUME NEW c \in Contexts, RemoveWild(c) PROVE Cause
    BY <1>2, <2>4, LockedAlone DEF RemoveWild, At, PoolParts
  <2>5. ASSUME NEW c \in Contexts, ExecuteWild(c) PROVE Cause
    BY <1>2, <2>5, UngivenHasCause DEF ExecuteWild, At, Jobs
  <2>6. ASSUME StoreWild PROVE Cause
    BY <1>2, <2>6, GoneHasCause DEF StoreWild
  <2> QED
    BY <1>3, <2>1, <2>2, <2>3, <2>4, <2>5, <2>6
<1> QED
  BY <1>4, <1>5

\* Under a lock, the code works on memory that is no object only for one of
\* the five causes named: overlapping list operations are none of them.
THEOREM WildHasACause == Spec => []WildHasCause
<1>1. Init => WildHasCause
  BY DEF Init, WildHasCause
<1> QED
  BY <1>1, WildStep, TaskTypes, PoolInvHolds, FramesHold, PTL DEF Spec
=============================================================================
