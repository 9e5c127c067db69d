------------------------- MODULE KernelGraphProofs -------------------------
(***************************************************************************)
(* The object graph of the scheduler, for every number of tasks,           *)
(* primitives and processes: who is registered where, who overrides whom,  *)
(* who sleeps on what, and how far updates have climbed.                   *)
(***************************************************************************)
EXTENDS KernelProofs

USE ConstantsOK

-----------------------------------------------------------------------------
(* Update propagation *)

\* Flagging the tasks of T: what it does to each task.
LEMMA MarkUpdatedDoes ==
  ASSUME NEW status \in [Tasks -> Statuses], NEW T, NEW u \in Tasks
  PROVE  /\ HasUpdated(MarkUpdated(status, T)[u])
              <=> u \in T \/ HasUpdated(status[u])
         /\ status[u] # UNREGISTERED =>
              /\ MarkUpdated(status, T)[u] = ACTIVE <=> status[u] = ACTIVE
              /\ MarkUpdated(status, T)[u] # UNREGISTERED
         /\ u \notin T => MarkUpdated(status, T)[u] = status[u]
BY DEF MarkUpdated, Statuses, HasUpdated, STASK_STATUS_UPDATED, ACTIVE,
   UNREGISTERED

\* A primitive in use that is flagged, and a task in use that carries the
\* flag's bit, have flagged the primitive above them.
Climbing(status, flagged) ==
  /\ \A q \in flagged \cap LivePrims :
       p_overridden[q] # None /\ t_stopper[p_overridden[q]] # None
         => t_stopper[p_overridden[q]] \in flagged
  /\ \A u \in LiveTasks :
       HasUpdated(status[u]) /\ t_stopper[u] # None
         => t_stopper[u] \in flagged

\* The tasks that primitives in use override are in use.
OverriddenLive ==
  \A q \in LivePrims : p_overridden[q] # None => p_overridden[q] \in LiveTasks

\* A step of the propagation's loop from Q leads to Q or to a flag.
Closed(Q, status, flagged) ==
  \A q \in Q, r \in Prims :
    Climbs(q, r, status, flagged) => r \in flagged \cup Q

\* The propagation from p flags p, and stops only at flags or at the top.
LEMMA PropagationClosed ==
  ASSUME NEW p \in Prims, NEW status, NEW flagged,
         NEW Q, Q = PrimPropagates(p, status, flagged)
  PROVE  /\ p \in flagged \cup Q
         /\ Closed(Q, status, flagged)
<1> DEFINE Above(S) == /\ p \in S
                       /\ \A o \in S, r \in Prims :
                            Climbs(o, r, status, flagged) => r \in S
<1>1. Q = {q \in Prims \ flagged : \A S \in SUBSET Prims : Above(S) => q \in S}
  BY DEF PrimPropagates
<1>2. p \in flagged \cup Q
  BY <1>1
<1>3. ASSUME NEW q \in Q, NEW r \in Prims, Climbs(q, r, status, flagged)
      PROVE  r \in flagged \cup Q
  <2>1. ASSUME NEW S \in SUBSET Prims, Above(S) PROVE r \in S
    BY <1>1, <1>3, <2>1
  <2> HIDE DEF Above
  <2> QED
    BY <1>1, <2>1
<1> QED
  BY <1>2, <1>3 DEF Closed

\* Flagging a closed set of primitives, the tasks they override and other
\* tasks X that sleep on flagged primitives, leaves updates climbing.
LEMMA ClosedClimbs ==
  ASSUME t_stopper \in [Tasks -> Prims \cup {None}],
         p_overridden \in [Prims -> Tasks \cup {None}],
         OverriddenLive,
         NEW status \in [Tasks -> Statuses], NEW flagged \in SUBSET Prims,
         Climbing(status, flagged),
         NEW Q \in SUBSET Prims, Q \cap flagged = {},
         Closed(Q, status, flagged),
         NEW X,
         \A u \in X \cap LiveTasks :
           t_stopper[u] # None => t_stopper[u] \in flagged \cup Q
  PROVE  Climbing(MarkUpdated(status, X \cup Overridden(Q)), flagged \cup Q)
<1> DEFINE marked == MarkUpdated(status, X \cup Overridden(Q))
<1>1. ASSUME NEW q \in Q, p_overridden[q] \in Tasks,
             t_stopper[p_overridden[q]] # None,
             ~HasUpdated(status[p_overridden[q]])
      PROVE  t_stopper[p_overridden[q]] \in flagged \cup Q
  BY <1>1 DEF Closed, Climbs
<1>2. ASSUME NEW q \in (flagged \cup Q) \cap LivePrims, p_overridden[q] # None,
             t_stopper[p_overridden[q]] # None
      PROVE  t_stopper[p_overridden[q]] \in flagged \cup Q
  <2>1. CASE q \in flagged
    BY <1>2, <2>1 DEF Climbing
  <2>2. CASE q \in Q
    <3>1. p_overridden[q] \in LiveTasks
      BY <1>2 DEF OverriddenLive
    <3> QED
      BY <1>1, <1>2, <2>2, <3>1 DEF Climbing, LiveTasks
  <2> QED
    BY <2>1, <2>2
<1>3. ASSUME NEW u \in LiveTasks, HasUpdated(marked[u]), t_stopper[u] # None
      PROVE  t_stopper[u] \in flagged \cup Q
  <2>1. u \in Tasks
    BY DEF LiveTasks
  <2>2. u \in X \cup Overridden(Q) \/ HasUpdated(status[u])
    BY <1>3, <2>1, MarkUpdatedDoes
  <2>3. CASE HasUpdated(status[u])
    BY <1>3, <2>3 DEF Climbing
  <2>4. CASE u \in Overridden(Q) /\ ~HasUpdated(status[u])
    BY <1>1, <1>3, <2>1, <2>4 DEF Overridden
  <2>5. CASE u \in X
    BY <1>3, <2>5
  <2> QED
    BY <2>2, <2>3, <2>4, <2>5
<1> QED
  BY <1>2, <1>3 DEF Climbing

\* While nobody's stopper outlives its sleep, FlagsClimb is Climbing.
LEMMA FlagsAreClimbing ==
  ASSUME TypeOK, Sleeping
  PROVE  FlagsClimb <=> Climbing(t_status, p_updated)
<1>1. ASSUME NEW u \in LiveTasks
      PROVE  HasUpdated(t_status[u]) /\ t_stopper[u] # None
               <=> t_status[u] = STOPPED + STASK_STATUS_UPDATED
  <2>1. t_status[u] \in 0 .. 3
    BY DEF TypeOK, LiveTasks, Statuses
  <2>2. t_stopper[u] # None <=> t_status[u] # 2
    BY DEF Sleeping, ACTIVE
  <2> QED
    BY <2>1, <2>2 DEF HasUpdated, STASK_STATUS_UPDATED, STOPPED
<1> QED
  BY <1>1 DEF FlagsClimb, Climbing

\* The same of the state a call leaves.
LEMMA ClimbingGivesFlags ==
  ASSUME TypeOK', Sleeping',
         \A q \in p_updated' \cap LivePrims' :
           p_overridden'[q] # None /\ t_stopper'[p_overridden'[q]] # None
             => t_stopper'[p_overridden'[q]] \in p_updated',
         \A u \in LiveTasks' :
           HasUpdated(t_status'[u]) /\ t_stopper'[u] # None
             => t_stopper'[u] \in p_updated'
  PROVE  FlagsClimb'
<1>1. ASSUME NEW u \in LiveTasks',
             t_status'[u] = STOPPED + STASK_STATUS_UPDATED
      PROVE  HasUpdated(t_status'[u]) /\ t_stopper'[u] # None
  BY <1>1 DEF Sleeping, HasUpdated, STASK_STATUS_UPDATED, ACTIVE, STOPPED
<1> QED
  BY <1>1 DEF FlagsClimb

-----------------------------------------------------------------------------
(* Overrides *)

\* The two sides of an override.
OverridesAgree ==
  /\ \A q \in Prims, u \in Tasks : q \in t_overriders[u] <=> p_overridden[q] = u
  /\ \A u \in LiveTasks : t_nb_overrides[u] = Cardinality(t_overriders[u])

\* A task's overriders are finitely many.
LEMMA PrimsFinite == IsFiniteSet(Prims)
BY FS_Union DEF Prims

\* Adding a primitive to a finite set, or removing one, counts.
LEMMA PrimCount ==
  ASSUME NEW X \in SUBSET Prims, NEW p
  PROVE  /\ Cardinality(X) \in Nat
         /\ p \notin X => Cardinality(X \cup {p}) = Cardinality(X) + 1
         /\ p \in X => Cardinality(X \ {p}) = Cardinality(X) - 1
<1>1. IsFiniteSet(X)
  BY PrimsFinite, FS_Subset
<1> QED
  BY <1>1, FS_CardinalityType, FS_AddElement, FS_RemoveElement

\* _prim_un_override and primitive_override_task keep both sides, and count.
LEMMA OverrideAgrees ==
  ASSUME TypeOK, OverridesAgree, NEW p \in Prims, NEW t \in Tasks \cup {None},
         NEW status, NEW flagged, Override(p, t, status, flagged)
  PROVE  /\ \A q \in Prims, u \in Tasks :
              q \in t_overriders'[u] <=> p_overridden'[q] = u
         /\ \A u \in LiveTasks :
              t_nb_overrides'[u] = Cardinality(t_overriders'[u])
         /\ \A q \in Prims \ {p} : p_overridden'[q] = p_overridden[q]
         /\ p_overridden'[p] = t
<1> DEFINE old == p_overridden[p]
           Delta(u) == (IF u = t THEN 1 ELSE 0) - (IF u = old THEN 1 ELSE 0)
<1>1. /\ p_overridden' = [p_overridden EXCEPT ![p] = t]
      /\ t_overriders' = [u \in Tasks |->
            IF u = t THEN t_overriders[u] \cup {p}
            ELSE IF u = old THEN t_overriders[u] \ {p} ELSE t_overriders[u]]
      /\ t_nb_overrides' = [u \in Tasks |-> t_nb_overrides[u] + Delta(u)]
  BY DEF Override
<1>2. p_overridden \in [Prims -> Tasks \cup {None}]
  BY DEF TypeOK
<1>3. \A q \in Prims, u \in Tasks :
        q \in t_overriders'[u] <=> p_overridden'[q] = u
  BY <1>1, <1>2 DEF OverridesAgree
<1>4. ASSUME NEW u \in LiveTasks
      PROVE  t_nb_overrides'[u] = Cardinality(t_overriders'[u])
  <2>1. /\ u \in Tasks /\ t_overriders[u] \in SUBSET Prims
        /\ t_nb_overrides[u] = Cardinality(t_overriders[u])
        /\ p \in t_overriders[u] <=> old = u
    BY DEF TypeOK, LiveTasks, OverridesAgree
  <2>2. t_nb_overrides'[u] = t_nb_overrides[u] + Delta(u)
    BY <1>1, <2>1
  <2>3. /\ Cardinality(t_overriders[u]) \in Nat
        /\ p \notin t_overriders[u] =>
             Cardinality(t_overriders[u] \cup {p})
               = Cardinality(t_overriders[u]) + 1
        /\ p \in t_overriders[u] =>
             Cardinality(t_overriders[u] \ {p})
               = Cardinality(t_overriders[u]) - 1
    BY <2>1, PrimCount
  <2>4. CASE u = t /\ u = old
    <3>1. t_overriders'[u] = t_overriders[u]
      BY <1>1, <2>1, <2>4
    <3> QED
      BY <2>1, <2>2, <2>3, <2>4, <3>1
  <2>5. CASE u = t /\ u # old
    <3>1. t_overriders'[u] = t_overriders[u] \cup {p}
      BY <1>1, <2>1, <2>5
    <3> QED
      BY <2>1, <2>2, <2>3, <2>5, <3>1
  <2>6. CASE u # t /\ u = old
    <3>1. t_overriders'[u] = t_overriders[u] \ {p}
      BY <1>1, <2>1, <2>6
    <3> QED
      BY <2>1, <2>2, <2>3, <2>6, <3>1
  <2>7. CASE u # t /\ u # old
    <3>1. t_overriders'[u] = t_overriders[u]
      BY <1>1, <2>1, <2>7
    <3> QED
      BY <2>1, <2>2, <2>3, <2>7, <3>1
  <2> QED
    BY <2>4, <2>5, <2>6, <2>7
<1>5. /\ \A q \in Prims \ {p} : p_overridden'[q] = p_overridden[q]
      /\ p_overridden'[p] = t
  BY <1>1, <1>2
<1> HIDE DEF old, Delta
<1> QED
  BY <1>3, <1>4, <1>5

\* The end of an override propagates from the task it leaves: updates still
\* climb, above a task that nothing stopped or that nothing overrides yet.
LEMMA OverrideClimbs ==
  ASSUME TypeOK, OverriddenLive, NEW p \in LivePrims,
         NEW t \in Tasks \cup {None}, t # None => t_stopper[t] = None,
         NEW status \in [Tasks -> Statuses], NEW flagged \in SUBSET Prims,
         Climbing(status, flagged), Override(p, t, status, flagged)
  PROVE  /\ \A q \in p_updated' \cap LivePrims :
              p_overridden'[q] # None /\ t_stopper[p_overridden'[q]] # None
                => t_stopper[p_overridden'[q]] \in p_updated'
         /\ \A u \in LiveTasks :
              HasUpdated(t_status'[u]) /\ t_stopper[u] # None
                => t_stopper[u] \in p_updated'
<1>1. PICK old, Q : /\ old = p_overridden[p]
                    /\ Q = TaskPropagates(old, status, flagged)
  OBVIOUS
<1>2. /\ p_overridden' = [p_overridden EXCEPT ![p] = t]
      /\ p_updated' = flagged \cup Q
      /\ t_status' = MarkUpdated(status, {old} \cup Overridden(Q))
  BY <1>1 DEF Override
<1>3. /\ t_stopper \in [Tasks -> Prims \cup {None}]
      /\ p_overridden \in [Prims -> Tasks \cup {None}]
      /\ p \in Prims
  BY DEF TypeOK, LivePrims, Prims
<1>4. old # None => old \in LiveTasks
  BY <1>1 DEF OverriddenLive
<1>5. /\ Q \in SUBSET Prims /\ Q \cap flagged = {}
      /\ Closed(Q, status, flagged)
      /\ \A u \in {old} \cap LiveTasks :
           t_stopper[u] # None => t_stopper[u] \in flagged \cup Q
  <2>1. CASE old = None \/ HasUpdated(status[old]) \/ t_stopper[old] = None
    <3>1. Q = {}
      BY <1>1, <2>1 DEF TaskPropagates
    <3>2. None \notin Tasks
      OBVIOUS
    <3> QED
      BY <2>1, <3>1, <3>2 DEF Closed, Climbing, LiveTasks
  <2>2. CASE ~(old = None \/ HasUpdated(status[old]) \/ t_stopper[old] = None)
    <3>1. Q = PrimPropagates(t_stopper[old], status, flagged)
      BY <1>1, <2>2 DEF TaskPropagates
    <3>2. t_stopper[old] \in Prims
      BY <1>3, <1>4, <2>2 DEF LiveTasks
    <3>3. t_stopper[old] \in flagged \cup Q /\ Closed(Q, status, flagged)
      BY <3>1, <3>2, PropagationClosed
    <3>4. Q \in SUBSET Prims /\ Q \cap flagged = {}
      BY <3>1 DEF PrimPropagates
    <3> QED
      BY <3>3, <3>4
  <2> QED
    BY <2>1, <2>2
<1>6. Climbing(t_status', p_updated')
  BY <1>2, <1>3, <1>5, ClosedClimbs
<1>7. ASSUME NEW q \in p_updated' \cap LivePrims, p_overridden'[q] # None,
             t_stopper[p_overridden'[q]] # None
      PROVE  t_stopper[p_overridden'[q]] \in p_updated'
  <2>1. q # p /\ p_overridden'[q] = p_overridden[q]
    BY <1>2, <1>3, <1>7 DEF LivePrims, Prims, TypeOK
  <2> QED
    BY <1>6, <1>7, <2>1 DEF Climbing
<1>8. ASSUME NEW u \in LiveTasks, HasUpdated(t_status'[u]),
             t_stopper[u] # None
      PROVE  t_stopper[u] \in p_updated'
  BY <1>6, <1>8 DEF Climbing
<1> QED
  BY <1>7, <1>8

-----------------------------------------------------------------------------
(* What a call leaves alone *)

\* Two statuses that differ at most in the update flag of sleeping tasks.
SameStatus(u) ==
  /\ t_status'[u] = ACTIVE <=> t_status[u] = ACTIVE
  /\ t_status'[u] = UNREGISTERED <=> t_status[u] = UNREGISTERED

LEMMA PlacedFrame ==
  ASSUME Placed, UNCHANGED <<procVars, p_process, live>>,
         \A u \in Tasks :
           t_status'[u] = UNREGISTERED <=> t_status[u] = UNREGISTERED
  PROVE  Placed'
BY DEF Placed, procVars, LiveTasks

LEMMA CountedFrame ==
  ASSUME TasksCounted, UNCHANGED <<procVars, live>>
  PROVE  TasksCounted'
BY DEF TasksCounted, procVars, LiveTasks

LEMMA OverridingFrame ==
  ASSUME Overriding, UNCHANGED <<procVars, p_process, overrideVars, live>>,
         \A u \in Tasks :
           t_status'[u] = UNREGISTERED <=> t_status[u] = UNREGISTERED,
         TypeOK
  PROVE  Overriding'
BY DEF Overriding, procVars, overrideVars, LiveTasks, TypeOK

LEMMA SleepingFrame ==
  ASSUME Sleeping, TypeOK, UNCHANGED <<procVars, p_process, t_stopper, p_stopped,
                               p_nb_stopped, live>>,
         \A u \in Tasks : SameStatus(u)
  PROVE  Sleeping'
<1>1. \A p \in LivePrims : Waiters(p) \subseteq Tasks
  BY DEF Waiters, Range, TypeOK, LivePrims, Prims
<1>2. LivePrims' = LivePrims /\ LiveTasks' = LiveTasks
  BY DEF LivePrims, LiveTasks, procVars
<1>3. \A p : Waiters(p)' = Waiters(p)
  BY DEF Waiters
<1>4. LiveTasks \subseteq Tasks
  BY DEF LiveTasks
<1> QED
  BY <1>1, <1>2, <1>3, <1>4 DEF Sleeping, Waiters, procVars, SameStatus

\* Sleeping of the state a call leaves, with the lists of waiters expanded.
LEMMA SleepingAfter ==
  ASSUME \A u \in LiveTasks' :
           /\ t_stopper'[u] # None <=> t_status'[u] # ACTIVE
           /\ t_stopper'[u] # None =>
                /\ t_stopper'[u] \in LivePrims'
                /\ p_process'[t_stopper'[u]] = t_process'[u]
                /\ u \in Range(p_stopped'[t_stopper'[u]]),
         \A q \in LivePrims' :
           /\ \A u \in Range(p_stopped'[q]) :
                /\ t_stopper'[u] = q
                /\ t_status'[u] \notin {UNREGISTERED, ACTIVE}
           /\ q \in live' => Range(p_stopped'[q]) \subseteq live'
           /\ p_nb_stopped'[q] = Len(p_stopped'[q])
           /\ Cardinality(Range(p_stopped'[q])) = Len(p_stopped'[q])
  PROVE  Sleeping'
BY DEF Sleeping, Waiters

LEMMA ActivesFrame ==
  ASSUME ActivesExact, UNCHANGED <<s_actives, live>>,
         \A u \in Tasks : t_status'[u] = ACTIVE <=> t_status[u] = ACTIVE
  PROVE  ActivesExact'
BY DEF ActivesExact, LiveTasks

LEMMA FlagsFrame ==
  ASSUME FlagsClimb, UNCHANGED <<s_processes, live, updateVars, t_stopper,
                                 p_overridden>>
  PROVE  FlagsClimb'
BY DEF FlagsClimb, LiveTasks, LivePrims, updateVars

\* Threads, commits, owner counters and faults are not part of the graph.
LEMMA GraphFrame ==
  ASSUME TypeOK, GraphInv,
         UNCHANGED <<procVars, p_process, overrideVars, stopVars, updateVars,
                     live>>
  PROVE  GraphInv'
<1>1. /\ UNCHANGED <<s_actives, t_stopper, p_stopped, p_nb_stopped>>
      /\ UNCHANGED <<t_status, p_overridden, s_processes>>
      /\ \A u \in Tasks : SameStatus(u)
  BY DEF stopVars, updateVars, overrideVars, procVars, SameStatus
<1> QED
  BY <1>1, PlacedFrame, CountedFrame, OverridingFrame, SleepingFrame,
     ActivesFrame, FlagsFrame DEF GraphInv

\* Flagging registered tasks changes neither who is ACTIVE nor who is
\* registered.
LEMMA MarkedSame ==
  ASSUME NEW status \in [Tasks -> Statuses], NEW T, NEW u \in Tasks,
         u \in T => status[u] # UNREGISTERED
  PROVE  /\ MarkUpdated(status, T)[u] = ACTIVE <=> status[u] = ACTIVE
         /\ MarkUpdated(status, T)[u] = UNREGISTERED
              <=> status[u] = UNREGISTERED
BY MarkUpdatedDoes

\* What primitives override is registered.
LEMMA OverriddenRegistered ==
  ASSUME Overriding, NEW Q \in SUBSET Prims
  PROVE  \A u \in Overridden(Q) : t_status[u] # UNREGISTERED
BY DEF Overriding, Overridden

\* The tasks that primitives in use override are in use.
LEMMA OverriddenIsLive ==
  ASSUME TypeOK, Placed, Overriding
  PROVE  OverriddenLive
<1> SUFFICES ASSUME NEW q \in LivePrims, p_overridden[q] # None
             PROVE  p_overridden[q] \in live /\ p_overridden[q] \in Tasks
  BY DEF OverriddenLive, LiveTasks
<1>1. q \in Prims /\ p_process[q] \in s_processes
  BY DEF LivePrims, Placed, Prims, TypeOK
<1> QED
  BY <1>1 DEF Overriding, TypeOK

-----------------------------------------------------------------------------
(* Lists of waiters *)

\* Appending a task that is not in the list yet.
LEMMA AppendWaiter ==
  ASSUME NEW s \in Seq(Tasks), NEW t \in Tasks,
         NEW W, W = Range(s), NEW V, V = Range(Append(s, t))
  PROVE  /\ V = W \cup {t}
         /\ Append(s, t) \in Seq(Tasks) /\ Len(Append(s, t)) = Len(s) + 1
         /\ t \notin W => Cardinality(V) = Cardinality(W) + 1
<1>1. /\ DOMAIN s = 1 .. Len(s) /\ Len(s) \in Nat
      /\ Append(s, t) \in Seq(Tasks) /\ Len(Append(s, t)) = Len(s) + 1
      /\ DOMAIN Append(s, t) = 1 .. (Len(s) + 1)
      /\ \A i \in 1 .. Len(s) : Append(s, t)[i] = s[i]
      /\ Append(s, t)[Len(s) + 1] = t
  OBVIOUS
<1>2. V = W \cup {t}
  <2>1. V \subseteq W \cup {t}
    BY <1>1 DEF Range
  <2>2. W \subseteq V
    BY <1>1 DEF Range
  <2>3. t \in V
    BY <1>1 DEF Range
  <2> QED
    BY <2>1, <2>2, <2>3
<1>3. IsFiniteSet(W)
  <2>1. W \subseteq Tasks
    BY DEF Range
  <2> QED
    BY <2>1, FS_Subset
<1>4. t \notin W => Cardinality(V) = Cardinality(W) + 1
  BY <1>2, <1>3, FS_AddElement
<1> QED
  BY <1>1, <1>2, <1>4

-----------------------------------------------------------------------------
(* The calls of a task on a primitive *)

\* The calling task is in use, and nothing stopped it.
LEMMA CallerAwake ==
  ASSUME TypeOK, ThreadInv, GraphInv, NEW th \in Threads, ThreadActive(th)
  PROVE  /\ th_task[th] \in s_actives /\ th_task[th] \in LiveTasks
         /\ th_task[th] \in Tasks
         /\ t_status[th_task[th]] = ACTIVE /\ t_stopper[th_task[th]] = None
BY ActiveThread DEF GraphInv, ActivesExact, Sleeping, LiveTasks

\* primitive_stop_task keeps the graph.
LEMMA StopTaskGraph ==
  ASSUME TypeOK, TypeOK', GraphInv, NEW p \in live \cap Prims,
         NEW t \in s_actives, p_process[p] = t_process[t],
         StopTask(p, t), UNCHANGED <<procVars, p_process, overrideVars, live>>
  PROVE  GraphInv'
<1>1. PICK Q, marked : /\ Q = PrimPropagates(p, t_status, p_updated)
                       /\ marked = MarkUpdated(t_status, Overridden(Q))
  OBVIOUS
<1>2. /\ t_stopper' = [t_stopper EXCEPT ![t] = p]
      /\ p_stopped' = [p_stopped EXCEPT ![p] = Append(@, t)]
      /\ p_nb_stopped' = [p_nb_stopped EXCEPT ![p] = @ + 1]
      /\ s_actives' = s_actives \ {t}
      /\ p_updated' = p_updated \cup Q
      /\ t_status' = [marked EXCEPT ![t] = STOPPED]
  BY <1>1 DEF StopTask
<1>3. /\ t_status \in [Tasks -> Statuses] /\ p_updated \in SUBSET Prims
      /\ t_stopper \in [Tasks -> Prims \cup {None}]
      /\ p_overridden \in [Prims -> Tasks \cup {None}]
      /\ p_stopped \in [Prims -> Seq(Tasks)] /\ p_nb_stopped \in [Prims -> Int]
      /\ p \in Prims /\ p \in LivePrims
  BY DEF TypeOK, LivePrims
<1>4. /\ t \in LiveTasks /\ t \in Tasks /\ t_status[t] = ACTIVE
      /\ LiveTasks' = LiveTasks /\ LivePrims' = LivePrims
  BY DEF GraphInv, ActivesExact, LiveTasks, LivePrims, procVars
<1>5. Q \in SUBSET Prims /\ Q \cap p_updated = {}
  BY <1>1 DEF PrimPropagates
<1>6. marked \in [Tasks -> Statuses]
  BY <1>1, <1>3, MarkUpdatedType
<1>7. \A u \in Tasks \ {t} : SameStatus(u)
  <2> SUFFICES ASSUME NEW u \in Tasks \ {t} PROVE SameStatus(u)
    OBVIOUS
  <2>1. u \in Overridden(Q) => t_status[u] # UNREGISTERED
    BY <1>5, OverriddenRegistered DEF GraphInv
  <2>2. t_status'[u] = marked[u]
    BY <1>2, <1>6
  <2>3. /\ MarkUpdated(t_status, Overridden(Q))[u] = ACTIVE
             <=> t_status[u] = ACTIVE
        /\ MarkUpdated(t_status, Overridden(Q))[u] = UNREGISTERED
             <=> t_status[u] = UNREGISTERED
    BY <1>3, <2>1, MarkedSame
  <2> QED
    BY <1>1, <2>2, <2>3 DEF SameStatus
<1>8. t_status'[t] = STOPPED
  BY <1>2, <1>4, <1>6
<1>9. \A u \in Tasks :
        t_status'[u] = UNREGISTERED <=> t_status[u] = UNREGISTERED
  BY <1>4, <1>7, <1>8 DEF SameStatus, STOPPED, UNREGISTERED, ACTIVE
<1>10. Placed' /\ TasksCounted' /\ Overriding'
  BY <1>9, PlacedFrame, CountedFrame, OverridingFrame DEF GraphInv
<1>11. ActivesExact'
  BY <1>2, <1>4, <1>7, <1>8 DEF GraphInv, ActivesExact, SameStatus, STOPPED,
     ACTIVE, LiveTasks
<1>12. Sleeping'
  <2>1. /\ \A q \in Prims \ {p} : Range(p_stopped'[q]) = Waiters(q)
        /\ \A q \in Prims \ {p} : p_stopped'[q] = p_stopped[q]
        /\ \A q \in Prims \ {p} : p_nb_stopped'[q] = p_nb_stopped[q]
    BY <1>2, <1>3 DEF Waiters
  <2>2. t \notin Waiters(p)
    BY <1>3, <1>4 DEF GraphInv, Sleeping
  <2>3. /\ Range(p_stopped'[p]) = Waiters(p) \cup {t}
        /\ Len(p_stopped'[p]) = Len(p_stopped[p]) + 1
        /\ Cardinality(Range(p_stopped'[p])) = Cardinality(Waiters(p)) + 1
    <3>1. p_stopped'[p] = Append(p_stopped[p], t) /\ p_stopped[p] \in Seq(Tasks)
      BY <1>2, <1>3
    <3> QED
      BY <1>4, <2>2, <3>1, AppendWaiter DEF Waiters
  <2>4. p_nb_stopped'[p] = p_nb_stopped[p] + 1
    BY <1>2, <1>3
  <2>5. /\ t_stopper'[t] = p
        /\ \A u \in Tasks \ {t} : t_stopper'[u] = t_stopper[u]
    BY <1>2, <1>3, <1>4
  <2>6. p # None
    BY <1>3 DEF Prims
  <2>7. UNCHANGED <<t_process, p_process, live>>
    BY DEF procVars
  <2>8. ASSUME NEW u \in LiveTasks
        PROVE  /\ t_stopper'[u] # None <=> t_status'[u] # ACTIVE
               /\ t_stopper'[u] # None =>
                    /\ t_stopper'[u] \in LivePrims
                    /\ p_process[t_stopper'[u]] = t_process[u]
                    /\ u \in Range(p_stopped'[t_stopper'[u]])
    <3>1. CASE u = t
      <4>1. t_stopper'[u] = p /\ t_status'[u] = STOPPED /\ t_process[u] = p_process[p]
        BY <1>8, <2>5, <3>1
      <4>2. u \in Range(p_stopped'[p])
        BY <2>3, <3>1
      <4> QED
        BY <1>3, <2>6, <4>1, <4>2 DEF STOPPED, ACTIVE
    <3>2. CASE u # t
      <4>1. u \in Tasks \ {t}
        BY <3>2 DEF LiveTasks
      <4>2. /\ t_stopper[u] # None <=> t_status[u] # ACTIVE
            /\ t_stopper[u] # None =>
                 /\ t_stopper[u] \in LivePrims
                 /\ p_process[t_stopper[u]] = t_process[u]
                 /\ u \in Waiters(t_stopper[u])
        BY DEF GraphInv, Sleeping
      <4>3. t_stopper[u] # None => t_stopper[u] \in Prims
        BY <1>3, <4>1
      <4> QED
        BY <1>7, <2>1, <2>3, <2>5, <4>1, <4>2, <4>3 DEF SameStatus
    <3> QED
      BY <3>1, <3>2
  <2>9. ASSUME NEW q \in LivePrims
        PROVE  /\ \A u \in Range(p_stopped'[q]) :
                    /\ t_stopper'[u] = q
                    /\ t_status'[u] \notin {UNREGISTERED, ACTIVE}
               /\ q \in live => Range(p_stopped'[q]) \subseteq live
               /\ p_nb_stopped'[q] = Len(p_stopped'[q])
               /\ Cardinality(Range(p_stopped'[q])) = Len(p_stopped'[q])
    <3>1. q \in Prims
      BY DEF LivePrims, TypeOK, Prims
    <3>2. Waiters(q) \subseteq Tasks
      BY <1>3, <3>1 DEF Waiters, Range
    <3>3. /\ \A u \in Waiters(q) :
               /\ t_stopper[u] = q
               /\ t_status[u] \notin {UNREGISTERED, ACTIVE}
          /\ q \in live => Waiters(q) \subseteq live
          /\ p_nb_stopped[q] = Len(p_stopped[q])
          /\ Cardinality(Waiters(q)) = Len(p_stopped[q])
      BY DEF GraphInv, Sleeping
    <3>4. \A u \in Waiters(q) :
            /\ u # t /\ t_stopper'[u] = q
            /\ t_status'[u] \notin {UNREGISTERED, ACTIVE}
      <4> SUFFICES ASSUME NEW u \in Waiters(q)
                   PROVE  /\ u # t /\ t_stopper'[u] = q
                          /\ t_status'[u] \notin {UNREGISTERED, ACTIVE}
        OBVIOUS
      <4>1. u \in Tasks /\ u # t
        BY <1>4, <3>2, <3>3
      <4>2. t_status'[u] \notin {UNREGISTERED, ACTIVE}
        BY <1>7, <3>3, <4>1 DEF SameStatus
      <4>3. t_stopper[u] = q
        BY <3>3
      <4>4. t_stopper'[u] = t_stopper[u]
        BY <2>5, <4>1
      <4> QED
        BY <4>1, <4>2, <4>3, <4>4
    <3>5. CASE q = p
      <4>1. /\ t_stopper'[t] = q /\ t \in live
            /\ t_status'[t] \notin {UNREGISTERED, ACTIVE}
        BY <1>4, <1>8, <2>5, <3>5 DEF STOPPED, ACTIVE, UNREGISTERED, LiveTasks
      <4>2. Range(p_stopped'[q]) = Waiters(q) \cup {t}
        BY <2>3, <3>5
      <4>3. /\ p_nb_stopped'[q] = Len(p_stopped'[q])
            /\ Cardinality(Range(p_stopped'[q])) = Len(p_stopped'[q])
        BY <2>3, <2>4, <3>3, <3>5
      <4> QED
        BY <3>3, <3>4, <4>1, <4>2, <4>3
    <3>6. CASE q # p
      BY <2>1, <3>1, <3>3, <3>4, <3>6
    <3> QED
      BY <3>5, <3>6
  <2> QED
    BY <1>4, <2>7, <2>8, <2>9 DEF Sleeping, Waiters
<1>13. FlagsClimb'
  <2>1. /\ Climbing(t_status, p_updated) /\ OverriddenLive
    BY FlagsAreClimbing, OverriddenIsLive DEF GraphInv
  <2>2. p \in p_updated' /\ Closed(Q, t_status, p_updated)
    BY <1>1, <1>2, <1>3, PropagationClosed
  <2>3. Climbing(marked, p_updated')
    <3>1. Climbing(MarkUpdated(t_status, {} \cup Overridden(Q)),
                   p_updated \cup Q)
      BY <1>3, <1>5, <2>1, <2>2, ClosedClimbs
    <3>2. {} \cup Overridden(Q) = Overridden(Q)
      OBVIOUS
    <3> QED
      BY <1>1, <1>2, <3>1, <3>2
  <2>4. ASSUME NEW q \in p_updated' \cap LivePrims, p_overridden[q] # None,
               t_stopper'[p_overridden[q]] # None
        PROVE  t_stopper'[p_overridden[q]] \in p_updated'
    <3>1. p_overridden[q] \in Tasks
      BY <2>1, <2>4 DEF OverriddenLive, LiveTasks
    <3> QED
      BY <1>2, <1>3, <2>2, <2>3, <2>4, <3>1 DEF Climbing
  <2>5. ASSUME NEW u \in LiveTasks, HasUpdated(t_status'[u]),
               t_stopper'[u] # None
        PROVE  t_stopper'[u] \in p_updated'
    <3>1. u \in Tasks
      BY DEF LiveTasks
    <3> QED
      BY <1>2, <1>3, <1>6, <2>2, <2>3, <2>5, <3>1 DEF Climbing
  <2>6. p_overridden' = p_overridden
    BY DEF overrideVars
  <2> QED
    BY <1>4, <1>12, <2>4, <2>5, <2>6, ClimbingGivesFlags
<1> QED
  BY <1>10, <1>11, <1>12, <1>13 DEF GraphInv

\* sched_mutex_lock and sched_mutex_unlock move an override, and keep the
\* graph.
LEMMA OverrideGraph ==
  ASSUME TypeOK, TypeOK', GraphInv, NEW m \in live \cap Mutexes,
         NEW t \in Tasks \cup {None},
         t # None => /\ t \in LiveTasks /\ t_process[t] = p_process[m]
                     /\ t_stopper[t] = None,
         Override(m, t, t_status, p_updated),
         UNCHANGED <<procVars, p_process, stopVars, live>>
  PROVE  GraphInv'
<1>1. m \in Prims /\ m \in LivePrims
  BY DEF Prims, LivePrims
<1>2. /\ t_status \in [Tasks -> Statuses] /\ p_updated \in SUBSET Prims
      /\ p_overridden \in [Prims -> Tasks \cup {None}]
  BY DEF TypeOK
<1>3. /\ LiveTasks' = LiveTasks /\ LivePrims' = LivePrims
      /\ UNCHANGED <<t_process, p_process, live, s_processes, s_actives>>
      /\ UNCHANGED <<t_stopper, p_stopped, p_nb_stopped>>
  BY DEF LiveTasks, LivePrims, procVars, stopVars
<1>4. \A u \in Tasks : SameStatus(u)
  <2>1. PICK old, Q : /\ old = p_overridden[m]
                      /\ Q = TaskPropagates(old, t_status, p_updated)
    OBVIOUS
  <2>2. t_status' = MarkUpdated(t_status, {old} \cup Overridden(Q))
    BY <2>1 DEF Override
  <2>3. Q \in SUBSET Prims
    BY <2>1, PropagatesType
  <2> SUFFICES ASSUME NEW u \in Tasks PROVE SameStatus(u)
    OBVIOUS
  <2>4. u \in {old} \cup Overridden(Q) => t_status[u] # UNREGISTERED
    BY <1>1, <2>1, <2>3, OverriddenRegistered DEF GraphInv, Overriding
  <2> QED
    BY <1>2, <2>2, <2>4, MarkedSame DEF SameStatus
<1>5. \A u \in Tasks :
        /\ t_status'[u] = UNREGISTERED <=> t_status[u] = UNREGISTERED
        /\ t_status'[u] = ACTIVE <=> t_status[u] = ACTIVE
  BY <1>4 DEF SameStatus
<1>6. Placed' /\ TasksCounted' /\ ActivesExact' /\ Sleeping'
  BY <1>3, <1>4, <1>5, PlacedFrame, CountedFrame, ActivesFrame, SleepingFrame
     DEF GraphInv
<1>7. Overriding'
  <2>1. OverridesAgree
    BY DEF GraphInv, Overriding, OverridesAgree
  <2>2. /\ \A q \in Prims, u \in Tasks :
             q \in t_overriders'[u] <=> p_overridden'[q] = u
        /\ \A u \in LiveTasks :
             t_nb_overrides'[u] = Cardinality(t_overriders'[u])
        /\ \A q \in Prims \ {m} : p_overridden'[q] = p_overridden[q]
        /\ p_overridden'[m] = t
    BY <1>1, <2>1, OverrideAgrees
  <2>3. ASSUME NEW q \in Prims, p_overridden'[q] # None
        PROVE  /\ q \in Mutexes
               /\ t_process[p_overridden'[q]] = p_process[q]
               /\ t_status'[p_overridden'[q]] # UNREGISTERED
               /\ p_process[q] \in s_processes
                    => {q, p_overridden'[q]} \subseteq live
    <3>1. CASE q = m
      <4>1. /\ t \in LiveTasks /\ t \in Tasks
            /\ t_process[t] = p_process[m] /\ t_stopper[t] = None
        BY <2>2, <2>3, <3>1 DEF LiveTasks
      <4>2. t_status'[t] = ACTIVE
        BY <1>5, <4>1 DEF GraphInv, Sleeping
      <4> QED
        BY <2>2, <3>1, <4>1, <4>2 DEF LiveTasks, ACTIVE, UNREGISTERED
    <3>2. CASE q # m
      <4>1. p_overridden'[q] = p_overridden[q] /\ p_overridden[q] \in Tasks
        BY <1>2, <2>2, <2>3, <3>2
      <4> QED
        BY <1>5, <2>3, <4>1 DEF GraphInv, Overriding
    <3> QED
      BY <3>1, <3>2
  <2> QED
    BY <1>3, <2>2, <2>3 DEF Overriding
<1>8. FlagsClimb'
  <2>1. /\ Climbing(t_status, p_updated) /\ OverriddenLive
    BY FlagsAreClimbing, OverriddenIsLive DEF GraphInv
  <2>2. /\ \A q \in p_updated' \cap LivePrims :
             p_overridden'[q] # None /\ t_stopper[p_overridden'[q]] # None
               => t_stopper[p_overridden'[q]] \in p_updated'
        /\ \A u \in LiveTasks :
             HasUpdated(t_status'[u]) /\ t_stopper[u] # None
               => t_stopper[u] \in p_updated'
    BY <1>1, <1>2, <2>1, OverrideClimbs
  <2> QED
    BY <1>3, <1>6, <2>2, ClimbingGivesFlags
<1> QED
  BY <1>6, <1>7, <1>8 DEF GraphInv

\* The calls of a task on a mutex keep the graph,
LEMMA MutexGraph ==
  ASSUME TypeOK, TypeOK', ThreadInv, GraphInv,
         NEW th \in Threads, NEW m \in Mutexes
  PROVE  /\ MutexTake(th, m) => GraphInv'
         /\ MutexBlock(th, m) => GraphInv'
         /\ MutexUnlockFails(th, m) => GraphInv'
         /\ MutexUnlock(th, m) => GraphInv'
         /\ MutexUnlockWild(th, m) => GraphInv'
<1> DEFINE t == th_task[th]
<1>1. Calls(th, m) =>
        /\ m \in live \cap Mutexes /\ m \in live \cap Prims
        /\ p_process[m] = t_process[t]
        /\ t \in s_actives /\ t \in LiveTasks /\ t \in Tasks
        /\ t_stopper[t] = None
  BY CallerAwake DEF Calls, Prims
<1>2. ASSUME MutexTake(th, m) PROVE GraphInv'
  <2>1. /\ Calls(th, m) /\ Override(m, t, t_status, p_updated)
        /\ UNCHANGED <<procVars, p_process, stopVars, live>>
    BY <1>2 DEF MutexTake, primVars
  <2> HIDE DEF t
  <2> QED
    BY <1>1, <2>1, OverrideGraph
<1>3. ASSUME MutexBlock(th, m) PROVE GraphInv'
  <2>1. /\ Calls(th, m) /\ StopTask(m, t)
        /\ UNCHANGED <<procVars, p_process, overrideVars, live>>
    BY <1>3 DEF MutexBlock, StopThread, primVars
  <2> HIDE DEF t
  <2> QED
    BY <1>1, <2>1, StopTaskGraph
<1>4. ASSUME MutexUnlockFails(th, m) PROVE GraphInv'
  BY <1>4, GraphFrame DEF MutexUnlockFails, primVars
<1>5. ASSUME MutexUnlock(th, m) PROVE GraphInv'
  <2>1. /\ Calls(th, m) /\ Override(m, None, t_status, p_updated)
        /\ UNCHANGED <<procVars, p_process, stopVars, live>>
    BY <1>5 DEF MutexUnlock, UnlocksOwn, primVars
  <2> QED
    BY <1>1, <2>1, OverrideGraph
<1>6. ASSUME MutexUnlockWild(th, m) PROVE GraphInv'
  BY <1>6, GraphFrame DEF MutexUnlockWild, Fault, primVars
<1> QED
  BY <1>2, <1>3, <1>4, <1>5, <1>6

\* and so do those on a semaphore.
LEMMA SemGraph ==
  ASSUME TypeOK, TypeOK', ThreadInv, GraphInv,
         NEW th \in Threads, NEW s \in Sems
  PROVE  /\ SemTake(th, s) => GraphInv'
         /\ SemBlock(th, s) => GraphInv'
         /\ SemReleaseFails(th, s) => GraphInv'
         /\ SemRelease(th, s) => GraphInv'
         /\ SemReleaseWild(th, s) => GraphInv'
<1> DEFINE t == th_task[th]
<1>1. ASSUME SemBlock(th, s) PROVE GraphInv'
  <2>1. /\ Calls(th, s) /\ StopTask(s, t)
        /\ UNCHANGED <<procVars, p_process, overrideVars, live>>
    BY <1>1 DEF SemBlock, StopThread, primVars
  <2>2. /\ s \in live \cap Prims /\ p_process[s] = t_process[t]
        /\ t \in s_actives
    BY <2>1, CallerAwake DEF Calls, Prims
  <2> HIDE DEF t
  <2> QED
    BY <2>1, <2>2, StopTaskGraph
<1>2. ASSUME SemTake(th, s) PROVE GraphInv'
  BY <1>2, GraphFrame DEF SemTake, primVars
<1>3. ASSUME SemReleaseFails(th, s) PROVE GraphInv'
  BY <1>3, GraphFrame DEF SemReleaseFails, primVars
<1>4. ASSUME SemRelease(th, s) PROVE GraphInv'
  BY <1>4, GraphFrame DEF SemRelease, primVars
<1>5. ASSUME SemReleaseWild(th, s) PROVE GraphInv'
  BY <1>5, GraphFrame DEF SemReleaseWild, Fault, primVars
<1> QED
  BY <1>1, <1>2, <1>3, <1>4, <1>5

-----------------------------------------------------------------------------
(* Registrations *)

\* The constructors of mutexes and semaphores keep the graph: a primitive
\* that is constructed, the first time or again, is nobody's stopper and
\* overrides nobody.
LEMMA ConstructGraph ==
  ASSUME TypeOK, TypeOK', GraphInv,
         NEW p \in Mutexes \cup Sems, NEW prc \in Procs,
         MayConstruct(p, prc), InitPrim(p, prc), live' = live \cup {p},
         UNCHANGED <<procVars, t_status, t_stopper, t_overriders,
                     t_nb_overrides, s_actives>>
  PROVE  GraphInv'
<1>1. /\ p \in Prims /\ p \notin LivePrims /\ p \notin Tasks
      /\ prc \in s_processes /\ p \notin live
      /\ p_process[p] \in s_processes \cup {None}
  BY DEF Prims, LivePrims, MayConstruct, TypeOK
<1>2. /\ p_process \in [Prims -> Procs \cup {None}]
      /\ p_overridden \in [Prims -> Tasks \cup {None}]
      /\ p_stopped \in [Prims -> Seq(Tasks)] /\ p_nb_stopped \in [Prims -> Int]
      /\ t_process \in [Tasks -> Procs \cup {None}]
      /\ s_processes \subseteq Procs
  BY DEF TypeOK
<1>3. /\ UNCHANGED <<s_processes, prc_status, prc_tasks, prc_nb_tasks>>
      /\ UNCHANGED <<t_process, t_status, t_stopper, s_actives>>
      /\ UNCHANGED <<t_overriders, t_nb_overrides>>
      /\ LiveTasks' = LiveTasks /\ LivePrims' = LivePrims \cup {p}
  BY <1>1 DEF procVars, LiveTasks, LivePrims
<1>4. p_overridden[p] = None
  <2> SUFFICES ASSUME p_overridden[p] # None PROVE FALSE
    OBVIOUS
  <2>1. /\ p_process[p] = t_process[p_overridden[p]]
        /\ t_status[p_overridden[p]] # UNREGISTERED
        /\ p_process[p] \notin s_processes
        /\ p_overridden[p] \in Tasks
    BY <1>1, <1>2 DEF GraphInv, Overriding
  <2> QED
    BY <1>1, <2>1 DEF GraphInv, Placed
<1>5. p_overridden' = p_overridden
  BY <1>1, <1>2, <1>4 DEF InitPrim
<1>6. /\ p_process'[p] = prc
      /\ p_stopped'[p] = <<>> /\ p_nb_stopped'[p] = 0
      /\ \A q \in Prims \ {p} : /\ p_process'[q] = p_process[q]
                                /\ p_stopped'[q] = p_stopped[q]
                                /\ p_nb_stopped'[q] = p_nb_stopped[q]
      /\ p_updated' = p_updated \ {p}
  BY <1>1, <1>2 DEF InitPrim
<1>7. LivePrims \subseteq Prims \ {p}
  BY <1>1 DEF LivePrims, TypeOK, Prims
<1>8. Placed'
  <2>1. \A q \in s_processes : p_process'[q] = q
    BY <1>1, <1>6, <1>7 DEF GraphInv, Placed, LivePrims
  <2>2. \A q \in live' \cap Prims : p_process'[q] \in s_processes
    BY <1>1, <1>6 DEF GraphInv, Placed
  <2> QED
    BY <1>3, <2>1, <2>2 DEF GraphInv, Placed
<1>9. TasksCounted' /\ ActivesExact'
  BY <1>3 DEF GraphInv, TasksCounted, ActivesExact
<1>10. Overriding'
  <2>1. ASSUME NEW q \in Prims, p_overridden[q] # None
        PROVE  p_process'[q] = p_process[q]
    BY <1>4, <1>6, <2>1
  <2> QED
    BY <1>3, <1>5, <2>1 DEF GraphInv, Overriding
<1>11. Sleeping'
  <2>1. ASSUME NEW u \in LiveTasks, t_stopper[u] # None
        PROVE  /\ t_stopper[u] \in LivePrims
               /\ p_process'[t_stopper[u]] = t_process[u]
               /\ u \in Range(p_stopped'[t_stopper[u]])
    BY <1>6, <1>7, <2>1 DEF GraphInv, Sleeping, Waiters
  <2>2. Range(p_stopped'[p]) = {} /\ Len(p_stopped'[p]) = 0
    BY <1>6 DEF Range
  <2>3. /\ Cardinality(Range(p_stopped'[p])) = Len(p_stopped'[p])
        /\ p_nb_stopped'[p] = Len(p_stopped'[p])
    BY <1>6, <2>2, FS_EmptySet
  <2>4. ASSUME NEW q \in LivePrims
        PROVE  /\ \A u \in Range(p_stopped'[q]) :
                    /\ t_stopper[u] = q
                    /\ t_status[u] \notin {UNREGISTERED, ACTIVE}
               /\ q \in live => Range(p_stopped'[q]) \subseteq live
               /\ p_nb_stopped'[q] = Len(p_stopped'[q])
               /\ Cardinality(Range(p_stopped'[q])) = Len(p_stopped'[q])
    BY <1>6, <1>7 DEF GraphInv, Sleeping, Waiters
  <2>5. \A q \in LivePrims : q \in live' => q \in live
    BY <1>7
  <2>6. \A u \in LiveTasks : t_stopper[u] # None <=> t_status[u] # ACTIVE
    BY DEF GraphInv, Sleeping
  <2>7. ASSUME NEW u \in LiveTasks'
        PROVE  /\ t_stopper'[u] # None <=> t_status'[u] # ACTIVE
               /\ t_stopper'[u] # None =>
                    /\ t_stopper'[u] \in LivePrims'
                    /\ p_process'[t_stopper'[u]] = t_process'[u]
                    /\ u \in Range(p_stopped'[t_stopper'[u]])
    BY <1>3, <2>1, <2>6
  <2>8. ASSUME NEW q \in LivePrims'
        PROVE  /\ \A u \in Range(p_stopped'[q]) :
                    /\ t_stopper'[u] = q
                    /\ t_status'[u] \notin {UNREGISTERED, ACTIVE}
               /\ q \in live' => Range(p_stopped'[q]) \subseteq live'
               /\ p_nb_stopped'[q] = Len(p_stopped'[q])
               /\ Cardinality(Range(p_stopped'[q])) = Len(p_stopped'[q])
    <3>1. CASE q = p
      BY <2>2, <2>3, <3>1
    <3>2. CASE q \in LivePrims
      BY <1>3, <2>4, <2>5, <3>2
    <3> QED
      BY <1>3, <3>1, <3>2
  <2> QED
    BY <2>7, <2>8, SleepingAfter
<1>12. FlagsClimb'
  <2>1. OverriddenLive
    BY OverriddenIsLive DEF GraphInv
  <2>2. \A u \in LiveTasks : t_stopper[u] # None => t_stopper[u] # p
    BY <1>1 DEF GraphInv, Sleeping
  <2>3. ASSUME NEW q \in p_updated' \cap LivePrims', p_overridden[q] # None,
               t_stopper[p_overridden[q]] # None
        PROVE  t_stopper[p_overridden[q]] \in p_updated'
    <3>1. q \in p_updated \cap LivePrims
      BY <1>3, <1>6
    <3>2. p_overridden[q] \in LiveTasks
      BY <2>1, <2>3, <3>1 DEF OverriddenLive
    <3> QED
      BY <1>6, <2>2, <2>3, <3>1, <3>2 DEF GraphInv, FlagsClimb
  <2>4. ASSUME NEW u \in LiveTasks,
               t_status[u] = STOPPED + STASK_STATUS_UPDATED
        PROVE  t_stopper[u] \in p_updated'
    <3>1. t_stopper[u] # None
      BY <2>4 DEF GraphInv, Sleeping, STOPPED, ACTIVE, STASK_STATUS_UPDATED
    <3> QED
      BY <1>6, <2>2, <2>4, <3>1 DEF GraphInv, FlagsClimb
  <2> QED
    BY <1>3, <1>5, <2>3, <2>4 DEF FlagsClimb
<1> QED
  BY <1>8, <1>9, <1>10, <1>11, <1>12 DEF GraphInv

\* sched_register_process starts an empty process, whose primitive overrides
\* nobody.
LEMMA RegisterProcessGraph ==
  ASSUME TypeOK, TypeOK', GraphInv, NEW prc \in Procs, RegisterProcess(prc)
  PROVE  GraphInv'
<1>1. /\ prc \in Prims /\ prc \notin Tasks /\ prc \notin Mutexes
      /\ prc_status[prc] = UNREGISTERED
      /\ prc \notin s_processes /\ prc_tasks[prc] = {}
      /\ prc \notin live
  BY DEF Prims, RegisterProcess, GraphInv, Placed, TypeOK
<1>2. /\ p_process \in [Prims -> Procs \cup {None}]
      /\ p_overridden \in [Prims -> Tasks \cup {None}]
      /\ p_stopped \in [Prims -> Seq(Tasks)] /\ p_nb_stopped \in [Prims -> Int]
      /\ prc_tasks \in [Procs -> SUBSET Tasks]
      /\ prc_status \in [Procs -> Statuses]
      /\ prc_nb_tasks \in [Procs -> Int]
      /\ s_processes \subseteq Procs
  BY DEF TypeOK
<1>3. /\ UNCHANGED <<t_process, t_status, t_stopper, s_actives, live>>
      /\ UNCHANGED <<t_overriders, t_nb_overrides>>
      /\ s_processes' = s_processes \cup {prc}
      /\ LiveTasks' = LiveTasks /\ LivePrims' = LivePrims \cup {prc}
  BY DEF RegisterProcess, LiveTasks, LivePrims
<1>4. \A u \in Tasks : t_process[u] # prc
  BY <1>1 DEF GraphInv, Placed
<1>5. p_overridden[prc] = None
  BY <1>1 DEF GraphInv, Overriding
<1>6. /\ p_overridden' = p_overridden
      /\ p_process'[prc] = prc
      /\ p_stopped'[prc] = <<>> /\ p_nb_stopped'[prc] = 0
      /\ \A q \in Prims \ {prc} : /\ p_process'[q] = p_process[q]
                                  /\ p_stopped'[q] = p_stopped[q]
                                  /\ p_nb_stopped'[q] = p_nb_stopped[q]
      /\ p_updated' = p_updated \ {prc}
  BY <1>1, <1>2, <1>5 DEF RegisterProcess, InitPrim
<1>7. /\ prc_tasks'[prc] = {} /\ prc_status'[prc] = ACTIVE
      /\ prc_nb_tasks'[prc] = 0
      /\ \A k \in Procs \ {prc} : /\ prc_tasks'[k] = prc_tasks[k]
                                  /\ prc_status'[k] = prc_status[k]
                                  /\ prc_nb_tasks'[k] = prc_nb_tasks[k]
  BY <1>2 DEF RegisterProcess
<1>8. LivePrims \subseteq Prims \ {prc}
  BY <1>1 DEF LivePrims, TypeOK, Prims
<1>9. Placed'
  <2>1. ASSUME NEW k \in Procs
        PROVE  /\ prc_tasks'[k] = {t \in Tasks : t_process[t] = k}
               /\ prc_status'[k] = UNREGISTERED
                    => k \notin s_processes' /\ prc_tasks'[k] = {}
    <3>1. CASE k = prc
      BY <1>4, <1>7, <3>1 DEF ACTIVE, UNREGISTERED
    <3>2. CASE k # prc
      BY <1>3, <1>7, <3>2 DEF GraphInv, Placed
    <3> QED
      BY <3>1, <3>2
  <2>2. \A k \in s_processes' : p_process'[k] = k
    BY <1>2, <1>3, <1>6 DEF GraphInv, Placed, Prims
  <2>3. \A q \in live \cap Prims : p_process'[q] \in s_processes'
    BY <1>1, <1>3, <1>6 DEF GraphInv, Placed
  <2> QED
    BY <1>3, <2>1, <2>2, <2>3 DEF GraphInv, Placed
<1>10. ActivesExact'
  BY <1>3 DEF GraphInv, ActivesExact
<1>11. TasksCounted'
  <2> SUFFICES ASSUME NEW k \in s_processes'
               PROVE  prc_nb_tasks'[k]
                        = Cardinality({t \in LiveTasks : t_process[t] = k})
    BY <1>3 DEF TasksCounted
  <2>1. CASE k = prc
    <3>1. {t \in LiveTasks : t_process[t] = k} = {}
      BY <1>4, <2>1 DEF LiveTasks
    <3> QED
      BY <1>7, <2>1, <3>1, FS_EmptySet
  <2>2. CASE k # prc
    BY <1>2, <1>3, <1>7, <2>2 DEF GraphInv, TasksCounted
  <2> QED
    BY <2>1, <2>2
<1>12. Overriding'
  <2>1. ASSUME NEW q \in Prims, p_overridden[q] # None
        PROVE  /\ p_process'[q] = p_process[q]
               /\ p_process[q] \in s_processes' => p_process[q] \in s_processes
    <3>1. q # prc /\ p_overridden[q] \in Tasks
      BY <1>2, <1>5, <2>1
    <3> QED
      BY <1>3, <1>4, <1>6, <2>1, <3>1 DEF GraphInv, Overriding
  <2> QED
    BY <1>3, <1>6, <2>1 DEF GraphInv, Overriding
<1>13. Sleeping'
  <2>1. ASSUME NEW u \in LiveTasks'
        PROVE  /\ t_stopper'[u] # None <=> t_status'[u] # ACTIVE
               /\ t_stopper'[u] # None =>
                    /\ t_stopper'[u] \in LivePrims'
                    /\ p_process'[t_stopper'[u]] = t_process'[u]
                    /\ u \in Range(p_stopped'[t_stopper'[u]])
    <3>1. /\ t_stopper[u] # None <=> t_status[u] # ACTIVE
          /\ t_stopper[u] # None =>
               /\ t_stopper[u] \in LivePrims
               /\ p_process[t_stopper[u]] = t_process[u]
               /\ u \in Range(p_stopped[t_stopper[u]])
      BY <1>3 DEF GraphInv, Sleeping, Waiters
    <3> QED
      BY <1>3, <1>6, <1>8, <3>1
  <2>2. ASSUME NEW q \in LivePrims'
        PROVE  /\ \A u \in Range(p_stopped'[q]) :
                    /\ t_stopper'[u] = q
                    /\ t_status'[u] \notin {UNREGISTERED, ACTIVE}
               /\ q \in live' => Range(p_stopped'[q]) \subseteq live'
               /\ p_nb_stopped'[q] = Len(p_stopped'[q])
               /\ Cardinality(Range(p_stopped'[q])) = Len(p_stopped'[q])
    <3>1. CASE q = prc
      <4>1. Range(p_stopped'[q]) = {} /\ Len(p_stopped'[q]) = 0
        BY <1>6, <3>1 DEF Range
      <4> QED
        BY <1>6, <3>1, <4>1, FS_EmptySet
    <3>2. CASE q \in LivePrims
      <4>1. /\ \A u \in Range(p_stopped[q]) :
                 /\ t_stopper[u] = q
                 /\ t_status[u] \notin {UNREGISTERED, ACTIVE}
            /\ q \in live => Range(p_stopped[q]) \subseteq live
            /\ p_nb_stopped[q] = Len(p_stopped[q])
            /\ Cardinality(Range(p_stopped[q])) = Len(p_stopped[q])
        BY <3>2 DEF GraphInv, Sleeping, Waiters
      <4> QED
        BY <1>3, <1>6, <1>8, <3>2, <4>1
    <3> QED
      BY <1>3, <3>1, <3>2
  <2> QED
    BY <2>1, <2>2, SleepingAfter
<1>14. FlagsClimb'
  <2>1. OverriddenLive
    BY OverriddenIsLive DEF GraphInv
  <2>2. \A u \in LiveTasks : t_stopper[u] # None => t_stopper[u] # prc
    BY <1>8 DEF GraphInv, Sleeping
  <2>3. ASSUME NEW q \in p_updated' \cap LivePrims', p_overridden[q] # None,
               t_stopper[p_overridden[q]] # None
        PROVE  t_stopper[p_overridden[q]] \in p_updated'
    <3>1. q \in p_updated \cap LivePrims
      BY <1>3, <1>6
    <3>2. p_overridden[q] \in LiveTasks
      BY <2>1, <2>3, <3>1 DEF OverriddenLive
    <3> QED
      BY <1>6, <2>2, <2>3, <3>1, <3>2 DEF GraphInv, FlagsClimb
  <2>4. ASSUME NEW u \in LiveTasks,
               t_status[u] = STOPPED + STASK_STATUS_UPDATED
        PROVE  t_stopper[u] \in p_updated'
    <3>1. t_stopper[u] # None
      BY <2>4 DEF GraphInv, Sleeping, STOPPED, ACTIVE, STASK_STATUS_UPDATED
    <3> QED
      BY <1>6, <2>2, <2>4, <3>1 DEF GraphInv, FlagsClimb
  <2> QED
    BY <1>3, <1>6, <2>3, <2>4 DEF FlagsClimb
<1> QED
  BY <1>9, <1>10, <1>11, <1>12, <1>13, <1>14 DEF GraphInv

\* process_register_task lists a task that nothing lists, overrides or stops.
LEMMA RegisterTaskGraph ==
  ASSUME TypeOK, TypeOK', GraphInv, NEW prc \in Procs, NEW t \in Tasks,
         RegisterTask(prc, t)
  PROVE  GraphInv'
<1>1. /\ t \notin Prims /\ prc \in s_processes
      /\ t_status[t] = UNREGISTERED /\ t_process[t] = None
      /\ t \notin LiveTasks /\ t \notin live
      /\ None \notin Procs
  BY DEF RegisterTask, GraphInv, Placed, TypeOK, Prims, LiveTasks
<1>2. /\ t_process \in [Tasks -> Procs \cup {None}]
      /\ t_status \in [Tasks -> Statuses]
      /\ t_stopper \in [Tasks -> Prims \cup {None}]
      /\ t_overriders \in [Tasks -> SUBSET Prims]
      /\ t_nb_overrides \in [Tasks -> Int]
      /\ p_overridden \in [Prims -> Tasks \cup {None}]
      /\ prc_tasks \in [Procs -> SUBSET Tasks]
      /\ prc_nb_tasks \in [Procs -> Int]
      /\ s_processes \subseteq Procs
  BY DEF TypeOK
<1>3. /\ UNCHANGED <<s_processes, prc_status, p_process, p_overridden>>
      /\ UNCHANGED <<p_stopped, p_nb_stopped, p_updated>>
      /\ s_actives' = s_actives \cup {t} /\ live' = live \cup {t}
  BY DEF RegisterTask, primVars
<1>4. LiveTasks' = LiveTasks \cup {t} /\ LivePrims' = LivePrims
  BY <1>1, <1>3 DEF LiveTasks, LivePrims
<1>5. /\ t_status'[t] = ACTIVE /\ t_process'[t] = prc
      /\ t_stopper'[t] = None /\ t_overriders'[t] = {}
      /\ t_nb_overrides'[t] = 0
      /\ \A u \in Tasks \ {t} : /\ t_status'[u] = t_status[u]
                                /\ t_process'[u] = t_process[u]
                                /\ t_stopper'[u] = t_stopper[u]
                                /\ t_overriders'[u] = t_overriders[u]
                                /\ t_nb_overrides'[u] = t_nb_overrides[u]
  BY <1>2 DEF RegisterTask
<1>6. /\ prc_tasks'[prc] = prc_tasks[prc] \cup {t}
      /\ prc_nb_tasks'[prc] = prc_nb_tasks[prc] + 1
      /\ \A k \in Procs \ {prc} : /\ prc_tasks'[k] = prc_tasks[k]
                                  /\ prc_nb_tasks'[k] = prc_nb_tasks[k]
  BY <1>2 DEF RegisterTask
<1>7. LiveTasks \subseteq Tasks \ {t}
  BY <1>1 DEF LiveTasks
<1>8. Placed'
  <2>1. ASSUME NEW k \in Procs
        PROVE  /\ prc_tasks'[k] = {u \in Tasks : t_process'[u] = k}
               /\ prc_status[k] = UNREGISTERED
                    => k \notin s_processes /\ prc_tasks'[k] = {}
    <3>1. /\ prc_tasks[k] = {u \in Tasks : t_process[u] = k}
          /\ prc_status[k] = UNREGISTERED
               => k \notin s_processes /\ prc_tasks[k] = {}
      BY DEF GraphInv, Placed
    <3>2. CASE k = prc
      <4>1. prc_tasks'[k] = {u \in Tasks : t_process'[u] = k}
        BY <1>5, <1>6, <3>1, <3>2
      <4> QED
        BY <1>1, <3>1, <3>2, <4>1
    <3>3. CASE k # prc
      BY <1>1, <1>5, <1>6, <3>1, <3>3
    <3> QED
      BY <3>2, <3>3
  <2>2. ASSUME NEW u \in Tasks
        PROVE  t_process'[u] = None <=> t_status'[u] = UNREGISTERED
    BY <1>1, <1>5 DEF GraphInv, Placed, ACTIVE, UNREGISTERED
  <2>3. \A u \in LiveTasks' : t_process'[u] \in s_processes
    BY <1>1, <1>4, <1>5, <1>7 DEF GraphInv, Placed
  <2>4. \A q \in live' \cap Prims : p_process[q] \in s_processes
    BY <1>1, <1>3 DEF GraphInv, Placed
  <2> QED
    BY <1>3, <2>1, <2>2, <2>3, <2>4 DEF GraphInv, Placed
<1>9. ActivesExact'
  BY <1>3, <1>4, <1>5, <1>7 DEF GraphInv, ActivesExact
<1>10. TasksCounted'
  <2> SUFFICES ASSUME NEW k \in s_processes
               PROVE  prc_nb_tasks'[k]
                        = Cardinality({u \in LiveTasks' : t_process'[u] = k})
    BY <1>3 DEF TasksCounted
  <2>1. k \in Procs
    BY <1>2
  <2>2. PICK X : X = {u \in LiveTasks : t_process[u] = k}
    OBVIOUS
  <2>3. X \in SUBSET Tasks /\ IsFiniteSet(X) /\ t \notin X
    <3>1. X \in SUBSET Tasks /\ t \notin X
      BY <1>7, <2>2
    <3> QED
      BY <3>1, FS_Subset
  <2>4. prc_nb_tasks[k] = Cardinality(X)
    BY <2>2 DEF GraphInv, TasksCounted
  <2>5. CASE k = prc
    <3>1. {u \in LiveTasks' : t_process'[u] = k} = X \cup {t}
      BY <1>4, <1>5, <1>7, <2>2, <2>5
    <3>2. Cardinality(X \cup {t}) = Cardinality(X) + 1
      BY <2>3, FS_AddElement
    <3> QED
      BY <1>6, <2>4, <2>5, <3>1, <3>2
  <2>6. CASE k # prc
    <3>1. {u \in LiveTasks' : t_process'[u] = k} = X
      BY <1>4, <1>5, <1>7, <2>2, <2>6
    <3> QED
      BY <1>6, <2>1, <2>4, <2>6, <3>1
  <2> QED
    BY <2>5, <2>6
<1>11. Overriding'
  <2>1. \A q \in Prims : p_overridden[q] # t
    BY <1>1 DEF GraphInv, Overriding
  <2>2. ASSUME NEW q \in Prims, NEW u \in Tasks
        PROVE  q \in t_overriders'[u] <=> p_overridden[q] = u
    BY <1>5, <2>1 DEF GraphInv, Overriding
  <2>3. ASSUME NEW q \in Prims, p_overridden[q] # None
        PROVE  /\ q \in Mutexes
               /\ t_process'[p_overridden[q]] = p_process[q]
               /\ t_status'[p_overridden[q]] # UNREGISTERED
               /\ p_process[q] \in s_processes
                    => {q, p_overridden[q]} \subseteq live'
    <3>1. p_overridden[q] \in Tasks \ {t}
      BY <1>2, <2>1, <2>3
    <3> QED
      BY <1>3, <1>5, <2>3, <3>1 DEF GraphInv, Overriding
  <2>4. ASSUME NEW u \in LiveTasks'
        PROVE  t_nb_overrides'[u] = Cardinality(t_overriders'[u])
    <3>1. CASE u = t
      BY <1>5, <3>1, FS_EmptySet
    <3>2. CASE u \in LiveTasks
      BY <1>5, <1>7, <3>2 DEF GraphInv, Overriding
    <3> QED
      BY <1>4, <3>1, <3>2
  <2> QED
    BY <1>3, <2>2, <2>3, <2>4 DEF Overriding
<1>12. Sleeping'
  <2>1. ASSUME NEW u \in LiveTasks'
        PROVE  /\ t_stopper'[u] # None <=> t_status'[u] # ACTIVE
               /\ t_stopper'[u] # None =>
                    /\ t_stopper'[u] \in LivePrims'
                    /\ p_process'[t_stopper'[u]] = t_process'[u]
                    /\ u \in Range(p_stopped'[t_stopper'[u]])
    <3>1. CASE u = t
      BY <1>5, <3>1
    <3>2. CASE u \in LiveTasks
      BY <1>3, <1>4, <1>5, <1>7, <3>2 DEF GraphInv, Sleeping, Waiters
    <3> QED
      BY <1>4, <3>1, <3>2
  <2>2. ASSUME NEW q \in LivePrims'
        PROVE  /\ \A u \in Range(p_stopped'[q]) :
                    /\ t_stopper'[u] = q
                    /\ t_status'[u] \notin {UNREGISTERED, ACTIVE}
               /\ q \in live' => Range(p_stopped'[q]) \subseteq live'
               /\ p_nb_stopped'[q] = Len(p_stopped'[q])
               /\ Cardinality(Range(p_stopped'[q])) = Len(p_stopped'[q])
    <3>1. /\ q \in LivePrims /\ q \in Prims /\ q # t
      BY <1>1, <1>4 DEF LivePrims, TypeOK, Prims
    <3>2. /\ \A u \in Range(p_stopped[q]) :
               /\ t_stopper[u] = q
               /\ t_status[u] \notin {UNREGISTERED, ACTIVE}
          /\ q \in live => Range(p_stopped[q]) \subseteq live
          /\ p_nb_stopped[q] = Len(p_stopped[q])
          /\ Cardinality(Range(p_stopped[q])) = Len(p_stopped[q])
      BY <3>1 DEF GraphInv, Sleeping, Waiters
    <3>3. Range(p_stopped[q]) \subseteq Tasks
      BY <3>1 DEF TypeOK, Range
    <3>4. \A u \in Range(p_stopped[q]) : u \in Tasks \ {t}
      BY <1>1, <3>2, <3>3
    <3>5. \A u \in Range(p_stopped[q]) :
            /\ t_stopper'[u] = q
            /\ t_status'[u] \notin {UNREGISTERED, ACTIVE}
      BY <1>5, <3>2, <3>4
    <3> QED
      BY <1>3, <3>1, <3>2, <3>5
  <2> QED
    BY <2>1, <2>2, SleepingAfter
<1>13. FlagsClimb'
  <2>1. ASSUME NEW q \in LivePrims, p_overridden[q] # None
        PROVE  t_stopper'[p_overridden[q]] = t_stopper[p_overridden[q]]
    <3>1. OverriddenLive
      BY OverriddenIsLive DEF GraphInv
    <3> QED
      BY <1>5, <1>7, <2>1, <3>1 DEF OverriddenLive
  <2>2. ASSUME NEW u \in LiveTasks', t_status'[u] = STOPPED + STASK_STATUS_UPDATED
        PROVE  t_stopper'[u] \in p_updated
    <3>1. u # t
      BY <1>5, <2>2 DEF STOPPED, STASK_STATUS_UPDATED, ACTIVE
    <3> QED
      BY <1>4, <1>5, <1>7, <2>2, <3>1 DEF GraphInv, FlagsClimb
  <2> QED
    BY <1>3, <1>4, <2>1, <2>2 DEF GraphInv, FlagsClimb
<1> QED
  BY <1>8, <1>9, <1>10, <1>11, <1>12, <1>13 DEF GraphInv

-----------------------------------------------------------------------------
(* Exits and removals *)

\* process_unregister_task takes a task nobody waits for and nobody
\* overrides out of the graph.
LEMMA UnregisterTaskGraph ==
  ASSUME TypeOK, TypeOK', ThreadInv, GraphInv,
         NEW th \in Threads, UnregisterTask(th)
  PROVE  GraphInv'
<1>1. PICK t : t = th_task[th]
  OBVIOUS
<1>2. /\ t \in s_actives /\ t \in LiveTasks /\ t \in Tasks
      /\ t_status[t] = ACTIVE /\ t_stopper[t] = None
      /\ t_overriders[t] = {} /\ t \notin Prims
  BY <1>1, CallerAwake DEF UnregisterTask, Prims
<1>3. /\ UNCHANGED <<s_processes, prc_status, prc_tasks, t_process>>
      /\ UNCHANGED <<p_process, t_status, t_stopper, p_stopped, p_nb_stopped>>
      /\ UNCHANGED <<p_overridden, t_overriders, t_nb_overrides, p_updated>>
      /\ s_actives' = s_actives \ {t} /\ live' = live \ {t}
      /\ prc_nb_tasks' = [prc_nb_tasks EXCEPT ![t_process[t]] = @ - 1]
  BY <1>1 DEF UnregisterTask, Uncount, primVars, overrideVars, updateVars
<1>4. LiveTasks' = LiveTasks \ {t} /\ LivePrims' = LivePrims
  BY <1>2, <1>3 DEF LiveTasks, LivePrims
<1>5. Placed'
  BY <1>2, <1>3, <1>4 DEF GraphInv, Placed
<1>6. ActivesExact'
  BY <1>3, <1>4 DEF GraphInv, ActivesExact
<1>7. TasksCounted'
  <2> SUFFICES ASSUME NEW k \in s_processes
               PROVE  prc_nb_tasks'[k]
                        = Cardinality({u \in LiveTasks' : t_process[u] = k})
    BY <1>3 DEF TasksCounted
  <2>1. k \in Procs /\ prc_nb_tasks \in [Procs -> Int]
    BY DEF TypeOK
  <2>2. PICK X : X = {u \in LiveTasks : t_process[u] = k}
    OBVIOUS
  <2>3. IsFiniteSet(X)
    <3>1. X \in SUBSET Tasks
      BY <2>2 DEF LiveTasks
    <3> QED
      BY <3>1, FS_Subset
  <2>4. prc_nb_tasks[k] = Cardinality(X)
    BY <2>2 DEF GraphInv, TasksCounted
  <2>5. CASE k = t_process[t]
    <3>1. {u \in LiveTasks' : t_process[u] = k} = X \ {t} /\ t \in X
      BY <1>2, <1>4, <2>2, <2>5
    <3>2. Cardinality(X \ {t}) = Cardinality(X) - 1
      BY <2>3, <3>1, FS_RemoveElement
    <3> QED
      BY <1>3, <2>1, <2>4, <2>5, <3>1, <3>2
  <2>6. CASE k # t_process[t]
    <3>1. {u \in LiveTasks' : t_process[u] = k} = X
      BY <1>2, <1>4, <2>2, <2>6
    <3> QED
      BY <1>3, <2>1, <2>4, <2>6, <3>1
  <2> QED
    BY <2>5, <2>6
<1>8. Overriding'
  <2>1. \A q \in Prims : p_overridden[q] # t /\ q # t
    BY <1>2 DEF GraphInv, Overriding
  <2> QED
    BY <1>3, <1>4, <2>1 DEF GraphInv, Overriding
<1>9. Sleeping'
  <2>1. \A u \in LiveTasks' :
          /\ t_stopper'[u] # None <=> t_status'[u] # ACTIVE
          /\ t_stopper'[u] # None =>
               /\ t_stopper'[u] \in LivePrims'
               /\ p_process'[t_stopper'[u]] = t_process'[u]
               /\ u \in Range(p_stopped'[t_stopper'[u]])
    BY <1>3, <1>4 DEF GraphInv, Sleeping, Waiters
  <2>2. ASSUME NEW q \in LivePrims'
        PROVE  /\ \A u \in Range(p_stopped'[q]) :
                    /\ t_stopper'[u] = q
                    /\ t_status'[u] \notin {UNREGISTERED, ACTIVE}
               /\ q \in live' => Range(p_stopped'[q]) \subseteq live'
               /\ p_nb_stopped'[q] = Len(p_stopped'[q])
               /\ Cardinality(Range(p_stopped'[q])) = Len(p_stopped'[q])
    <3>1. /\ \A u \in Range(p_stopped[q]) :
               /\ t_stopper[u] = q
               /\ t_status[u] \notin {UNREGISTERED, ACTIVE}
          /\ q \in live => Range(p_stopped[q]) \subseteq live
          /\ p_nb_stopped[q] = Len(p_stopped[q])
          /\ Cardinality(Range(p_stopped[q])) = Len(p_stopped[q])
      BY <1>4 DEF GraphInv, Sleeping, Waiters
    <3>2. t \notin Range(p_stopped[q])
      BY <1>2, <3>1
    <3> QED
      BY <1>3, <3>1, <3>2
  <2> QED
    BY <2>1, <2>2, SleepingAfter
<1>10. FlagsClimb'
  BY <1>3, <1>4 DEF GraphInv, FlagsClimb
<1> QED
  BY <1>5, <1>6, <1>7, <1>8, <1>9, <1>10 DEF GraphInv

\* sched_unregister_process takes all its tasks and primitives along, and
\* nothing that is left sleeps on them or is overridden by them.
LEMMA UnregisterProcessGraph ==
  ASSUME TypeOK, TypeOK', GraphInv, NEW prc \in Procs, UnregisterProcess(prc)
  PROVE  GraphInv'
<1>1. /\ UNCHANGED <<prc_status, prc_tasks, prc_nb_tasks, t_process>>
      /\ UNCHANGED <<p_process, t_status, t_stopper, p_stopped, p_nb_stopped>>
      /\ UNCHANGED <<p_overridden, t_overriders, t_nb_overrides, p_updated>>
      /\ s_processes' = s_processes \ {prc}
      /\ s_actives'
           = s_actives \ {t \in prc_tasks[prc] : t_status[t] = ACTIVE}
      /\ live' = {x \in live : \/ x \in Tasks /\ t_process[x] # prc
                               \/ x \in Prims /\ p_process[x] # prc}
  BY DEF UnregisterProcess, primVars, overrideVars, updateVars
<1>2. /\ Tasks \cap Prims = {} /\ s_processes \subseteq Prims
      /\ prc_tasks[prc] = {t \in Tasks : t_process[t] = prc}
      /\ \A q \in s_processes : p_process[q] = q
      /\ live \cap Procs = {}
  BY DEF Prims, GraphInv, Placed, TypeOK
<1>3. /\ LiveTasks' = {t \in LiveTasks : t_process[t] # prc}
      /\ LivePrims' = {q \in LivePrims : p_process[q] # prc}
  BY <1>1, <1>2 DEF LiveTasks, LivePrims
<1>4. Placed'
  BY <1>1, <1>3 DEF GraphInv, Placed, Prims
<1>5. ActivesExact'
  BY <1>1, <1>2, <1>3 DEF GraphInv, ActivesExact, LiveTasks
<1>6. TasksCounted'
  <2> SUFFICES ASSUME NEW k \in s_processes, k # prc
               PROVE  prc_nb_tasks[k]
                        = Cardinality({u \in LiveTasks' : t_process[u] = k})
    BY <1>1 DEF TasksCounted
  <2>1. {u \in LiveTasks' : t_process[u] = k}
          = {u \in LiveTasks : t_process[u] = k}
    BY <1>3
  <2> QED
    BY <2>1 DEF GraphInv, TasksCounted
<1>7. Overriding'
  <2>1. ASSUME NEW q \in Prims, p_overridden[q] # None,
               p_process[q] \in s_processes'
        PROVE  {q, p_overridden[q]} \subseteq live'
    <3>1. /\ p_process[q] # prc /\ t_process[p_overridden[q]] # prc
          /\ p_overridden[q] \in Tasks
          /\ {q, p_overridden[q]} \subseteq live
      BY <1>1, <2>1 DEF GraphInv, Overriding, TypeOK
    <3> QED
      BY <1>1, <3>1
  <2> QED
    BY <1>1, <1>3, <2>1 DEF GraphInv, Overriding
<1>8. Sleeping'
  <2>1. ASSUME NEW u \in LiveTasks'
        PROVE  /\ t_stopper'[u] # None <=> t_status'[u] # ACTIVE
               /\ t_stopper'[u] # None =>
                    /\ t_stopper'[u] \in LivePrims'
                    /\ p_process'[t_stopper'[u]] = t_process'[u]
                    /\ u \in Range(p_stopped'[t_stopper'[u]])
    BY <1>1, <1>3 DEF GraphInv, Sleeping, Waiters
  <2>2. ASSUME NEW q \in LivePrims'
        PROVE  /\ \A u \in Range(p_stopped'[q]) :
                    /\ t_stopper'[u] = q
                    /\ t_status'[u] \notin {UNREGISTERED, ACTIVE}
               /\ q \in live' => Range(p_stopped'[q]) \subseteq live'
               /\ p_nb_stopped'[q] = Len(p_stopped'[q])
               /\ Cardinality(Range(p_stopped'[q])) = Len(p_stopped'[q])
    <3>1. /\ \A u \in Range(p_stopped[q]) :
               /\ t_stopper[u] = q
               /\ t_status[u] \notin {UNREGISTERED, ACTIVE}
          /\ q \in live => Range(p_stopped[q]) \subseteq live
          /\ p_nb_stopped[q] = Len(p_stopped[q])
          /\ Cardinality(Range(p_stopped[q])) = Len(p_stopped[q])
      BY <1>3 DEF GraphInv, Sleeping, Waiters
    <3>2. q \in LivePrims /\ p_process[q] # prc /\ q \in Prims
      BY <1>3 DEF LivePrims, TypeOK, Prims
    <3>3. Range(p_stopped[q]) \subseteq Tasks
      BY <3>2 DEF TypeOK, Range
    <3>4. ASSUME q \in live', NEW u \in Range(p_stopped[q])
          PROVE  u \in live'
      <4>1. q \in live
        BY <1>1, <3>4
      <4>2. u \in LiveTasks /\ t_stopper[u] = q
        BY <3>1, <3>3, <3>4, <4>1 DEF LiveTasks
      <4>3. t_process[u] = p_process[q]
        <5>1. q # None
          BY <3>2 DEF Prims
        <5> QED
          BY <4>2, <5>1 DEF GraphInv, Sleeping
      <4> QED
        BY <1>1, <3>2, <4>2, <4>3 DEF LiveTasks
    <3> QED
      BY <1>1, <3>1, <3>4
  <2> QED
    BY <2>1, <2>2, SleepingAfter
<1>9. FlagsClimb'
  BY <1>1, <1>3 DEF GraphInv, FlagsClimb
<1> QED
  BY <1>4, <1>5, <1>6, <1>7, <1>8, <1>9 DEF GraphInv

\* The walk resumes exactly the waiters.
LEMMA ResumedWaiters == \A p : Resumed(p) = Waiters(p)
BY DEF Resumed, Waiters, Range

\* process_unregister_prim resumes every waiter before the primitive goes.
LEMMA UnregisterPrimGraph ==
  ASSUME TypeOK, TypeOK', GraphInv, NEW p \in Mutexes \cup Sems,
         UnregisterPrim(p)
  PROVE  GraphInv'
<1>1. PICK W, Q1, marked, status, flagged :
        /\ W = Waiters(p)
        /\ Q1 = ResumeFlags(p)
        /\ marked = MarkUpdated(t_status, Overridden(Q1))
        /\ status = [t \in Tasks |-> IF t \in W THEN ACTIVE ELSE marked[t]]
        /\ flagged = p_updated \cup Q1
  OBVIOUS
<1>2. /\ s_actives' = s_actives \cup W
      /\ t_stopper' = [t \in Tasks |-> IF t \in W THEN None ELSE t_stopper[t]]
      /\ p_stopped' = [p_stopped EXCEPT ![p] = <<>>]
      /\ p_nb_stopped' = [p_nb_stopped EXCEPT ![p] = @ - Len(p_stopped[p])]
      /\ Override(p, None, status, flagged)
      /\ live' = live \ {p}
      /\ UNCHANGED <<procVars, p_process>>
  BY <1>1, ResumedWaiters DEF UnregisterPrim
<1>3. /\ p \in live /\ p \in Prims /\ p \in LivePrims /\ p \notin Tasks
      /\ p \notin s_processes
  BY DEF UnregisterPrim, Prims, LivePrims, TypeOK
<1>4. /\ t_status \in [Tasks -> Statuses] /\ p_updated \in SUBSET Prims
      /\ t_stopper \in [Tasks -> Prims \cup {None}]
      /\ p_overridden \in [Prims -> Tasks \cup {None}]
      /\ p_stopped \in [Prims -> Seq(Tasks)]
  BY DEF TypeOK
<1>5. /\ UNCHANGED <<s_processes, prc_status, prc_tasks, prc_nb_tasks>>
      /\ t_process' = t_process /\ p_process' = p_process
      /\ LiveTasks' = LiveTasks /\ LivePrims' = LivePrims \ {p}
  BY <1>2, <1>3 DEF procVars, LiveTasks, LivePrims
<1>6. /\ W \subseteq LiveTasks /\ W \subseteq Tasks
      /\ \A u \in W : /\ t_stopper[u] = p
                      /\ t_status[u] \notin {UNREGISTERED, ACTIVE}
  <2>1. W \subseteq Tasks
    BY <1>1, <1>3, <1>4 DEF Waiters, Range
  <2> QED
    BY <1>1, <1>3, <2>1 DEF GraphInv, Sleeping, LiveTasks
<1>7. /\ Q1 \in SUBSET Prims /\ Q1 \cap p_updated = {}
      /\ Closed(Q1, t_status, p_updated)
      /\ W # {} => p \in p_updated \cup Q1
  <2>1. CASE HasWaiters(p)
    <3>1. Q1 = PrimPropagates(p, t_status, p_updated)
      BY <1>1, <2>1 DEF ResumeFlags
    <3>2. Q1 \in SUBSET Prims /\ Q1 \cap p_updated = {}
      BY <3>1 DEF PrimPropagates
    <3> QED
      BY <1>3, <3>1, <3>2, PropagationClosed
  <2>2. CASE ~HasWaiters(p)
    <3>1. Q1 = {} /\ W = {}
      BY <1>1, <2>2 DEF ResumeFlags, HasWaiters, Waiters, Range
    <3> QED
      BY <3>1 DEF Closed
  <2> QED
    BY <2>1, <2>2
<1>8. marked \in [Tasks -> Statuses] /\ status \in [Tasks -> Statuses]
  <2>1. marked \in [Tasks -> Statuses]
    BY <1>1, <1>4, MarkUpdatedType
  <2> QED
    BY <1>1, <2>1 DEF Statuses, ACTIVE
<1>9. \A u \in Tasks :
        /\ status[u] = ACTIVE <=> t_status[u] = ACTIVE \/ u \in W
        /\ status[u] = UNREGISTERED <=> t_status[u] = UNREGISTERED
  <2> SUFFICES ASSUME NEW u \in Tasks
               PROVE  /\ status[u] = ACTIVE <=> t_status[u] = ACTIVE \/ u \in W
                      /\ status[u] = UNREGISTERED
                           <=> t_status[u] = UNREGISTERED
    OBVIOUS
  <2>1. u \in Overridden(Q1) => t_status[u] # UNREGISTERED
    BY <1>7, OverriddenRegistered DEF GraphInv
  <2>2. /\ MarkUpdated(t_status, Overridden(Q1))[u] = ACTIVE
             <=> t_status[u] = ACTIVE
        /\ MarkUpdated(t_status, Overridden(Q1))[u] = UNREGISTERED
             <=> t_status[u] = UNREGISTERED
    BY <1>4, <2>1, MarkedSame
  <2>3. status[u] = IF u \in W THEN ACTIVE ELSE marked[u]
    BY <1>1
  <2> QED
    BY <1>1, <1>6, <2>2, <2>3 DEF ACTIVE, UNREGISTERED
<1>10. \A u \in Tasks :
         /\ t_status'[u] = ACTIVE <=> t_status[u] = ACTIVE \/ u \in W
         /\ t_status'[u] = UNREGISTERED <=> t_status[u] = UNREGISTERED
  <2>1. PICK old, Q : /\ old = p_overridden[p]
                      /\ Q = TaskPropagates(old, status, flagged)
    OBVIOUS
  <2>2. t_status' = MarkUpdated(status, {old} \cup Overridden(Q))
    BY <1>2, <2>1 DEF Override
  <2>3. Q \in SUBSET Prims
    BY <2>1, PropagatesType
  <2> SUFFICES ASSUME NEW u \in Tasks
               PROVE  /\ t_status'[u] = ACTIVE <=> status[u] = ACTIVE
                      /\ t_status'[u] = UNREGISTERED
                           <=> status[u] = UNREGISTERED
    BY <1>9
  <2>4. u \in {old} \cup Overridden(Q) => t_status[u] # UNREGISTERED
    BY <1>3, <2>1, <2>3, OverriddenRegistered DEF GraphInv, Overriding
  <2>5. u \in {old} \cup Overridden(Q) => status[u] # UNREGISTERED
    BY <1>9, <2>4
  <2> QED
    BY <1>8, <2>2, <2>5, MarkedSame
<1>11. Placed'
  BY <1>2, <1>5, <1>10 DEF GraphInv, Placed
<1>12. TasksCounted'
  BY <1>5 DEF GraphInv, TasksCounted
<1>13. ActivesExact'
  BY <1>2, <1>5, <1>6, <1>10 DEF GraphInv, ActivesExact, LiveTasks
<1>14. Overriding'
  <2>1. OverridesAgree
    BY DEF GraphInv, Overriding, OverridesAgree
  <2>2. /\ \A q \in Prims, u \in Tasks :
             q \in t_overriders'[u] <=> p_overridden'[q] = u
        /\ \A u \in LiveTasks :
             t_nb_overrides'[u] = Cardinality(t_overriders'[u])
        /\ \A q \in Prims \ {p} : p_overridden'[q] = p_overridden[q]
        /\ p_overridden'[p] = None
    BY <1>2, <1>3, <2>1, OverrideAgrees
  <2>3. ASSUME NEW q \in Prims, p_overridden'[q] # None
        PROVE  /\ q \in Mutexes
               /\ t_process[p_overridden'[q]] = p_process[q]
               /\ t_status'[p_overridden'[q]] # UNREGISTERED
               /\ p_process[q] \in s_processes
                    => {q, p_overridden'[q]} \subseteq live'
    <3>1. /\ q # p /\ p_overridden'[q] = p_overridden[q]
          /\ p_overridden[q] \in Tasks
      BY <1>4, <2>2, <2>3
    <3> QED
      BY <1>2, <1>3, <1>10, <2>3, <3>1 DEF GraphInv, Overriding
  <2> QED
    BY <1>5, <2>2, <2>3 DEF Overriding
<1>15. Sleeping'
  <2>1. ASSUME NEW u \in LiveTasks'
        PROVE  /\ t_stopper'[u] # None <=> t_status'[u] # ACTIVE
               /\ t_stopper'[u] # None =>
                    /\ t_stopper'[u] \in LivePrims'
                    /\ p_process'[t_stopper'[u]] = t_process'[u]
                    /\ u \in Range(p_stopped'[t_stopper'[u]])
    <3>1. u \in LiveTasks /\ u \in Tasks
      BY <1>5 DEF LiveTasks
    <3>2. CASE u \in W
      BY <1>2, <1>10, <3>1, <3>2
    <3>3. CASE u \notin W
      <4>1. t_stopper'[u] = t_stopper[u]
        BY <1>2, <3>1, <3>3
      <4>2. /\ t_stopper[u] # None <=> t_status[u] # ACTIVE
            /\ t_stopper[u] # None =>
                 /\ t_stopper[u] \in LivePrims
                 /\ p_process[t_stopper[u]] = t_process[u]
                 /\ u \in Waiters(t_stopper[u])
        BY <3>1 DEF GraphInv, Sleeping
      <4>3. t_stopper[u] # p
        BY <1>1, <3>3, <4>2, <1>3
      <4>4. t_stopper[u] # None
              => u \in Range(p_stopped'[t_stopper[u]])
        BY <1>2, <1>4, <3>1, <4>2, <4>3 DEF Waiters
      <4> QED
        BY <1>5, <1>10, <3>1, <3>3, <4>1, <4>2, <4>3, <4>4
    <3> QED
      BY <3>2, <3>3
  <2>2. ASSUME NEW q \in LivePrims'
        PROVE  /\ \A u \in Range(p_stopped'[q]) :
                    /\ t_stopper'[u] = q
                    /\ t_status'[u] \notin {UNREGISTERED, ACTIVE}
               /\ q \in live' => Range(p_stopped'[q]) \subseteq live'
               /\ p_nb_stopped'[q] = Len(p_stopped'[q])
               /\ Cardinality(Range(p_stopped'[q])) = Len(p_stopped'[q])
    <3>1. q \in LivePrims /\ q # p /\ q \in Prims
      BY <1>5 DEF LivePrims, TypeOK, Prims
    <3>2. p_stopped'[q] = p_stopped[q] /\ p_nb_stopped'[q] = p_nb_stopped[q]
      BY <1>2, <1>4, <3>1 DEF TypeOK
    <3>3. /\ \A u \in Range(p_stopped[q]) :
               /\ t_stopper[u] = q
               /\ t_status[u] \notin {UNREGISTERED, ACTIVE}
          /\ q \in live => Range(p_stopped[q]) \subseteq live
          /\ p_nb_stopped[q] = Len(p_stopped[q])
          /\ Cardinality(Range(p_stopped[q])) = Len(p_stopped[q])
      BY <3>1 DEF GraphInv, Sleeping, Waiters
    <3>4. Range(p_stopped[q]) \subseteq Tasks
      BY <1>4, <3>1 DEF Range
    <3>5. \A u \in Range(p_stopped[q]) : u \in Tasks \ W
      BY <1>6, <3>1, <3>3, <3>4
    <3>6. \A u \in Range(p_stopped[q]) :
            /\ t_stopper'[u] = q
            /\ t_status'[u] \notin {UNREGISTERED, ACTIVE}
      BY <1>2, <1>10, <3>3, <3>5
    <3> QED
      BY <1>2, <1>3, <3>2, <3>3, <3>4, <3>6
  <2> QED
    BY <2>1, <2>2, SleepingAfter
<1>16. FlagsClimb'
  <2>1. /\ Climbing(t_status, p_updated) /\ OverriddenLive
    BY FlagsAreClimbing, OverriddenIsLive DEF GraphInv
  <2>2. Climbing(marked, flagged)
    <3>1. Climbing(MarkUpdated(t_status, {} \cup Overridden(Q1)),
                   p_updated \cup Q1)
      BY <1>4, <1>7, <2>1, ClosedClimbs
    <3>2. {} \cup Overridden(Q1) = Overridden(Q1)
      OBVIOUS
    <3> QED
      BY <1>1, <3>1, <3>2
  <2>3. Climbing(status, flagged)
    <3>1. ASSUME NEW u \in LiveTasks, HasUpdated(status[u]),
                 t_stopper[u] # None
          PROVE  t_stopper[u] \in flagged
      <4>1. CASE u \in W
        BY <1>1, <1>6, <1>7, <4>1
      <4>2. CASE u \notin W
        <5>1. status[u] = marked[u]
          BY <1>1, <4>2 DEF LiveTasks
        <5> QED
          BY <2>2, <3>1, <5>1 DEF Climbing
      <4> QED
        BY <4>1, <4>2
    <3> QED
      BY <2>2, <3>1 DEF Climbing
  <2>4. flagged \in SUBSET Prims
    BY <1>1, <1>4, <1>7
  <2>5. /\ \A q \in p_updated' \cap LivePrims :
             p_overridden'[q] # None /\ t_stopper[p_overridden'[q]] # None
               => t_stopper[p_overridden'[q]] \in p_updated'
        /\ \A u \in LiveTasks :
             HasUpdated(t_status'[u]) /\ t_stopper[u] # None
               => t_stopper[u] \in p_updated'
    BY <1>2, <1>3, <1>8, <2>1, <2>3, <2>4, OverrideClimbs
  <2>6. \A u \in Tasks : t_stopper'[u] # None => t_stopper'[u] = t_stopper[u]
    BY <1>2
  <2>7. ASSUME NEW q \in p_updated' \cap LivePrims', p_overridden'[q] # None,
               t_stopper'[p_overridden'[q]] # None
        PROVE  t_stopper'[p_overridden'[q]] \in p_updated'
    <3>1. p_overridden'[q] \in Tasks
      BY <2>7 DEF TypeOK, LivePrims, Prims
    <3>2. q \in p_updated' \cap LivePrims
      BY <1>5
    <3> QED
      BY <2>5, <2>6, <2>7, <3>1, <3>2
  <2>8. ASSUME NEW u \in LiveTasks', HasUpdated(t_status'[u]),
               t_stopper'[u] # None
        PROVE  t_stopper'[u] \in p_updated'
    <3>1. u \in Tasks /\ u \in LiveTasks
      BY <1>5 DEF LiveTasks
    <3> QED
      BY <2>5, <2>6, <2>8, <3>1
  <2> QED
    BY <1>15, <2>7, <2>8, ClimbingGivesFlags
<1> QED
  BY <1>11, <1>12, <1>13, <1>14, <1>15, <1>16 DEF GraphInv

-----------------------------------------------------------------------------
(* Pauses and commits *)

\* Appending an enumeration of the set T, none of which is in the list.
LEMMA AppendAll ==
  ASSUME NEW s \in Seq(Tasks), NEW T \in SUBSET Tasks,
         NEW q \in Injection(1 .. Cardinality(T), T),
         Range(s) \cap T = {}
  PROVE  /\ Range(s \o q) = Range(s) \cup T
         /\ Len(s \o q) = Len(s) + Cardinality(T)
         /\ Cardinality(Range(s) \cup T)
              = Cardinality(Range(s)) + Cardinality(T)
<1>1. PICK n : n = Cardinality(T)
  OBVIOUS
<1>2. n \in Nat /\ IsFiniteSet(T)
  <2>1. IsFiniteSet(T)
    BY FS_Subset
  <2> QED
    BY <1>1, <2>1, FS_CardinalityType
<1>3. q \in [1 .. n -> T] /\ q \in Injection(1 .. n, T)
  <2>1. q \in Injection(1 .. n, T)
    BY <1>1
  <2> QED
    BY <2>1 DEF Injection
<1>4. q \in Surjection(1 .. n, T)
  <2>1. Cardinality(1 .. n) = n
    <3>1. 1 \in Int /\ n \in Int
      BY <1>2
    <3>2. Cardinality(1 .. n) = IF 1 > n THEN 0 ELSE n - 1 + 1
      BY <3>1, FS_Interval
    <3> QED
      BY <1>2, <3>2
  <2> QED
    BY <1>1, <1>2, <1>3, <2>1, FS_Injection
<1>5. q \in Seq(Tasks) /\ Len(q) = n /\ DOMAIN q = 1 .. n
  BY <1>2, <1>3
<1>6. /\ DOMAIN s = 1 .. Len(s) /\ Len(s) \in Nat
      /\ Len(s \o q) = Len(s) + n /\ DOMAIN (s \o q) = 1 .. (Len(s) + n)
      /\ \A i \in 1 .. (Len(s) + n) :
           (s \o q)[i] = IF i <= Len(s) THEN s[i] ELSE q[i - Len(s)]
  BY <1>2, <1>5
<1>7. Range(s \o q) = Range(s) \cup T
  <2>1. Range(s \o q) \subseteq Range(s) \cup T
    <3> SUFFICES ASSUME NEW i \in 1 .. (Len(s) + n)
                 PROVE  (s \o q)[i] \in Range(s) \cup T
      BY <1>6 DEF Range
    <3>1. CASE i <= Len(s)
      <4>1. i \in 1 .. Len(s) /\ (s \o q)[i] = s[i]
        BY <1>6, <3>1
      <4> QED
        BY <1>6, <4>1 DEF Range
    <3>2. CASE ~(i <= Len(s))
      <4>1. i - Len(s) \in 1 .. n /\ (s \o q)[i] = q[i - Len(s)]
        BY <1>2, <1>6, <3>2
      <4> QED
        BY <1>3, <4>1
    <3> QED
      BY <3>1, <3>2
  <2>2. Range(s) \subseteq Range(s \o q)
    <3> SUFFICES ASSUME NEW i \in 1 .. Len(s) PROVE s[i] \in Range(s \o q)
      BY <1>6 DEF Range
    <3>1. i \in 1 .. (Len(s) + n) /\ (s \o q)[i] = s[i]
      BY <1>2, <1>6
    <3> QED
      BY <1>6, <3>1 DEF Range
  <2>3. T \subseteq Range(s \o q)
    <3> SUFFICES ASSUME NEW u \in T PROVE u \in Range(s \o q)
      OBVIOUS
    <3>1. PICK i \in 1 .. n : q[i] = u
      BY <1>4 DEF Surjection
    <3>2. Len(s) + i \in 1 .. (Len(s) + n) /\ (s \o q)[Len(s) + i] = u
      BY <1>2, <1>6, <3>1
    <3> QED
      BY <1>6, <3>2 DEF Range
  <2> QED
    BY <2>1, <2>2, <2>3
<1>8. Cardinality(Range(s) \cup T) = Cardinality(Range(s)) + Cardinality(T)
  <2>1. Range(s) \in SUBSET Tasks
    BY DEF Range
  <2>2. IsFiniteSet(Range(s)) /\ Cardinality(Range(s)) \in Nat
    BY <2>1, FS_Subset, FS_CardinalityType
  <2>3. Cardinality({}) = 0
    BY FS_EmptySet
  <2>4. Cardinality(Range(s) \cup T)
          = Cardinality(Range(s)) + Cardinality(T) - Cardinality({})
    BY <1>2, <2>2, FS_Union
  <2> QED
    BY <1>1, <1>2, <2>2, <2>3, <2>4
<1> QED
  BY <1>1, <1>6, <1>7, <1>8

\* sched_pause_process stops tasks of the process, exited ones too, on its
\* own primitive.
LEMMA PauseGraph ==
  ASSUME TypeOK, TypeOK', GraphInv, NEW prc \in Procs, PauseProcess(prc)
  PROVE  GraphInv'
<1>1. PICK T : T = Pausable(prc)
  OBVIOUS
<1>2. /\ s_actives' = s_actives \ T
      /\ t_stopper' = [t \in Tasks |-> IF t \in T THEN prc ELSE t_stopper[t]]
      /\ t_status' = [t \in Tasks |-> IF t \in T THEN STOPPED ELSE t_status[t]]
      /\ p_updated' = IF T = {} THEN p_updated ELSE p_updated \cup {prc}
      /\ p_nb_stopped' = [p_nb_stopped EXCEPT ![prc] = @ + Cardinality(T)]
      /\ UNCHANGED <<s_processes, prc_tasks, prc_nb_tasks, t_process>>
      /\ UNCHANGED <<p_process, p_overridden, t_overriders, t_nb_overrides>>
      /\ live' = live
      /\ prc_status' = [prc_status EXCEPT ![prc] = STOPPED]
      /\ prc \in s_processes /\ prc_status[prc] = ACTIVE
  BY <1>1 DEF PauseProcess, primVars, overrideVars, MayPause
<1>3. PICK q \in Injection(1 .. Cardinality(T), T) :
        p_stopped' = [p_stopped EXCEPT ![prc] = @ \o q]
  BY <1>1 DEF PauseProcess
<1>4. /\ T \in SUBSET Tasks
      /\ \A u \in T : t_status[u] = ACTIVE /\ t_process[u] = prc
  BY <1>1 DEF Pausable, GraphInv, Placed, TypeOK
<1>5. /\ t_status \in [Tasks -> Statuses] /\ p_updated \in SUBSET Prims
      /\ t_stopper \in [Tasks -> Prims \cup {None}]
      /\ p_overridden \in [Prims -> Tasks \cup {None}]
      /\ p_stopped \in [Prims -> Seq(Tasks)] /\ p_nb_stopped \in [Prims -> Int]
      /\ prc_status \in [Procs -> Statuses]
      /\ prc \in Prims /\ prc \in LivePrims /\ prc # None /\ prc \notin live
  BY <1>2 DEF TypeOK, Prims, LivePrims
<1>6. LiveTasks' = LiveTasks /\ LivePrims' = LivePrims
  BY <1>2 DEF LiveTasks, LivePrims
<1>7. \A u \in Tasks :
        /\ t_status'[u] = ACTIVE <=> t_status[u] = ACTIVE /\ u \notin T
        /\ t_status'[u] = UNREGISTERED <=> t_status[u] = UNREGISTERED
  BY <1>2, <1>4 DEF STOPPED, ACTIVE, UNREGISTERED
<1>8. Placed'
  <2>1. ASSUME NEW k \in Procs
        PROVE  prc_status'[k] = UNREGISTERED <=> prc_status[k] = UNREGISTERED
    BY <1>2, <1>5 DEF STOPPED, ACTIVE, UNREGISTERED
  <2> QED
    BY <1>2, <1>6, <1>7, <2>1 DEF GraphInv, Placed
<1>9. TasksCounted'
  BY <1>2, <1>6 DEF GraphInv, TasksCounted
<1>10. ActivesExact'
  BY <1>2, <1>6, <1>7 DEF GraphInv, ActivesExact, LiveTasks
<1>11. Overriding'
  BY <1>2, <1>5, <1>6, <1>7 DEF GraphInv, Overriding
<1>12. \A p \in LivePrims : Range(p_stopped[p]) \cap T = {}
  BY <1>4 DEF GraphInv, Sleeping, Waiters
<1>13. /\ Range(p_stopped'[prc]) = Range(p_stopped[prc]) \cup T
       /\ Len(p_stopped'[prc]) = Len(p_stopped[prc]) + Cardinality(T)
       /\ Cardinality(Range(p_stopped[prc]) \cup T)
            = Cardinality(Range(p_stopped[prc])) + Cardinality(T)
       /\ p_nb_stopped'[prc] = p_nb_stopped[prc] + Cardinality(T)
  <2>1. p_stopped'[prc] = p_stopped[prc] \o q /\ p_stopped[prc] \in Seq(Tasks)
    BY <1>3, <1>5
  <2>2. p_nb_stopped'[prc] = p_nb_stopped[prc] + Cardinality(T)
    BY <1>2, <1>5
  <2>3. Range(p_stopped[prc]) \cap T = {}
    BY <1>5, <1>12
  <2>4. /\ Range(p_stopped[prc] \o q) = Range(p_stopped[prc]) \cup T
        /\ Len(p_stopped[prc] \o q) = Len(p_stopped[prc]) + Cardinality(T)
        /\ Cardinality(Range(p_stopped[prc]) \cup T)
             = Cardinality(Range(p_stopped[prc])) + Cardinality(T)
    BY <1>4, <2>1, <2>3, AppendAll
  <2> QED
    BY <2>1, <2>2, <2>4
<1>14. \A p \in Prims \ {prc} : /\ p_stopped'[p] = p_stopped[p]
                                /\ p_nb_stopped'[p] = p_nb_stopped[p]
  BY <1>2, <1>3, <1>5
<1>15. Sleeping'
  <2>1. ASSUME NEW u \in LiveTasks'
        PROVE  /\ t_stopper'[u] # None <=> t_status'[u] # ACTIVE
               /\ t_stopper'[u] # None =>
                    /\ t_stopper'[u] \in LivePrims'
                    /\ p_process'[t_stopper'[u]] = t_process'[u]
                    /\ u \in Range(p_stopped'[t_stopper'[u]])
    <3>1. u \in LiveTasks /\ u \in Tasks
      BY <1>6 DEF LiveTasks
    <3>2. CASE u \in T
      <4>1. /\ t_stopper'[u] = prc /\ t_status'[u] # ACTIVE
            /\ t_process[u] = prc /\ p_process[prc] = prc
        BY <1>2, <1>4, <1>7, <3>1, <3>2 DEF GraphInv, Placed
      <4>2. u \in Range(p_stopped'[prc])
        BY <1>13, <3>2
      <4> QED
        BY <1>2, <1>5, <1>6, <4>1, <4>2
    <3>3. CASE u \notin T
      <4>1. t_stopper'[u] = t_stopper[u]
        BY <1>2, <3>1, <3>3
      <4>2. /\ t_stopper[u] # None <=> t_status[u] # ACTIVE
            /\ t_stopper[u] # None =>
                 /\ t_stopper[u] \in LivePrims
                 /\ p_process[t_stopper[u]] = t_process[u]
                 /\ u \in Range(p_stopped[t_stopper[u]])
        BY <3>1 DEF GraphInv, Sleeping, Waiters
      <4>3. t_stopper[u] # None
              => u \in Range(p_stopped'[t_stopper[u]])
        BY <1>5, <1>13, <1>14, <3>1, <4>2
      <4> QED
        BY <1>2, <1>6, <1>7, <3>1, <3>3, <4>1, <4>2, <4>3
    <3> QED
      BY <3>2, <3>3
  <2>2. ASSUME NEW p \in LivePrims'
        PROVE  /\ \A u \in Range(p_stopped'[p]) :
                    /\ t_stopper'[u] = p
                    /\ t_status'[u] \notin {UNREGISTERED, ACTIVE}
               /\ p \in live' => Range(p_stopped'[p]) \subseteq live'
               /\ p_nb_stopped'[p] = Len(p_stopped'[p])
               /\ Cardinality(Range(p_stopped'[p])) = Len(p_stopped'[p])
    <3>1. p \in LivePrims /\ p \in Prims
      BY <1>6 DEF LivePrims, TypeOK, Prims
    <3>2. /\ \A u \in Range(p_stopped[p]) :
               /\ t_stopper[u] = p
               /\ t_status[u] \notin {UNREGISTERED, ACTIVE}
          /\ p \in live => Range(p_stopped[p]) \subseteq live
          /\ p_nb_stopped[p] = Len(p_stopped[p])
          /\ Cardinality(Range(p_stopped[p])) = Len(p_stopped[p])
      BY <3>1 DEF GraphInv, Sleeping, Waiters
    <3>3. \A u \in Range(p_stopped[p]) : u \in Tasks \ T
      BY <1>5, <1>12, <3>1 DEF Range
    <3>4. \A u \in Range(p_stopped[p]) :
            /\ t_stopper'[u] = p
            /\ t_status'[u] \notin {UNREGISTERED, ACTIVE}
      BY <1>2, <1>7, <3>2, <3>3
    <3>5. CASE p = prc
      <4>1. \A u \in T : /\ t_stopper'[u] = prc
                         /\ t_status'[u] \notin {UNREGISTERED, ACTIVE}
        BY <1>2, <1>4 DEF STOPPED, UNREGISTERED, ACTIVE
      <4>2. /\ p_nb_stopped'[prc] = Len(p_stopped'[prc])
            /\ Cardinality(Range(p_stopped'[prc])) = Len(p_stopped'[prc])
        BY <1>13, <3>2, <3>5
      <4> QED
        BY <1>2, <1>5, <1>13, <3>4, <3>5, <4>1, <4>2
    <3>6. CASE p # prc
      BY <1>2, <1>14, <3>1, <3>2, <3>4, <3>6
    <3> QED
      BY <3>5, <3>6
  <2> QED
    BY <2>1, <2>2, SleepingAfter
<1>16. FlagsClimb'
  <2>1. OverriddenLive
    BY OverriddenIsLive DEF GraphInv
  <2>2. p_overridden[prc] = None
    BY <1>5 DEF GraphInv, Overriding, Prims
  <2>3. ASSUME NEW p \in p_updated' \cap LivePrims, p_overridden[p] # None,
               t_stopper'[p_overridden[p]] # None
        PROVE  t_stopper'[p_overridden[p]] \in p_updated'
    <3>1. p \in p_updated /\ p_overridden[p] \in Tasks
      BY <1>2, <2>1, <2>2, <2>3 DEF OverriddenLive, LiveTasks
    <3>2. CASE p_overridden[p] \in T
      BY <1>2, <3>1, <3>2
    <3>3. CASE p_overridden[p] \notin T
      BY <1>2, <2>3, <3>1, <3>3 DEF GraphInv, FlagsClimb
    <3> QED
      BY <3>2, <3>3
  <2>4. ASSUME NEW u \in LiveTasks,
               t_status'[u] = STOPPED + STASK_STATUS_UPDATED
        PROVE  t_stopper'[u] \in p_updated'
    <3>1. u \in Tasks /\ u \notin T
      BY <1>2, <2>4 DEF LiveTasks, STOPPED, STASK_STATUS_UPDATED
    <3> QED
      BY <1>2, <2>4, <3>1 DEF GraphInv, FlagsClimb
  <2> QED
    BY <1>2, <1>6, <2>3, <2>4 DEF FlagsClimb
<1> QED
  BY <1>8, <1>9, <1>10, <1>11, <1>15, <1>16 DEF GraphInv

\* Closing a commit may clear the flags, all of them.
LEMMA CloseCommitGraph ==
  ASSUME TypeOK, TypeOK', GraphInv, CloseCommit
  PROVE  GraphInv'
<1>1. /\ UNCHANGED <<procVars, p_process, overrideVars, stopVars, live>>
      /\ Schedule
  BY DEF CloseCommit, primVars
<1>2. CASE UNCHANGED updateVars
  BY <1>1, <1>2, GraphFrame
<1>3. CASE /\ p_updated' = {}
           /\ t_status' = [t \in Tasks |->
                IF t_status[t] = STOPPED + STASK_STATUS_UPDATED
                  THEN STOPPED ELSE t_status[t]]
  <2>1. \A u \in Tasks :
          /\ SameStatus(u)
          /\ t_status'[u] = UNREGISTERED <=> t_status[u] = UNREGISTERED
          /\ t_status'[u] = ACTIVE <=> t_status[u] = ACTIVE
          /\ t_status'[u] # STOPPED + STASK_STATUS_UPDATED
    BY <1>3 DEF SameStatus, STOPPED, STASK_STATUS_UPDATED, ACTIVE,
       UNREGISTERED
  <2>2. UNCHANGED <<s_actives, t_stopper, p_stopped, p_nb_stopped>>
    BY <1>1 DEF stopVars
  <2>3. Placed' /\ TasksCounted' /\ ActivesExact' /\ Overriding' /\ Sleeping'
    BY <1>1, <2>1, <2>2, PlacedFrame, CountedFrame, ActivesFrame,
       OverridingFrame, SleepingFrame DEF GraphInv
  <2>4. FlagsClimb'
    BY <1>3, <2>1 DEF FlagsClimb, LiveTasks
  <2> QED
    BY <2>3, <2>4 DEF GraphInv
<1> QED
  BY <1>1, <1>2, <1>3 DEF Schedule

\* sched_resume_process changes the process's status alone.
LEMMA ResumeGraph ==
  ASSUME TypeOK, TypeOK', GraphInv, NEW prc \in Procs, ResumeProcess(prc)
  PROVE  GraphInv'
<1>1. /\ UNCHANGED <<s_processes, prc_tasks, prc_nb_tasks, t_process>>
      /\ UNCHANGED <<p_process, overrideVars, stopVars, updateVars, live>>
      /\ prc \in s_processes
      /\ prc_status' = [prc_status EXCEPT ![prc] = ACTIVE]
  BY DEF ResumeProcess, MayResume, primVars
<1>2. /\ UNCHANGED <<s_actives, t_stopper, p_stopped, p_nb_stopped>>
      /\ UNCHANGED <<t_status, p_updated>>
      /\ UNCHANGED <<p_overridden, t_overriders, t_nb_overrides>>
      /\ LiveTasks' = LiveTasks /\ LivePrims' = LivePrims
  BY <1>1 DEF stopVars, updateVars, overrideVars, LiveTasks, LivePrims
<1>3. \A k \in Procs : prc_status'[k] = UNREGISTERED
                         => prc_status[k] = UNREGISTERED
  BY <1>1 DEF ACTIVE, UNREGISTERED, TypeOK
<1>4. Placed'
  BY <1>1, <1>2, <1>3 DEF GraphInv, Placed
<1>5. TasksCounted' /\ ActivesExact'
  BY <1>1, <1>2 DEF GraphInv, TasksCounted, ActivesExact
<1>6. Overriding'
  BY <1>1, <1>2 DEF GraphInv, Overriding
<1>7. Sleeping' /\ FlagsClimb'
  BY <1>1, <1>2 DEF GraphInv, Sleeping, Waiters, FlagsClimb
<1> QED
  BY <1>4, <1>5, <1>6, <1>7 DEF GraphInv

-----------------------------------------------------------------------------
(* The invariant and the theorems *)

\* Nothing is registered.
LEMMA InitGraph == Init => GraphInv
<1> SUFFICES ASSUME Init PROVE GraphInv
  OBVIOUS
<1>1. LiveTasks = {} /\ LivePrims = {}
  BY DEF Init, LiveTasks, LivePrims
<1>2. Placed
  BY <1>1 DEF Init, Placed, UNREGISTERED
<1>3. ActivesExact /\ TasksCounted
  BY <1>1 DEF Init, ActivesExact, TasksCounted
<1>4. Overriding
  BY <1>1 DEF Init, Overriding
<1>5. Sleeping /\ FlagsClimb
  BY <1>1 DEF Init, Sleeping, FlagsClimb
<1> QED
  BY <1>2, <1>3, <1>4, <1>5 DEF GraphInv

\* Every call keeps the graph.
LEMMA NextGraph ==
  TypeOK /\ ThreadInv /\ GraphInv /\ [Next]_vars => GraphInv'
<1> SUFFICES ASSUME TypeOK, ThreadInv, GraphInv, [Next]_vars PROVE GraphInv'
  OBVIOUS
<1>1. TypeOK'
  BY NextType
<1>2. ASSUME NEW kind, Fault(kind) PROVE GraphInv'
  BY <1>2, GraphFrame DEF Fault, primVars
<1>3. CASE MutexNext
  BY <1>1, <1>3, MutexGraph DEF MutexNext
<1>4. CASE SemNext
  BY <1>1, <1>4, SemGraph DEF SemNext
<1>5. CASE ProcessNext
  <2> PICK prc \in Procs :
        \/ RegisterProcess(prc)
        \/ \E t \in Tasks : RegisterTask(prc, t)
        \/ \E m \in Mutexes : RegisterMutex(prc, m)
        \/ \E s \in Sems, n \in Takings : RegisterSem(prc, s, n)
        \/ UnregisterProcess(prc)
        \/ PauseProcess(prc)
        \/ PauseProcessAborts(prc)
        \/ ResumeProcess(prc)
        \/ ResumeProcessWild(prc)
    BY <1>5 DEF ProcessNext
  <2>1. ASSUME NEW m \in Mutexes, RegisterMutex(prc, m) PROVE GraphInv'
    BY <1>1, <2>1, ConstructGraph DEF RegisterMutex
  <2>2. ASSUME NEW s \in Sems, NEW n \in Takings, RegisterSem(prc, s, n)
        PROVE  GraphInv'
    BY <1>1, <2>2, ConstructGraph DEF RegisterSem
  <2>3. CASE PauseProcessAborts(prc) \/ ResumeProcessWild(prc)
    BY <1>2, <2>3 DEF PauseProcessAborts, ResumeProcessWild
  <2> QED
    BY <1>1, <2>1, <2>2, <2>3, RegisterProcessGraph, RegisterTaskGraph,
       UnregisterProcessGraph, PauseGraph, ResumeGraph
<1>6. CASE PrimNext
  BY <1>1, <1>2, <1>6, UnregisterPrimGraph DEF PrimNext, UnregisterPrimAborts
<1>7. CASE ThreadNext
  <2> PICK th \in Threads : \/ RegisterThread(th) \/ UnregisterThread(th)
                            \/ UnregisterTask(th) \/ UnregisterTaskWild(th)
    BY <1>7 DEF ThreadNext
  <2>1. CASE RegisterThread(th)
    BY <2>1, GraphFrame DEF RegisterThread, primVars
  <2>2. CASE UnregisterThread(th)
    BY <2>2, GraphFrame DEF UnregisterThread, primVars
  <2>3. CASE UnregisterTask(th)
    BY <1>1, <2>3, UnregisterTaskGraph
  <2>4. CASE UnregisterTaskWild(th)
    BY <1>2, <2>4 DEF UnregisterTaskWild
  <2> QED
    BY <2>1, <2>2, <2>3, <2>4
<1>8. CASE OpenCommit
  BY <1>8, GraphFrame DEF OpenCommit, primVars
<1>9. CASE CloseCommit
  BY <1>1, <1>9, CloseCommitGraph
<1>10. CASE UNCHANGED vars
  BY <1>10, GraphFrame DEF vars, primVars
<1> QED
  BY <1>3, <1>4, <1>5, <1>6, <1>7, <1>8, <1>9, <1>10 DEF Next, CommitNext

\* Processes, tasks and primitives agree with each other in every behaviour
\* of the scheduler: the inductive invariant of the theorems below.
THEOREM GraphInvHolds == Spec => []GraphInv
BY InitType, NextType, InitThreadInv, NextThreadInv, InitGraph, NextGraph,
   PTL DEF Spec

\* The active list holds exactly the registered tasks that nothing stopped.
THEOREM ActiveListIsExact == Spec => []ActivesExact
<1>1. GraphInv => ActivesExact
  BY DEF GraphInv
<1> QED
  BY <1>1, GraphInvHolds, PTL

\* A process counts exactly its registered tasks.
THEOREM ProcessesCountTasks == Spec => []TasksCounted
<1>1. GraphInv => TasksCounted
  BY DEF GraphInv
<1> QED
  BY <1>1, GraphInvHolds, PTL

\* A registered task sleeps on a primitive exactly when this primitive, one
\* in use, lists it, once: destroying primitives, exits, pauses and process
\* removals strand nobody.
THEOREM NobodyIsStranded == Spec => []StoppedExact
<1>1. TypeOK /\ GraphInv => StoppedExact
  <2> SUFFICES ASSUME TypeOK, GraphInv PROVE StoppedExact
    OBVIOUS
  <2>1. None \notin Prims
    BY DEF Prims
  <2>2. \A p \in LivePrims : p \in Prims
    BY DEF LivePrims, TypeOK, Prims
  <2>3. \A p \in LivePrims, t \in LiveTasks :
          t \in Waiters(p) <=> t_stopper[t] = p
    BY <2>1, <2>2 DEF GraphInv, Sleeping
  <2> QED
    BY <2>3 DEF GraphInv, Sleeping, StoppedExact
<1> QED
  BY <1>1, TypeCorrect, GraphInvHolds, PTL

\* A primitive in use overrides exactly the task that lists and counts it
\* among its overriders, a registered task of the same process.
THEOREM OverridesAreExact == Spec => []OverrideExact
<1>1. TypeOK /\ GraphInv => OverrideExact
  <2> SUFFICES ASSUME TypeOK, GraphInv PROVE OverrideExact
    OBVIOUS
  <2>1. \A p \in LivePrims : p \in Prims
    BY DEF LivePrims, TypeOK, Prims
  <2>2. OverriddenLive
    BY OverriddenIsLive DEF GraphInv
  <2> QED
    BY <2>1, <2>2 DEF GraphInv, Overriding, OverrideExact, OverriddenLive
<1> QED
  BY <1>1, TypeCorrect, GraphInvHolds, PTL

\* The propagations of sched.c, which stop at the first flag, miss no primitive:
\* above a flagged primitive or a flagged sleeping task, the next one is
\* flagged. A task that sleeps in between may have lost its flag.
THEOREM PrimitivesMissNoUpdate == Spec => []FlagsClimb
<1>1. GraphInv => FlagsClimb
  BY DEF GraphInv
<1> QED
  BY <1>1, GraphInvHolds, PTL
=============================================================================
