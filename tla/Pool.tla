-------------------------------- MODULE Pool --------------------------------
(***************************************************************************)
(* What taskman_exec promises, without locks, lists and flags: a context   *)
(* is free to be given something, or was given something and executes it   *)
(* exactly once before it offers itself again or leaves; it recycles a     *)
(* root after it executed it; it leaves only when it is asked to.          *)
(***************************************************************************)
CONSTANTS Contexts, Roots, Subs, None

VARIABLES
  status,  \* "away", "idle", "free", "given", "spent" or "gone"
  job,     \* what the context was given to execute
  asked,   \* the contexts that were asked to leave
  out      \* the roots that were handed out and are not recycled

poolVars == <<status, job, asked, out>>

Init ==
  /\ status = [c \in Contexts |-> "away"]
  /\ job = [c \in Contexts |-> None]
  /\ asked = {}
  /\ out = {}

Becomes(c, from, to) ==
  /\ status[c] = from
  /\ status' = [status EXCEPT ![c] = to]

Enter(c) == Becomes(c, "away", "idle") /\ UNCHANGED <<job, asked, out>>
Offer(c) == Becomes(c, "idle", "free") /\ UNCHANGED <<job, asked, out>>
Withdraw(c) == Becomes(c, "free", "idle") /\ UNCHANGED <<job, asked, out>>

GiveRoot(c, r) ==
  /\ Becomes(c, "idle", "given")
  /\ r \notin out
  /\ job' = [job EXCEPT ![c] = r]
  /\ out' = out \cup {r}
  /\ UNCHANGED asked

GiveSub(c, s) ==
  /\ Becomes(c, "free", "given")
  /\ job' = [job EXCEPT ![c] = s]
  /\ UNCHANGED <<asked, out>>

Execute(c) ==
  /\ Becomes(c, "given", "spent")
  /\ UNCHANGED <<job, asked, out>>

Recycle(c) ==
  /\ Becomes(c, "spent", "idle")
  /\ out' = out \ {job[c]}
  /\ job' = [job EXCEPT ![c] = None]
  /\ UNCHANGED asked

Ask(c) == asked' = asked \cup {c} /\ UNCHANGED <<status, job, out>>

Leave(c) ==
  /\ c \in asked
  /\ Becomes(c, "idle", "gone")
  /\ UNCHANGED <<job, asked, out>>

Next ==
  \E c \in Contexts :
    \/ Enter(c) \/ Offer(c) \/ Withdraw(c)
    \/ \E r \in Roots : GiveRoot(c, r)
    \/ \E s \in Subs : GiveSub(c, s)
    \/ Execute(c) \/ Recycle(c)
    \/ Ask(c) \/ Leave(c)

Spec == Init /\ [][Next]_poolVars
=============================================================================
