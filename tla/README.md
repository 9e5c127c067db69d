# Verification of the kernel toolkit

TLA+ models of `kernel_toolkit`, checked with TLC and proved with TLAPS. Paths
are relative to the repository's root (`src/` here).

## 1. Inventory

| Part | Source | State | Operations | Hard behaviour |
| --- | --- | --- | --- | --- |
| Scheduler core | `src/sched/sched.c`, `include/sched/sched.h` | tasks, threads, primitives, processes and the lists, back references and counters that link them; the commit index and flag | register and unregister each kind of object, stop, resume, own, override, open and close a commit, pause and resume a process | calls of several threads and of the kernel interleave under one spinlock; lists, references and counters are updated by different calls and must agree; the commit index wraps |
| Mutexes | `src/sched/mutex.c` | one primitive: owner count, overridden task, waiters | lock, non-blocking lock, unlock | exclusion, waiters, ownership by the overridden task |
| Semaphores | `src/sched/sem.c` | one primitive and a capacity | take, non-blocking take, release | takers are counted, not recorded |
| Scheduling policy | outside (`struct sched_ops`) | priorities | `s_schedule`, `s_assign_all`, `s_assign_one`, notifications | called back in the middle of the scheduler's calls |
| Task manager | `src/taskman.c` | free list, per-context ready flag, tree of contexts | execute a context, add to and remove from the free list | contexts race with the code that makes them ready, and with an abort flag; locks are still TODO |
| Relocatable loader | `src/loader/loader.c` | tables of an ELF image, symbols, error context | initialise, assign sections, assign symbols, apply relocations | errors thrown in the middle of an image; values that are input and output of the same call |
| x86-64 relocation | `arch/rel_x86.c` | none | `rel16`, `rel32`, `rel64` | width and sign at the boundary |
| ELF identification | `src/loader/elf.c`, `include/loader/elf*.h` | none | compare the identification bytes | none |
| Build, test | `Makefile`, `kerneltk.mfn`, `arch/x86.mk`, `test/` | none | | none |

How they interact. A thread calls a mutex or a semaphore for the task it
executes; these call the primitive functions of `sched.c`, which change the
object graph and call back the policy, which in turn calls
`thread_assign_task`. The kernel opens a commit, which makes every thread
inactive, changes processes and threads, and closes it, which reschedules and
reassigns all threads. Every call runs with the scheduler's spinlock held
(`sched.h:393`). Lists, spinlocks, `ns_check` and exceptions come from a library
outside the repository. The loader and the task manager do not use the scheduler.

What makes each part correct:

- scheduler: a task on at most one thread; a thread runs only what is
  schedulable; the active list, the stopped lists, the histories and all counters
  say the same; update flags reach whatever depends on a change; threads are idle in a
  commit;
- mutexes and semaphores: exclusion, capacity, nobody asleep on what is free,
  no rightful release refused;
- task manager: a context made ready is executed exactly once, abort ends every
  context, a context is in the free list exactly while it waits;
- loader: a load that reports success has placed every symbol and applied every
  relocation, once; a relocation stores the value it was given or reports an
  overflow.

`PROJECT.json` lists the hazards with the line where each one bites.

## 2. Modules

| Module | Models | Composes |
| --- | --- | --- |
| `Sched` | the object graph (VARIABLES), the type invariant, and the internal functions of `sched.c` as operators: propagation, assignment, ownership, overriding, stopping | |
| `Mutex` | the calls of `mutex.c`, one action per outcome | `Sched` |
| `Sem` | the calls of `sem.c`, one action per outcome | `Sched` |
| `Kernel` | registration, commit and process calls, and the whole system: `Init`, `Next`, `Spec` | `Mutex`, `Sem` |
| `KernelProps` | the properties | `Kernel` |
| `Locks` | abstract: what `mutex.h` and `sem.h` promise tasks | `Total` |
| `KernelRefines` | the scheduler as an implementation of `Locks` | `KernelProps`, `Locks` |
| `MCKernel` | the symmetry sets for TLC | `KernelRefines` |
| `Total` | the sum of a function's values, without a fold | |
| `KernelProofs` | theorems: types, threads, commits | `KernelProps` |
| `KernelGraphProofs` | theorems: lists, counters, overrides, update flags | `KernelProofs` |
| `TotalProofs` | lemmas about `Total` | `Total` |
| `KernelLockProofs` | theorems: owners, takings, sleepers | `KernelGraphProofs`, `TotalProofs` |
| `KernelRefinesProofs` | theorem: the scheduler implements `Locks` | `KernelRefines`, `KernelLockProofs` |
| `TaskManager` | `taskman.c`, by steps of contexts that run concurrently | |
| `Pool` | abstract: what the comment of `taskman_exec` promises | |
| `TaskManagerProps` | the properties, and the task manager as an implementation of `Pool` | `TaskManager`, `Pool` |
| `TaskManagerProofs` | theorems | `TaskManagerProps` |
| `Relocation` | `rel_x86.c`, as pure operators | |
| `Loader` | the three calls of `loader.c` on one image | `Relocation` |
| `LoaderProps` | the meaning of an image and the properties | `Loader` |
| `MCLoader` | small images | `LoaderProps` |
| `RelocationProofs` | theorem about the range check; lemmas on remainders | `Relocation` |
| `LoaderProofs` | theorems | `LoaderProps`, `RelocationProofs` |

### The scheduler's state

Variables have the names of the fields: `t_status` is `struct stask`'s, `th_task`
is `struct sthread`'s `t_task`, `p_stopped` is `struct sprim`'s and `prc_tasks` is
`struct sprocess`'s `p_tasks`. Three exceptions: `p_nb_owning` is
`p_nb_owning_tasks`, `p_nb_stopped` is `nb_stopped_tasks` and `t_nb_owned` is
`t_nb_owned_primitives`. A function from objects to
values is one field of all objects of a kind. A pointer is an object or `None`. A
list is a set where its order is never read; `p_stopped` is a sequence.
`p_updated` is the set of primitives whose `p_status` has the update flag. A
process stands for the primitive `p_prim` embedded in it.

A task's status and its update flag share a word in the code, and
`STASK_STATUS_UPDATED` is the bit of `SCHED_STATUS_ACTIVE`. The model keeps the
word: `t_status` ranges over 0..3, a task that is active looks flagged, and a
stopped task that is flagged has status 3.

Three variables are no field. `live` holds the registered tasks, mutexes and
semaphores, for which the code has no flag. `held` records who took a semaphore,
which the code does not. `fault` is "none" until the machine stops:
"abort" when a debug build's `ns_check` finds a false condition, "wild" when
a list is walked with the wrong member or a list head is taken for an element, so
that the code works on memory that is no object. Nothing is promised after
either: a fault ends the behaviour, and leaves the other variables as the call
found them.

### The scheduler's calls

A call is one action, because it holds the spinlock: it includes the propagation,
the list and counter updates and the policy's choice of a next task. A call with
several outcomes is one action per outcome (`MutexUnlock`, `MutexUnlockFails`,
`MutexUnlockWild`). A call that returns without a change (a failed non-blocking
lock, an unlock by a task that is not the owner) is a stuttering step. A null
pointer, a primitive of another process, or a commit function outside a commit
aborts in the code by documentation, and is a guard of the caller here. Checks
that a correct caller can still fail are modelled: `ResumeAborts`, `PauseAborts`.

The policy is external. `Assignments` lets it choose any assignment that gives a
task to one thread only and leaves no thread idle while a task is
available. `Schedule` lets it keep or clear the update flags when a commit is
closed; the flag of an active task cannot be cleared without destroying its
status, so only stopped tasks are concerned. The notification hooks are taken to
change nothing of the scheduler.

A task is registered once, and a process too: registering an object again while
old lists still lead to it is undefined for the code (`sched.h:19`). Mutexes and
semaphores are constructed again after they are unregistered, threads registered
again.

### The lock service

`Locks` knows resources with a capacity, who holds how many takings of each and
who sleeps on it; it has no threads, commits, lists or counters. `KernelRefines`
maps the scheduler to it: a mutex is a resource of capacity 1, held by the task it
overrides, `p_nb_owning` times; the holder of a semaphore is the callers' record
`held`; sleepers are the tasks of `p_stopped`. A commit, a pause, an assignment or a
fault is a stuttering step of the service, a process's removal destroys all its
resources at once. `HandOver`, a release that passes the resource to a waiter, is
promised and never taken: the code reaches a fault there (`unlock_hands_over`).

### The task manager

A context is one call of `taskman_exec`, together with the `struct taskman_task`
in its stack frame. `pc[c]` is a label of `taskman_exec` or a function it is in. The
code is unlocked in most places, so a step is one stretch between two
points where another context can be noticed: a lock or an unlock, a read of the
abort flag or of `t_ready`, a list operation, a call out of the module. What lies
between two such points touches only the context's own frame. `adding`,
`checking` and `removing` are the three places between lock and unlock, `pc` "done" is
a frame that is gone.

- *The lock.* `mgr_lock` and `mgr_unlock` are TODOs. `Init` chooses
  `exclusive`: TRUE is what their comments say, FALSE the code as it is,
  where `Acquire` takes nothing and critical sections overlap. The properties of the pool
  are stated for `exclusive`; without it hardly any holds.
- *Garbage.* Nothing initialises the frame: `Enter` picks `t_ready` and `t_root`
  from any values, `t_args` (the function and its arguments) is `Garbage`, and the
  list node was never written (`t_linked`). Inserting it may go wrong, and may as well
  work, if the garbage happens to be a list. `dirty` records whose garbage read as
  ready.
- *Outside.* `RaiseAbort` sets a flag, which nothing clears. `PickFree` and
  `StoreInit` are the other execution context that takes a task off the free list
  and calls `task_init` on it, under the lock where it excludes, as the comments
  expect of `taskman_add_subtask`, which has no body. Nothing orders its
  stores and the waiting context reads `t_ready` without the lock, so `StoreInit`
  makes them visible in either order. `m_ready` hands out any root that is not out,
  or one of the two kinds of delay; `m_cleanup` has it back.
- *Histories.* `given` is what a context was given to execute and has not, `out` the
  roots handed out, `init` the `task_init` in progress.
- *Faults.* `fault` is "wild" once the code works on memory that is no object: two
  list operations or tree insertions overlap, the tree holds a node of a frame that is gone, a
  function is called that was never stored. The tree keeps too many nodes rather than
  too few: an overlap that loses one is left out, since a fault possible with fewer
  nodes is possible with more.

The manager lies in zeroed memory (`taskman_init` leaves `m_tree` alone), and
functions executed return.

### The loader

An image is a record chosen by `Init`: the section headers as `loader_init`
finds them, with the fields the loader reads, the entries of each table, and the
caller's definitions and queries. What the loader writes into the image has
variables of its own: `sh_addr`, `sy_value` and `field` (the relocated words), and
`queries` is the caller's list as the load answers it, so that the properties can
compare them with the image as it was compiled and with what the caller asked. `phase`, `sec` and `ent` are the call that runs and
its two `TABLE_ITERATE` places. A step handles one section header or one
table entry, with all the checks made there; a table is entered in a step of its
own, where its header, its linked section and, for relocations, the section
to relocate are checked. The list of queries is a sequence of names, some of which may
be the same, and some defined before the load: `Answers` defines the first that waits
for the symbol's name, and stops there. `Fails` is a throw or an early return: the call ends, and
what it had written stays.

`ImageOK` says what an image can be: a section table, with offsets, symbol values and
symbol indices in the ranges of the structures' fields. Nothing in it is about links,
types or names, so it rules out no defect the loader looks for. `sym_def_find`, a loop
over the caller's list, is the first index that the community modules'
`SelectInSeq` finds.

The caller calls in order and stops at the first code that is not 0, as
`loader.h` asks. The library's exceptions are external: a throw ends
the `try` block with the code thrown. Further assumptions: section indices fit
in 16 bits, tables hold whole entries, relocated fields overlap neither
each other nor a table. `-sval` of the least `s64` is undefined; `Magnitude` has
what the build makes of it. Entries of 0 bytes, on
which `TABLE_ITERATE` would stand still, are refused before a table is entered, as the
code does it (`EntsizeError`); so is a string table with entry size 0, which compilers
emit and which then stops a load. Without sized headers (`e_shentsize` 0) the section
table is empty for `TABLE_ITERATE`, an image without sections. A list of queries or
definitions that ends in a cycle is not expressed.

## 3. Properties and runs

The runs of the scheduler use `MCKernel`. They do not check deadlock: a behaviour
ends at a fault, or when the model's bounds leave nothing to do.

`kernel_core`: 2 threads, 2 tasks, a mutex and a semaphore of one process, with
capacities 1 and 2, 2 commits, debug build; a task releases a semaphore only after
taking it. Two threads are what it takes for a race on a task, a mutex and a
semaphore for a chain of overriding (one task waits on the semaphore while the mutex
it owns is waited for), two commits for a task to change threads and for flags to be
cleared in between.

- `TypeOK`, the type invariant;
- `HistoryExact`: a thread's task is in its history, histories and tasks name
  each other and sizes are right: so no two threads run one task;
- `RunningIsSchedulable`, `IdleWhileCommitOpen`: what an active thread runs, and
  that none is active in a commit;
- `ActivesExact`, `StoppedExact`: each registered task is in the active list, or
  once in the list of one primitive in use, as its status says;
- `FlagsClimb`: propagation, which stops at the first flagged object, misses no
  primitive. It says nothing of the task between two primitives, which
  propagation does miss (`stop_unflags`);
- `NoPreemptionOutsideCommit`, `OnlyItselfLeavesActives`: what a step outside a
  commit may do to threads and to the active list;
- `MutexExclusion`, `LockNotStolen`, `SemTakersCounted`, `NoLostWakeup`,
  `OwnerCounterCovers`: owners, takings and sleepers agree with the counters, and a
  rightful release does not fail;
- `LocksImplemented`: every call is a step of the lock service, or changes nothing of it;
- `ThreadInv`, `GraphInv`, `LockInv`: the invariants that prove all of these.

The code does not check that the releaser took the semaphore. Without the assumption
a task can use up the ownership count of its own mutex, whose unlock then fails half
way (`MutexUnlockFails`, `SemReleaseFails`), and the properties of locks do not hold.
`kernel_processes` makes no such assumption and runs through these failures: what it
states of lists and overrides survives them.

`kernel_processes`: 2 processes, one thread, 2 tasks, a mutex and a semaphore, release
build, and a commit index of width 3 (`UsizeMax` = 2) that two commits bring to
`(usize) -1`, which also stands for "never". One thread is enough for what is new
here: processes change in a commit, when no thread runs, and the tasks of both
processes block one after the other. Pauses succeed and stop even tasks that have
exited. `ActivesExact`, `StoppedExact`, `OverrideExact`, `TasksCounted`, and again
`IdleWhileCommitOpen` and `RunningIsSchedulable`. That the index may pass
`(usize) -1` and wrap to 0 is not in reach of the run; the proof covers it, for
every width. In a debug build every pause of an active task aborts at `sched.c:452`
(`PauseProcessAborts`), since the commit in which it is made has moved the index away
from the task's; the release build goes on.

Four runs show a disagreement of the code with its headers, each with a property
that states the header's sentence: `unlock_hands_over`, `exit_releases`,
`resume_restarts` and `stop_unflags`. `PROJECT.json` quotes the lines under
"findings". Because of the first, no mutex or semaphore with waiters is ever
released without a fault: in the passing runs waiters are resumed only when the
primitive is destroyed.

`stop_unflags` takes 3 tasks on one thread. A task a owns a mutex that b, who took
a semaphore, waits for; a falls asleep on the semaphore, and the assignment of its
status erases its flag, while the mutex keeps its own; the next task that waits for
the mutex stops its propagation there, so a is not flagged although its overriding
tree has grown (`ModifiedTreeFlagged`).

`taskman` uses `TaskManagerProps`: two contexts, one root, one sub-task. Two contexts
are what it takes for a race on the list, on the tree and for the root, beside
the context that initialises tasks, which is a third. Without a lock one of
them enters only (`Unlocked`); it still races with the initialiser. A context
executes and offers itself any number of times. Deadlock is not checked:
contexts leave.

- `PoolInv`: lock, list, flags and functions of all contexts agree under a lock;
- `FreeListExact`: the free list is exactly who waits for something;
- `NothingGivenIsLost`: what was given while a delay ended or an abort was seen is
  executed nevertheless;
- `RootsRecycledOnce`: a root is with one context, marked, until `m_cleanup` has it;
- `WildHasCause`: the five places, and no others, where a locked manager goes wrong;
- `AbortStops`: whoever's flag is raised leaves, lock or no lock;
- `PoolImplemented`: all of it together, as a refinement of `Pool`.

`executes_garbage` shows, with one context, that a context may execute what nobody
gave it.

`load` uses `MCLoader`: a word of 32 values and a field of 8, so that sums wrap and
distances exceed a field; 6 sections, a symbol table of 3 entries and a
relocation table of 2. The images vary in three groups: what comes before
relocation (kind of data section, string table, linked sections, names, section
indices, definitions, a list of queries with a repeated name and one that was answered
before), relocation tables (both kinds, null and outlying symbols, addends,
types), and the address of the target, which takes every value of the word
but 0. Every error of the loader occurs. Deadlock is not checked: a load ends.

- `SymbolsPlacedOnce`, `QueriesAnswered`, `RelocatedPrefix`: at every moment, also
  behind an error, entries that were passed are as the image means them, and the
  others untouched;
- `FitsAccepted`, `NearReached`: no distance that a signed field can hold is refused,
  and of the fields that were stored these, and no others, lead to their targets;
- `LoadInv`: the invariant that proves all of these;
- `LoadEnds`: every load ends, under `WF_vars(Next)`: the loader is sequential
  code that waits for nothing, so it goes on as long as it has a step to take.

`load_reports`, `load_truncates` and `load_answers` show three disagreements on the
same images: a failed relocation is not reported to the caller; a distance that fits
the field only without a sign is stored; and a query is answered by a symbol that the
executable does not define but has from the caller, where the header speaks of
defined symbols. `QueriesAnswered` states what the code does with queries, whose
symbols these are included.

Bounds. Scheduler: `CommitBound` (commits opened), `OwnedBound` (primitives a task counts as
owned, which grows without end when a mutex is destroyed locked and
constructed again) and `UsizeMax` (the word). Task manager: `Unlocked`; nothing else
grows.

Mutants. Definitions whose comment says "Mutant of" are not used by the
specification. Each is a plausible bug in the definition that follows it; with it
in place TLC finds the property violated that PROJECT.json pairs it with. They
show that the properties depend on the code.

Fairness. `LoadEnds` needs that the one caller goes on. `AbortStops` needs, for each
context, weak fairness of its own steps, because a context that is scheduled
goes on, and strong fairness of the steps that take the lock, because others
take it in between: a lock that is granted in turn, which the TODOs leave open,
and without which a context could starve. It needs that whoever runs `task_init`
finishes it. Seeing `t_ready` set (`Wake`) is not fair, since the field is not
volatile and the compiler may read it once; entering, raising flags and
initialising tasks are up to the callers. That a context which was given a task executes it is therefore
not promised without an abort. No liveness is stated of the scheduler:
whether a task runs is the policy's choice, and whether a waiter wakes is up to a
call that faults.

## 4. Proofs

Every theorem holds for all values of the constants that satisfy the module's
ASSUME: sets of any (for the scheduler: finite) size, words, fields, capacities and
commit indices of any width. The bounds of section 3 are constants like the others, so
they restrict no proof: `CommitBound` above `UsizeMax` bounds nothing, and
every finite behaviour stays below some `OwnedBound`.

### Threads and commits: `KernelProofs`

Under `ConstantsOK` (finite disjoint sets of objects, a word of at least two
values):

- `TypeCorrect`: `Spec => []TypeOK`. `TypeOK` is inductive. One lemma types each
  internal function of `sched.c` (`OverrideType`, `AssignTasksType`,
  `StopTaskType`, ...), one each group of calls, and `NextType` puts them together.
- `ThreadInvHolds`: `Spec => []ThreadInv`. None of `HistoryExact`,
  `IdleWhileCommitOpen` and `RunningIsSchedulable` is inductive alone. A thread is
  idle in a commit because its index was the commit's when no commit was open
  (`Stamped`), and runs an `ACTIVE` task because outside a commit its task is in
  the active list (`Current`), where only `ACTIVE` tasks are (`Listed`). A thread
  that blocks leaves the other threads' tasks in the list because they are other
  tasks (`HistoryExact`); a new task or thread disturbs no history because it
  appears in none (`Registered`, `Forgotten`). Two lemmas carry the steps:
  `AssignKeeps` for the calls that assign threads, with what the policy may choose
  as hypotheses, and `QuietKeeps` for all others.
- `HistoryIsExact`, `CommitIsIdle`, `RunningTasksAreSchedulable` follow.
  `CommitIsIdle` holds for every width of the index: opening a commit changes the
  index, and no thread keeps a stamp from before the last closing.
- `NobodyIsPreempted`, `OnlyRunningTasksLeave`: the two action properties, from
  `ThreadInv` in the state before the step.

The proofs use of the policy that it gives no task to two threads and chooses
among the tasks it is offered; that it leaves no thread idle needlessly is
not used.

### Lists, overrides and flags: `KernelGraphProofs`

`GraphInvHolds`: `Spec => []GraphInv`. From it `ActiveListIsExact`,
`ProcessesCountTasks`, `NobodyIsStranded` (`StoppedExact`), `OverridesAreExact` and
`PrimitivesMissNoUpdate` (`FlagsClimb`). The properties speak of what is in use; to be
inductive they need three things more:

- `Placed`: tasks and primitives in use belong to processes in use, and a process
  lists its tasks, those that exited too, because an exit does not unlink them;
- `Overriding`: the two sides of an override agree for primitives that are out
  of use as well. When a process is removed, its mutexes still name the tasks they
  overrode, and those tasks are registered nowhere again;
- `Sleeping`: a task sleeps on a primitive of its own process, so that the
  destruction of a primitive or of a process leaves no waiter of another behind.
  A waiter of a process's own primitive may have exited: a pause stops it all the same.

`FlagsClimb` says that propagation, which stops at the first flagged object, misses
no primitive; that it can miss a sleeping task between two primitives is what
`stop_unflags` shows. The set of primitives that `primitive_propagate_update` flags is defined
as what every set closed under a turn of the loop contains, so no induction is
needed: it is closed up to flags (`PropagationClosed`), and flagging a closed
set, the tasks it overrides and tasks that sleep below it keeps updates climbing
(`ClosedClimbs`), on graphs of any shape, deadlocks' cycles included.
`StopTaskGraph` and `OverrideGraph` use it where the code propagates between two
changes of the graph; `UnregisterPrimGraph` and `PauseGraph` treat calls that walk
whole lists.

### Locks: `KernelLockProofs`, `TotalProofs`

`LockInvHolds`: `Spec => []LockInv` if callers release only what they have
taken (`OwnersOnly`). Without this the code breaks the property (section 3), so it is a
hypothesis of the theorems: a promise of the callers, stated as such. `MutexesExclude`,
`TakersAreCounted`, `NoWakeupIsLost`, `OwnersAreCovered` and the action property
`LocksAreNotStolen` follow. The invariant rests on `GraphInv`: a mutex is owned by
the task it overrides, and the two sides of this must agree for the task's counter to
cover it. What it adds is `Unheld`: a semaphore that someone has takings of is in
use, or its process was removed, so that one constructed again starts without takers.
A rightful release cannot fail because the owner's counter covers the taking that
it gives back (`OwnerReleases`, `TakerReleases`).

The counters are sums over all tasks or semaphores. `Total` is the number of
units of a function, a cardinality, so what one step does to a sum follows from
the theorems about finite sets (`TotalRaised`) and needs no fold.

### The lock service: `KernelRefinesProofs`

`SchedulerImplementsLocks`: `Spec => LocksImplemented`, again under `OwnersOnly`.
`View` and `ViewAfter` read the refinement mapping resource by resource. Six lemmas
(`Takes`, `Gives`, `Sleeps`, `Creates`, `Destroys`, `Skips`) say what must change for a
step of the service; the lemmas `...Step` show it of each call. A blocked task was awake
before it called (`CallerIsAwake`, from `ThreadInv` and `GraphInv`), and what it
sleeps on is full (`LockInv`). Commits, pauses, assignments, exits and faults
stutter (`Unseen`). The service's `HandOver` is never taken: its place in the
code is the fault that `unlock_hands_over` shows, so the theorem promises nothing
about who is woken by an unlock.

### The task manager: `TaskManagerProofs`

For any finite or infinite sets of contexts, roots and sub-tasks under
`DistinctValues`:

- `TaskTypes`: `Spec => []TypeOK`;
- `PoolInvHolds`: `Spec => []PoolInv`. `NothingGivenIsLost` and `FreeListExact` are not
  inductive: a task must not become ready between the check in
  `mgr_remove_free_task` and its removal, which holds since the lock is with the
  context (`LockHeld`), and the initialiser holds it from the moment it unlinks a
  task until both stores are done, so that `given` and `t_ready` differ only in between
  (`GivenIsReady`, `UngivenIsFree`). A task in the list was given nothing, and a
  context that runs is in no list unless its garbage made it run
  (`FreeIsUngiven`). `ContextKeeps` takes the steps of a context, `OutsideKeeps` those
  of the others; whether the lock excludes never changes (`SameLock`);
- `NothingIsLost`, `FreeListIsExact` follow;
- `RootsAreRecycledOnce`: from `FrameInv`, inductive beside `PoolInv`: what was given
  is what the frame holds (`GivenIsStored`), a root is only in marked frames that
  execute it or have (`RootsAreMarked`), and is out while exactly one frame has it
  (`RootsAreHad`);
- `PoolIsImplemented`: `Spec => PoolImplemented`, step by step, from both invariants and
  from `LeaversAreAsked` (who leaves was asked to). `PoolStutters` and `PoolMoves` say
  what the pool sees of a step; without a lock it sees only the abort flags
  (`UnlockedRefines`);
- `WildHasACause`: a step that goes wild does so for one of the five causes named.
  Two list operations do not overlap under a lock (`LockedAlone`), so a wrong
  removal is none of them. A context that executes what it was not given was dirty or
  saw the flag before the function (`UngivenHasCause`); one that is gone while
  its task is initialised was dirty (`GoneHasCause`).

### Relocation and the loader: `RelocationProofs`, `LoaderProofs`

`NearIsExact`, under `WidthsOK` (even widths, the field's dividing the word's): a
distance within a signed field's range passes `Overflows`, and the field stored, its sign
extended, leads to the target, modulo the word. By the lemma `OnlyNearIsExact` no field leads
to a target beyond this range, so what the check accepts beyond (`load_truncates`) is
exactly what it stores in vain. The lemmas before them are what the proofs need of `%`.

`LoadInvHolds`: `Spec => []LoadInv`, for every image with `ImageOK`, whatever its
tables link to. From it `LoaderTypesHold`, `SymbolsArePlacedOnce`,
`QueriesAnsweredInOrder`, `RelocationsArePrefix`, `NearTargetsAccepted` and
`ReachedIsNear`. The properties compare what was written with the meaning of the
image as compiled, and lean on one another along the three calls:

- an entry is handled only in a table whose header and linked sections were
  checked when it was entered (`Entered`), so the section or symbol an entry refers to
  exists;
- a symbol's address is its compiled value, which it still has
  (`SymbolsPlacedOnce`), plus its section's address, which the first call has set
  (`SectionsPlaced`): `SymbolPlaced`;
- a relocation uses addresses of symbols that were all passed, so the value
  stored is the distance (`DistanceFound`, `FieldStored`) modulo the word, although every
  address in it was reduced before (`RelValueExact`);
- which symbol answers which query is a function that grows by one pair at most: a new
  symbol comes behind all that were passed (`GiversGrow`), and goes to the first query
  that waits (`AnswersStep`), before which all of the name have been answered;
- a problem ends the call it is met in (`Stopped`), so what was refused for its size
  is the entry the iteration is at (`RefusedIsFar`).

`MovePasses` and `EntryPasses` say which entries a step passes: none, or the one
it is at. `sym_def_find` is the image's meaning of a name because a set of numbers has a
least member, which is proved as the library's well-foundedness of strict inclusion
(`LeastMember`).

`LoadsAdvance`: every step of a load goes forward in the order of calls, sections
and entries, or ends the load. With the bounds in `PlaceOK` this is why loads are
finite; that they are also carried on until they end is `LoadEnds`, which needs
fairness.

### What is only model-checked

- `AbortStops` and `LoadEnds`: liveness, which takes ENABLED.
- The refutations (`expect` "violation"): a counterexample on one instance is all
  they need.

Every invariant and action property and both refinements of the passing runs are
theorems. What is not: how the library's recursive operators compute (induction over data
takes the induction theorems, which have an operator as a parameter). No proof here
needs it: propagation, sums and searches are defined by sets.

## 5. Plan

Done: the models, the two abstract specifications, and the proofs above. To come:

1. What remains true of mutexes without `OwnersOnly`, when anyone may release a
   semaphore.
2. `p_nb_primitives`, which is not the number of a process's primitives that
   `sched.h:208` calls it, and lists that keep tasks which have exited.
3. Histories in order, against "ordered by recency" (`sched.h:237`).
4. A caller of the loader that goes on after an error, as `test/main.c` does.

## 6. Not modelled

- The scheduler's spinlock (`sched_lock`, `sched_unlock`): both only call
  `arch_spin_lock_nb` and `arch_spin_unlock`, which are external. That calls of the
  scheduler exclude each other is taken from "must be called before any operation"
  (`sched.h:395`). The value `sched_lock` returns is documented in opposite ways in
  `sched.h:397` and `sched.c:984`; which is right depends on the external lock.
- The policy, beyond what it may choose; its notification hooks.
- `taskman_add_subtask`, `taskman_join`, which have no body, and `mgr_get_task`, which
  is unfinished and which nothing calls.
- Of the ELF headers, the constants and the layouts that the loader does not
  read (what it reads are the fields of an image's records), and the comparison of
  the identification bytes in `elf.c`: no state and nothing that could interleave.
- Build files and the manual test program.
