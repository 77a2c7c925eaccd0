# Verification of ouly

TLA+ models of ouly's task schedulers, of what is built on them and of the allocators and
tables beside them, checked by TLC on small instances, with theorems checked by TLAPS for all
instances.  Paths are relative to the repository.  `PROJECT.json` names, for every definition
that models code, the lines it models; it lists the runs, the mutants (one plausible bug at
least for each property, which the property must detect), the hazards and the findings.

## 1. The system

ouly is a C++20 library: task schedulers and parallel algorithms, allocators, containers,
an entity component system, serializers, reflection and small parsers.

| Component | State it keeps | Operations | What is hard | What makes it correct |
|---|---|---|---|---|
| Scheduler v3, `scheduler/v3`, `detail/v3` | groups with fixed members, a deque per member, a mailbox per group, `queued_`, `pending_`, `stop_`, one mutex and condition variable | begin, submit, busy_work, cooperative_wait, clear_group, wait_for_tasks, end | stealing, parking against notifying, helping inside tasks, full queues | each task runs once; counts agree; nobody sleeps on work; waits return, and only when all is done |
| Scheduler v2, `scheduler/v2`, `detail/v2` | groups with slots that workers enter and leave, `has_work_`, `pending_`, epoch, sleeper count and wake tokens | the same, plus entering and leaving groups | migration of workers between single-producer deques; parking without a lock | a slot has one holder; the same as v3 |
| Scheduler v1, `scheduler/v1`, `detail/v1` | a ring per worker and group, `tally_`, a sleep flag and a semaphore per worker | the same | the tally is raised after the push; stealing order; sleep flags | the same |
| Deque `spmc_ring` | `top_`, `bottom_`, a buffer | push_back, pop_back (owner), steal (thieves) | memory order, the last item, reuse of slots | a linearizable deque |
| Ring `mpmc_ring` | `head_`, `tail_`, a sequence number per slot | push, emplace, pop | claim and publication are two steps | a linearizable bounded queue |
| `concurrent_queue` | a chain of buckets with cursors and flags, a shared mutex | emplace, try_dequeue, for_each, clear | growth and retirement of buckets beside readers; constructors that throw | a queue in the order of the claims; no freed bucket is used |
| Task scope, `task.hpp` | list of nodes, `outstanding_`, `closed_`, first exception, mutex | run, join, join(ctx), reset, destructor | the last child against the destructor; children that give children | join returns, after all children, with an exception iff one threw |
| Tasks, `task.hpp` | continuation list that doubles as the completion flag, reference counts | submit, then, when_all, wait, get | adding a continuation against finishing; waits by helping | a continuation runs once, after its task |
| Flow graphs | counts of dependencies and of tasks | add, connect, start, wait, reset | order of the last decrement and of the notification; main-thread nodes | a node runs once, after its predecessors, and wait returns |
| Coroutine tasks | promise with continuation and flag | await, wait, resume on a scheduler | suspension against completion; who destroys the frame | resumed once, frame freed once |
| Parallel loops | a range and a count of blocks | parallel_for, auto_parallel_for | partition at the boundaries, the shared counter on the caller's stack | each index once; return after the last |
| Allocators | pages, free lists, blocks, bins | allocate, deallocate, defragment, reset | coalescing, moves, concurrent reuse | live blocks are disjoint, in range; nothing is lost |
| Containers, ECS | sparse and dense arrays, links, trees | insert, erase, lookup | several fields that must agree, revisions | links of the living lead to their elements, links of the dead to none |
| Serializers, reflection, DSL, utilities, platform | mostly none between calls | conversions | - | a matter of text and types |

Interactions.  A scheduler calls task bodies; a body may submit, wait, and by waiting run
other bodies on the same stack.  The scope, the tasks, the flow graphs, the loops and the
coroutine tasks submit closures to a scheduler and wait by helping it (`busy_work`,
`cooperative_wait`) or by blocking.  The deques and mailboxes are memory shared by the
workers; everything is signalled by atomics, one mutex and condition variable (v3) or
semaphores (v1, v2).

## 2. The modules

| Modules | Model | Left out |
|---|---|---|
| `SchedulerV3` | scheduler v3 over the abstract queues | - |
| `SchedulerV2` | scheduler v2 over the abstract queues | `clear_group`, the bitfield for more than 64 slots |
| `SchedulerV1`, with the order of its searches in `SearchOrder` | scheduler v1 over the abstract queues | `clear_group`, `take_ownership`, groups made after begin |
| `SpmcRing`, abstract `WorkDeque` | `spmc_ring`, with a store buffer for the owner | - |
| `MpmcRing`, abstract `WorkQueue` | `mpmc_ring` | - |
| `ConcurrentQueue`, abstract `TicketQueue` | `concurrent_queue` | `size`, `empty`, which change nothing |
| `TaskScope` | `basic_task_scope` over an abstract scheduler | - |
| `TaskState`, abstract `Future` | `basic_task`: submit_task, then, when_all, waits, reference counts | `co_await` of a task, failing allocations of `then` and `submit_task` |
| `FlowGraph`, abstract `TaskGraph` | `flow_graph`: construction with moves of nodes, start, waits, reset | - |
| `DynamicFlowGraph` | `dynamic_flow_graph`: triggers, batches, main-thread nodes, changes while it runs, stop and draining | - |
| `CoTask` | `co_task`: start, await, submission by reference and by move, waits, ownership of frames | results, allocator arguments |
| `ParallelFor` | `default_parallel_for`, `auto_parallel_for` over a scope | - |
| `SharedLinear`, `ThreadLocalAllocator`, abstract `Heap` | the two thread-safe linear allocators | moves of the shared one |
| `GpuAllocator` | `gpu_allocator` with evacuations whose copies may be refused, fail or come late | - |
| `FreeRanges`, `CoalescingAllocator`, `FirstFitDefrag`, `BestFitDefrag`, `ArenaAllocator` | the suballocators and their defragmentations | strategies `best_fit_v0`, `best_fit_v1`, `best_fit_tree`; statistics |
| `PoolAllocator` | `pool_allocator`: atoms and arrays of atoms | the other single-threaded allocators, see 7 |
| `SparseTable` | `sparse_table` with copies, moves and swaps | - |
| `Registry` | `ecs::registry`, with concurrent `emplace` | - |
| `SchedulerV3Proofs`, `SchedulerV2Proofs`, `MpmcRingProofs`, `SpmcRingProofs`, `TaskScopeProofs`, `TaskStateProofs`, `ConcurrentQueueProofs`, `SharedLinearProofs` | theorems, see 6 | |
| `MC...` | instances for TLC, see 3 | |

The rings are checked and proved once, against abstract queues whose operations are atomic but may
fail while another operation is in progress.  The schedulers use exactly those abstract
queues (the excuses to fail are `Unpublished`, `LostRace`), so that their state spaces do
not contain the rings'.  `TaskScope` uses a scheduler of which it assumes only what
`SchedulerV3` shows: a submitted closure is run once by a worker of its group, or by the
submitter itself on top of its stack while the queue is full.  So do `TaskState`, the graphs and `CoTask`, but with the two things that a scheduler does to the
stack of its callers: a submission to a full mailbox and a cooperative wait run queued
closures there.  `ParallelFor` uses of a scope what `TaskScope` shows.

### How state and actions correspond to the code

*Granularity.*  One step is one access to shared memory (an atomic, an acquisition of a
mutex, an operation of a queue or a semaphore) with the local code up to the next.  `pc[t]`
is the place in the code.  A mutex region that reads only what the mutex protects is one
step; where the data is also accessed without it (`complete_one`, the predicate of v3's
condition variable) the region is split, and the mutex is a variable or a `pc`.  The
single-threaded components have one step per call, with every change the call makes.

*Clients.*  The programs that use a scheduler are a parameter: `Script[x]` lists the calls of
the main thread, of a foreign thread or of the body of a task.  `stack[t]` holds the bodies
that thread `t` is executing, so a task that waits and helps has others on top of it.

*`SchedulerV3`.*  `deque`, `mailbox`, `queued`, `pending`, `stop`, `event` are the members of
the same name; `ctx` is the group in each worker's `context_`; `reg` holds the locals of
`try_execute_one`, `clear_group`, `wait_for_tasks`.  `TryGroup`, `TakeOwn`, `TakeMail`,
`TakeSteal`, `Sink`, `Chain`, `Exec`, `EndTask` are the path of an item; `ParkLock`,
`ParkCheck`, `ParkWait` the wait on the condition variable (spurious wakes included),
`NotifyLock`, `NotifyAll` `notify_workers`.  Membership and priority of groups are constants.
`submit` asserts that the scheduler runs; a foreign thread therefore submits only while it does.

*`SchedulerV2`.*  `free` is `small_mask_`, `place` the group and offset in the worker's
context, `sleeping`, `tokens` and `bumped` stand for `sleeping_`, `wake_tokens_` and
`park_epoch_` (all that matters of the epoch is whether it moved since a worker read it).
`EnterGroup`, `Enter`, `Leave`, `Vacate` and `Restore` are the migration, `Arm`,
`EpochCheck`, `Exit`, `Acquire`, `Woken`, `Disarm` the parking, `WakeEpoch`, `WakeRead`,
`WakeRelease` `wake_up_workers`.

*`SchedulerV1`.*  `queue` are `per_worker_queues_`, `tally` is `tally_`, `status` and `tokens` are
the flag and the semaphore of `wake_data_`, `wake` the workers that `wake_up` has still to visit.

*`SpmcRing`.*  The owner's stores go to a buffer that drains in order at any time; its fence
and compare-exchange wait for it to be empty.  An item is copied to a slot by two stores, so
a thief may read it torn.  *`MpmcRing`* is sequentially consistent; the compare-exchange may
fail spuriously, and slots are claimed, written and published in separate steps.
*`ConcurrentQueue`* has a step per access to a cursor, a flag or an element, under the shared
lock; the exclusive sections are one step, with nobody in the lock.

*`TaskScope`.*  `refs`, `claimed` are the members of a node, `queue` the closures in the
scheduler, `slot` the thread-local `scope_execution_slot`, `join` the locals of a join, and
`given`, `done`, `destroyed`, `aborted` are history variables for the properties.  A frame of `stack`
is a body in progress, with where the one below it goes on and the slot it had.  `Owner` is the body a
scope belongs to, and `LexicalAssumption` is what the assertions of `run`, `join`, `reset` and the
destructor ask of a program: a scope is given children by its owner while it is not closed and by its
own children, it is joined, reset and destroyed by its owner, the last two at rest, and not used any
more after it was destroyed.

*`TaskState`.*  `cont` is `continuations_`, a pointer to a node or the completion tag; `next` the
pointers that link the nodes; `refs`, `err`, `remaining`, `claimed`, `ctlErr` are `references_`,
`exception_` and the members of `when_all_control`.  A frame on `stack[t]` is a call of a node's
`run` or a program, with its place and its local pointers; what is below the top frame
continues when it returns.  Values are left out, since only the order in which value and tag
are published matters, and the exception shows it.  `hold` says who has handles; a handle
is copied and dropped by calls of the scripts.

*Graphs, coroutines, loops.*  The variables carry the members' names.  A frame of a stack is
a call in progress (`execute_node`, `notify_successors`, a closure, a coroutine that runs or is
being suspended, the `resume_coroutine` below it); a step is one access to an atomic, to the
scheduler's queue or to a semaphore.

*Allocators, tables, registry.*  `arenas`, `order`, `blocks` or `entries`, and the lists or
chains of what is free are the members; a block is a record of arena, offset and size.
`memory` is what the clients wrote to the blocks, so that a defragmentation that copies in a
wrong order shows.  In `GpuAllocator` a copy is planned, submitted, finished or cancelled by
calls of the client in any order.  A link of `SparseTable` and an entity of `Registry` are an
index and a revision; `erased` remembers those given back.

## 3. What is checked

Five runs pass; in `queues`, `schedulers`, `clients` and `memory` a behaviour uses one of
several components (`which`), the others stay as they are.

| Run | Instance | Properties |
|---|---|---|
| `v3` | 2 workers, 2 overlapping groups of different priority, a foreign thread, 4 tasks, queues of one item; a nested wait; `clear_group` meanwhile; two rounds of begin and end | `Conserved`: a task is in one place until it has run or was dropped.  `CountsExact`: `pending_` and `queued_` are right up to the operations in progress.  `NoLostWakeup`, `NoLostFinish`: nobody sleeps on work, on a stop or on the end of the last task unless a notification is on its way.  `CtxMatchesTask`: nested helping restores the context.  `WaitComplete`: waits return only when all is done.  `AllEnd`: the program ends |
| `queues` | deque: 2 thieves, 2 slots, 4 pushes; mailbox: 3 threads, 2 slots, 3 pushes; buckets: 2 threads, buckets of 2, 5 elements of which one's constructor throws | `Implements` (`MpmcRing` of `WorkQueue`), `OthersImplement` (`SpmcRing` of `WorkDeque`, `ConcurrentQueue` of `TicketQueue`).  `Distances`: the unsigned differences of the indices do not wrap.  `Exclusive`: no two threads use one slot.  `BucketsSafe`: nobody is in a freed bucket, and no element is lost with one |
| `schedulers` | v1: 3 workers (one the main thread), 2 overlapping groups, rings of one item, a task that submits and helps; v2: 2 workers, groups with 2 slots and with 1, 4 tasks, queues of one item, a task that helps; both waits | `SlotExclusive`: the deque of a slot has one producer, no slot is lost.  `AllCounted`, `NoneLeftAsleep`, `WaitsComplete`, `ProgramsEnd`: as for v3 |
| `clients` | scope: 3 threads, 2 groups, 2 scopes, 5 children, two of which throw; tasks: 7, one continued by two threads, a when_all whose allocation may fail half way, a nested wait, a mailbox of one item; a graph that is changed and run again; a cycle of nodes that is edited and stopped; 5 coroutines and five programs, two of which wait for a coroutine whose submitted start may be running; ranges of 0 to 28 elements | `CountsExact`, `JoinComplete`, `ScopeAlive`, `NeverAborts` of the scope.  `NoDangling`: no frame, list or queue has the address of a freed state, node or coroutine, except as `Lost` says (see 4).  `NoLostWakeup`: who waits will be notified, and a coroutine is resumed by one thread at a time.  `Implements`: `TaskState` of `Future`, `FlowGraph` of `TaskGraph`.  `Quiet`: a graph found finished is touched by nobody.  `BatchExclusive`: a batch belongs to one firing, no trigger is left over.  `VisitedOnce`: a loop visits each element once.  `AllEnd`: all ends and nothing is left allocated |
| `memory` | twelve machines, one at a time: two threads at the shared and at two thread-local linear allocators, with blocks that need padding or not (`mixed`) and a page of their own or not; GPU arenas of 5 units, and of 3 (`small`); coalescing, first-fit, best-fit and strategy-driven suballocators with a few blocks; a pool of 5 atoms; two sparse tables; a registry with two threads | `Implements`, `LocalImplements` (`Heap`): blocks never overlap.  `PagesOnce`, `OneUser`: a page of the shared, of the thread-local allocator has one place, the latter one user.  `LayoutExact`: used and free ranges cover the arenas once, neighbours are merged, counters and lists right.  `ContentsKept`: defragmentation moves contents along, and a copy in flight is of the allocation it was planned for.  `LookupsExact`: links and entities of the living are told from those given back, and the chain of unused slots visits each once |

The instances of `v1_wait` and `v2_parking` are those of `MCSchedulers` with one version only
(`Versions`) and, for v1, the program of a wait that returns early (`Early`).

Seven runs expect a violation, one for each disagreement in 4: `v2_parking`, `v1_wait`,
`flow_grow`, `dyn_trigger`, `co_frames`, `scope_own_group`, `task_ready_wait`.

*Bounds.*  Queues of one item make "full" and "empty" happen in every position; two groups
suffice for every relation a worker can have to a group (own, other, in both); two workers
and a foreign thread, or three threads, give every pair of roles at a queue (owner and
thief, two thieves, two producers) with a third party that disturbs.  The rings are gone
around again, so that stale indices of an earlier lap are met.  `PushBound` and
`EmplaceBound` limit how often; `TokenBound` caps stale wake tokens of v2 (a further one only
wakes a worker that finds nothing); `HelpRetries` and `IdleSpins` are small because a longer
spin repeats the same look.  The schedulers are finite because each task is submitted once.
Of the allocators, `CallBound`, `ResetBound`, `AllocateBound`, `BlockBound`, `FreeBound`,
`ArenaBound` limit how many calls are made or blocks, free slots and arenas there are at a time: sizes are
chosen so that a block can be smaller than, equal to and larger than a gap and that alignment
leaves padding.  `SlotBound` and `IndexBound` let a table grow beyond one pool; two revisions
make a revision come back after one erasure, which is why `LookupsExact` speaks of the link
that was erased last.  Of four GPU allocations three fill the first arena of 5 units, so that plans have
several moves; `small`, in which two fill one, has an allocation left for the time of an evacuation,
which may get the number of one that was evacuated and freed.  That the number of a cancelled move is given away
while another move of the plan is copied takes five allocations, which the run has no time for; the
properties hold for them with one budget and no dedicated arenas (724491 states).  The search `mini2` goes around its loop
more than once from nine free blocks on, and `BestFitDefrag` never has as many here: `MCMemory` therefore
assumes, and TLC evaluates, that its model finds the right place in every ascending sequence of up to 12
numbers.  Three batches suffice for `DynamicFlowGraph` to use one again, not for long chains of reuse.
In `memory` calls run out, so that run does not check deadlock.

*Fairness.*  All liveness properties assume that a thread that can take a step takes one:
threads are scheduled by the operating system, nobody waits for a spinning thread.  v3 has
in addition strong fairness for taking the mutex, which other threads take and release again
and again; std::mutex does not promise it but every implementation ends the starvation of a
waiter.  Spurious wakes are not fair: they may never happen.

## 4. Disagreements found

* **v2 parking** (`src/src/ouly/scheduler/v2/scheduler.cpp:181`, `:323`).  The comments call
  parking race-free because of the epoch check.  A worker keeps its slot from the epoch
  check until `workgroup.exit`.  A worker woken by a task submitted in between finds
  `has_work_` but no slot, and parks again; its token is spent.  With both parked the task
  stays queued until somebody submits again or helps.  Run `v2_parking`.  For this reason
  `schedulers` checks v2 with one worker beside the main thread, where it holds.
* **v1 tally** (`src/include/ouly/scheduler/detail/v1/workgroup.hpp:114`).  The tally is raised
  after the push, so an item can be run and discounted before it is counted; `wait_for_tasks`
  returns while the submitting task runs.  Run `v1_wait`.
* **`flow_graph` growth** (`src/include/ouly/scheduler/flow_graph.hpp:438`).  The move
  constructor of a node loses the count of its tasks; a run skips them.  Run `flow_grow`.
  The graphs of `clients` create their nodes first.
* **`dynamic_flow_graph` triggers** (`src/include/ouly/scheduler/dynamic_flow_graph.hpp:498`).
  Of two triggers between a `fetch_add` and its `fetch_sub` one makes no firing and is not
  carried over as documented.  Run `dyn_trigger`.
* **Coroutines moved to a scheduler** (`src/include/ouly/scheduler/awaiters.hpp:25`).
  `resume_coroutine` asks a frame whether it is done that another thread may have freed.
  Run `co_frames`.
* **Waiting for a submitted coroutine** (`src/include/ouly/scheduler/awaiters.hpp:132`).  The README's
  own example submits a coroutine by reference and waits for it, and the comment at `detail/co_task.hpp:179`
  is about that use.  The start is claimed by the submission, as the comment says, so it is not the owner that
  frees a frame too early; it is the waiter.  `wait` and `cooperative_wait` await the coroutine in one of their own
  (`sync_waiter`), whose frame holds the awaiter and frees itself at the end.  Once `await_suspend` has installed the waiter as
  the continuation, a worker that finishes the coroutine resumes the waiter to its end, while the waiting thread
  is still in `await_suspend` and reads `coro_` from the awaiter.  Run `co_frames`: its property
  `FramesKept` is violated only by a state in which this and the case above happen, so one trace shows both.
  `clients` has the same programs (`Awaited`, `Direct`).  What follows the read is undefined, so a
  behaviour ends there (`Lost`); all the others show that the coroutine is run once, that neither the queue nor an
  awaiter has the frame that the owner destroys after the wait, and that the wait returns.
* **`task_scope::join(ctx)`** (`src/include/ouly/scheduler/task.hpp:1181`).  The README says
  the join claims unstarted children.  A running child of another group may give the scope a
  child between the joiner's `take_nodes` and its load of `outstanding_`; the joiner then
  parks on a count that includes the new child.  If the joiner is the only worker of that
  child's group, the join does not return.  Run `scope_own_group`.
* **`wait(ctx)` on a complete task** (`src/include/ouly/scheduler/task.hpp:131`).  The check for
  "itself or an executing ancestor" comes before the look at the completion tag and follows
  the stack of the thread.  A finished task stays on it while it submits its continuations,
  and a submission to a full mailbox runs queued tasks inline: one that waits for the
  finished task terminates the program.  Run `task_ready_wait`.  The tasks of `clients` wait
  only for tasks that the waiting function has made itself; such a task started later
  than the waiter, so it is never below it on a stack, and waits of this kind have no cycle.

## 5. Observations

What the code does besides; none has a run, and but for the first no document of the repository says
otherwise.

* `arena_allocator`: `memory_move::is_moved` (`arena_allocator.hpp:182`) compares numbers of arenas of
  two banks, so a block that moves to the same offset of an arena with the same number is not
  copied.  The comments say that it tells a block in another position or arena (`:179`), that moves are executed "in correct
  sequence to prevent overwrites" (`:593`) and that "there is no overwrite" (`:662`).  `ContentsKept` is therefore
  stated for arenas in the order of their numbers only; TLC finds a counterexample to
  `ContentsAlwaysKept`, the same without that condition, in 13 states.  Dedicated
  blocks do not record their alignment (`:352`).  `strat/greedy_v0.hpp:172`: the chain of
  unused slots follows the wrong half of the pair, so all but the slot erased last are lost;
  the growth is modelled and cut by `FreeBound`.
* `pool_allocator`: `deallocate` of an array reads the length of a null run when all atoms are
  given out; the model gives back an array only while another is free (`arrays # <<>>`).  Its move assignment does not
  compile.  `sparse_table`: `shrink_to_fit` of a table that never had a pool leaves one
  item pointer without a pool; hazard numbers start again at 0 after `clear`.
* `registry`: the type of `revisions_` is that of `RevisionBits` only at widths 8 and 16;
  `sort_free` without `shrink` mixes entities that are handed out into the free prefix.
* `linear_arena_allocator`, `linear_stack_allocator`: move assignment forgets the arenas held before.
  `ts_shared_linear_allocator` returns a null pointer in a case the comment at
  `ts_shared_linear_allocator.cpp:348` excludes.  `ts_thread_local_allocator`: move assignment loses the pages of its target,
  and an allocator that is used after it was moved from shares a generation (`:72`, `:83`).
  `gpu_allocator.cpp:587`: an arena may stay empty without being dropped.
* `concurrent_queue::size` (`:411`) and `mpmc_ring::size` (`:186`) read two cursors one after the
  other, so the difference may wrap.
* v2 `clear_group` leaves `pending_` as it is (`scheduler.cpp:553`); the bitfield of more than 64 slots
  shifts by more than the width (`workgroup.hpp:119`).  v1 starts the search for nearby victims at the
  index of the thread rather than its offset in the group (`scheduler.cpp:245`).

## 6. What is proved

For every number of workers, threads, groups, tasks and events, every queue size and every
script that satisfies the assumptions, unless said otherwise.

**Scheduler v3.**  The assumptions are those a caller of the scheduler must meet: tasks, threads
and `None` are distinct, groups have members, calls have arguments of their kind, begin, wait and
end are called by the main thread, waits with help by workers; and `OnceAssumption`, by which a
task stands for one submission (it names the submission, a function submitted twice is two tasks).

* `TypeCorrect`: `Spec => []TypeOK`.  `TypeOK` holds the types and `LocalsOK`, which says that
  a worker that takes or holds an item took it from a group it belongs to; it is inductive.
  One lemma per action, over small lemmas on the helpers that many actions share.
* `WakeupTheorem`: `[]NoLostWakeup`.  Alone it is not inductive: a worker that has evaluated
  the predicate of its wait but does not sleep yet is not mentioned by it.  `WakeInv` adds
  that the mutex has one holder (among the threads that evaluate the predicate or are about
  to sleep) and that, whenever the predicate of a thread about to sleep has become true behind
  its back, somebody is still waiting for the mutex in `notify_workers`: that thread cannot
  notify before the first one sleeps.  `Quiet` covers the actions that make no work appear
  and do not park, `Loud` those that end before the lock of `notify_workers`.
* `PlaceCorrect`, `ConservedTheorem`: `[]PlaceInv` and `[]Conserved`.  A task that is submitted
  and not done is on its way in, in a queue, in hand or running.  `PlaceInv` says that each
  of the four is in one place (`QueueOnce`, `HandOnce`, `StackOnce`), that they are disjoint (`Apart`)
  and that their union is what is live; that `pending_` is the number of live tasks
  (`Pending`); which call each thread and each body under its top is in (`Control`, which is what
  makes "in hand" and "running" definite); that a submitting call and its task go together
  (`SubmitInv`); and that while the scheduler is down there is nothing live and nobody at work (`Down`),
  without which a second begin would not find the state of the first.
* `WaitTheorem`: `WaitComplete`, an action property: with `Pending` exact, the step that leaves
  `wait_for_tasks` reads a zero that means that no task is live.
* `FinishTheorem`: `[]NoLostFinish`, with `FinishInv` as `WakeInv`: between the main thread's read of
  `pending_` and its sleep, whoever brings it to zero is before `notify_lock`.
* `CtxTheorem`: `[]CtxMatchesTask`, with `CtxInv`: items are queued in, and taken from, the group they
  were submitted to, and each frame saves the group of the one below.
* `CountsTheorem`: `[]CountsExact`, with `CountInv`: `queued_` is the number of occupied slots of
  the group's queues, plus the takers that have not discounted (`Sinking`), minus the putters
  that have not counted (`Pledged`).  The sets are finite and each step moves one element
  from one to another.  `CountInv` needs `PlaceInv` for where the item of a step is.

**Scheduler v2** (any threads, groups, slots per group, tasks, submissions and scripts: the assumptions
`ThreadAssumption`, `GroupAssumption`, `TaskAssumption`, `ScriptAssumption`, `OnceAssumption`,
`SizeAssumption`, which are those of v3 with slots instead of members).

* `TypesCorrect`: `[](Types /\ Seated)`.  `Types` holds the types of all variables and what the locals of a
  thread are at each place of its code (a worker that holds an item or a slot says which); `Seated` that
  a worker is in a slot that its group has, and that one on its way to another group has a slot there.
* `SlotTheorem`: `[]SlotExclusive`: while the scheduler runs a slot of a group is free or has one holder,
  which is what the single-producer deque of the slot rests on.  It is inductive with `SlotInv`: between `leave_group` and
  the store of the new context a worker has two slots, the one in its context and the one it has just taken
  from the mask, and those two differ because the second was free.  The steps that take a slot take the
  lowest bit of the mask (`LowestIn`), the steps that give one back give the worker's own.

**`mpmc_ring`** (any threads, any capacity from two on: with one slot a full slot has the number of
a free one).  `RingCorrect`: `[]RingInv`.  The last `Capacity` places have a slot each; the
sequence number of the slot says what became of the place (claimed, published, taken, freed),
and one thread can be between claim and publication, or between take and release, of it.
`PlacesKnown` explains every number by a place or a thread, `ClaimsOwn`, `FreesOwn`, `Apart` say whose the
place is, `Looked` what a thread that read a position and a number may still conclude when it
gets to its compare-exchange.  From it: `ExclusiveTheorem` (`[]Exclusive`), `HeadTailTheorem`, and
`ImplementsTheorem` (`Implements`): the compare-exchange on `head_` is `WorkQueue`'s claim, the store of
the sequence its publication, the compare-exchange on `tail_` its take; the queue is the
sequence of places from `tail` to `head`, and the failures are those `WorkQueue` allows.  The proof
corrected the abstract queue: it said that a push may fail because the queue and the
consumers that are leaving fill the ring, which is not so from three slots on, since the place a push
looks at need not be the one of a consumer that is leaving.  `WorkQueue` now has the excuse the code has.

**`spmc_ring`** (any thieves, capacity and pushes; `RingAssumption /\ Spec`).  The memory of the
model is not sequentially consistent: the owner's stores wait in a buffer.  `RingCorrect`: `[]RingInv`.
`StoresKnown` says which stores are pending: those of the last pushes, three each, in order, so that
`bottom` in memory is behind by as many (`Pending`).  `Ends`: the owner competes with thieves only
for the oldest item, and the distance is at most `Capacity`.  `ThievesAhead`: a thief that is not
outrun saw `bottom` above its index, so no store to that slot is pending, and what it has read is what is there.  `Whole`: every item
in the deque is whole in memory or in the buffer.  From it `TypeTheorem` (nothing half written is
returned), `DistanceTheorem` (`[]IndexDistance`: the unsigned difference that the owner computes does not wrap) and
`ImplementsTheorem` (`Implements`): `PushBack` is `WorkDeque`'s push; `PopReserve` its call of pop; a
drained store publishes an item, hides one or changes nothing; `PopReload`, `PopCompete` return the
item or none; `StealTop` calls, and a failing `StealBottom` or `StealCas` returns.

**Task scope** (any workers, groups, scopes, children and scripts).  `ScopeAssumption`: a child stands
for one call of `run`, as a task of the scheduler does for one submission.  `LexicalAssumption`: see 2;
without it the code's own assertions fail.  `ScopeCorrect`: `[]ScopeInv`, with

* `StackInv`: the types; in which call every body is that is under another one (`Control`: a joiner
  that helps, or a `run` whose queue was full); a child has one frame (`StackOnce`);
* `ChildInv`: a child not yet given has left no trace (`Fresh`); a list of nodes has children of its
  scope only (`ListsKnown`, `RunsGiven`); `outstanding_` is the number of children not through
  `complete_one` (`CountInv`), the sets being finite and each step moving one child;
* `RuleInv`: what the owner may conclude.  A scope that its owner has settled, or has seen at 0 while
  it holds the mutex, has an outstanding count of 0 (`RestInv`); who holds the mutex of a scope
  (`MutexInv`); a destroyed scope has its mutex free and is not used later in the script of its owner
  (`DestroyedInv`); `closed_` is set only where the script says so (`ClosedInv`); the exception is that of
  a child that threw and has been through `complete_one` (`ExceptionInv`); and no assertion fails
  (`NeverAborts`).  That a scope seen at 0 stays there is the core: apart from the owner only a child of the
  scope gives it children, and one that could still do so would be counted.

From it `JoinTheorem` (`JoinComplete`), `AliveTheorem` (`[]ScopeAlive`), `AbortTheorem` (`[]NeverAborts`) and,
with `RefInv`, `CountsTheorem` (`[]CountsExact`) and `TypeTheorem`.  `RefInv` is inductive given `ScopeInv`: a
node is in at most one list (`ListOnce`), lists in the hands of a joiner are scanned in order
(`ListsScanned`, `ScansOwn`), a closure is queued once (`LambdaOnce`), and the references of a node are
the list and the closure that hold it (`RefsExact`).

**Tasks** (`TaskStateAssumption`; any threads, tasks, predecessors and scripts).  `WakeupTheorem`:
`[]NoLostWakeup`.  It is inductive (as `ParkInv`) with `Types` and `ShapeInv`, which says for each frame on a stack which
fields its place determines (a node that waits is in a call of wait, one that arrives is a when_all's, a
maker is in its call of make and at a place of that kind of task) and that only the uppermost frame of a
stack is at a place where it can move.  There is one lemma per action, which gives the frame that moves, is pushed or popped.  The core: the value a
thread parks on is a node or the empty list, since a completion tag is seen at once; `exchange` makes
the frame one that notifies; and `Notify` reaches every frame parked on the task.

`RefsCorrect`: `[]RefsInv`, from which `DanglingTheorem` (`[]NoDangling`) and `TypeTheorem` (`[]TypeOK`, which says that no
count of references or arrivals falls below 0).  A reference count of `basic_task` is right only if it is the
number of those who will still release it, wherever they are: in a list, in the scheduler or on
a stack.  `RefsInv` is `Types`, `ShapeInv` and

* `HandleInv`: a frame has a handle of the task it waits for, and of those that it continues while it makes one;
* `NodeInv`: each frame is marked with the nodes and tasks it is responsible for: the node it runs, the one it links or
  gives to the scheduler, those it has still to make, the task it makes and the one it settles.  No two frames have
  the same mark (`Once`), a node is queued, run, linked or in a list, and in one of those places (`Apart`), a node is ready only when its
  predecessor is complete (`ReadyInv`), and a task is complete from the exchange of its settler on (`SettleInv`);
* `ListInv`: the links of the nodes that wait are lists, one per task, headed by `cont` or in the hands of
  the thread that finishes the task; a node is the successor of one node, and no head is a successor.  The one
  link that may be stale is that of a node about to be compared and exchanged;
* `RefInv`: the references of a task are its handles, the nodes that continue it and have not released it, and
  one for whoever will settle it;
* `StageInv`: a task that has been made and is not complete has the reference of its settler;
* `CountInv`: the count of a when_all is the number of its nodes that have not arrived, those still to be made
  included, so that the last to arrive is the only one to settle it.

The proof has one lemma for how each action changes the marks; then each part of the invariant is shown for
the actions that touch it, those that leave it alone being handled together.

**`concurrent_queue`** (`QueueAssumption`; any producers, consumers, buckets, bucket size and number of
elements).  `QueueCorrect`: `[]QueueInv`.  The chain links the allocated buckets from `head_` to `tail_`, each
once (`ChainInv`); the shared lock is held from a claim to its publication and while a consumer reads
(`LockInv`), which is why no bucket goes away beneath them; consumers do not overtake producers, only
the tail has slots to claim and only the head has been consumed (`CursorInv`); a slot behind the cursor is
untouched, one that is claimed but not committed has its producer, a consumed one holds only what is being
moved out (`SlotInv`); a producer has its slot for itself (`MakeInv`), a consumer reads the head and moves its
own element (`ReadInv`); and a producer has an item (`ItemInv`).  From it `TypeTheorem`, `DanglingTheorem`
(`[]NoDangling`), `NoneLeftTheorem` (`[]NoneLeft`) and `ImplementsTheorem` (`Implements`).  For the last,
`PlacesInv` shows that the places of `TicketQueue` are the flattening of one part per bucket: a claim
appends to the part of the tail, a publication changes one element, a take or a skip drops the first
element, and growing or retiring a bucket adds or removes an empty part.  The lemmas on
`FlattenSeq` that this needs (`FlatSnoc`, `FlatCons`, `FlatUpdate`, `FlatImage`, `FlatElem`) are by induction on the
domain of the sequence: the library states that strict inclusion is well-founded on finite sets and that
a well-founded relation has minima, so a smallest counterexample is picked and refuted
(`Least`, `Climb`).

**`ts_shared_linear_allocator`** (any threads, pages, page sizes and requests; `SharedAssumption`: alignments are
powers of two, of which the proof needs that one above the default alignment is a multiple of it).
`SharedCorrect`: `[]SharedInv`, with

* `ListInv`: a page is in one of the lists of pages in use, large pages and free pages, and there once; the
  current page is the newest in use; a page that several threads allocate from has the default size;
* `BlockInv`: the blocks of a page are aligned and end below its offset, and of two blocks one ends
  before the other begins, so that none follows a block that ends at the offset;
* `CallInv`: what a thread has in hand.  A block is in one call, and an idle thread has none.  A thread
  about to roll back read an offset that is the end of its own block in that page, and what it
  reallocates to fits below the page's size.  A thread that reads or moves an offset has a page that
  is in use.  Sizes are multiples of the alignment and not zero.

An offset may return to a value that a thread has read, and the compare-exchange does not see it.  The proof
shows that this is harmless: the value says where the last block of the page ends whatever happened
in between, and pages change lists only while no thread is in a call.  From it `TypeTheorem`, `PagesTheorem`
(`[]PagesOnce`) and `ImplementsTheorem` (`Implements`): `Cas` is the allocation of `Heap`, `Roll` its free
or resize, `Compare` and `Copy` its free when a block is not the last, `Reset` and `Release` its reset.

*Only model-checked.*  Liveness, because TLAPS does not reason about fairness and ENABLED
(`AllEnd`, `ProgramsEnd`, `JoinReturns`).  What recursion over data computes (the paths of `TaskGraph`,
the cuts of `ParallelFor`).  Not attempted: the refinements of `TaskState`,
`FlowGraph` and the thread-local allocator; the invariants of v1, of the graphs, of the coroutines and
of the allocators and tables; the counts and waits of v2, whose `NoLostWakeup` is no theorem (see 4).

## 7. What is not modelled

* Weak memory orders, except for the owner of `spmc_ring`.  The schedulers, the mailbox and
  the scope are sequentially consistent here.  For v2 and the mailbox the orders in the code
  that matter are acquire, release and seq_cst; v3 publishes under its mutex.
* The wrap of 64-bit indices.  Differences are modelled, not lap counts of 2^64.
* Obligations of the caller: tasks that block outside the library, that throw (the
  schedulers' closures must not), groups changed while running (except v3's `clear_group`).
* The linear allocators (one offset per arena), object_pool and scratch_allocator (they forward),
  the vectors (moves of elements), rbtree, intrusive lists, vlist and bitset, the sparse and dense arrays
  of the ECS collections; serializers, reflection, parsers, utilities and operating system calls,
  which have no state that a step could leave inconsistent.

## 8. Plan

1. `CountsExact` and `WaitComplete` of v2, along the placement argument of v3.
2. The refinement of `Future` by `TaskState`, from `RefsInv` and what the frames know of exceptions.
