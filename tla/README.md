# TLA+ models of the nt61 kernel

nt61-rs is a kernel in the style of NT 6.1, written in Rust. This directory
holds TLA+ models of the parts of it where several CPUs, their interrupts and
threads meet: the dispatcher lock, deferred procedure calls, the ready queues,
context switching, waiting on dispatcher objects, the lifetime of executive
objects, and message passing between clients and the CSRSS server. All paths below
are relative to `src/nt61/src/`. `PROJECT.json` maps every definition to source
lines. The repository has some 388,000 lines, and the models stand for less than
one percent of them: most of the rest is drivers, file systems, system call tables,
libraries and boot code (section 5).

## 1. The system

### Parts

| Part | Source | State | Operations | Modelled in |
|---|---|---|---|---|
| Dispatcher lock | `ke/scheduler.rs` 869-1018 | two wrapping ticket counters, an owner slot | `lock_prcb`, `unlock_prcb` | `PrcbLock`, which implements `FifoLock` |
| Deferred procedure calls | `ke/dpc.rs` | one array of slots, `DPC_NEEDED`, two counters | `insert`, `ke_insert_queue_dpc`, `remove_dpc`, `ki_retire_dpc_list`, `drain` | `Dpc` |
| Ready queues | `ke/scheduler.rs` | per CPU: 32 queues, a summary; per thread: state, priority, location | `add_ready`, `remove_ready`, selection in `schedule` | `ReadyQueues` |
| Balancing and tuning | `ke/scheduler.rs` 1773-2367 | the above | `set_priority`, `set_thread_affinity`, `balance_load`, `ki_balance_processor` | `Balance` |
| Switching and clock | `ke/scheduler.rs`, `ke/psss.rs` | current thread, saved stacks, quantum | `schedule`, `yield_`, `tick`, ISR exit | `Dispatcher` |
| Waits | `ke/dispatch.rs` | wait list, 192 wait slots | `wait_on`, `wake`, `tick_wait_list` | `Dispatcher` |
| Objects | `ob/mod.rs` | reference and handle counts, a directory, the handle tables | create, insert, look up, reference, dereference, inherit, close, delete | `ObjectManager`, which implements `ObjectLife` |
| LPC | `lpc/mod.rs`, `lpc/port.rs` | ports, message rings, the message event | connect, send, receive, close, signal, clear | `Lpc`, which implements `MessageQueues` |
| CSRSS message loop | `servers/csrss.rs` | where a server thread is | dispatch, wait for work | `Lpc` |
| Synchronisation objects, IRQL | `ke/sync.rs`, `ke/irql.rs` | lock words, IRQL | spinlock, event, mutex, semaphore | `wait_single` in `Lpc`; the rest planned |
| APCs, timers | `ke/apc.rs`, `ke/timer.rs` | per-thread lists, timer slots | queue, deliver, arm, expire | planned |
| I/O manager | `io/*.rs` | IRPs, device queues, completion ports | complete, cancel, time out | planned |
| Memory, file systems, network, drivers, registry, security, servers, libraries, loader, architecture | the rest | | | no; see `PROJECT.json` for the reasons |

### How they interact

The clock interrupt (vector 32, `arch/x86_64/dispatch.rs` 590-637) runs, in this
order: timer expiry, `scheduler::tick`, `psss_tick` (which ends in
`tick_wait_list`), `ki_retire_dpc_list`, `dispatch_pending_reschedule`. The last
calls `schedule`, which takes the CPU's dispatcher lock, then the `SCHEDULER`
spinlock, then a queue lock. A thread reaches `schedule` from `wait_on` and
`yield_`. `wake` and `tick_wait_list` hold `WAIT_LIST_LOCK` and call `add_ready`,
which takes `SCHEDULER`.

The object manager has three locks: `NAMESPACE` for directories, `HANDLE_TABLE` for
the kernel's handle table, and `OB_DELETE_LOCK` for the counts and the processes'
tables. Deletion holds the third while it takes the others in turn.

`send` puts a message in the peer's ring under the registry lock, and afterwards
signals the message event if the ring was empty. CSRSS threads drain their ports,
clear the event, drain again, and wait for the event with `wait_single`, which
calls `wait_on` of the dispatcher, for a second at most.

### What makes it hard

* The dispatcher lock masks nothing, so an ISR may ask for it between any two of
  its steps.
* `drain` gives up its lock while routines run, and updates `DPC_NEEDED` after
  its last critical section.
* `wait_on` gives up its lock before `schedule`; `schedule` gives up its locks
  before it switches stacks; `set_priority` takes `SCHEDULER` twice.
* A wake and a deadline compete for the same waiter.
* A thread's place is recorded several times: its state, the queue it is linked
  in, `queued_cpu` and `queued_priority`, the summary bit, the wait list, the slot.
* `dereference_object` drops `OB_DELETE_LOCK` between its decision to delete and the
  deletion; `open_object_by_name` and `close_handle_global` hold a bare pointer
  between two critical sections.
* A server tests the event and parks in two steps, and finds and receives a
  message in two steps, while clients send and other servers receive.

The hazards, each with its line and the properties that would catch it, are
listed in `PROJECT.json`.

## 2. The modules

**PrcbLock.** One lock; the locks of the array share nothing. Every CPU has a
thread context and an ISR context, and the thread context stands still while the
ISR is active. Each atomic access is an action: `Check` (the re-entrancy load),
`Take`, `Served`, `Store`, `ClearOwner` (the compare-exchange), `Advance`. A
refused re-entry changes nothing, so it is `Check` being disabled. The IRQL
test of `dispatch_pending_reschedule` does not separate the cases, since the
ISR has lowered to DISPATCH_LEVEL by then.

**FifoLock.** What the comment on `lock_prcb` promises, "tickets in FIFO order", without
tickets: a user who asks remembers who is ahead, enters when all of those have left,
and is then alone. In `PrcbLock` the users are the contexts, to ask is the `fetch_add`
of `Take`, and the ones ahead are those whose tickets are nearer to the one served,
counted across the wrap.

**Dpc.** The code inside one hold of `DPC_QUEUE_LOCK` is one action. Each CPU
walks through `ki_retire_dpc_list`: `Retire`, `Collect`, `Run` (one routine at a
time), `Ran`, `Clear`, `Reset`, `Recheck`. `Insert` and `Remove` come from
anywhere, running routines included. Insertions are numbered so that a slot can
be told from its reuse. `DPC_ROUTINE_ACTIVE` and the interrupt request flag are
never read by this code and are left out.

**Lists.** The walks over the kernel's lists: what they find, unlink and fold. They are
operators of `SequencesExt`; a module that extends it has all its definitions in
the context of every proof obligation, which multiplies the time a proof takes.

**ReadyQueues.** The queues and the scheduling fields of `Kthread`, as operators
from one state of the queues to the next. The two modules below build actions
from them, so both use the same `AddReady`, `RemoveReady` and `Selected`. The
pointer-level lists are sequences. Queue locks are left out: they are only taken
under `SCHEDULER`. `Selected` has one case for each way the selection of `schedule`
can end, and the conditions exclude each other.

**Balance.** Several CPUs preempt their threads (`Schedule`, `Start`) while
priorities and affinities change and `balance_load` runs. `set_priority` is three
steps: `SetPriority` (store, and read the location), `RemoveOld`, `AddNew`. Threads
here do not wait.

**Dispatcher.** CPU 0 switches threads; all threads but idle ones have it as home.
`schedule` is two steps, `Pick` under its locks and `Swap` after them. `wait_on` is
`WaitOn`, then `schedule`, then `Scan`, which fetches the result. `Wake` and
`RemoteTick` come from any CPU at any time. `Clock` is CPU 0's clock interrupt;
when the quantum expires it leaves an ISR on the stack that calls `schedule`.
`executing` and `saved` record which thread's stack the CPU is on and where
`kernel_rsp` points, so that saving into the wrong context shows. Time is
abstract: any set of timed waits may be overdue at a tick, and a boosted priority
may or may not be due for decay. The walks of `wake` and `tick_wait_list` over the
wait list are folds (`Keep`, `Complete`). `cause` is a history variable: why the
latest wait ended.

**ObjectLife.** What the object manager promises: an object has a phase and a number
of uses. It is born with one use; a use can be acquired only while there is
one, and released; an object without uses is destroyed, once, and eventually.

**ObjectManager.** A client is a pointer variable of some thread together with the
call the thread is in. What is done under one lock is one action, and a call that
takes several locks in turn is several: `Publish` and `PublishHandle` are
`insert_object`, `Lookup` and `Open` are `open_object_by_name`, `Close` and `Uncount`
are `close_handle_global`, `Dereference` or `CloseInProcess` followed by `Unlink`,
`ClearKernel` and `Destroy` is a deletion. Headers are not reused, so a stale
pointer shows as a pointer to a freed object. Clients give up only references they
hold. The reference of `create_object` stays with an object that is published, as
every caller of `insert_object` leaves it there. So a published object is not
deleted, and that is what makes the unlocked lookup safe; the theorem below rests
on it. Two functions dereference a header that they looked up and did not reference;
nothing calls them, and they are left out (section 5). A use, for the refinement, is a
pointer, a slot or the directory entry: what holds a reference and can give it back.
`close_handle_global` frees a slot and keeps the slot's reference. That reference
is no use of anybody; the history variable `closed` counts the handles closed in
this way.

**MessageQueues.** Bounded first-in first-out queues. Receivers take from the served
ones, other readers from the others, and a queue may be emptied by its owner.

**Lpc.** `connect_port`, `send`, `receive` and `close_port` are an action each, since
the registry lock covers them; `send` is followed by `Signal` and `Wake`. A server
thread walks through `Ensure`, `CreatePort`, `Look` and `Take` (the two halves of
`receive_from_owner_server_port`), `Dispatch`, `SignalReply`, `WakeReply`, `Clear`, and
the wait: `Test` (`wait_single`), `Park` (`wait_on`), then a wake or `Timeout`. Parking
and waking are taken to work here; module Dispatcher is about that. `busy` and
`again` are what `dispatch_pending_alpc` has counted and which of the two drains it
is in. A message has a body or not, which is what `send`'s limit and the server's
test of eight bytes tell apart. The limit is that of the test build or that of the
kernel, where the registry is a zeroed pool block. The refinement maps the slots
from `tail` on, `pending` of them, to a sequence.

## 3. The runs

| Run | Shows |
|---|---|
| `prcb_lock` | exclusion, ticket order across wraps, exactness of the owner slot, no starvation; `FifoLock` implemented |
| `dpc` | no routine runs twice or after its removal, no DPC is dropped, counts agree, what is collected runs |
| `balance` | no thread is lost, doubled or mislaid by preemption, tuning and migration; balancing converges; threads of one queue take turns |
| `dispatcher` | wait list, slots and states agree; a wait blocks; a result is not overwritten before some `wait_on` fetches it; the CPU is on its current thread's stack; a thread that waits with a deadline becomes runnable |
| `objects` | `handle_count` exact in every state; `ref_count` covers every use, and exceeds the uses by at most the kernel handles closed; no path to a freed header; one deleter; `ObjectLife` implemented, with its liveness for the objects of which no kernel handle is closed; no call stuck |
| `lpc` | the rings are queues across wraps and closes; an announced message is remembered by the event or will be looked for; work is taken up; `MessageQueues` implemented |

`ResultKept` does not say that the right wait gets the result: `wait_on` looks for
the per-CPU thread, so a `wait_on` of another thread may fetch it. `wait_result` below
is about that.

Six runs end in a counterexample, each to a sentence of the code's own comments.

| Run | Comment | What happens |
|---|---|---|
| `prcb_reentry` | `ke/scheduler.rs` 872: "makes reentrant acquisition detectable instead of silently deadlocking" | an ISR arrives between the ticket and the owner store, or between the owner's clearing and the advance, and spins behind its own CPU |
| `dpc_stranded` | `ke/dpc.rs` 456: "until the queue is empty" | a DPC queued after the collecting phase loses its `DPC_NEEDED` |
| `woken_before_schedule` | `ke/scheduler.rs` 1530: "so it is not lost when we switch away" | a waiter woken before it called `schedule` pops itself, keeps the state Ready, and is dropped at its next switch |
| `wait_result` | `ke/dispatch.rs` 261: "could classify a successfully woken waiter as a timeout"; 311: "The result remains owned by the waiter" | the result is looked up under a per-CPU thread pointer that no switch updates |
| `wait_alone` | `ke/dispatch.rs` 203: "Park the current thread" | with nothing else ready, `schedule` returns and the wait is reported as a timeout |
| `lpc_wakeup` | `servers/csrss.rs` 719: "re-signals the event, so no wakeup is lost" | a client sends between the server's test of the event and its parking; the server sleeps on until its timeout |

### Bounds

* `prcb_lock`: two CPUs, so four contexts, and counters modulo 5. That is the
  smallest modulus the assumption allows, so every alignment of the counters
  with the wrap occurs.
* `dpc`: two CPUs, two slots, two objects of which one has no routine, three
  insertions. A slot is filled, drained and refilled while another drain runs.
  Deadlock is not checked, since insertions are bounded.
* `balance`: two CPUs with PRCBs and a third that a mask may name without one,
  three threads, two priorities. One thread is tuned; the others are
  interchangeable, which is what the symmetry says. Threshold 1 lets a
  migration happen with two threads queued.
* `dispatcher`: three threads, two of which wait, one object, two slots, a quantum
  of two ticks, two priorities. Two results that are not fetched exhaust the
  slots. The third thread never waits, because a wait with nothing else to run
  returns at once (`wait_alone`).
* `objects`: two clients, two objects, one name, two processes with one slot each, a
  kernel table of two slots of which one scan sees one, a directory of one entry,
  one handle per object at a time. A scan gives up and resumes, a directory
  fills, a handle is inherited while its original is closed, and a deletion of
  one object overlaps with calls on the other. Deadlock is not checked, since
  objects are not reused.
* `lpc`: one client that may disconnect and connect again, two servers, five ports,
  rings of two, counters modulo 2. Both rings fill and wrap, and two servers race
  for one message. `lpc_wakeup` needs one server only. Modulo 2 a full ring and an
  empty one have the same counters, so there `CountersAgree` does not tell a `pending`
  of 0 from one of 2; the theorem `CountersMatch` is for every modulus.

### Fairness

* `PrcbLock`: strong fairness of a context's lock steps, since an ISR disables
  them time and again but interrupted code does make progress in between; weak
  fairness of leaving the ISR.
* `Dpc`: weak fairness of each CPU's retire loop. Every clock interrupt calls it.
* `Dispatcher`: clocks go on ticking and time passes each deadline. For every wait slot
  by itself, infinitely often the slot has no deadline or its thread is not linked, or
  infinitely often a tick comes after its deadline (`TickPast`). No tick need find
  two waits overdue at once. Nothing is assumed of threads, wakes or `schedule`. A
  deadline is one that the tick count can reach (section 5).
* `ObjectManager`: weak fairness of the rest of a call a client has begun. It can
  only be held up by a deletion, which holds the lock for a bounded time, and there
  are no more deletions than objects. No client need ever begin a call.
* `Lpc`: every server thread goes on taking steps. It is always able to, because its
  wait has a deadline. This supposes a scheduler that runs a thread again after a
  wait, which is not always so: the run `woken_before_schedule` shows how a thread
  is dropped when it is woken before it has come to `schedule`. `WorkGetsDone` is about
  servers that are spared this. Nothing is asked of the clients.

## 4. The proofs

`PrcbLockProofs` proves, for any finite set of CPUs and any modulus larger than
the number of contexts, type correctness, `TicketQueue`, `MutualExclusion`,
`OwnerExact`, and that the lock implements `FifoLock` (`LockIsFifo`). The assumptions are the two named in `PrcbLock`. The code has at
most 128 contexts and a modulus of 2^32.

`MutualExclusion` is not inductive: that one context is served says nothing about
the next one unless tickets are known to be distinct, and a fresh ticket is only
distinct if the outstanding ones have not gone all the way round. The inductive
invariant `IInv` therefore adds `TicketQueue`: the tickets in use are exactly the
interval from serving to next, counted modulo the wrap, one per context. As there
are fewer contexts than ticket values the interval never closes. Exclusion follows:
every served context has ticket = serving, and tickets are distinct. `OwnerExact`
follows from exclusion, since only the served context writes the owner slot. The
proof has one step per action and rests on lemmas about `Inc` and `Dist`. For the
refinement, `TakeAsks`, `ServedEnters` and `AdvanceLeaves` show that the three steps which
move a ticket are those of `FifoLock`, and `FifoFrame` that the others do not show. A
fresh ticket is farther from the served one than all outstanding ones, and serving
one brings all others nearer by one; both need that the interval has not closed.

The object manager's proof is in two modules: `ObjectManagerCounts` has the lemmas
about counts, pointers and calls and about half of the actions, and
`ObjectManagerProofs`, which extends it, the other actions and the theorems. For any
finite sets of clients and processes, any number of objects and names, and any table
sizes, they prove `TypeOK`, `RefCountCovers`,
`HandleCountExact`, `NoDangling` and `OneDeleter`, and that the object manager
implements the safety part of `ObjectLife`. The only assumption is
`ObjectAssumption`: the sets are finite, the sizes are natural numbers, the kernel's
table has a usable slot and a scan looks at one.

None of these is inductive. That `Open` may count a reference on what `Lookup` found
depends on the object being alive still, which depends on its directory entry
being there still. The inductive invariant `IInv` says that `ref_count` is exactly the
number of uses plus the references that closed kernel handles have left behind
(`RefsCounted`), from which `RefCountCovers` follows. It names, for every call that is
under way, what keeps its object alive (`CallInv`): a directory entry, the client's
own pointer, a reference left behind; or, in a deletion, that nothing leads to the
object and nobody else has to do with it. `LifeInv` adds that what is counted is
alive and not marked for deletion. The counts are cardinalities of sets of slots
and clients; `CountUpdate` says what an assignment to one argument of a function
does to such a cardinality, and `Released`, `Acquired` and `CountedOnce` carry the
invariant over a step that takes or gives one use. Each action then has a lemma
that it keeps `IInv` and is a step of `ObjectLife` or a stutter; `Close` keeps what is
counted and releases a use. What decides the last case is that nothing is left
out of the count: zero means that the object is unused.

`DpcProofs` proves `TypeOK`, `NoDoubleRun`, `CollectedOnce`, `RemovedNeverRuns`,
`NothingLost` and `Accounting` for any finite set of CPUs, any number of slots, objects and
insertions, from `DpcAssumption`. That a routine runs once needs to know who may
still run it. `DrainInv` says that an insertion is held by one drain at most, and
has run exactly if it is off that drain's list of work. `SlotInv` says that what a
slot holds and a drain holds is marked fired, and that a DPC that has run stays in
its slot only until its drain clears it; so no later drain collects it again.
`RemovalInv` is the conditional part: without a removal of a collected DPC, a slot
that a drain holds is not refilled before that drain clears it, and every insertion
is queued, collected, removed or done. `FIRE_COUNT` is the number of insertions
that have run and whose drain is over (`Done`), and `Accounting` follows because the
three sets are disjoint. `RemovedNeverRuns` (`RemovedStayOut`) has an invariant of its own,
`CancelInv`: what was removed before a drain collected it has not run and is on no
drain's list, although its slot may hold a later insertion by then.

The first part of `LpcProofs` is about one ring: `SlotOfCounter` and the lemmas
before it say that a wrapping counter and its slot advance together, because the
ring size divides the modulus; `Enqueues` and `Dequeues` say that the operators
`Enqueue` and `Dequeue` append to and take from `Contents`. The second part proves
`TypeOK`, `CountersAgree` and `Implements`, the refinement of `MessageQueues`, for any sets of clients and
servers, any number of ports, any ring size and any modulus it divides, from
`LpcAssumption`. The inductive invariant adds `Places`: a server between its look and
its answer has found a server communication port, and a client's port is a client
communication port. It is what makes every receive one of the abstract receives.

`EventRemembers` has a theorem of its own, `EventNotForgotten`, under the hypothesis
that server communication ports are not closed; without it the property fails (see
section 5). It is not inductive: a server resets the event while messages wait.
`Attended` says who makes up for that: a message that waits has the event set, or
a client about to set it, or a server that looks at the queues before it tests the
event. The delicate case is a server between its second look and its receive, whose
message another server may take; it goes back to look only if it still finds one,
or has found one before.

`ReadyQueuesProofs` has the lemmas about the operators that `Balance` and `Dispatcher`
share. They are stated for any state of the queues: with `Exact` (every queue holds a
thread once, no thread is in two, the summary bit is set exactly for the queues that
are not empty), `Enqueue` adds its thread and nothing else, `Unlink` and `RemoveReady`
take theirs out, `Selected` swaps one thread for another, and each keeps `Exact`. What
a walk over a queue or a sum over the priorities computes is a fold, and the
induction theorems for those cannot be used; the lemmas argue by a smallest
counterexample instead (`Least`, from the well-foundedness of the natural numbers).

`BalanceProofs` proves, for any finite set of threads, any number of CPUs and
priorities, and any positive threshold, `TypeOK`, `SummaryExact`, `QueuedOnce`,
`Conserved` and `StateTracksPlace`, one theorem for each, from the invariant of
`QueuesInvariant`; the action properties `SpreadShrinks` (`BalancingConverges`) and
`NoOvertaking` (`QueuesTakeTurns`); and `LocationTracked` (`QueueLocation`) under the
hypothesis that `ki_balance_processor` is not called, since it moves threads without
recording it.
The assumptions are `QueueAssumption` and `BalanceAssumption`. `Conserved` is not
inductive: that a thread is somewhere does not say that the `set_priority` which is
about to queue it is the only one that has it. The invariant gives every thread one
owner from its creation on (`OwnerInv`): a queue, a CPU, or a `set_priority` between its
two critical sections. `QueuedInv`, `CallInv` and `CurrentInv` say that owners exclude
each other and which state goes with each. Two `set_priority` for one thread may both
have read its place; the second finds the queue without it and stops, which is the
step where the proof uses the test of `remove_ready`'s result. For `SpreadShrinks`,
`LoadChange` says what one thread more in one queue does to the sum of the lengths, so a
migration takes one from the load of the busiest CPU and adds one to that of the
idlest; as they differ by more than the threshold, neither bound is passed. For
`NoOvertaking`, unlinking a thread closes the gap it leaves (`GapClosed`) and so brings no
two threads into a new order (`UnlinkInOrder`); and a thread added at the tail is ahead
of nobody (`AppendInOrder`). That it was not in the queue before is where the
invariant comes in: a thread that was linked twice would pass those between.

`DispatcherProofs` proves, from `QueueAssumption` and `DispatcherAssumption`, for any finite
set of threads and any number of slots, objects and ticks in a quantum:

* `TypeOK`, and that a slot in use holds no result (`DispatcherTyped`), and `ResultKept`
  (`ResultsKept`), for every value of the constants;
* `QueuedOnce`, `WaitRecordsAgree`, `WaitBlocks` and `ExecutesCurrent` (`WokenOnce`,
  `WaitsConsistent`, `WaitsBlock`, `CurrentExecutes`, from `WaitsInvariant`), if every thread's
  `kernel_rsp` is seeded and some thread other than the boot thread never waits. Both hypotheses are needed. Without the second, `wait_on` finds
  nothing else to run and returns at once: that is the run `wait_alone`. Without
  the first, `schedule` returns to a caller it has already replaced as `current`.
  Every run but `wait_alone` satisfies them.

The three steps that end waits (`Wake`, `RemoteTick`, `Clock`) are shown to be one kind of
step, `Completion`: the queues change by a possible decay of the current priority, then
a list of linked threads, each with a slot of its own, is woken one by one.
`WokenAll` says what such a walk does, as an invariant of its partial results, and `Kept`
what `Keep` leaves of a list. The inductive invariant says that a thread is Waiting
exactly while it is linked, and exactly from its `wait_on` until something ended the wait
(`WaitInv`); that the linked threads and the slots in use correspond one to one
(`SlotInv`); that a thread is in a queue only when Ready, and the current thread
only if a wake has come between its `wait_on` and its `schedule` (`QueuedInv`); that the CPU is
on the current thread's stack, or is switching to it from the one it is on
(`SwitchInv`); and that a thread that never waits is current or queued (`KeeperInv`),
which is why `schedule` always has a successor for a thread that blocks. TLC checked
this invariant on the instance of the run `dispatcher` before it was proved.

So every safety and action property of a passing run has a theorem of its own:

| Module | Property of a run: theorem |
|---|---|
| `PrcbLockProofs` | `MutualExclusion`: `LockExcludes`; `TicketQueue`: `LockTickets`; `OwnerExact`: `LockOwner`; `ImplementsFifo`: `LockIsFifo`; `TypeOK`: `LockTyped`; the inductive invariant: `LockInvariant` |
| `DpcProofs` | `NoDoubleRun`: `RunsOnce`; `CollectedOnce`: `OneCollector`; `RemovedNeverRuns`: `RemovedStayOut`; `NothingLost`: `NoneLost`; `Accounting`: `CountersAccount`; `TypeOK`: `DpcTyped` |
| `BalanceProofs` | `Conserved`: `ThreadsConserved`; `QueuedOnce`: `LinkedOnce`; `SummaryExact`: `SummariesExact`; `StateTracksPlace`: `StatesTrackPlaces`; `LocationTracked`: `QueueLocation`; `SpreadShrinks`: `BalancingConverges`; `NoOvertaking`: `QueuesTakeTurns`; `TypeOK`: `BalanceTyped`; the inductive invariant: `QueuesInvariant` |
| `DispatcherProofs` | `WaitRecordsAgree`: `WaitsConsistent`; `WaitBlocks`: `WaitsBlock`; `ExecutesCurrent`: `CurrentExecutes`; `QueuedOnce`: `WokenOnce`; `ResultKept`: `ResultsKept`; `TypeOK`: `DispatcherTyped`; the inductive invariant: `WaitsInvariant` |
| `ObjectManagerProofs` | `RefCountCovers`: `ReferencesCovered`; `HandleCountExact`: `HandlesExact`; `NoDangling`: `NothingDangles`; `OneDeleter`: `OneDeleterOnly`; the safety part of `ObjectLife`: `ImplementsLife`; `TypeOK`: `ObjectsTyped` |
| `LpcProofs` | `Implements`: `RingsAreQueues`; `CountersAgree`: `CountersMatch`; `EventRemembers`: `EventNotForgotten`; `TypeOK`: `LpcTyped` |

A proof step that names a prover (`Zenon`, `SMTT`, `Z3T`) is one that another prover
decides slowly or not at all.

Only model-checked are the liveness properties, which are beyond the proof system:
`NoStarvation`, `CollectedRuns`, `TimedWaitEnds`, `CallsEnd`, `WorkGetsDone` and the
liveness part of the refinement of `ObjectLife`. The six counterexamples are
TLC's as well.

## 5. What is left out

* Interrupts between the unlock of `schedule` and `swap_context`, and an ISR
  nested in an ISR.
* The IRQL. A spinlock's critical section is one step, so an ISR that spins on a
  lock of its own CPU is not seen.
* Waits by threads of other CPUs, thread termination, and threads without a
  seeded stack. The constant `Unseeded` admits the last; the runs leave it empty.
* `ki_balance_processor` is modelled but not in a run: it has no caller. With
  `Balancers = {"ki_balance_processor"}`, `LocationTracked` fails.
* `NothingLost` and `Accounting` are conditional on no `remove_dpc` hitting a slot
  that a drain has collected. With such a removal a DPC can be lost, and the DPC
  that was removed runs all the same; `RemovedNeverRuns` is about DPCs that are
  removed before a drain has collected them.
* Objects: path parsing, access checks, symbolic links, type procedures (none is
  registered), and the query functions. A process's table goes through the model
  as long as the process exists; nothing in the code closes its handles at exit.
* LPC: the console and process calls behind `dispatch_csrss_message`, and the
  helper modules (`queue`, `waitqueue`, `connection`, `section`, `async_ops`) that this
  path does not use.
* The I/O manager, the memory manager, the file systems and the network stack.
  Their state machines are large and mostly sequential or bound to data layout;
  IRP cancellation, completion ports and the TCP timers are the parts that would
  repay a module.

Reading the source for these modules showed some things that no run is about:

* `close_handle_global` (`ob/mod.rs` 2171-2198) does not give back the handle's
  reference, and `libs/ntdll/ob_integration.rs` 9 says of the function that calls it
  "free a handle slot and dereference the object". An object that had a kernel
  handle closed is never deleted. `RefCountCovers` bounds the surplus and `Implements`
  asks for reclamation of the other objects only; asked of all objects it fails after
  a creation, an insertion into the kernel's table, a close and a dereference.
* `open_object_with_access` (`ob/mod.rs` 2301, 2335) and `lookup_object_with_flags`
  (2755) dereference a header that they found by name and did not reference, so that
  each such call takes away a reference of somebody else. Nothing calls them.
* Two creators of one name can both pass the test of `create_object` and both
  publish; a publication that finds no free handle leaves the object in the directory.
* `ob/smoke.rs` expects a `ref_count` of 1 after `insert_object` (line 291) and of 2
  after the next `reference_object` (lines 173 and 295). It is 2, the creator's and the
  handle's, and then 3.
* The deadline of a wait is the sum of a `u32` count of milliseconds and the timeout, in
  64 bits (`ke/dispatch.rs` 229). The count wraps after 49.7 days, so a wait begun
  within its timeout of the wrap never times out. In module `Dispatcher` it is a wait
  without a deadline.
* `MAX_PERCPU_LOCKS` is 32 and `MAX_CPUS` is 64: `lock_prcb` refuses CPUs 32 to 63, and
  `schedule` never dispatches on them.
* `lpc/mod.rs` 359 says that the zeroed registry's ports "are already in their
  `empty()` state". Their message limit is 0 instead of 256, so in the kernel `send`
  refuses every message with a body on a communication port.
* If the server's own port is closed between `Look` and `Take`, the server is told
  that no port has a message. With `"ServerCommunication"` in `Closable`,
  `EventRemembers` fails.
* `receive_from_owner_server_port` starts at port 0 every time, so a busy port
  can starve the later ones. Closing the connection port closes the newest server
  port with it.

## 6. Plan

Done: `PrcbLock`, `Dpc`, `ReadyQueues`, `Balance` and `Dispatcher` with proofs,
`ObjectManager` and `Lpc` with proofs and refinement.

1. `Irp` (`io/`): completion against cancellation and timeout; completion ports.
2. `Irql` (`ke/sync.rs`, `ke/irql.rs`): spinlocks, ISRs and the IRQL; APC delivery;
   then `Swap` in several steps with interrupts in between.
3. `Lpc` on top of `Dispatcher`, in place of its abstract parking.
