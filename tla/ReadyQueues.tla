---------------------------- MODULE ReadyQueues ----------------------------
(***************************************************************************)
(* The per-CPU ready queues of ke/scheduler.rs and the scheduling fields of*)
(* a Kthread.  A PRCB has one FIFO queue per priority and a summary of the *)
(* queues that are not empty; a Kthread records the queue it was put in.   *)
(*                                                                         *)
(* Everything here runs under the SCHEDULER spinlock, so it is written as  *)
(* operators from one state s of the queues to the next; modules that      *)
(* extend this one put them together into actions.                         *)
(***************************************************************************)
EXTENDS Lists

CONSTANTS
    Thread,
    CpuCount,       \* CPUs that have been brought up (Scheduler.num_cpus)
    MaxCpus,        \* CPUs an affinity mask can name (MAX_CPUS)
    TopPriority,    \* 31 in the code
    MaxBoosted      \* MAX_BOOSTED_PRIORITY

CPU == 0 .. CpuCount - 1
AnyCpu == 0 .. MaxCpus - 1
Priority == 0 .. TopPriority
BootCpu == 0        \* Scheduler.current_cpu is never assigned after boot
NeverQueued == 255  \* the 0xFF sentinel of queued_priority
NoThread == "none"

ASSUME QueueAssumption ==
    /\ IsFiniteSet(Thread) /\ NoThread \notin Thread
    /\ CpuCount \in Nat \ {0} /\ MaxCpus \in Nat /\ CpuCount <= MaxCpus
    /\ TopPriority \in 0 .. NeverQueued - 1 /\ MaxBoosted \in 0 .. TopPriority

State == {"Initialized", "Ready", "Running", "Waiting", "Terminated"}

\* priority and base_priority are i8; an idle thread's are negative.
KThread == [state : State, priority : Int, base : Int,
            queuedPri : Priority \cup {NeverQueued}, queuedCpu : CPU,
            home : AnyCpu, affinity : SUBSET AnyCpu, affinitized : BOOLEAN]

VARIABLES
    ready,      \* Prcb.ready_queues
    summary,    \* Prcb.ready_summary
    kthread     \* Ethread.kthread

queueVars == <<ready, summary, kthread>>

\* The state of the queues as one value, and an action that installs one.
Queues == [ready |-> ready, summary |-> summary, kthread |-> kthread]

Install(s) ==
    /\ ready' = s.ready
    /\ summary' = s.summary
    /\ kthread' = s.kthread

QueueTypeOK ==
    /\ ready \in [CPU -> [Priority -> Seq(Thread)]]
    /\ summary \in [CPU -> SUBSET Priority]
    /\ kthread \in [Thread -> KThread]

EmptyQueues ==
    /\ ready = [c \in CPU |-> [p \in Priority |-> <<>>]]
    /\ summary = [c \in CPU |-> {}]

\* `priority as u8` keeps the low byte: a negative priority becomes large.
AsU8(p) == p % 256

\* priority.clamp(0, 31), used where set_priority and schedule queue a thread.
Clamp(p) == IF p < 0 THEN 0 ELSE IF p > TopPriority THEN TopPriority ELSE p

-----------------------------------------------------------------------------
(* add_ready and remove_ready *)

SetState(s, t, st) == [s EXCEPT !.kthread[t].state = st]

\* Mutant of Enqueue: the thread goes to the head of the queue.
EnqueueFirst(s, c, p, t) ==
    [s EXCEPT !.ready[c][p] = <<t>> \o @,
              !.summary[c] = @ \cup {p},
              !.kthread[t] = [@ EXCEPT !.queuedPri = p, !.queuedCpu = c]]

Enqueue(s, c, p, t) ==
    [s EXCEPT !.ready[c][p] = Append(@, t),
              !.summary[c] = @ \cup {p},
              !.kthread[t] = [@ EXCEPT !.queuedPri = p, !.queuedCpu = c]]

\* Mutant of TargetCpu: no fallback for a CPU that has no PRCB.
TargetAnyCpu(k) == IF k.home \in k.affinity THEN k.home ELSE BootCpu

\* The home CPU if the affinity mask allows it, else Scheduler.current_cpu; a
\* CPU without a PRCB falls back to CPU 0.
TargetCpu(k) ==
    LET wanted == IF k.home \in k.affinity THEN k.home ELSE BootCpu
    IN  IF wanted \in CPU THEN wanted ELSE BootCpu

\* add_ready(thread, priority: u8)
AddReady(s, t, u8) ==
    Enqueue(s, TargetCpu(s.kthread[t]), IF u8 > TopPriority THEN TopPriority ELSE u8, t)

\* Mutant of Unlink: the summary bit of an emptied queue stays set.
UnlinkOnly(s, c, p, t) == [s EXCEPT !.ready[c][p] = RemoveFirst(@, t)]

\* Taking a thread out of a queue clears the summary bit of an emptied queue.
Unlink(s, c, p, t) ==
    LET rest == RemoveFirst(s.ready[c][p], t)
    IN  [s EXCEPT !.ready[c][p] = rest,
                  !.summary[c] = IF rest = <<>> THEN @ \ {p} ELSE @]

\* remove_ready searches the one queue that queued_cpu and queued_priority
\* named when it read them, before it took the lock.
Finds(s, t, c, p) == p # NeverQueued /\ Contains(s.ready[c][p], t)

RemoveReady(s, t, c, p) ==
    [Unlink(s, c, p, t) EXCEPT
        !.kthread[t] = [@ EXCEPT !.queuedPri = NeverQueued, !.queuedCpu = 0]]

-----------------------------------------------------------------------------
(* The critical section of schedule *)

\* The head of the highest queue whose summary bit is set.
TopQueue(s, c) == Max(s.summary[c])
NextThread(s, c) ==
    IF s.summary[c] = {} \/ s.ready[c][TopQueue(s, c)] = <<>>
    THEN NoThread ELSE Head(s.ready[c][TopQueue(s, c)])

PopNext(s, c) == Unlink(s, c, TopQueue(s, c), NextThread(s, c))

\* Mutants of Requeue: the current thread is dropped, is queued without becoming
\* Ready, is queued although it waits.
RequeueNever(s, c, cur) == s
RequeueRunning(s, c, cur) ==
    IF cur # NoThread /\ s.kthread[cur].state = "Running"
    THEN Enqueue(s, c, Clamp(s.kthread[cur].priority), cur)
    ELSE s
RequeueAlways(s, c, cur) ==
    IF cur # NoThread
    THEN SetState(Enqueue(s, c, Clamp(s.kthread[cur].priority), cur), cur, "Ready")
    ELSE s

\* A current thread that is still Running goes to the tail of its queue.
Requeue(s, c, cur) ==
    IF cur # NoThread /\ s.kthread[cur].state = "Running"
    THEN SetState(Enqueue(s, c, Clamp(s.kthread[cur].priority), cur), cur, "Ready")
    ELSE s

\* What the queues look like when schedule drops its locks.  A popped thread
\* that is the current one stays popped, and nothing else happens.
Selected(s, c, cur) ==
    CASE NextThread(s, c) = NoThread -> s
      [] NextThread(s, c) = cur /\ cur # NoThread -> PopNext(s, c)
      [] NextThread(s, c) \notin {cur, NoThread} -> Requeue(PopNext(s, c), c, cur)

-----------------------------------------------------------------------------
(* Priorities *)

\* ki_boost_thread: raise to at least the base, then by the boost up to a limit.
BoostedPriority(k, boost) ==
    LET from == Max({k.priority, k.base})
    IN  IF from < MaxBoosted THEN Min({from + boost, MaxBoosted}) ELSE from

\* ki_decay_priority: one step down, not below the base.
DecayedPriority(k) == Max({k.priority - 1, k.base})

-----------------------------------------------------------------------------
(* Properties of the queues *)

Places(t) == {x \in CPU \X Priority : t \in Range(ready[x[1]][x[2]])}
Queued(t) == Places(t) # {}

\* ready_summary has a bit set exactly for the queues that hold a thread: the
\* bit that schedule picks always yields one, and no queued thread is invisible.
SummaryExact ==
    \A c \in CPU, p \in Priority : p \in summary[c] <=> ready[c][p] # <<>>

\* A thread is linked into at most one queue, once: it has a single
\* global_thread_list_entry, and add_tail does not look whether it is in use.
QueuedOnce ==
    /\ \A c \in CPU, p \in Priority : IsInjective(ready[c][p])
    /\ \A t \in Thread : \A x, y \in Places(t) : x = y

\* queued_cpu and queued_priority name the queue a queued thread is in: they are
\* the only place where remove_ready looks for it.
LocationTracked ==
    \A t \in Thread : \A x \in Places(t) :
        kthread[t].queuedCpu = x[1] /\ kthread[t].queuedPri = x[2]
=============================================================================
