------------------------------ MODULE Balance ------------------------------
(***************************************************************************)
(* Moving threads between ready queues, ke/scheduler.rs: set_priority,     *)
(* set_thread_affinity, balance_load and ki_balance_processor, on CPUs that*)
(* preempt their threads all the time.  Threads here run and are preempted;*)
(* waiting and waking them is module Dispatcher's subject.                 *)
(*                                                                         *)
(* set_priority takes the SCHEDULER lock twice, once in remove_ready and   *)
(* once in add_ready, and reads the state and the queue location of the    *)
(* thread before the first: other CPUs run in between.                     *)
(***************************************************************************)
EXTENDS ReadyQueues

CONSTANTS
    Balancers,          \* which of the two balancing routines are called
    BalanceThreshold,   \* BALANCE_THRESHOLD_DEFAULT
    Tuned,              \* the threads whose priority or affinity is changed
    NewPriorities,      \* the priorities passed to set_priority
    Masks               \* the masks passed to set_thread_affinity

ASSUME BalanceAssumption ==
    /\ Balancers \subseteq {"balance_load", "ki_balance_processor"}
    /\ BalanceThreshold \in Nat \ {0}
    /\ Tuned \subseteq Thread
    /\ NewPriorities \subseteq Int
    /\ {} \notin Masks /\ Masks \subseteq SUBSET AnyCpu

VARIABLES
    current,    \* Prcb.current_thread; NoThread stands for the idle thread
    starting,   \* the thread schedule picked and has not yet marked Running
    call        \* the set_priority each CPU is executing

vars == <<queueVars, current, starting, call>>

NoCall == [at |-> "none", thread |-> NoThread, cpu |-> 0, pri |-> NeverQueued]
Call == [at : {"none", "remove", "add"}, thread : Thread \cup {NoThread},
         cpu : CPU, pri : Priority \cup {NeverQueued}]

TypeOK ==
    /\ QueueTypeOK
    /\ current \in [CPU -> Thread \cup {NoThread}]
    /\ starting \in [CPU -> Thread \cup {NoThread}]
    /\ call \in [CPU -> Call]

\* A new Kthread: no affinity set, home CPU 0, never queued.
NewKThread == [state |-> "Initialized", priority |-> 0, base |-> 0,
               queuedPri |-> NeverQueued, queuedCpu |-> 0,
               home |-> BootCpu, affinity |-> AnyCpu, affinitized |-> FALSE]

\* The idle thread of each CPU is running.  Its state is Initialized, so it is
\* not queued when the CPU leaves it for the first time.
Init ==
    /\ EmptyQueues
    /\ kthread = [t \in Thread |-> NewKThread]
    /\ current = [c \in CPU |-> NoThread]
    /\ starting = [c \in CPU |-> NoThread]
    /\ call = [c \in CPU |-> NoCall]

Idle(c) == starting[c] = NoThread /\ call[c].at = "none"

-----------------------------------------------------------------------------
(* Creation and preemption *)

\* ps_create_system_thread ends with state Ready and add_ready.
Create(t) ==
    /\ kthread[t].state = "Initialized"
    /\ LET s == SetState(Queues, t, "Ready")
       IN  Install(AddReady(s, t, AsU8(kthread[t].priority)))
    /\ UNCHANGED <<current, starting, call>>

\* schedule, up to the release of its locks.
Schedule(c) ==
    /\ Idle(c)
    /\ NextThread(Queues, c) # NoThread
    /\ Install(Selected(Queues, c, current[c]))
    /\ LET next == NextThread(Queues, c)
       IN  IF next = current[c]
           THEN UNCHANGED <<current, starting>>
           ELSE /\ current' = [current EXCEPT ![c] = next]
                /\ starting' = [starting EXCEPT ![c] = next]
    /\ UNCHANGED call

\* schedule, after it: the next thread becomes Running.
Start(c) ==
    /\ starting[c] # NoThread
    /\ Install(SetState(Queues, starting[c], "Running"))
    /\ starting' = [starting EXCEPT ![c] = NoThread]
    /\ UNCHANGED <<current, call>>

-----------------------------------------------------------------------------
(* set_priority and set_thread_affinity *)

\* The new priority is stored, and a Ready thread is looked up.
SetPriority(c, t, p) ==
    /\ Idle(c) /\ kthread[t].state # "Initialized"
    /\ kthread' = [kthread EXCEPT ![t] = [@ EXCEPT !.priority = p, !.base = p]]
    /\ call' = IF kthread[t].state = "Ready"
               THEN [call EXCEPT ![c] = [at |-> "remove", thread |-> t,
                                         cpu |-> kthread[t].queuedCpu,
                                         pri |-> kthread[t].queuedPri]]
               ELSE call
    /\ UNCHANGED <<ready, summary, current, starting>>

\* Mutant of RemoveOld: set_priority ignores what remove_ready returns.
RemoveOldUnchecked(c) ==
    /\ call[c].at = "remove"
    /\ LET t == call[c].thread
       IN  /\ Install(IF Finds(Queues, t, call[c].cpu, call[c].pri)
                      THEN RemoveReady(Queues, t, call[c].cpu, call[c].pri)
                      ELSE Queues)
           /\ call' = [call EXCEPT ![c] = [NoCall EXCEPT !.at = "add", !.thread = t]]
    /\ UNCHANGED <<current, starting>>

\* remove_ready, under the lock: a thread that is not where it was is left alone.
RemoveOld(c) ==
    /\ call[c].at = "remove"
    /\ LET t == call[c].thread
           found == Finds(Queues, t, call[c].cpu, call[c].pri)
       IN  /\ Install(IF found THEN RemoveReady(Queues, t, call[c].cpu, call[c].pri)
                               ELSE Queues)
           /\ call' = [call EXCEPT ![c] = IF found THEN [NoCall EXCEPT !.at = "add",
                                                                       !.thread = t]
                                                   ELSE NoCall]
    /\ UNCHANGED <<current, starting>>

\* add_ready, with the priority the thread has by now.
AddNew(c) ==
    /\ call[c].at = "add"
    /\ Install(AddReady(Queues, call[c].thread, Clamp(kthread[call[c].thread].priority)))
    /\ call' = [call EXCEPT ![c] = NoCall]
    /\ UNCHANGED <<current, starting>>

\* The thread may be anywhere; a queued one stays where it is.
SetAffinity(t, mask) ==
    /\ kthread' = [kthread EXCEPT ![t] = [@ EXCEPT !.affinity = mask, !.home = Min(mask),
                                                   !.affinitized = TRUE]]
    /\ UNCHANGED <<ready, summary, current, starting, call>>
-----------------------------------------------------------------------------
(* balance_load and ki_balance_processor *)

\* calculate_cpu_load: the lengths of the queues, added up in the array's order.
Load(c) ==
    FoldLeft(LAMBDA count, queue : count + Len(queue), 0,
             [i \in 1 .. TopPriority + 1 |-> ready[c][i - 1]])

\* Scanning the CPUs upwards with strict comparisons finds the first extreme.
MostLoaded == Min({c \in CPU : \A d \in CPU : Load(d) <= Load(c)})
LeastLoaded == Min({c \in CPU : \A d \in CPU : Load(c) <= Load(d)})

\* calculate_balance_threshold
Threshold ==
    LET avg == MapThenSumSet(Load, CPU) \div CpuCount
    IN  IF avg < 4 THEN BalanceThreshold ELSE BalanceThreshold + 1

Movable(k) == ~k.affinitized \/ Cardinality(k.affinity) > 1

\* find_migratable_thread: the lowest queue with a movable thread.  The result
\* is <<thread, priority>>, or <<>> when every queued thread is pinned.
Migratable(c) ==
    LET movable(p) == {i \in DOMAIN ready[c][p] : Movable(kthread[ready[c][p][i]])}
        levels == {p \in Priority : movable(p) # {}}
        lowest == Min(levels)
    IN  IF levels = {} THEN <<>>
        ELSE <<ready[c][lowest][Min(movable(lowest))], lowest>>

\* Mutant of Imbalanced: the threshold is left out.
ImbalancedAtAll == Load(MostLoaded) > Load(LeastLoaded)

Imbalanced == Load(MostLoaded) > Load(LeastLoaded) + Threshold

\* The thread goes to the tail of the same priority's queue on the other CPU,
\* and that CPU becomes its home: migrate_thread_locked looks at the affinity
\* mask, but only to return early when the mask is empty.
Moved(s, t, p, from, to) ==
    LET out == [Unlink(s, from, p, t) EXCEPT !.kthread[t].home = to]
    IN  [out EXCEPT !.ready[to][p] = Append(@, t), !.summary[to] = @ \cup {p}]

\* Mutant of Track: neither routine does.
TrackNever(b, s, t, p, to) == s

\* Only balance_load brings queued_cpu and queued_priority up to date.
Track(b, s, t, p, to) ==
    IF b = "balance_load"
    THEN [s EXCEPT !.kthread[t] = [@ EXCEPT !.queuedPri = p, !.queuedCpu = to]]
    ELSE s

Migrate(b) ==
    /\ CpuCount > 1
    /\ Imbalanced /\ Migratable(MostLoaded) # <<>>
    /\ LET t == Migratable(MostLoaded)[1]
           p == Migratable(MostLoaded)[2]
       IN  Install(Track(b, Moved(Queues, t, p, MostLoaded, LeastLoaded),
                         t, p, LeastLoaded))
    /\ UNCHANGED <<current, starting, call>>

-----------------------------------------------------------------------------
Next ==
    \/ \E t \in Thread : Create(t)
    \/ \E c \in CPU : Schedule(c) \/ Start(c) \/ RemoveOld(c) \/ AddNew(c)
    \/ \E c \in CPU, t \in Tuned, p \in NewPriorities : SetPriority(c, t, p)
    \/ \E t \in Tuned, mask \in Masks : SetAffinity(t, mask)
    \/ \E b \in Balancers : Migrate(b)

Spec == Init /\ [][Next]_vars

-----------------------------------------------------------------------------
(* Properties *)

InHand(t) == \E c \in CPU : call[c].at = "add" /\ call[c].thread = t

\* Who has a thread: a place in a ready queue, a CPU whose current_thread it is,
\* a set_priority between its remove_ready and its add_ready.
Owners(t) ==
    {<<"queue", place>> : place \in Places(t)}
        \cup {<<"current", c>> : c \in {d \in CPU : current[d] = t}}
        \cup {<<"call", c>> : c \in {d \in CPU : call[d].at = "add" /\ call[d].thread = t}}

\* No move loses a thread or leaves two CPUs with it: a created thread has exactly
\* one owner, however set_priority, schedule and the balancing routines interleave.
Conserved ==
    \A t \in Thread : kthread[t].state # "Initialized" =>
        \E o \in Owners(t) : Owners(t) = {o}

\* A thread's state says where it is: set_priority trusts Ready to mean queued,
\* which fails only while schedule is starting the thread or another set_priority
\* holds it.
StateTracksPlace ==
    \A t \in Thread :
        /\ kthread[t].state = "Running" => \E c \in CPU : current[c] = t
        /\ kthread[t].state = "Ready" =>
              Queued(t) \/ InHand(t) \/ \E c \in CPU : starting[c] = t

\* Balancing brings the loads together: a migration does not leave the CPU that
\* got the thread with more of them than the CPU that gave it, so two calls in a
\* row cannot pass a thread to and fro; and no two CPUs drift further apart.
Spread == Load(MostLoaded) - Load(LeastLoaded)
SpreadShrinks ==
    [][(\E b \in Balancers : Migrate(b)) =>
            /\ \A from, to \in CPU :
                  from = MostLoaded /\ to = LeastLoaded => Load(to)' <= Load(from)'
            /\ Spread' <= Spread]_vars

\* Threads of one queue take turns: no step puts a thread ahead of one that is
\* queued already, not even a switch that pops one thread and queues another, or
\* a set_priority or migration that moves a thread into a queue others wait in.
Before(queue, t, u) == \E i, j \in DOMAIN queue : i < j /\ queue[i] = t /\ queue[j] = u
KeepsOrder(old, new) ==
    \A t, u \in Thread : Contains(old, u) /\ Before(new, t, u) => Before(old, t, u)
NoOvertaking ==
    [][\A c \in CPU, p \in Priority : KeepsOrder(ready[c][p], ready'[c][p])]_vars
=============================================================================
