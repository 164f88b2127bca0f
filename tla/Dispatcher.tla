---------------------------- MODULE Dispatcher ----------------------------
(***************************************************************************)
(* Waiting and waking: wait_on, wake and tick_wait_list of ke/dispatch.rs, *)
(* with the schedule and the clock tick of ke/scheduler.rs that they drive.*)
(*                                                                         *)
(* Every thread that ps creates, idle threads apart, has home CPU 0, so    *)
(* CPU 0 is the one that switches threads.  The other CPUs run their idle  *)
(* thread, and take part through it and through their interrupts: they wake*)
(* waiters and run tick_wait_list.                                         *)
(*                                                                         *)
(* A critical section is one action.  wait_on releases WAIT_LIST_LOCK      *)
(* before it calls schedule, and schedule releases its locks before it     *)
(* switches stacks; wakes, and the clock interrupt of CPU 0, come between. *)
(* Interrupts between schedule's unlock and its swap are left out.         *)
(***************************************************************************)
EXTENDS ReadyQueues

CONSTANTS
    BootThread,     \* the thread setup_bsp installed on CPU 0
    Unseeded,       \* threads whose saved kernel_rsp starts as 0
    Waiters,        \* the threads that call wait_on
    Object,         \* dispatcher objects
    SlotCount,      \* WAIT_LIST_TOTAL
    Quantum,        \* QUANTUM_DEFAULT
    Boost           \* what a wake adds to the priority (PRIORITY_BOOST_*)

ASSUME DispatcherAssumption ==
    /\ BootThread \in Thread /\ Waiters \subseteq Thread
    /\ Unseeded \subseteq Thread
    /\ SlotCount \in Nat \ {0} /\ Quantum \in Nat \ {0} /\ Boost \in Nat

Slot == 1 .. SlotCount
NoObject == "none"

VARIABLES
    current,    \* CPU 0's Prcb.current_thread
    executing,  \* the thread whose stack CPU 0 is on
    at,         \* where each thread is, below any interrupt
    isr,        \* whether a clock interrupt that called schedule is on its stack
    swap,       \* schedule's `current` and `next` from its unlock to its swap
    saved,      \* whose stack each thread's kernel_rsp points into
    quantum,    \* CPU 0's Prcb.quantum_remaining
    entry,      \* WAIT_ENTRIES and WAIT_ENTRIES_EXTRA
    waitList,   \* the threads linked from WAIT_LIST_HEAD
    object,     \* wait_on's argument
    cause       \* how the thread's latest wait was ended, "none" while it lasts

threadVars == <<current, executing, at, isr, swap, saved, quantum>>
waitVars == <<entry, waitList, object, cause>>
vars == <<queueVars, threadVars, waitVars>>

NoSwap == [from |-> NoThread, to |-> NoThread]
NoEntry == [thread |-> NoThread, object |-> NoObject, timed |-> FALSE,
            inUse |-> FALSE, signalled |-> FALSE, pending |-> FALSE]

TypeOK ==
    /\ QueueTypeOK
    /\ current \in Thread /\ executing \in Thread
    /\ at \in [Thread -> {"run", "block", "scan"}]
    /\ isr \in [Thread -> BOOLEAN]
    /\ swap \in [from : Thread \cup {NoThread}, to : Thread \cup {NoThread}]
    /\ saved \in [Thread -> Thread \cup {NoThread}]
    /\ quantum \in 1 .. Quantum
    /\ entry \in [Slot -> [thread : Thread \cup {NoThread}, object : Object \cup {NoObject},
                           timed : BOOLEAN, inUse : BOOLEAN, signalled : BOOLEAN,
                           pending : BOOLEAN]]
    /\ waitList \in Seq(Thread)
    /\ object \in [Thread -> Object \cup {NoObject}]
    /\ cause \in [Thread -> {"none", "signal", "timeout"}]

\* The boot thread runs, in the state Initialized that its creation left it in;
\* the others were made Ready and queued by add_ready.
KThreadAtBoot(t) ==
    [state |-> IF t = BootThread THEN "Initialized" ELSE "Ready",
     priority |-> 0, base |-> 0,
     queuedPri |-> IF t = BootThread THEN NeverQueued ELSE 0, queuedCpu |-> 0,
     home |-> BootCpu, affinity |-> AnyCpu, affinitized |-> FALSE]

\* The orders in which the threads of S can have been added.
Orders(S) == UNION {Bijection(1 .. n, S) : n \in 0 .. Cardinality(S)}

Init ==
    /\ \E q \in Orders(Thread \ {BootThread}) :
         ready = [c \in CPU |-> [p \in Priority |->
                    IF c = BootCpu /\ p = 0 THEN q ELSE <<>>]]
    /\ summary = [c \in CPU |-> IF c = BootCpu /\ Thread # {BootThread} THEN {0} ELSE {}]
    /\ kthread = [t \in Thread |-> KThreadAtBoot(t)]
    /\ current = BootThread /\ executing = BootThread
    /\ at = [t \in Thread |-> "run"]
    /\ isr = [t \in Thread |-> FALSE]
    /\ swap = NoSwap
    /\ saved = [t \in Thread |-> IF t \in Unseeded THEN NoThread ELSE t]
    /\ quantum = Quantum
    /\ entry = [i \in Slot |-> NoEntry]
    /\ waitList = <<>>
    /\ object = [t \in Thread |-> NoObject]
    /\ cause = [t \in Thread |-> "none"]

-----------------------------------------------------------------------------
(* schedule *)

\* An interrupt that wants to reschedule, a wait_on that has parked, and a
\* thread's own code through yield_ all call schedule.
InSchedule(t) == isr[t] \/ at[t] \in {"run", "block"}

\* Returning from schedule ends the interrupt that called it, or goes back to
\* yield_'s or wait_on's caller.  A thread's first activation starts in its own
\* code.
Return(t) ==
    IF isr[t]
    THEN isr' = [isr EXCEPT ![t] = FALSE] /\ UNCHANGED at
    ELSE /\ at' = [at EXCEPT ![t] = IF @ = "block" THEN "scan" ELSE @]
         /\ UNCHANGED isr

\* schedule, under its locks.  With nothing to run, or with the current thread
\* itself at the head of the queue, it returns at once.
Pick ==
    /\ InSchedule(executing) /\ swap = NoSwap
    /\ Install(Selected(Queues, BootCpu, current))
    /\ LET next == NextThread(Queues, BootCpu)
       IN  IF next \in {NoThread, current}
           THEN Return(executing) /\ UNCHANGED <<current, swap>>
           ELSE /\ current' = next
                /\ swap' = [from |-> current, to |-> next]
                /\ UNCHANGED <<at, isr>>
    /\ UNCHANGED <<executing, saved, quantum, waitVars>>

\* Mutant of ResumeStack: the outgoing thread's kernel_rsp is read.
ResumeFrom(sw) == saved[sw.from]

\* new_rsp, NoThread when it is 0.
ResumeStack(sw) == saved[sw.to]

\* schedule, after its locks: next becomes Running, and the stack is switched
\* unless next's kernel_rsp is 0.  swap_context saves the stack it leaves in
\* the context of the thread that current_thread named.
Swap ==
    /\ swap # NoSwap
    /\ Install(SetState(Queues, swap.to, "Running"))
    /\ LET stack == ResumeStack(swap)
       IN  IF stack = NoThread
           THEN Return(executing) /\ UNCHANGED <<executing, saved>>
           ELSE /\ executing' = stack
                /\ saved' = [saved EXCEPT ![swap.from] = executing]
                /\ Return(stack)
    /\ swap' = NoSwap
    /\ UNCHANGED <<current, quantum, waitVars>>
-----------------------------------------------------------------------------
(* wait_on *)

\* Mutant of FreeSlots: a result that has not been fetched does not hold a slot.
FreeSlotsNotInUse == {i \in Slot : ~entry[i].inUse}

\* find_free_slot: a slot whose result has not been fetched is not free.
FreeSlots == {i \in Slot : ~entry[i].inUse /\ ~entry[i].pending}

\* wait_on up to its call of schedule: the thread it parks is the one that CPU
\* 0's PRCB names.  With no free slot it returns Error and changes nothing.
\* A wait is timed when its deadline is a count that get_tick_count can return.
\* It is not when timeout_ms is u32::MAX, nor when the sum, a u64, lies beyond
\* the u32 tick count.
WaitOn(o, timed) ==
    /\ executing \in Waiters /\ swap = NoSwap
    /\ ~isr[executing] /\ at[executing] = "run"
    /\ FreeSlots # {}
    /\ entry' = [entry EXCEPT ![Min(FreeSlots)] =
                    [thread |-> current, object |-> o, timed |-> timed,
                     inUse |-> TRUE, signalled |-> FALSE, pending |-> @.pending]]
    /\ waitList' = Append(waitList, current)
    /\ Install(SetState(Queues, current, "Waiting"))
    /\ at' = [at EXCEPT ![executing] = "block"]
    /\ object' = [object EXCEPT ![executing] = o]
    /\ cause' = [cause EXCEPT ![executing] = "none"]
    /\ UNCHANGED <<current, executing, isr, swap, saved, quantum>>

\* The per-CPU current thread (percpu::get_current_thread): setup_bsp stores it,
\* and no context switch does.
PercpuThread == BootThread

\* The slot wait_on takes for its own once schedule has returned, {} if none.
OwnSlots(t) == {i \in Slot : entry[i].thread = PercpuThread /\ entry[i].object = object[t]}

Reply(t) ==
    IF OwnSlots(t) # {} /\ entry[Min(OwnSlots(t))].signalled THEN "Success" ELSE "Timeout"

\* wait_on after schedule: fetch the result and release the slot.
Scan ==
    /\ swap = NoSwap /\ ~isr[executing] /\ at[executing] = "scan"
    /\ entry' = [i \in Slot |->
                    IF OwnSlots(executing) # {} /\ i = Min(OwnSlots(executing))
                    THEN [entry[i] EXCEPT !.signalled = FALSE, !.pending = FALSE]
                    ELSE entry[i]]
    /\ at' = [at EXCEPT ![executing] = "run"]
    /\ object' = [object EXCEPT ![executing] = NoObject]
    /\ cause' = [cause EXCEPT ![executing] = "none"]
    /\ UNCHANGED <<queueVars, current, executing, isr, swap, saved, quantum, waitList>>

-----------------------------------------------------------------------------
(* wake and tick_wait_list *)

\* Mutant of Linked: the walk gives up at the first thread it does not wake.
LinkedHead(slots) ==
    IF waitList # <<>> /\ \E i \in slots : entry[i].thread = Head(waitList)
    THEN <<Head(waitList)>> ELSE <<>>

\* The linked threads that have one of these slots, and the slot each is woken
\* through.
Linked(slots) == Keep(waitList, {entry[i].thread : i \in slots})
FirstSlot(slots, t) == Min({i \in slots : entry[i].thread = t})

\* Mutant of Unlinked: a woken thread stays in the wait list.
UnlinkedNone(threads) == waitList

Unlinked(threads) == Keep(waitList, Thread \ Range(threads))

\* Mutant of Awaken: the thread's state is not set.
AwakenWaiting(s, t) ==
    LET p == BoostedPriority(s.kthread[t], Boost)
    IN  AddReady([s EXCEPT !.kthread[t].priority = p], t, AsU8(p))

\* A woken thread is Ready, boosted, and added to its ready queue.
Awaken(s, t) ==
    LET p == BoostedPriority(s.kthread[t], Boost)
    IN  AddReady([SetState(s, t, "Ready") EXCEPT !.kthread[t].priority = p], t, AsU8(p))

\* What both walks do with the threads they wake: complete the slot, make the
\* thread runnable, unlink it.  (A completed slot's deadline is never read.)
Complete(s, threads, slots, why) ==
    LET done == {FirstSlot(slots, t) : t \in Range(threads)}
    IN  /\ entry' = [i \in Slot |->
                        IF i \in done
                        THEN [entry[i] EXCEPT !.inUse = FALSE, !.pending = TRUE,
                                              !.timed = FALSE,
                                              !.signalled = (why = "signal")]
                        ELSE entry[i]]
        /\ Install(FoldLeft(Awaken, s, threads))
        /\ waitList' = Unlinked(threads)
        /\ cause' = [t \in Thread |-> IF t \in Range(threads) THEN why ELSE cause[t]]
        /\ UNCHANGED object

\* wake(object, all), by any CPU at any point where it can take WAIT_LIST_LOCK.
Wake(o, all) ==
    LET slots == {i \in Slot : entry[i].inUse /\ entry[i].object = o}
        found == Linked(slots)
    IN  /\ found # <<>>
        /\ Complete(Queues, IF all THEN found ELSE <<Head(found)>>, slots, "signal")
        /\ UNCHANGED threadVars

\* The slots whose deadline can have passed.
Timed == {i \in Slot : entry[i].inUse /\ entry[i].timed}

\* tick_wait_list, from the clock interrupt of another CPU.
RemoteTick(late) ==
    /\ late # {}
    /\ Complete(Queues, Linked(late), late, "timeout")
    /\ UNCHANGED threadVars

\* Mutant of NextQuantum: an expired quantum is not renewed.
QuantumNotRenewed == quantum - 1

NextQuantum == IF quantum = 1 THEN Quantum ELSE quantum - 1

\* The clock interrupt of CPU 0: tick (the quantum, or else the decay of a
\* boosted priority once it is due), tick_wait_list, and
\* dispatch_pending_reschedule for the request an expired quantum makes.
Clock(late, decay) ==
    LET expired == quantum = 1
        ticked == IF decay
                  THEN [Queues EXCEPT !.kthread[current].priority =
                                        DecayedPriority(kthread[current])]
                  ELSE Queues
    IN  /\ swap = NoSwap /\ ~isr[executing]
        /\ decay => ~expired /\ kthread[current].priority > kthread[current].base
        /\ quantum' = NextQuantum
        /\ isr' = [isr EXCEPT ![executing] = expired]
        /\ Complete(ticked, Linked(late), late, "timeout")
        /\ UNCHANGED <<current, executing, at, swap, saved>>

-----------------------------------------------------------------------------
Tick ==
    \/ \E late \in SUBSET Timed, decay \in BOOLEAN : Clock(late, decay)
    \/ \E late \in SUBSET Timed : RemoteTick(late)

Next ==
    \/ Pick \/ Swap \/ Scan
    \/ \E o \in Object, timed \in BOOLEAN : WaitOn(o, timed)
    \/ \E o \in Object, all \in BOOLEAN : Wake(o, all)
    \/ Tick

\* A tick of some clock that comes after the deadline of slot i.
TickPast(i) ==
    \E late \in SUBSET Timed :
        /\ i \in late
        /\ RemoteTick(late) \/ \E decay \in BOOLEAN : Clock(late, decay)

\* The clocks keep ticking, and time moves on past each deadline, whatever the
\* others are: weak fairness of TickPast(i) for each slot i, where a tick has
\* something to do for a slot with a deadline whose thread is linked.
Fairness ==
    \A i \in Slot : \/ []<>(i \notin Timed \/ Linked({i}) = <<>>)
                    \/ []<><<TickPast(i)>>_vars

Spec == Init /\ [][Next]_vars /\ Fairness

-----------------------------------------------------------------------------
(* Properties *)

\* The three records of a waiting thread agree whenever no lock is held: its
\* state is Waiting exactly while it is linked, once, in the wait list, and
\* then exactly one wait entry is in use for it.
WaitRecordsAgree ==
    /\ IsInjective(waitList)
    /\ \A t \in Thread :
          LET armed == {i \in Slot : entry[i].inUse /\ entry[i].thread = t}
          IN  /\ kthread[t].state = "Waiting" <=> t \in Range(waitList)
              /\ IF t \in Range(waitList) THEN \E i \in Slot : armed = {i} ELSE armed = {}

\* wait_on parks its caller: schedule does not return to it before a wake or the
\* deadline ended the wait.
WaitBlocks == \A t \in Thread : at[t] = "scan" => cause[t] # "none"

\* A recorded result stays in its slot until it is fetched: no new wait, wake or
\* tick writes to a pending slot, nor does a wait_on that looks for another
\* thread or object.  What takes it is a wait_on, back from schedule, that looks
\* for just that thread and object.  That need not be the wait_on the result
\* belongs to, as every wait_on looks for the per-CPU thread: ResultDelivered.
ResultKept ==
    [][\A i \in Slot : entry[i].pending /\ entry'[i] # entry[i] =>
            Scan /\ i \in OwnSlots(executing)]_vars

\* Outside a switch the PRCB names the thread whose stack the CPU is on.
ExecutesCurrent == swap = NoSwap => executing = current

\* A thread that could run is not forgotten: in the state Ready it is in a ready
\* queue or is the CPU's current thread ("re-queue it ... so it is not lost when
\* we switch away").
ReadyNotLost ==
    \A t \in Thread : kthread[t].state = "Ready" => Queued(t) \/ current = t

\* wait_on does not "classify a successfully woken waiter as a timeout", nor the
\* other way round.
ResultDelivered ==
    swap = NoSwap /\ ~isr[executing] /\ at[executing] = "scan" =>
        (Reply(executing) = "Success" <=> cause[executing] = "signal")

\* A thread that waits with a deadline becomes runnable, wherever it stands in
\* the wait list and whatever the deadlines of the others: tick_wait_list or a
\* wake makes it Ready and puts it in a ready queue.
TimedWaitEnds ==
    \A t \in Thread :
        (\E i \in Timed : entry[i].thread = t) ~> (kthread[t].state = "Ready" /\ Queued(t))
=============================================================================
