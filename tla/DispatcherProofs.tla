-------------------------- MODULE DispatcherProofs -------------------------
(***************************************************************************)
(* Waiting and waking keep their records straight, for any number of       *)
(* threads, CPUs, priorities, wait slots and objects.                      *)
(*                                                                         *)
(* wake and tick_wait_list walk wait_list and change the state thread by   *)
(* thread; the first part of this module says what such a walk computes.   *)
(***************************************************************************)
EXTENDS Dispatcher, ReadyQueuesProofs

-----------------------------------------------------------------------------
(* Waking a list of threads *)

\* The boost and the decay of a priority give a priority.
LEMMA PriorityTyped ==
    ASSUME NEW k \in KThread
    PROVE  BoostedPriority(k, Boost) \in Int /\ DecayedPriority(k) \in Int
<1>1. \A a, b \in Int : Max({a, b}) \in Int /\ Min({a, b}) \in Int
    <2> TAKE a, b \in Int
    <2>1. \E x \in {a, b} : \A y \in {a, b} : x >= y
        OBVIOUS
    <2>2. \E x \in {a, b} : \A y \in {a, b} : x <= y
        OBVIOUS
    <2>3. Max({a, b}) \in {a, b}
        BY <2>1, Zenon DEF Max
    <2>4. Min({a, b}) \in {a, b}
        BY <2>2, Zenon DEF Min
    <2> QED
        BY <2>3, <2>4
<1>2. k.priority \in Int /\ k.base \in Int /\ MaxBoosted \in Int /\ Boost \in Int
    BY QueueAssumption, DispatcherAssumption DEF KThread
<1>3. PICK from \in Int : from = Max({k.priority, k.base})
    BY <1>1, <1>2
<1>4. Min({from + Boost, MaxBoosted}) \in Int
    <2>1. PICK to \in Int : to = from + Boost
        BY <1>2
    <2> QED
        BY <1>1, <1>2, <2>1, Zenon
<1>5. BoostedPriority(k, Boost) \in Int
    BY <1>3, <1>4 DEF BoostedPriority
<1>6. PICK lower \in Int : lower = k.priority - 1
    BY <1>2
<1>7. Max({lower, k.base}) \in Int
    BY <1>1, <1>2
<1> QED
    BY <1>5, <1>6, <1>7 DEF DecayedPriority

\* Every thread's home is the boot CPU, and no other has a queued thread.
AtHome(s) ==
    \A t \in Thread : /\ s.kthread[t].home = BootCpu /\ BootCpu \in s.kthread[t].affinity
                      /\ \A c \in CPU, p \in Priority : In(s, c, p, t) => c = BootCpu

\* From s to e, the threads in W were made Ready and queued on the boot CPU.
Awakened(s, e, W) ==
    /\ e \in QState /\ Exact(e) /\ AtHome(e)
    /\ \A u \in Thread : InQueue(e, u) <=> InQueue(s, u) \/ u \in W
    /\ \A u \in Thread : e.kthread[u].state = IF u \in W THEN "Ready" ELSE s.kthread[u].state

\* Waking one thread, whatever the queues look like.
LEMMA AwakenTyped ==
    ASSUME NEW s \in QState, NEW t \in Thread, NEW e, e = Awaken(s, t)
    PROVE  /\ e \in QState
           /\ Exact(s) /\ AtHome(s) /\ ~InQueue(s, t) => Awakened(s, e, {t})
<1>1. PICK k \in KThread : k = s.kthread[t]
    BY DEF QState
<1>2. PICK p \in Int : p = BoostedPriority(k, Boost)
    BY PriorityTyped
<1>3. PICK m : m = SetState(s, t, "Ready")
    BY Zenon
<1>4. PICK n : n = [m EXCEPT !.kthread[t].priority = p]
    BY Zenon
<1>5. Restated(s, m, t, "Ready")
    BY <1>3, StateSet DEF State
<1>6. /\ n \in QState /\ n.ready = m.ready /\ n.summary = m.summary
      /\ \A u \in Thread : /\ n.kthread[u].home = m.kthread[u].home
                           /\ n.kthread[u].affinity = m.kthread[u].affinity
                           /\ n.kthread[u].state = m.kthread[u].state
    <2>1. m \in QState
        BY <1>5 DEF Restated
    <2> QED
        BY <1>4, <2>1, PrioritySet
<1>7. PICK u8 \in Nat : u8 = AsU8(p)
    BY QueueExists
<1>8. PICK r \in Priority : r = IF u8 > TopPriority THEN TopPriority ELSE u8
    BY QueueExists
<1>9. PICK c \in CPU : c = TargetCpu(n.kthread[t])
    BY TargetExists
<1>10. e = Enqueue(n, c, r, t)
    <2>1. e = AddReady(n, t, u8)
        BY <1>1, <1>2, <1>3, <1>4, <1>7 DEF Awaken
    <2> QED
        BY <1>8, <1>9, <2>1 DEF AddReady
<1>11. e \in QState
    BY <1>6, <1>10, EnqueueTyped
<1>12. ASSUME Exact(s), AtHome(s), ~InQueue(s, t)
       PROVE  Awakened(s, e, {t})
    <2>1. n.ready = s.ready /\ n.summary = s.summary
        BY <1>5, <1>6 DEF Restated
    <2>2. /\ Exact(n) /\ ~InQueue(n, t)
          /\ \A d, q, u : In(n, d, q, u) <=> In(s, d, q, u)
        BY <1>12, <2>1, SameQueues
    <2>3. Entered(n, e, c, r, t)
        BY <1>6, <1>10, <2>2, Enqueued
    <2>4. \A u \in Thread : /\ n.kthread[u].home = s.kthread[u].home
                            /\ n.kthread[u].affinity = s.kthread[u].affinity
                            /\ n.kthread[u].state = IF u = t THEN "Ready" ELSE s.kthread[u].state
        BY <1>5, <1>6, SMTT(30), Z3T(30) DEF Restated, Alike
    <2>5. c = BootCpu
        BY <1>9, <1>12, <2>4, QueueAssumption DEF AtHome, TargetCpu, CPU, BootCpu
    <2>6. \A d \in CPU, q \in Priority, u \in Thread :
              In(e, d, q, u) <=> In(s, d, q, u) \/ <<d, q, u>> = <<c, r, t>>
        BY <2>2, <2>3 DEF Entered
    <2>7. \A u \in Thread : /\ e.kthread[u].home = s.kthread[u].home
                            /\ e.kthread[u].affinity = s.kthread[u].affinity
                            /\ e.kthread[u].state = IF u = t THEN "Ready" ELSE s.kthread[u].state
        BY <2>3, <2>4 DEF Entered, Alike
    <2>8. AtHome(e)
        <3>1. \A u \in Thread, d \in CPU, q \in Priority : In(e, d, q, u) => d = BootCpu
            BY <1>12, <2>5, <2>6 DEF AtHome
        <3> QED
            BY <1>12, <2>7, <3>1 DEF AtHome
    <2>9. \A u \in Thread : InQueue(e, u) <=> InQueue(s, u) \/ u \in {t}
        BY <2>6 DEF InQueue
    <2> QED
        BY <1>11, <2>3, <2>7, <2>8, <2>9 DEF Awakened, Entered
<1> QED
    BY <1>11, <1>12

\* g is the fold that waking the threads of a list takes.
AwakensWith(g, s, q) ==
    g = [z \in SUBSET DOMAIN q |->
           IF z = {} THEN s ELSE Awaken(g[z \ {Max(z)}], q[Max(z)])]

\* Waking the threads of a list is a fold over its positions.
LEMMA AwakenFold ==
    ASSUME NEW s, NEW q, NEW g, AwakensWith(g, s, q)
    PROVE  \E f : AwakensWith(f, s, q) /\ FoldLeft(Awaken, s, q) = f[DOMAIN q]
    BY Zenon DEF AwakensWith, FoldLeft, MapThenFoldSet

\* The queues after each of the wakes of a walk.
AwakenedUpTo(r, s, q) ==
    r[0] = s /\ \A k \in 1 .. Len(q) : r[k] = Awaken(r[k - 1], q[k])

\* The threads of a list are woken one after the other.
LEMMA AwakenSteps ==
    ASSUME NEW s \in QState, NEW q \in Seq(Thread)
    PROVE  \E r : AwakenedUpTo(r, s, q) /\ FoldLeft(Awaken, s, q) = r[Len(q)]
<1>1. PICK n \in Nat : n = Len(q) /\ DOMAIN q = 1 .. n
    BY Positions
<1>2. \A i \in 1 .. n : q[i] \in Thread
    BY <1>1
<1>3. PICK V : V = QState
    BY Zenon
<1>4. PICK op : op = [x \in V \X (1 .. n) |-> Awaken(x[1], q[x[2]])]
    BY Zenon
<1>5. FoldOp(op, n, V)
    <2>1. ASSUME NEW v \in V, NEW i \in 1 .. n
          PROVE  Awaken(v, q[i]) \in V
        <3>1. PICK w \in QState : w = v
            BY <1>3, Zenon
        <3>2. PICK t \in Thread : t = q[i]
            BY <1>2, Zenon
        <3>3. Awaken(w, t) \in QState
            BY AwakenTyped, Zenon
        <3> QED
            BY <1>3, <3>1, <3>2, <3>3, Zenon
    <2>2. ASSUME NEW x \in V \X (1 .. n)
          PROVE  Awaken(x[1], q[x[2]]) \in V
        <3>1. x[1] \in V /\ x[2] \in 1 .. n
            OBVIOUS
        <3> QED
            BY <2>1, <3>1, Zenon
    <2> QED
        BY <1>4, <2>2, Zenon DEF FoldOp
<1>6. PICK g \in [SUBSET (1 .. n) -> V] : \A z \in SUBSET (1 .. n) : Folds(g, op, s, z)
    <2>1. PICK base \in V : base = s
        BY <1>3, Zenon
    <2>2. HasFold(n, V, base, op)
        BY <1>5, FoldExists
    <2> QED
        BY <2>1, <2>2 DEF HasFold
<1>7. ASSUME NEW z \in SUBSET (1 .. n)
      PROVE  g[z] = IF z = {} THEN s ELSE Awaken(g[z \ {Max(z)}], q[Max(z)])
    <2>1. CASE z = {}
        BY <1>6, <2>1, Zenon DEF Folds
    <2>2. CASE z # {}
        <3>1. Max(z) \in 1 .. n /\ z \ {Max(z)} \in SUBSET (1 .. n)
            BY <2>2, LastPosition, Zenon
        <3>2. PICK v \in V, i \in 1 .. n : v = g[z \ {Max(z)}] /\ i = Max(z)
            BY <1>6, <3>1, Zenon
        <3>3. g[z] = op[<<v, i>>]
            BY <1>6, <2>2, <3>2, Zenon DEF Folds
        <3>4. op[<<v, i>>] = Awaken(v, q[i])
            BY <1>4
        <3> QED
            BY <2>2, <3>2, <3>3, <3>4, Zenon
    <2> QED
        BY <2>1, <2>2
<1>8. AwakensWith(g, s, q)
    <2>1. g = [z \in SUBSET (1 .. n) |-> g[z]]
        BY <1>6
    <2> QED
        BY <1>1, <1>7, <2>1, Zenon DEF AwakensWith
<1>9. PICK f : AwakensWith(f, s, q) /\ FoldLeft(Awaken, s, q) = f[DOMAIN q]
    BY <1>8, AwakenFold, Zenon
<1>10. \A z \in SUBSET (1 .. n) :
           f[z] = IF z = {} THEN s ELSE Awaken(f[z \ {Max(z)}], q[Max(z)])
    BY <1>1, <1>9, Zenon DEF AwakensWith
<1>11. PICK r : r = [k \in 0 .. n |-> f[1 .. k]]
    BY Zenon
<1>12. r[0] = s
    <2>1. 1 .. 0 = {} /\ 0 \in 0 .. n
        OBVIOUS
    <2> QED
        BY <1>10, <1>11, <2>1, Zenon
<1>13. ASSUME NEW k \in 1 .. n
       PROVE  r[k] = Awaken(r[k - 1], q[k])
    <2>1. PICK z : z = 1 .. k
        BY Zenon
    <2>2. z \in SUBSET (1 .. n) /\ z # {}
        <3>1. 1 \in z /\ \A i \in z : i \in 1 .. n
            BY <2>1
        <3> QED
            BY <3>1
    <2>3. Max(z) = k /\ z \ {Max(z)} = 1 .. k - 1
        <3>1. \A j \in 1 .. n : z = 1 .. j => Max(z) = j /\ z \ {Max(z)} = 1 .. j - 1
            BY <2>2, LastPosition, Zenon
        <3> QED
            BY <2>1, <3>1, Zenon
    <2>4. f[z] = Awaken(f[1 .. k - 1], q[k])
        BY <1>10, <2>2, <2>3, Zenon
    <2>5. k \in 0 .. n /\ k - 1 \in 0 .. n
        OBVIOUS
    <2>6. r[k] = f[z] /\ r[k - 1] = f[1 .. k - 1]
        BY <1>11, <2>1, <2>5
    <2> QED
        BY <2>4, <2>6, Zenon
<1>14. FoldLeft(Awaken, s, q) = r[n]
    <2>1. n \in 0 .. n
        OBVIOUS
    <2>2. r[n] = f[1 .. n]
        BY <1>11, <2>1
    <2> QED
        BY <1>1, <1>9, <2>2, Zenon
<1> QED
    BY <1>1, <1>12, <1>13, <1>14, Zenon DEF AwakenedUpTo

\* Waking the threads of a list: the queues keep their type, and threads that
\* were in no queue are each Ready and queued on the boot CPU, once.
LEMMA WokenAll ==
    ASSUME NEW s \in QState, NEW q \in Seq(Thread), NEW e, e = FoldLeft(Awaken, s, q)
    PROVE  /\ e \in QState
           /\ (/\ Exact(s) /\ AtHome(s) /\ IsInjective(q)
               /\ \A u \in Thread : Contains(q, u) => ~InQueue(s, u))
              => Awakened(s, e, {u \in Thread : Contains(q, u)})
<1>1. PICK r : AwakenedUpTo(r, s, q) /\ e = r[Len(q)]
    BY AwakenSteps, Zenon
<1>2. PICK n \in Nat : n = Len(q) /\ DOMAIN q = 1 .. n /\ \A i \in 1 .. n : q[i] \in Thread
    BY Positions
<1> DEFINE Fresh == /\ Exact(s) /\ AtHome(s) /\ IsInjective(q)
                    /\ \A u \in Thread : Contains(q, u) => ~InQueue(s, u)
           Upto(k) == {u \in Thread : \E i \in 1 .. k : q[i] = u}
           Good(k) == r[k] \in QState /\ (Fresh => Awakened(s, r[k], Upto(k)))
<1>3. Good(0)
    <2>1. r[0] = s
        BY <1>1 DEF AwakenedUpTo
    <2>2. \A u \in Thread : u \notin Upto(0)
        OBVIOUS
    <2> QED
        BY <2>1, <2>2 DEF Awakened
<1>4. ASSUME NEW k \in 1 .. n, Good(k - 1)
      PROVE  Good(k)
    <2>1. PICK a \in QState : a = r[k - 1]
        BY <1>4
    <2>2. PICK t \in Thread : t = q[k]
        BY <1>2
    <2>3. PICK b : b = r[k]
        BY Zenon
    <2>4. b = Awaken(a, t)
        BY <1>1, <1>2, <2>1, <2>2, <2>3, Zenon DEF AwakenedUpTo
    <2>5. /\ b \in QState
          /\ Exact(a) /\ AtHome(a) /\ ~InQueue(a, t) => Awakened(a, b, {t})
        BY <2>4, AwakenTyped, ZenonT(30)
    <2>6. ASSUME Fresh
          PROVE  Awakened(s, b, Upto(k))
        <3>1. Awakened(s, a, Upto(k - 1))
            BY <1>4, <2>1, <2>6
        <3>2. \A u \in Thread : u \in Upto(k) <=> u \in Upto(k - 1) \/ u = t
            <4>1. \A i \in 1 .. k : i = k \/ i \in 1 .. k - 1
                OBVIOUS
            <4>2. k \in 1 .. k /\ \A i \in 1 .. k - 1 : i \in 1 .. k
                OBVIOUS
            <4> QED
                BY <2>2, <4>1, <4>2, Zenon
        <3>3. t \notin Upto(k - 1)
            <4>1. \A i \in 1 .. k - 1 : i \in DOMAIN q /\ k \in DOMAIN q /\ i # k
                BY <1>2
            <4> QED
                BY <2>2, <2>6, <4>1, Zenon DEF IsInjective
        <3>4. ~InQueue(s, t)
            <4>1. Contains(q, t)
                BY <1>2, <2>2 DEF Contains
            <4> QED
                BY <2>6, <4>1
        <3> HIDE DEF Upto
        <3>5. Exact(a) /\ AtHome(a) /\ ~InQueue(a, t)
            BY <3>1, <3>3, <3>4 DEF Awakened
        <3>6. Awakened(a, b, {t})
            BY <2>5, <3>5
        <3> QED
            BY <3>1, <3>2, <3>6 DEF Awakened
    <2> QED
        BY <2>3, <2>5, <2>6
<1>5. Good(n)
    <2> HIDE DEF Good
    <2> DEFINE Bad == {k \in 0 .. n : ~Good(k)}
    <2>1. SUFFICES ASSUME ~Good(n) PROVE FALSE
        OBVIOUS
    <2>2. Bad # {}
        <3>1. n \in 0 .. n
            BY <1>2
        <3> QED
            BY <2>1, <3>1
    <2>3. PICK k \in Bad : \A m \in Bad : k <= m
        <3>1. Bad \in SUBSET Nat
            OBVIOUS
        <3> HIDE DEF Bad
        <3> QED
            BY <2>2, <3>1, Least, Zenon
    <2>4. k \in 0 .. n /\ ~Good(k)
        BY <2>3
    <2>5. k # 0
        BY <1>3, <2>4
    <2>6. k \in 1 .. n /\ k - 1 \in 0 .. n /\ ~(k <= k - 1)
        BY <2>4, <2>5
    <2>7. k - 1 \notin Bad
        <3> HIDE DEF Bad
        <3> QED
            BY <2>3, <2>6
    <2>8. Good(k - 1)
        BY <2>6, <2>7
    <2> QED
        BY <1>4, <2>4, <2>6, <2>8
<1>6. Upto(n) = {u \in Thread : Contains(q, u)}
    BY <1>2 DEF Contains
<1> HIDE DEF Upto, Fresh
<1>7. e \in QState /\ (Fresh => Awakened(s, e, {u \in Thread : Contains(q, u)}))
    BY <1>1, <1>2, <1>5, <1>6
<1> USE DEF Fresh
<1> QED
    BY <1>7, Zenon

-----------------------------------------------------------------------------
(* What holds for every value of the constants *)

\* Both ends of a switch are threads, and a slot that waits for its result to
\* be fetched is not in use.
SwapTyped == swap # NoSwap => swap.from \in Thread /\ swap.to \in Thread
SlotOnce == \A i \in Slot : ~(entry[i].inUse /\ entry[i].pending)
WInv == TypeOK /\ SwapTyped /\ SlotOnce

\* The threads a walk wakes, and the slots it goes by: each is linked in the wait
\* list and has a slot in use.
Woken(threads, slots) ==
    /\ slots \in SUBSET Slot /\ \A i \in slots : entry[i].inUse
    /\ threads \in Seq(Thread)
    /\ IsInjective(waitList) => IsInjective(threads)
    /\ \A u \in Thread : Contains(threads, u) =>
          Contains(waitList, u) /\ \E i \in slots : entry[i].thread = u

\* The linked threads that have one of these slots.
LEMMA LinkedWoken ==
    ASSUME TypeOK, NEW slots \in SUBSET Slot, \A i \in slots : entry[i].inUse,
           NEW found, found = Linked(slots)
    PROVE  /\ Woken(found, slots)
           /\ found # <<>> => Woken(<<Head(found)>>, slots)
<1>1. PICK S : S = {entry[i].thread : i \in slots}
    BY Zenon
<1>2. PICK q \in Seq(Thread) : q = waitList
    BY DEF TypeOK
<1>3. found = Keep(q, S)
    BY <1>1, <1>2, Zenon DEF Linked
<1>4. /\ found \in Seq(Thread) /\ (IsInjective(q) => IsInjective(found))
      /\ \A u : Contains(found, u) <=> Contains(q, u) /\ u \in S
    BY <1>3, Kept
<1>5. \A u : u \in S <=> \E i \in slots : entry[i].thread = u
    BY <1>1
<1>6. Woken(found, slots)
    BY <1>2, <1>4, <1>5 DEF Woken
<1>7. ASSUME found # <<>>
      PROVE  Woken(<<Head(found)>>, slots)
    <2>1. PICK h \in Thread : h = Head(found) /\ Contains(found, h)
        BY <1>4, <1>7 DEF Contains
    <2>2. <<h>> \in Seq(Thread) /\ IsInjective(<<h>>)
        BY DEF IsInjective
    <2>3. \A u : Contains(<<h>>, u) => u = h
        BY DEF Contains
    <2> QED
        BY <1>6, <2>1, <2>2, <2>3 DEF Woken
<1> QED
    BY <1>6, <1>7

\* The first of a thread's slots.
LEMMA FirstSlotFound ==
    ASSUME NEW slots \in SUBSET Slot, NEW t, \E i \in slots : entry[i].thread = t
    PROVE  FirstSlot(slots, t) \in slots /\ entry[FirstSlot(slots, t)].thread = t
<1>1. PICK I : I = {i \in slots : entry[i].thread = t}
    BY Zenon
<1>2. I \in SUBSET Nat /\ I # {}
    <2>1. \A i \in Slot : i \in Nat
        BY DispatcherAssumption DEF Slot
    <2> QED
        BY <1>1, <2>1
<1>3. Min(I) \in I
    BY <1>2, Least
<1>4. FirstSlot(slots, t) = Min(I)
    BY <1>1 DEF FirstSlot
<1> QED
    BY <1>1, <1>3, <1>4

EntryType == [thread : Thread \cup {NoThread}, object : Object \cup {NoObject}, timed : BOOLEAN,
              inUse : BOOLEAN, signalled : BOOLEAN, pending : BOOLEAN]

\* What a completion does to the slots: those of the threads in W, one each, are
\* no longer in use and pending, and no other is changed.
SlotsDone(W, done) ==
    /\ done \in SUBSET Slot
    /\ \A i \in done : entry[i].inUse /\ entry[i].thread \in W
    /\ \A u \in W : \E i \in done : entry[i].thread = u
    /\ entry' \in [Slot -> EntryType]
    /\ \A i \in done : /\ ~entry'[i].inUse /\ entry'[i].pending
                       /\ entry'[i].thread = entry[i].thread
    /\ \A i \in Slot \ done : entry'[i] = entry[i]

\* What it does to the wait list, and to what is known of the waits.
Unlinks(W, why) ==
    /\ waitList' \in Seq(Thread)
    /\ \A u \in Thread : Contains(waitList', u) <=> Contains(waitList, u) /\ u \notin W
    /\ IsInjective(waitList) => IsInjective(waitList')
    /\ cause' = [t \in Thread |-> IF t \in W THEN why ELSE cause[t]]
    /\ object' = object

\* wake and tick_wait_list complete the waits of the threads they wake.
LEMMA Completed ==
    ASSUME TypeOK, NEW s \in QState, NEW threads, NEW slots, Woken(threads, slots),
           NEW why \in {"signal", "timeout"}, Complete(s, threads, slots, why),
           NEW W, W = {u \in Thread : Contains(threads, u)}
    PROVE  /\ \E done : SlotsDone(W, done)
           /\ Unlinks(W, why)
           /\ Install(FoldLeft(Awaken, s, threads))
<1>1. threads \in Seq(Thread) /\ slots \in SUBSET Slot
    BY DEF Woken
<1>2. \A u : u \in Range(threads) <=> u \in W
    <2>1. \A u : Contains(threads, u) => u \in Thread
        BY <1>1, Positions DEF Contains
    <2> QED
        BY <1>1, <2>1, ElementOf
<1>3. PICK done : done = {FirstSlot(slots, u) : u \in W}
    BY Zenon
<1>4. {FirstSlot(slots, u) : u \in Range(threads)} = done
    BY <1>2, <1>3
<1>5. entry' = [i \in Slot |->
                  IF i \in done
                  THEN [entry[i] EXCEPT !.inUse = FALSE, !.pending = TRUE, !.timed = FALSE,
                                        !.signalled = (why = "signal")]
                  ELSE entry[i]]
    BY <1>4, Zenon DEF Complete
<1>6. waitList' = Keep(waitList, Thread \ Range(threads))
    BY Zenon DEF Complete, Unlinked
<1>7. cause' = [t \in Thread |-> IF t \in Range(threads) THEN why ELSE cause[t]] /\ object' = object
    BY Zenon DEF Complete
<1>8. Install(FoldLeft(Awaken, s, threads))
    BY Zenon DEF Complete
<1>9. \A u \in W : FirstSlot(slots, u) \in slots /\ entry[FirstSlot(slots, u)].thread = u
    <2> TAKE u \in W
    <2>1. \E i \in slots : entry[i].thread = u
        BY DEF Woken
    <2> QED
        BY <1>1, <2>1, FirstSlotFound
<1>10. entry \in [Slot -> EntryType]
    BY Zenon DEF TypeOK, EntryType
<1>11. SlotsDone(W, done)
    <2>1. done \in SUBSET Slot
        BY <1>1, <1>3, <1>9, Zenon
    <2>2. \A i \in done : entry[i].inUse /\ entry[i].thread \in W
        BY <1>3, <1>9 DEF Woken
    <2>3. \A u \in W : \E i \in done : entry[i].thread = u
        BY <1>3, <1>9
    <2>4. PICK sig \in BOOLEAN : sig = (why = "signal")
        BY Zenon
    <2>5. ASSUME NEW i \in done
          PROVE  /\ entry'[i] \in EntryType /\ ~entry'[i].inUse /\ entry'[i].pending
                 /\ entry'[i].thread = entry[i].thread
        <3>1. PICK x \in EntryType : x = entry[i]
            BY <1>10, <2>1
        <3>2. PICK y : y = [x EXCEPT !.inUse = FALSE, !.pending = TRUE, !.timed = FALSE,
                                     !.signalled = sig]
            BY ZenonT(30)
        <3>3. entry'[i] = y
            BY <1>5, <2>1, <2>4, <3>1, <3>2, Zenon
        <3>4. y \in EntryType /\ ~y.inUse /\ y.pending /\ y.thread = x.thread
            BY <3>2, ZenonT(30) DEF EntryType
        <3> QED
            BY <3>1, <3>3, <3>4
    <2>6. \A i \in Slot \ done : entry'[i] = entry[i]
        BY <1>5, Zenon
    <2>7. entry' \in [Slot -> EntryType]
        <3>1. \A i \in Slot : entry'[i] \in EntryType
            BY <1>10, <2>5, <2>6, Zenon
        <3>2. entry' = [i \in Slot |-> entry'[i]]
            BY <1>5, Zenon
        <3> QED
            BY <3>1, <3>2
    <2> QED
        BY <2>1, <2>2, <2>3, <2>5, <2>6, <2>7, Zenon DEF SlotsDone
<1>12. Unlinks(W, why)
    <2>1. PICK q \in Seq(Thread) : q = waitList
        BY DEF TypeOK
    <2>2. PICK S : S = Thread \ Range(threads)
        BY Zenon
    <2>3. /\ Keep(q, S) \in Seq(Thread) /\ (IsInjective(q) => IsInjective(Keep(q, S)))
          /\ \A u : Contains(Keep(q, S), u) <=> Contains(q, u) /\ u \in S
        BY Kept
    <2>4. waitList' = Keep(q, S)
        BY <1>6, <2>1, <2>2
    <2>5. \A u \in Thread : u \in S <=> u \notin W
        BY <1>2, <2>2
    <2>6. cause' = [t \in Thread |-> IF t \in W THEN why ELSE cause[t]]
        BY <1>2, <1>7
    <2> QED
        BY <1>7, <2>1, <2>3, <2>4, <2>5, <2>6, ZenonT(30) DEF Unlinks
<1> QED
    BY <1>8, <1>11, <1>12

\* The queues a walk starts from: a decay may have changed a priority.
Decayed(s) ==
    /\ s \in QState /\ s.ready = ready /\ s.summary = summary
    /\ \A u \in Thread : /\ s.kthread[u].home = kthread[u].home
                         /\ s.kthread[u].affinity = kthread[u].affinity
                         /\ s.kthread[u].state = kthread[u].state

\* A step that completes waits, and otherwise ticks at most.
Completion(s, threads, slots, why) ==
    /\ Decayed(s) /\ Woken(threads, slots) /\ why \in {"signal", "timeout"}
    /\ Complete(s, threads, slots, why)
    /\ UNCHANGED <<current, executing, at, swap, saved>>
    /\ \/ UNCHANGED <<isr, quantum>>
       \/ isr' = [isr EXCEPT ![executing] = (quantum = 1)] /\ quantum' = NextQuantum

\* Where no priority decays, the queues are as they were.
LEMMA QueuesUndecayed ==
    ASSUME TypeOK
    PROVE  Decayed(Queues)
<1>1. Queues \in QState
    BY QueuesTyped DEF TypeOK
<1> QED
    BY <1>1 DEF Decayed, Queues

\* wake completes waits with the reason "signal".
LEMMA WakeCompletes ==
    ASSUME TypeOK, NEW o, NEW all \in BOOLEAN, Wake(o, all)
    PROVE  \E s, threads, slots, why : Completion(s, threads, slots, why)
<1>1. PICK slots : slots = {i \in Slot : entry[i].inUse /\ entry[i].object = o}
    BY Zenon
<1>2. PICK found : found = Linked(slots)
    BY Zenon
<1>3. slots \in SUBSET Slot /\ \A i \in slots : entry[i].inUse
    BY <1>1
<1>4. PICK threads : threads = IF all THEN found ELSE <<Head(found)>>
    BY Zenon
<1>5. found # <<>> /\ Complete(Queues, threads, slots, "signal") /\ UNCHANGED threadVars
    BY <1>1, <1>2, <1>4, Zenon DEF Wake
<1>6. Woken(threads, slots)
    BY <1>2, <1>3, <1>4, <1>5, LinkedWoken
<1>7. Decayed(Queues)
    BY QueuesUndecayed
<1>8. Completion(Queues, threads, slots, "signal")
    BY <1>5, <1>6, <1>7 DEF Completion, threadVars
<1> QED
    BY <1>8, Zenon

\* tick_wait_list on another CPU completes waits with the reason "timeout".
LEMMA RemoteTickCompletes ==
    ASSUME TypeOK, NEW late \in SUBSET Timed, RemoteTick(late)
    PROVE  \E s, threads, slots, why : Completion(s, threads, slots, why)
<1>1. late \in SUBSET Slot /\ \A i \in late : entry[i].inUse
    BY DEF Timed
<1>2. PICK threads : threads = Linked(late)
    BY Zenon
<1>3. Complete(Queues, threads, late, "timeout") /\ UNCHANGED threadVars
    BY <1>2, Zenon DEF RemoteTick
<1>4. Woken(threads, late)
    BY <1>1, <1>2, LinkedWoken, Zenon
<1>5. Decayed(Queues)
    BY QueuesUndecayed
<1>6. Completion(Queues, threads, late, "timeout")
    BY <1>3, <1>4, <1>5 DEF Completion, threadVars
<1> QED
    BY <1>6, Zenon

\* clock_tick completes waits with the reason "timeout", after it has decayed the
\* current thread's priority; it comes between switches only.
LEMMA ClockCompletes ==
    ASSUME TypeOK, NEW late \in SUBSET Timed, NEW decay \in BOOLEAN, Clock(late, decay)
    PROVE  /\ \E s, threads, slots, why : Completion(s, threads, slots, why)
           /\ swap = NoSwap
<1>1. late \in SUBSET Slot /\ \A i \in late : entry[i].inUse
    BY DEF Timed
<1>2. PICK threads : threads = Linked(late)
    BY Zenon
<1>3. Woken(threads, late)
    BY <1>1, <1>2, LinkedWoken, Zenon
<1>4. PICK s0 \in QState : s0 = Queues /\ Decayed(s0)
    BY QueuesUndecayed DEF Decayed
<1>5. PICK p \in Int : p = DecayedPriority(kthread[current])
    <2>1. kthread[current] \in KThread
        BY DEF TypeOK, QueueTypeOK
    <2> QED
        BY <2>1, PriorityTyped
<1>6. PICK s1 : s1 = [s0 EXCEPT !.kthread[current].priority = p]
    BY Zenon
<1>7. Decayed(s1)
    <2>1. current \in Thread
        BY DEF TypeOK
    <2>2. /\ s1 \in QState /\ s1.ready = s0.ready /\ s1.summary = s0.summary
          /\ \A u \in Thread : /\ s1.kthread[u].home = s0.kthread[u].home
                               /\ s1.kthread[u].affinity = s0.kthread[u].affinity
                               /\ s1.kthread[u].state = s0.kthread[u].state
        BY <1>6, <2>1, PrioritySet
    <2> QED
        BY <1>4, <2>2 DEF Decayed
<1>8. PICK s : s = IF decay THEN s1 ELSE s0
    BY Zenon
<1>9. /\ Complete(s, threads, late, "timeout")
      /\ UNCHANGED <<current, executing, at, swap, saved>> /\ swap = NoSwap
      /\ isr' = [isr EXCEPT ![executing] = (quantum = 1)] /\ quantum' = NextQuantum
    BY <1>2, <1>4, <1>5, <1>6, <1>8, Zenon DEF Clock
<1>10. Decayed(s)
    BY <1>4, <1>7, <1>8
<1>11. Completion(s, threads, late, "timeout")
    BY <1>3, <1>9, <1>10, Zenon DEF Completion
<1> QED
    BY <1>9, <1>11, Zenon

At == {"run", "block", "scan"}

\* Where a return from schedule leaves the threads.
LEMMA Returned ==
    ASSUME at \in [Thread -> At], isr \in [Thread -> BOOLEAN], NEW t \in Thread, Return(t)
    PROVE  /\ at' \in [Thread -> At] /\ isr' \in [Thread -> BOOLEAN]
           /\ \A u \in Thread : \/ at'[u] = at[u]
                                \/ u = t /\ at[u] = "block" /\ at'[u] = "scan"
<1>1. CASE isr[t]
    BY <1>1, Zenon DEF Return
<1>2. CASE ~isr[t]
    <2>1. PICK a \in At : a = IF at[t] = "block" THEN "scan" ELSE at[t]
        BY DEF At
    <2>2. at' = [at EXCEPT ![t] = a] /\ isr' = isr
        BY <1>2, <2>1 DEF Return
    <2> QED
        BY <2>1, <2>2
<1> QED
    BY <1>1, <1>2

\* A slot that keeps a result is not written to.
PendingKept == \A i \in Slot : entry[i].pending => entry'[i] = entry[i]

\* schedule's choice keeps the types and writes to no slot.
LEMMA PickTyped ==
    ASSUME WInv, Pick
    PROVE  WInv' /\ PendingKept
<1>1. PICK s \in QState : s = Queues
    BY QueuesTyped DEF WInv, TypeOK
<1>2. current \in Thread /\ executing \in Thread /\ BootCpu \in CPU
    BY QueueAssumption DEF WInv, TypeOK, BootCpu, CPU
<1>3. PICK e : e = Selected(s, BootCpu, current)
    BY Zenon
<1>4. PICK next : next = NextThread(s, BootCpu)
    BY Zenon
<1>5. e \in QState /\ next \in Thread \cup {NoThread}
    BY <1>2, <1>3, <1>4, SelectedTyped
<1>6. Install(e) /\ UNCHANGED <<executing, saved, quantum, waitVars>>
    BY <1>1, <1>3, Zenon DEF Pick
<1>7. QueueTypeOK'
    BY <1>5, <1>6, Installed, Zenon
<1>8. \/ Return(executing) /\ UNCHANGED <<current, swap>>
      \/ /\ next \in Thread /\ current' = next /\ swap' = [from |-> current, to |-> next]
         /\ UNCHANGED <<at, isr>>
    BY <1>1, <1>4, <1>5, Zenon DEF Pick
<1>9. at \in [Thread -> At] /\ isr \in [Thread -> BOOLEAN]
    BY Zenon DEF WInv, TypeOK, At
<1>10. at' \in [Thread -> At] /\ isr' \in [Thread -> BOOLEAN]
    BY <1>2, <1>8, <1>9, Returned, Zenon
<1>11. /\ current' \in Thread /\ SwapTyped'
       /\ swap' \in [from : Thread \cup {NoThread}, to : Thread \cup {NoThread}]
    <2>1. CASE UNCHANGED <<current, swap>>
        BY <2>1 DEF WInv, TypeOK, SwapTyped
    <2>2. CASE /\ next \in Thread /\ current' = next /\ swap' = [from |-> current, to |-> next]
        BY <1>2, <2>2, Zenon DEF SwapTyped
    <2> QED
        BY <1>8, <2>1, <2>2, Zenon
<1>12. TypeOK'
    <2>1. /\ executing' = executing /\ saved' = saved /\ quantum' = quantum /\ entry' = entry
          /\ waitList' = waitList /\ object' = object /\ cause' = cause
        BY <1>6 DEF waitVars
    <2> QED
        BY <1>7, <1>10, <1>11, <2>1, Zenon DEF WInv, TypeOK, At
<1>13. SlotOnce' /\ PendingKept
    BY <1>6 DEF WInv, SlotOnce, PendingKept, waitVars
<1> QED
    BY <1>11, <1>12, <1>13, Zenon DEF WInv

\* The stack switch keeps the types and writes to no slot.
LEMMA SwapStepTyped ==
    ASSUME WInv, Swap
    PROVE  WInv' /\ PendingKept
<1>1. PICK s \in QState : s = Queues
    BY QueuesTyped DEF WInv, TypeOK
<1>2. executing \in Thread /\ swap.from \in Thread /\ swap.to \in Thread
    BY DEF WInv, TypeOK, SwapTyped, Swap
<1>3. PICK e : e = SetState(s, swap.to, "Running")
    BY Zenon
<1>4. e \in QState
    <2>1. PICK to \in Thread : to = swap.to
        BY <1>2
    <2> QED
        BY <1>3, <2>1, StateSet DEF Restated, State
<1>5. Install(e) /\ swap' = NoSwap /\ UNCHANGED <<current, quantum, waitVars>>
    BY <1>1, <1>3, Zenon DEF Swap
<1>6. QueueTypeOK'
    BY <1>4, <1>5, Installed, Zenon
<1>7. PICK stack \in Thread \cup {NoThread} : stack = ResumeStack(swap)
    BY <1>2, Zenon DEF ResumeStack, WInv, TypeOK
<1>8. \/ stack = NoThread /\ Return(executing) /\ UNCHANGED <<executing, saved>>
      \/ /\ stack # NoThread /\ executing' = stack /\ Return(stack)
         /\ saved' = [saved EXCEPT ![swap.from] = executing]
    BY <1>7 DEF Swap
<1>9. at \in [Thread -> At] /\ isr \in [Thread -> BOOLEAN]
    BY DEF WInv, TypeOK, At
<1>10. at' \in [Thread -> At] /\ isr' \in [Thread -> BOOLEAN]
    BY <1>2, <1>8, <1>9, Returned, Zenon
<1>11. executing' \in Thread /\ saved' \in [Thread -> Thread \cup {NoThread}]
    BY <1>2, <1>8, SMTT(30), Z3T(30) DEF WInv, TypeOK
<1>12. TypeOK'
    BY <1>5, <1>6, <1>10, <1>11, Zenon DEF WInv, TypeOK, At, waitVars, NoSwap
<1>13. SlotOnce' /\ PendingKept /\ SwapTyped'
    BY <1>5, Zenon DEF WInv, SlotOnce, PendingKept, SwapTyped, waitVars
<1> QED
    BY <1>12, <1>13, Zenon DEF WInv

\* wait_on keeps the types, and arms no slot whose result is yet to be fetched.
LEMMA WaitOnTyped ==
    ASSUME WInv, NEW o \in Object, NEW timed \in BOOLEAN, WaitOn(o, timed)
    PROVE  WInv' /\ PendingKept
<1>1. PICK s \in QState : s = Queues
    BY QueuesTyped, Zenon DEF WInv, TypeOK
<1>2. current \in Thread /\ executing \in Thread
    BY DEF WInv, TypeOK
<1>3. PICK e : e = SetState(s, current, "Waiting")
    BY Zenon
<1>4. e \in QState
    BY <1>2, <1>3, StateSet DEF Restated, State
<1>5. PICK k : k = Min(FreeSlots)
    BY Zenon
<1>6. k \in Slot /\ ~entry[k].inUse /\ ~entry[k].pending
    <2>1. \A i \in Slot : i \in Nat
        BY DispatcherAssumption, SMTT(30), Z3T(30) DEF Slot
    <2>2. FreeSlots \in SUBSET Nat /\ FreeSlots # {}
        BY <2>1 DEF FreeSlots, WaitOn
    <2>3. k \in FreeSlots
        BY <1>5, <2>2, Least
    <2> QED
        BY <2>3 DEF FreeSlots
<1>7. entry \in [Slot -> EntryType]
    BY Zenon DEF WInv, TypeOK, EntryType
<1>8. PICK x : x = [thread |-> current, object |-> o, timed |-> timed,
                    inUse |-> TRUE, signalled |-> FALSE, pending |-> entry[k].pending]
    BY Zenon
<1>9. entry' = [entry EXCEPT ![k] = x]
    BY <1>5, <1>8, Zenon DEF WaitOn
<1>10. x \in EntryType /\ ~x.pending
    <2>1. PICK b \in BOOLEAN : b = entry[k].pending
        BY <1>6, <1>7, Zenon DEF EntryType
    <2> QED
        BY <1>2, <1>6, <1>8, <2>1, Zenon DEF EntryType
<1>11. entry' \in [Slot -> EntryType] /\ SlotOnce' /\ PendingKept
    <2>1. \A i \in Slot : entry'[i] = IF i = k THEN x ELSE entry[i]
        BY <1>7, <1>9
    <2> QED
        BY <1>6, <1>7, <1>9, <1>10, <2>1, Zenon DEF WInv, SlotOnce, PendingKept
<1>12. /\ Install(e) /\ waitList' = Append(waitList, current)
       /\ at' = [at EXCEPT ![executing] = "block"]
       /\ object' = [object EXCEPT ![executing] = o]
       /\ cause' = [cause EXCEPT ![executing] = "none"]
       /\ UNCHANGED <<current, executing, isr, swap, saved, quantum>>
    BY <1>1, <1>3, Zenon DEF WaitOn
<1>13. QueueTypeOK'
    BY <1>4, <1>12, Installed, Zenon
<1>14. waitList' \in Seq(Thread)
    BY <1>2, <1>12, AppendLast DEF WInv, TypeOK
<1>15. TypeOK'
    BY <1>2, <1>11, <1>12, <1>13, <1>14, ZenonT(30) DEF WInv, TypeOK, EntryType
<1> QED
    BY <1>11, <1>12, <1>15, Zenon DEF WInv, SwapTyped

\* The scan by which wait_on fetches its result keeps the types.
LEMMA ScanTyped ==
    ASSUME WInv, Scan
    PROVE  WInv'
<1>1. executing \in Thread /\ entry \in [Slot -> EntryType]
    BY ZenonT(30) DEF WInv, TypeOK, EntryType
<1>2. \A i \in Slot : \/ entry'[i] = entry[i]
                      \/ entry'[i] = [entry[i] EXCEPT !.signalled = FALSE, !.pending = FALSE]
    BY ZenonT(30) DEF Scan
<1>3. \A i \in Slot : entry'[i] \in EntryType /\ ~(entry'[i].inUse /\ entry'[i].pending)
    <2> TAKE i \in Slot
    <2>1. PICK x \in EntryType : x = entry[i] /\ ~(x.inUse /\ x.pending)
        BY <1>1 DEF WInv, SlotOnce
    <2>2. PICK y : y = [x EXCEPT !.signalled = FALSE, !.pending = FALSE]
        BY Zenon
    <2>3. y \in EntryType /\ ~y.pending
        BY <2>2, Zenon DEF EntryType
    <2> QED
        BY <1>2, <2>1, <2>2, <2>3, Zenon
<1>4. /\ at' = [at EXCEPT ![executing] = "run"]
      /\ object' = [object EXCEPT ![executing] = NoObject]
      /\ cause' = [cause EXCEPT ![executing] = "none"]
      /\ UNCHANGED <<queueVars, current, executing, isr, swap, saved, quantum, waitList>>
    BY Zenon DEF Scan
<1>5. entry' \in [Slot -> EntryType]
    <2>1. entry' = [i \in Slot |-> entry'[i]]
        BY Zenon DEF Scan
    <2> QED
        BY <1>3, <2>1, Zenon
<1>6. QueueTypeOK'
    BY <1>4, Zenon DEF WInv, TypeOK, QueueTypeOK, queueVars
<1>7. TypeOK'
    BY <1>1, <1>4, <1>5, <1>6, Zenon DEF WInv, TypeOK, EntryType
<1> QED
    BY <1>3, <1>4, <1>7, ZenonT(30) DEF WInv, SlotOnce, SwapTyped

\* Completing waits keeps the types, and writes to no slot that has its result.
LEMMA CompletionTyped ==
    ASSUME WInv, NEW s, NEW threads, NEW slots, NEW why, Completion(s, threads, slots, why)
    PROVE  WInv' /\ PendingKept
<1>1. /\ s \in QState /\ Woken(threads, slots) /\ why \in {"signal", "timeout"}
      /\ Complete(s, threads, slots, why)
    BY Zenon DEF Completion, Decayed
<1>2. PICK W : W = {u \in Thread : Contains(threads, u)}
    BY Zenon
<1>3. TypeOK
    BY DEF WInv
<1>4. /\ \E done : SlotsDone(W, done)
      /\ Unlinks(W, why) /\ Install(FoldLeft(Awaken, s, threads))
    BY <1>1, <1>2, <1>3, Completed, Zenon
<1>5. QueueTypeOK'
    <2>1. PICK e : e = FoldLeft(Awaken, s, threads)
        BY Zenon
    <2>2. PICK q \in Seq(Thread) : q = threads
        BY <1>1 DEF Woken
    <2>3. e \in QState
        BY <1>1, <2>1, <2>2, WokenAll, Zenon
    <2>4. Install(e)
        BY <1>4, <2>1, Zenon
    <2> QED
        BY <2>3, <2>4, Installed
<1>6. PICK done : SlotsDone(W, done)
    BY <1>4, Zenon
<1>7. entry' \in [Slot -> EntryType] /\ SlotOnce' /\ PendingKept
    BY <1>6, Zenon DEF SlotsDone, WInv, SlotOnce, PendingKept
<1>8. waitList' \in Seq(Thread) /\ object' = object
    BY <1>4, Zenon DEF Unlinks
<1>9. cause' \in [Thread -> {"none", "signal", "timeout"}]
    BY <1>1, <1>3, <1>4 DEF Unlinks, TypeOK
<1>10. /\ UNCHANGED <<current, executing, at, swap, saved>>
       /\ \/ UNCHANGED <<isr, quantum>>
          \/ isr' = [isr EXCEPT ![executing] = (quantum = 1)] /\ quantum' = NextQuantum
    BY Zenon DEF Completion
<1>11. isr' \in [Thread -> BOOLEAN]
    <2>1. PICK b \in BOOLEAN : b = (quantum = 1)
        BY Zenon
    <2> QED
        BY <1>3, <1>10, <2>1, Zenon DEF TypeOK
<1>12. quantum' \in 1 .. Quantum
    BY <1>3, <1>10, DispatcherAssumption, SMTT(30), Z3T(30) DEF TypeOK, NextQuantum
<1>13. TypeOK'
    BY <1>3, <1>5, <1>7, <1>8, <1>9, <1>10, <1>11, <1>12, Zenon DEF TypeOK, EntryType
<1> QED
    BY <1>7, <1>10, <1>13 DEF WInv, SwapTyped

\* The steps of the dispatcher, the three that complete waits taken together.
LEMMA Steps ==
    ASSUME WInv, Next
    PROVE  \/ Pick \/ Swap \/ Scan
           \/ \E o \in Object, timed \in BOOLEAN : WaitOn(o, timed)
           \/ \E s, threads, slots, why : Completion(s, threads, slots, why)
<1>1. TypeOK
    BY DEF WInv
<1>2. ASSUME NEW o \in Object, NEW all \in BOOLEAN, Wake(o, all)
      PROVE  \E s, threads, slots, why : Completion(s, threads, slots, why)
    BY <1>1, <1>2, WakeCompletes, Zenon
<1>3. ASSUME NEW late \in SUBSET Timed, NEW decay \in BOOLEAN, Clock(late, decay)
      PROVE  \E s, threads, slots, why : Completion(s, threads, slots, why)
    BY <1>1, <1>3, ClockCompletes, Zenon
<1>4. ASSUME NEW late \in SUBSET Timed, RemoteTick(late)
      PROVE  \E s, threads, slots, why : Completion(s, threads, slots, why)
    BY <1>1, <1>4, RemoteTickCompletes, Zenon
<1> QED
    BY <1>2, <1>3, <1>4, Zenon DEF Next, Tick

\* Every step keeps the types, and only the scan writes to a slot that has its
\* result.
LEMMA NextTyped ==
    ASSUME WInv, Next
    PROVE  WInv' /\ (PendingKept \/ Scan)
<1>1. CASE Pick
    BY <1>1, PickTyped
<1>2. CASE Swap
    BY <1>2, SwapStepTyped
<1>3. CASE Scan
    BY <1>3, ScanTyped
<1>4. CASE \E o \in Object, timed \in BOOLEAN : WaitOn(o, timed)
    BY <1>4, WaitOnTyped, Zenon
<1>5. CASE \E s, threads, slots, why : Completion(s, threads, slots, why)
    BY <1>5, CompletionTyped, Zenon
<1> QED
    BY <1>1, <1>2, <1>3, <1>4, <1>5, Steps, Zenon

\* The order in which the threads were added at boot: each is in there, once.
LEMMA BootOrder ==
    ASSUME NEW S \in SUBSET Thread, NEW q \in Orders(S)
    PROVE  /\ q \in Seq(Thread) /\ IsInjective(q) /\ (q = <<>> <=> S = {})
           /\ \A u : Contains(q, u) <=> u \in S
<1>1. PICK n \in 0 .. Cardinality(S) : q \in Bijection(1 .. n, S)
    BY DEF Orders
<1>2. n \in Nat
    OBVIOUS
<1>3. q \in [1 .. n -> S] /\ IsInjective(q) /\ \A u \in S : \E i \in 1 .. n : q[i] = u
    BY <1>1 DEF Bijection, Injection, Surjection
<1>4. q \in Seq(S) /\ q \in Seq(Thread) /\ Len(q) = n
    BY <1>2, <1>3, FromPositions
<1>5. \A u : Contains(q, u) <=> u \in S
    BY <1>3, <1>4 DEF Contains
<1>6. q = <<>> <=> S = {}
    BY <1>2, <1>3, <1>4, SMTT(30), Z3T(30)
<1> QED
    BY <1>3, <1>4, <1>5, <1>6

\* The queues at boot: every thread but the boot thread is on the boot CPU.
LEMMA BootQueues ==
    ASSUME Init
    PROVE  /\ QueueTypeOK /\ Exact(Queues) /\ AtHome(Queues)
           /\ \A t \in Thread : /\ InQueue(Queues, t) <=> t # BootThread
                                /\ kthread[t].state = IF t = BootThread THEN "Initialized" ELSE "Ready"
<1>1. BootCpu \in CPU /\ BootCpu \in AnyCpu /\ 0 \in Priority /\ 0 \in CPU
    BY QueueAssumption DEF BootCpu, CPU, AnyCpu, Priority, NeverQueued
<1>2. PICK q \in Orders(Thread \ {BootThread}) :
          ready = [c \in CPU |-> [p \in Priority |-> IF c = BootCpu /\ p = 0 THEN q ELSE <<>>]]
    BY Zenon DEF Init
<1>3. /\ q \in Seq(Thread) /\ IsInjective(q) /\ (q = <<>> <=> Thread \ {BootThread} = {})
      /\ \A u : Contains(q, u) <=> u \in Thread \ {BootThread}
    <2>1. PICK S \in SUBSET Thread : S = Thread \ {BootThread}
        OBVIOUS
    <2> QED
        BY <1>2, <2>1, BootOrder, Zenon
<1>4. /\ summary = [c \in CPU |-> IF c = BootCpu /\ Thread # {BootThread} THEN {0} ELSE {}]
      /\ kthread = [t \in Thread |-> KThreadAtBoot(t)]
    BY Zenon DEF Init
<1>5. Thread \ {BootThread} = {} <=> Thread = {BootThread}
    BY DispatcherAssumption
<1>6. <<>> \in Seq(Thread) /\ IsInjective(<<>>) /\ \A u : ~Contains(<<>>, u)
    BY DEF IsInjective, Contains
<1>7. \A c \in CPU, p \in Priority : ready[c][p] = IF c = BootCpu /\ p = 0 THEN q ELSE <<>>
    BY <1>2
<1>8. ready \in [CPU -> [Priority -> Seq(Thread)]]
    BY <1>2, <1>3, <1>6
<1>9. summary \in [CPU -> SUBSET Priority]
    BY <1>1, <1>4
<1>10. \A t \in Thread : kthread[t] \in KThread /\ kthread[t] = KThreadAtBoot(t)
    <2> TAKE t \in Thread
    <2>1. KThreadAtBoot(t) \in KThread
        BY <1>1 DEF KThreadAtBoot, KThread, State
    <2> QED
        BY <1>4, <2>1
<1>11. kthread \in [Thread -> KThread]
    BY <1>4, <1>10
<1>12. QueueTypeOK
    BY <1>8, <1>9, <1>11, Zenon DEF QueueTypeOK
<1>13. \A t : \A c \in CPU, p \in Priority : In(Queues, c, p, t) <=>
           c = BootCpu /\ p = 0 /\ t \in Thread \ {BootThread}
    BY <1>3, <1>6, <1>7, Zenon DEF In, Queues
<1>14. Exact(Queues)
    <2>1. \A c \in CPU, p \in Priority : p \in summary[c] <=> ready[c][p] # <<>>
        BY <1>3, <1>4, <1>5, <1>7, Zenon
    <2>2. \A c \in CPU, p \in Priority : IsInjective(ready[c][p])
        BY <1>3, <1>6, <1>7, Zenon
    <2> QED
        BY <1>13, <2>1, <2>2, ZenonT(30) DEF Exact, Queues
<1>15. AtHome(Queues)
    <2>1. \A t \in Thread : kthread[t].home = BootCpu /\ kthread[t].affinity = AnyCpu
        <3>1. \A t : KThreadAtBoot(t).home = BootCpu /\ KThreadAtBoot(t).affinity = AnyCpu
            BY DEF KThreadAtBoot
        <3> QED
            BY <1>10, <3>1, Zenon
    <2> QED
        BY <1>1, <1>13, <2>1, Zenon DEF AtHome, Queues
<1>16. \A t \in Thread : kthread[t].state = IF t = BootThread THEN "Initialized" ELSE "Ready"
    <2>1. \A t : KThreadAtBoot(t).state = IF t = BootThread THEN "Initialized" ELSE "Ready"
        BY DEF KThreadAtBoot
    <2> QED
        BY <1>10, <2>1, Zenon
<1>17. \A t \in Thread : InQueue(Queues, t) <=> t # BootThread
    BY <1>1, <1>13 DEF InQueue
<1> QED
    BY <1>12, <1>14, <1>15, <1>16, <1>17, Zenon

\* The state after the boot sequence is typed.
LEMMA InitTyped ==
    ASSUME Init
    PROVE  WInv
<1>1. QueueTypeOK
    BY BootQueues, Zenon
<1>2. entry = [i \in Slot |-> NoEntry] /\ NoEntry \in EntryType /\ ~NoEntry.inUse
    BY DEF Init, NoEntry, EntryType
<1>3. entry \in [Slot -> EntryType] /\ SlotOnce
    BY <1>2, Zenon DEF SlotOnce
<1>4. /\ current \in Thread /\ executing \in Thread /\ quantum \in 1 .. Quantum
      /\ at \in [Thread -> At] /\ isr \in [Thread -> BOOLEAN]
      /\ saved \in [Thread -> Thread \cup {NoThread}]
    BY DispatcherAssumption, SMTT(30), Z3T(30) DEF Init, At
<1>5. /\ swap \in [from : Thread \cup {NoThread}, to : Thread \cup {NoThread}] /\ SwapTyped
      /\ object \in [Thread -> Object \cup {NoObject}]
      /\ cause \in [Thread -> {"none", "signal", "timeout"}]
    BY Zenon DEF Init, NoSwap, SwapTyped
<1>6. waitList \in Seq(Thread)
    BY SMTT(30), Z3T(30) DEF Init
<1>7. TypeOK
    BY <1>1, <1>3, <1>4, <1>5, <1>6, Zenon DEF TypeOK, At, EntryType
<1> QED
    BY <1>3, <1>5, <1>7, Zenon DEF WInv

\* A step that changes nothing keeps the types.
LEMMA StutterTyped ==
    ASSUME WInv, UNCHANGED vars
    PROVE  WInv'
<1>1. /\ UNCHANGED <<ready, summary, kthread>>
      /\ UNCHANGED <<current, executing, at, isr, swap, saved, quantum>>
      /\ UNCHANGED <<entry, waitList, object, cause>>
    BY Zenon DEF vars, queueVars, threadVars, waitVars
<1>2. QueueTypeOK'
    BY <1>1, Zenon DEF WInv, TypeOK, QueueTypeOK
<1>3. TypeOK'
    BY <1>1, <1>2 DEF WInv, TypeOK
<1> QED
    BY <1>1, <1>3 DEF WInv, SwapTyped, SlotOnce

\* TypeOK holds of every dispatcher, and so does what it rests on: whichever
\* threads wait, and whether or not a thread's kernel_rsp was seeded.
THEOREM DispatcherTyped == Spec => [](TypeOK /\ SwapTyped /\ SlotOnce)
<1>1. Init => WInv
    BY InitTyped
<1>2. WInv /\ [Next]_vars => WInv'
    BY NextTyped, StutterTyped
<1> QED
    BY <1>1, <1>2, PTL DEF Spec, WInv

\* The fetch in wait_on writes to no slot but one it looks for.
LEMMA Fetched ==
    ASSUME Scan, NEW i \in Slot, entry'[i] # entry[i]
    PROVE  i \in OwnSlots(executing)
<1>1. OwnSlots(executing) # {} /\ i = Min(OwnSlots(executing))
    BY Zenon DEF Scan
<1>2. \A k \in Slot : k \in Nat
    BY DispatcherAssumption, SMTT(30), Z3T(30) DEF Slot
<1>3. OwnSlots(executing) \in SUBSET Nat
    BY <1>2, Zenon DEF OwnSlots
<1> QED
    BY <1>1, <1>3, Least, Zenon

\* ResultKept: find_free_slot hands out no slot whose result is yet to be
\* fetched, and wake and tick_wait_list complete no such slot.  So of all the
\* steps only the fetch in wait_on writes to it, and only a fetch for the thread
\* and the object of the slot, for every value of the constants.
THEOREM ResultsKept == Spec => ResultKept
<1>1. WInv /\ [Next]_vars =>
          [\A i \in Slot : entry[i].pending /\ entry'[i] # entry[i] =>
                Scan /\ i \in OwnSlots(executing)]_vars
    <2> SUFFICES ASSUME WInv, Next, NEW i \in Slot, entry[i].pending, entry'[i] # entry[i]
                 PROVE  Scan /\ i \in OwnSlots(executing)
        BY Zenon
    <2>1. PendingKept \/ Scan
        BY NextTyped
    <2>2. Scan
        BY <2>1, Zenon DEF PendingKept
    <2> QED
        BY <2>2, Fetched
<1> QED
    BY <1>1, DispatcherTyped, PTL DEF Spec, ResultKept, WInv

-----------------------------------------------------------------------------
(* What holds when schedule always finds a thread to run: every thread's     *)
(* kernel_rsp was seeded, and some thread other than the boot thread never   *)
(* calls wait_on.                                                            *)

Keeper(t) == t \in Thread \ Waiters /\ t # BootThread

\* A queued thread is Ready.  The current thread is queued only if a wake came
\* between its wait_on and its schedule.
QueuedInv ==
    /\ \A t \in Thread : InQueue(Queues, t) => kthread[t].state = "Ready"
    /\ InQueue(Queues, current) => swap = NoSwap /\ at[current] = "block"

\* The CPU is on the stack of the current thread, or of the one it is switching
\* from; no other thread is Running.
SwitchInv ==
    /\ \A t \in Thread : saved[t] = t
    /\ swap = NoSwap => executing = current
    /\ swap # NoSwap => /\ swap.to = current /\ swap.from = executing /\ executing # current
                        /\ kthread[current].state = "Ready"
    /\ \A t \in Thread : kthread[t].state = "Running" => t = current

\* A thread is Waiting while it is linked, from wait_on until its wait is ended.
WaitInv ==
    /\ IsInjective(waitList)
    /\ \A t \in Thread :
          /\ kthread[t].state = "Waiting" <=> Contains(waitList, t)
          /\ kthread[t].state = "Waiting" <=> at[t] = "block" /\ cause[t] = "none"
          /\ at[t] = "scan" => cause[t] # "none"

\* A linked thread has one slot in use, and an unlinked one none.
SlotInv ==
    /\ \A i \in Slot : entry[i].inUse =>
          entry[i].thread \in Thread /\ Contains(waitList, entry[i].thread)
    /\ \A i, j \in Slot :
          entry[i].inUse /\ entry[j].inUse /\ entry[i].thread = entry[j].thread => i = j
    /\ \A t \in Thread : Contains(waitList, t) =>
          \E i \in Slot : entry[i].inUse /\ entry[i].thread = t

\* A thread that never waits is there to be run.
KeeperInv ==
    \A t \in Thread : Keeper(t) =>
       /\ at[t] = "run"
       /\ current # t => InQueue(Queues, t)
       /\ current = t /\ swap = NoSwap => kthread[t].state = "Running"

IInv == /\ WInv /\ Exact(Queues) /\ AtHome(Queues)
        /\ QueuedInv /\ SwitchInv /\ WaitInv /\ SlotInv /\ KeeperInv

\* The boot sequence establishes the invariant, when every kernel_rsp is seeded.
LEMMA InitInv ==
    ASSUME Init, Unseeded = {}
    PROVE  IInv
<1>1. WInv /\ Exact(Queues) /\ AtHome(Queues)
    BY InitTyped, BootQueues, Zenon
<1>2. \A t \in Thread : /\ InQueue(Queues, t) <=> t # BootThread
                        /\ kthread[t].state = IF t = BootThread THEN "Initialized" ELSE "Ready"
    BY BootQueues
<1>3. /\ current = BootThread /\ executing = BootThread /\ swap = NoSwap /\ waitList = <<>>
      /\ at = [t \in Thread |-> "run"] /\ entry = [i \in Slot |-> NoEntry]
      /\ saved = [t \in Thread |-> IF t \in Unseeded THEN NoThread ELSE t]
    BY Zenon DEF Init
<1>4. \A t : ~Contains(waitList, t)
    BY <1>3 DEF Contains
<1>5. IsInjective(waitList)
    BY <1>3, SMTT(30), Z3T(30) DEF IsInjective
<1>6. QueuedInv
    BY <1>2, <1>3, DispatcherAssumption, Zenon DEF QueuedInv
<1>7. SwitchInv
    BY <1>2, <1>3, Zenon DEF SwitchInv
<1>8. WaitInv
    BY <1>2, <1>3, <1>4, <1>5, Zenon DEF WaitInv
<1>9. SlotInv
    BY <1>3, <1>4, Zenon DEF SlotInv, NoEntry
<1>10. KeeperInv
    BY <1>2, <1>3, Zenon DEF KeeperInv, Keeper
<1> QED
    BY <1>1, <1>6, <1>7, <1>8, <1>9, <1>10, Zenon DEF IInv

\* schedule's critical section, with its early returns.
LEMMA PickInv ==
    ASSUME IInv, Pick, NEW keeper, Keeper(keeper)
    PROVE  IInv'
<1>1. PICK s \in QState : s = Queues
    BY QueuesTyped DEF IInv, WInv, TypeOK
<1>2. /\ current \in Thread /\ executing = current /\ swap = NoSwap /\ BootCpu \in CPU
      /\ at \in [Thread -> At] /\ isr \in [Thread -> BOOLEAN] /\ keeper \in Thread
    <2>1. swap = NoSwap /\ BootCpu \in CPU /\ keeper \in Thread
        BY QueueAssumption, SMTT(30), Z3T(30) DEF Pick, BootCpu, CPU, Keeper
    <2>2. current \in Thread /\ at \in [Thread -> At] /\ isr \in [Thread -> BOOLEAN]
        BY Zenon DEF IInv, WInv, TypeOK, At
    <2>3. executing = current
        BY <2>1 DEF IInv, SwitchInv
    <2> QED
        BY <2>1, <2>2, <2>3, Zenon
<1>3. PICK e : e = Selected(s, BootCpu, current)
    BY Zenon
<1>4. PICK next : next = NextThread(s, BootCpu)
    BY ZenonT(30)
<1>5. Exact(s) /\ (s.kthread[current].state = "Running" => ~InQueue(s, current))
    BY <1>1, <1>2, ZenonT(30) DEF IInv, QueuedInv, Queues
<1>6. \/ next = NoThread /\ e = s /\ \A p \in Priority, t \in Thread : ~In(s, BootCpu, p, t)
      \/ Switched(s, e, BootCpu, current, next)
    BY <1>2, <1>3, <1>4, <1>5, SelectedSwitches, Zenon
<1>7. Install(e) /\ UNCHANGED <<executing, saved, quantum, waitVars>>
    BY <1>1, <1>3, ZenonT(30) DEF Pick
<1>8. e \in QState /\ Exact(e)
    BY <1>5, <1>6, Zenon DEF Switched
<1>9. QueueTypeOK' /\ Queues' = e /\ kthread' = e.kthread
    BY <1>7, <1>8, Installed DEF Install
<1>10. WInv'
    BY PickTyped DEF IInv
<1>11. IF next \in {NoThread, current}
       THEN Return(executing) /\ UNCHANGED <<current, swap>>
       ELSE /\ current' = next
            /\ swap' = [from |-> current, to |-> next]
            /\ UNCHANGED <<at, isr>>
    BY <1>1, <1>4, Zenon DEF Pick
<1>12. /\ executing' = executing /\ saved' = saved /\ entry' = entry
       /\ waitList' = waitList /\ cause' = cause
    BY <1>7, Zenon DEF waitVars
<1>13. SlotInv'
    BY <1>12 DEF IInv, SlotInv
<1>14. \A t \in Thread : s.kthread[t] = kthread[t]
    BY <1>1 DEF Queues
<1>15. CASE next = NoThread /\ e = s
    <2>1. \A t \in Thread : ~InQueue(s, t)
        BY <1>1, <1>6, <1>15, QueueAssumption, Zenon DEF InQueue, IInv, AtHome, Switched
    <2>2. at[current] = "run"
        BY <1>1, <1>2, <2>1, Zenon DEF IInv, KeeperInv
    <2>3. Return(executing) /\ current' = current /\ swap' = swap
        BY <1>11, <1>15, Zenon
    <2>4. \A u \in Thread : at'[u] = at[u]
        BY <1>2, <2>2, <2>3, Returned, Zenon
    <2>5. Queues' = Queues /\ kthread' = kthread
        BY <1>1, <1>9, <1>15, SMTT(30), Z3T(30) DEF Queues
    <2>6. \A u : InQueue(Queues, u)' <=> InQueue(Queues, u)
        BY <2>5 DEF InQueue, In
    <2>7. Exact(Queues)' /\ AtHome(Queues)'
        BY <1>1, <1>8, <1>9, <1>15, <2>5, Zenon DEF IInv, AtHome, In
    <2>8. QueuedInv'
        BY <1>2, <2>3, <2>4, <2>5, <2>6, Zenon DEF IInv, QueuedInv
    <2>9. SwitchInv'
        BY <1>12, <2>3, <2>5, Zenon DEF IInv, SwitchInv
    <2>10. WaitInv'
        BY <1>12, <2>4, <2>5, Zenon DEF IInv, WaitInv
    <2>11. KeeperInv'
        BY <2>3, <2>4, <2>5, <2>6, Zenon DEF IInv, KeeperInv, Keeper
    <2> QED
        BY <1>10, <1>13, <2>7, <2>8, <2>9, <2>10, <2>11, ZenonT(30) DEF IInv
<1>16. ASSUME Switched(s, e, BootCpu, current, next)
       PROVE  /\ next \in Thread /\ next # NoThread /\ InQueue(Queues, next)
              /\ kthread[next].state = "Ready" /\ AtHome(Queues)'
              /\ \A u \in Thread :
                    /\ InQueue(Queues, u)' <=>
                          \/ u # next /\ InQueue(Queues, u)
                          \/ u = current /\ current # next /\ kthread[current].state = "Running"
                    /\ kthread'[u].state =
                          IF u = current /\ current # next /\ kthread[current].state = "Running"
                          THEN "Ready" ELSE kthread[u].state
    <2>1. next \in Thread /\ next # NoThread
        BY <1>16, QueueAssumption, ZenonT(30) DEF Switched
    <2>2. InQueue(Queues, next)
        BY <1>1, <1>2, <1>16, Zenon DEF Switched, InQueue
    <2>3. PICK R \in BOOLEAN : /\ R <=> Requeues(s, current, next)
                               /\ R <=> current # next /\ kthread[current].state = "Running"
        <3>1. current # NoThread
            BY <1>2, QueueAssumption
        <3> QED
            BY <1>2, <1>14, <3>1, Zenon DEF Requeues
    <2>4. \A d \in CPU, u \in Thread :
              (\E p \in Priority : In(e, d, p, u)) <=>
                  \/ u # next /\ \E p \in Priority : In(s, d, p, u)
                  \/ R /\ d = BootCpu /\ u = current
        BY <1>16, <2>3, ZenonT(30) DEF Switched
    <2>5. \A u \in Thread :
              /\ e.kthread[u].state = IF R /\ u = current THEN "Ready" ELSE s.kthread[u].state
              /\ Alike(s.kthread[u], e.kthread[u])
        BY <1>16, <2>3, Zenon DEF Switched
    <2>6. AtHome(e)
        <3>1. \A u \in Thread, d \in CPU, p \in Priority : In(e, d, p, u) => d = BootCpu
            BY <1>1, <2>4, Zenon DEF IInv, AtHome
        <3>2. AtHome(s)
            BY <1>1, Zenon DEF IInv
        <3> QED
            BY <2>5, <3>1, <3>2, ZenonT(30) DEF AtHome, Alike
    <2>7. \A u \in Thread : InQueue(e, u) <=> (u # next /\ InQueue(s, u)) \/ (R /\ u = current)
        BY <1>2, <2>4, Zenon DEF InQueue
    <2>8. AtHome(Queues)'
        BY <1>9, <2>6, Zenon DEF AtHome, In
    <2>9. \A u : InQueue(Queues, u)' <=> InQueue(e, u)
        BY <1>9, Zenon DEF InQueue, In
    <2>10. kthread[next].state = "Ready"
        BY <2>1, <2>2, Zenon DEF IInv, QueuedInv
    <2> QED
        BY <1>1, <1>9, <1>14, <2>1, <2>2, <2>3, <2>5, <2>7, <2>8, <2>9, <2>10, Zenon
<1>17. CASE next = current /\ Switched(s, e, BootCpu, current, next)
    <2>1. /\ InQueue(Queues, current) /\ kthread[current].state = "Ready" /\ AtHome(Queues)'
          /\ \A u \in Thread : /\ InQueue(Queues, u)' <=> u # current /\ InQueue(Queues, u)
                               /\ kthread'[u].state = kthread[u].state
        BY <1>16, <1>17, ZenonT(30)
    <2>2. at[current] = "block" /\ cause[current] # "none"
        BY <1>2, <2>1 DEF IInv, QueuedInv, WaitInv
    <2>3. Return(current) /\ current' = current /\ swap' = swap
        BY <1>2, <1>11, <1>17, Zenon
    <2>4. \A u \in Thread : \/ at'[u] = at[u]
                            \/ u = current /\ at'[u] = "scan"
        BY <1>2, <2>3, Returned, ZenonT(30)
    <2>5. QueuedInv'
        <3>1. QueuedInv
            BY DEF IInv
        <3>2. \A t \in Thread : InQueue(Queues, t)' => kthread'[t].state = "Ready"
            BY <2>1, <3>1, Zenon DEF QueuedInv
        <3>3. ~InQueue(Queues, current)'
            BY <1>2, <2>1, <2>3, Zenon
        <3> QED
            BY <3>2, <3>3, Zenon DEF QueuedInv
    <2>6. SwitchInv'
        BY <1>2, <1>12, <2>1, <2>3, ZenonT(30) DEF IInv, SwitchInv
    <2>7. WaitInv'
        BY <1>12, <2>1, <2>2, <2>4, ZenonT(30) DEF IInv, WaitInv
    <2>8. KeeperInv'
        BY <2>1, <2>2, <2>3, <2>4, ZenonT(30) DEF IInv, KeeperInv, Keeper
    <2> QED
        BY <1>8, <1>9, <1>10, <1>13, <2>1, <2>5, <2>6, <2>7, <2>8, Zenon DEF IInv
<1>18. CASE next # current /\ Switched(s, e, BootCpu, current, next)
    <2>1. /\ next \in Thread /\ next # NoThread /\ InQueue(Queues, next) /\ AtHome(Queues)'
          /\ kthread[next].state = "Ready"
          /\ \A u \in Thread :
                /\ InQueue(Queues, u)' <=>
                      \/ u # next /\ InQueue(Queues, u)
                      \/ u = current /\ kthread[current].state = "Running"
                /\ kthread'[u].state = IF u = current /\ kthread[current].state = "Running"
                                       THEN "Ready" ELSE kthread[u].state
        BY <1>16, <1>18, Zenon
    <2>2. current' = next /\ swap' = [from |-> current, to |-> next] /\ at' = at
        BY <1>11, <1>18, <2>1, Zenon
    <2>3. swap' # NoSwap /\ swap'.from = current /\ swap'.to = next
        BY <2>1, <2>2, Zenon DEF NoSwap
    <2>4. \A u \in Thread : /\ InQueue(Queues, u)' => kthread'[u].state = "Ready"
                            /\ kthread'[u].state # "Running"
        BY <2>1, ZenonT(30) DEF IInv, QueuedInv, SwitchInv
    <2>5. QueuedInv'
        BY <1>18, <2>1, <2>2, <2>4, Zenon DEF QueuedInv
    <2>6. SwitchInv'
        BY <1>2, <1>12, <1>18, <2>1, <2>2, <2>3, <2>4, ZenonT(30) DEF IInv, SwitchInv
    <2>7. \A u \in Thread : kthread'[u].state = "Waiting" <=> kthread[u].state = "Waiting"
        BY <2>1, Zenon
    <2>8. WaitInv'
        BY <1>12, <2>2, <2>7, ZenonT(30) DEF IInv, WaitInv
    <2>9. KeeperInv'
        BY <1>2, <2>1, <2>2, <2>3, Zenon DEF IInv, KeeperInv, Keeper
    <2> QED
        BY <1>8, <1>9, <1>10, <1>13, <2>1, <2>5, <2>6, <2>8, <2>9, ZenonT(30) DEF IInv
<1> QED
    BY <1>6, <1>15, <1>17, <1>18, Zenon

\* What is said of the queues after a step, said of their new value.
LEMMA QueuesNext ==
    ASSUME NEW e, Queues' = e
    PROVE  /\ Exact(Queues)' <=> Exact(e)
           /\ AtHome(Queues)' <=> AtHome(e)
           /\ \A u : InQueue(Queues, u)' <=> InQueue(e, u)
<1>1. \A c, p, u : In(Queues, c, p, u)' <=> In(e, c, p, u)
    BY Zenon DEF In
<1>2. \A u : InQueue(Queues, u)' <=> InQueue(e, u)
    BY <1>1, Zenon DEF InQueue
<1>3. Exact(Queues)' <=> Exact(e)
    BY <1>1, Zenon DEF Exact
<1>4. AtHome(Queues)' <=> AtHome(e)
    BY <1>1, ZenonT(30) DEF AtHome
<1> QED
    BY <1>2, <1>3, <1>4

\* A step that leaves the queues alone, the states of the threads apart.
LEMMA QueuesKept ==
    ASSUME Exact(Queues), AtHome(Queues), NEW e \in QState, e.ready = ready, e.summary = summary,
           \A u \in Thread : e.kthread[u].home = kthread[u].home
                             /\ e.kthread[u].affinity = kthread[u].affinity,
           Install(e)
    PROVE  /\ Exact(Queues)' /\ AtHome(Queues)'
           /\ \A u : InQueue(Queues, u)' <=> InQueue(Queues, u)
           /\ kthread' = e.kthread
<1>1. PICK s : s = Queues
    BY Zenon
<1>2. s.ready = ready /\ s.summary = summary /\ s.kthread = kthread
    BY <1>1, Zenon DEF Queues
<1>3. Queues' = e /\ kthread' = e.kthread
    BY Installed DEF Install
<1>4. /\ Exact(e) /\ (\A c, p, t : In(e, c, p, t) <=> In(s, c, p, t))
      /\ \A t : InQueue(e, t) <=> InQueue(s, t)
    BY <1>1, <1>2, SameQueues, Zenon
<1>5. AtHome(e)
    BY <1>1, <1>2, <1>4, ZenonT(30) DEF AtHome
<1>6. Exact(Queues)' /\ AtHome(Queues)' /\ \A u : InQueue(Queues, u)' <=> InQueue(e, u)
    BY <1>3, <1>4, <1>5, QueuesNext, Zenon
<1> QED
    BY <1>1, <1>3, <1>4, <1>6, Zenon

\* schedule after its locks: the stack switches to the current thread.
LEMMA SwapInv ==
    ASSUME IInv, Swap
    PROVE  IInv'
<1>1. PICK s \in QState : s = Queues
    BY QueuesTyped, Zenon DEF IInv, WInv, TypeOK
<1>2. /\ swap # NoSwap /\ swap.to = current /\ swap.from = executing
      /\ current \in Thread /\ executing \in Thread /\ kthread[current].state = "Ready"
      /\ at \in [Thread -> At] /\ isr \in [Thread -> BOOLEAN]
    BY Zenon DEF IInv, WInv, TypeOK, SwitchInv, Swap, At
<1>3. PICK e : e = SetState(s, current, "Running")
    BY ZenonT(30)
<1>4. Restated(s, e, current, "Running")
    BY <1>2, <1>3, StateSet DEF State
<1>5. Install(e) /\ swap' = NoSwap /\ UNCHANGED <<current, quantum, waitVars>>
    BY <1>1, <1>2, <1>3, Zenon DEF Swap
<1>6. /\ Exact(Queues)' /\ AtHome(Queues)'
      /\ \A u : InQueue(Queues, u)' <=> InQueue(Queues, u)
      /\ kthread' = e.kthread
    <2>1. /\ e \in QState /\ e.ready = ready /\ e.summary = summary
          /\ \A u \in Thread : /\ e.kthread[u].home = kthread[u].home
                               /\ e.kthread[u].affinity = kthread[u].affinity
        BY <1>1, <1>4, Zenon DEF Restated, Queues, Alike
    <2> QED
        BY <1>5, <2>1, QueuesKept, Zenon DEF IInv
<1>7. \A u \in Thread : kthread'[u].state = IF u = current THEN "Running" ELSE kthread[u].state
    BY <1>1, <1>4, <1>6, Zenon DEF Restated, Queues
<1>8. ResumeStack(swap) = current /\ current # NoThread
    BY <1>2, QueueAssumption, Zenon DEF ResumeStack, IInv, SwitchInv
<1>9. /\ executing' = current /\ Return(current)
      /\ saved' = [saved EXCEPT ![executing] = executing]
    BY <1>2, <1>8 DEF Swap
<1>10. WInv'
    BY SwapStepTyped, ZenonT(30) DEF IInv
<1>11. \A u \in Thread : saved'[u] = u
    BY <1>2, <1>9, Zenon DEF IInv, WInv, TypeOK, SwitchInv
<1>12. \A u \in Thread : \/ at'[u] = at[u]
                         \/ u = current /\ at[u] = "block" /\ at'[u] = "scan"
    BY <1>2, <1>9, Returned, ZenonT(30)
<1>13. entry' = entry /\ waitList' = waitList /\ cause' = cause /\ current' = current
    BY <1>5 DEF waitVars
<1>14. ~InQueue(Queues, current)
    BY <1>2, Zenon DEF IInv, QueuedInv
<1>15. QueuedInv'
    BY <1>2, <1>6, <1>7, <1>13, <1>14, Zenon DEF IInv, QueuedInv
<1>16. SwitchInv'
    BY <1>5, <1>7, <1>9, <1>11, <1>13, Zenon DEF IInv, SwitchInv
<1>17. WaitInv'
    <2>1. IsInjective(waitList')
        BY <1>13 DEF IInv, WaitInv
    <2>2. ASSUME NEW t \in Thread
          PROVE  /\ kthread'[t].state = "Waiting" <=> Contains(waitList', t)
                 /\ kthread'[t].state = "Waiting" <=> at'[t] = "block" /\ cause'[t] = "none"
                 /\ at'[t] = "scan" => cause'[t] # "none"
        <3>1. /\ kthread[t].state = "Waiting" <=> Contains(waitList, t)
              /\ kthread[t].state = "Waiting" <=> at[t] = "block" /\ cause[t] = "none"
              /\ at[t] = "scan" => cause[t] # "none"
            BY Zenon DEF IInv, WaitInv
        <3>2. kthread'[t].state = "Waiting" <=> kthread[t].state = "Waiting"
            BY <1>2, <1>7, ZenonT(30)
        <3>3. \/ at'[t] = at[t]
              \/ at[t] = "block" /\ at'[t] = "scan" /\ kthread[t].state # "Waiting"
            BY <1>2, <1>12
        <3> QED
            BY <1>13, <3>1, <3>2, <3>3, ZenonT(30)
    <2> QED
        BY <2>1, <2>2, Zenon DEF WaitInv
<1>18. SlotInv'
    BY <1>13, Zenon DEF IInv, SlotInv
<1>19. KeeperInv'
    BY <1>6, <1>7, <1>12, <1>13, Zenon DEF IInv, KeeperInv, Keeper
<1> QED
    BY <1>6, <1>10, <1>15, <1>16, <1>17, <1>18, <1>19, ZenonT(30) DEF IInv

\* wait_on parks the thread whose stack the CPU is on.
LEMMA WaitOnInv ==
    ASSUME IInv, NEW o \in Object, NEW timed \in BOOLEAN, WaitOn(o, timed)
    PROVE  IInv'
<1>1. PICK s \in QState : s = Queues
    BY QueuesTyped, Zenon DEF IInv, WInv, TypeOK
<1>2. /\ swap = NoSwap /\ executing = current /\ current \in Thread /\ current \in Waiters
      /\ at[current] = "run" /\ waitList \in Seq(Thread)
    BY ZenonT(30) DEF IInv, WInv, TypeOK, SwitchInv, WaitOn
<1>3. ~InQueue(Queues, current) /\ ~Contains(waitList, current)
    BY <1>2, Zenon DEF IInv, QueuedInv, WaitInv
<1>4. PICK e : e = SetState(s, current, "Waiting")
    BY Zenon
<1>5. Restated(s, e, current, "Waiting")
    BY <1>2, <1>4, StateSet, ZenonT(30) DEF State
<1>6. /\ Install(e) /\ waitList' = Append(waitList, current)
      /\ at' = [at EXCEPT ![current] = "block"] /\ cause' = [cause EXCEPT ![current] = "none"]
      /\ UNCHANGED <<current, executing, isr, swap, saved, quantum>>
    BY <1>1, <1>2, <1>4, ZenonT(30) DEF WaitOn
<1>7. /\ Exact(Queues)' /\ AtHome(Queues)'
      /\ \A u : InQueue(Queues, u)' <=> InQueue(Queues, u)
      /\ kthread' = e.kthread
    <2>1. /\ e \in QState /\ e.ready = ready /\ e.summary = summary
          /\ \A u \in Thread : /\ e.kthread[u].home = kthread[u].home
                               /\ e.kthread[u].affinity = kthread[u].affinity
        BY <1>1, <1>5, Zenon DEF Restated, Queues, Alike
    <2> QED
        BY <1>6, <2>1, QueuesKept, ZenonT(30) DEF IInv
<1>8. \A u \in Thread : kthread'[u].state = IF u = current THEN "Waiting" ELSE kthread[u].state
    BY <1>1, <1>5, <1>7, ZenonT(30) DEF Restated, Queues
<1>9. \A u \in Thread : /\ at'[u] = IF u = current THEN "block" ELSE at[u]
                        /\ cause'[u] = IF u = current THEN "none" ELSE cause[u]
    BY <1>2, <1>6 DEF IInv, WInv, TypeOK
<1>10. IsInjective(waitList') /\ \A u : Contains(waitList', u) <=> Contains(waitList, u) \/ u = current
    <2>1. PICK q \in Seq(Thread) : q = waitList /\ IsInjective(q)
        BY <1>2, Zenon DEF IInv, WaitInv
    <2>2. ~Contains(q, current)
        BY <1>3, <2>1, Zenon
    <2>3. /\ IsInjective(Append(q, current))
          /\ \A u : Contains(Append(q, current), u) <=> Contains(q, u) \/ u = current
        BY <1>2, <2>1, <2>2, Appended, Zenon
    <2> QED
        BY <1>6, <2>1, <2>3, ZenonT(30)
<1>11. WInv'
    BY WaitOnTyped, ZenonT(30) DEF IInv
<1>12. PICK k \in Slot : /\ ~entry[k].inUse /\ entry'[k].inUse /\ entry'[k].thread = current
                         /\ \A i \in Slot \ {k} : entry'[i] = entry[i]
    <2>1. PICK k : k = Min(FreeSlots)
        BY Zenon
    <2>2. k \in Slot /\ ~entry[k].inUse
        <3>1. \A i \in Slot : i \in Nat
            BY DispatcherAssumption DEF Slot
        <3>2. FreeSlots \in SUBSET Nat /\ FreeSlots # {}
            BY <3>1 DEF FreeSlots, WaitOn
        <3>3. k \in FreeSlots
            BY <2>1, <3>2, Least
        <3> QED
            BY <3>3, ZenonT(30) DEF FreeSlots
    <2>3. PICK x : x = [thread |-> current, object |-> o, timed |-> timed,
                        inUse |-> TRUE, signalled |-> FALSE, pending |-> entry[k].pending]
        BY Zenon
    <2>4. entry' = [entry EXCEPT ![k] = x]
        BY <2>1, <2>3 DEF WaitOn
    <2>5. x.inUse /\ x.thread = current
        BY <2>3
    <2>6. entry'[k] = x /\ \A i \in Slot \ {k} : entry'[i] = entry[i]
        BY <2>2, <2>4, Zenon DEF IInv, WInv, TypeOK
    <2> QED
        BY <2>2, <2>5, <2>6, ZenonT(30)
<1>13. QueuedInv'
    BY <1>2, <1>3, <1>6, <1>7, <1>8, Zenon DEF IInv, QueuedInv
<1>14. SwitchInv'
    BY <1>2, <1>6, <1>8, Zenon DEF IInv, SwitchInv
<1>15. WaitInv'
    <2>1. ASSUME NEW t \in Thread
          PROVE  /\ kthread'[t].state = "Waiting" <=> Contains(waitList', t)
                 /\ kthread'[t].state = "Waiting" <=> at'[t] = "block" /\ cause'[t] = "none"
                 /\ at'[t] = "scan" => cause'[t] # "none"
        <3>1. /\ kthread[t].state = "Waiting" <=> Contains(waitList, t)
              /\ kthread[t].state = "Waiting" <=> at[t] = "block" /\ cause[t] = "none"
              /\ at[t] = "scan" => cause[t] # "none"
            BY DEF IInv, WaitInv
        <3>2. Contains(waitList', t) <=> Contains(waitList, t) \/ t = current
            BY <1>10, Zenon
        <3>3. CASE t = current
            BY <1>8, <1>9, <3>2, <3>3, Zenon
        <3>4. CASE t # current
            BY <1>8, <1>9, <3>1, <3>2, <3>4, ZenonT(30)
        <3> QED
            BY <3>3, <3>4, ZenonT(30)
    <2> QED
        BY <1>10, <2>1, Zenon DEF WaitInv
<1>16. SlotInv'
    <2>1. /\ \A i \in Slot : entry[i].inUse =>
                entry[i].thread \in Thread /\ Contains(waitList, entry[i].thread)
          /\ \A i, j \in Slot :
                entry[i].inUse /\ entry[j].inUse /\ entry[i].thread = entry[j].thread => i = j
          /\ \A t \in Thread : Contains(waitList, t) =>
                \E i \in Slot : entry[i].inUse /\ entry[i].thread = t
        BY Zenon DEF IInv, SlotInv
    <2>2. \A i \in Slot : entry[i].inUse => entry[i].thread # current
        <3>1. ~Contains(waitList, current)
            BY <1>3, Zenon
        <3> QED
            BY <2>1, <3>1, SMTT(30), Z3T(30)
    <2>3. \A i \in Slot : entry'[i].inUse =>
              entry'[i].thread \in Thread /\ Contains(waitList', entry'[i].thread)
        BY <1>2, <1>10, <1>12, <2>1, SMTT(30), Z3T(30)
    <2>4. ASSUME NEW i \in Slot, NEW j \in Slot,
                 entry'[i].inUse, entry'[j].inUse, entry'[i].thread = entry'[j].thread
          PROVE  i = j
        <3>1. \A l \in Slot \ {k} : entry'[l] = entry[l]
            BY <1>12, Zenon
        <3>2. CASE i = k \/ j = k
            BY <1>12, <2>2, <2>4, <3>1, <3>2, ZenonT(30)
        <3>3. CASE i # k /\ j # k
            BY <2>1, <2>4, <3>1, <3>3, Zenon
        <3> QED
            BY <3>2, <3>3, Zenon
    <2>5. ASSUME NEW t \in Thread, Contains(waitList', t)
          PROVE  \E i \in Slot : entry'[i].inUse /\ entry'[i].thread = t
        <3>1. CASE t = current
            BY <1>12, <3>1, Zenon
        <3>2. CASE t # current
            <4>1. PICK i \in Slot : entry[i].inUse /\ entry[i].thread = t
                BY <1>10, <2>1, <2>5, <3>2, Zenon
            <4>2. entry'[i] = entry[i]
                BY <1>12, <4>1, Zenon
            <4> QED
                BY <4>1, <4>2, Zenon
        <3> QED
            BY <3>1, <3>2, Zenon
    <2> QED
        BY <2>3, <2>4, <2>5, Zenon DEF SlotInv
<1>17. KeeperInv'
    BY <1>2, <1>6, <1>7, <1>8, <1>9, Zenon DEF IInv, KeeperInv, Keeper
<1> QED
    BY <1>7, <1>11, <1>13, <1>14, <1>15, <1>16, <1>17, ZenonT(30) DEF IInv

\* wait_on fetches a result: no slot goes in or out of use.
LEMMA ScanInv ==
    ASSUME IInv, Scan
    PROVE  IInv'
<1>1. /\ swap = NoSwap /\ executing = current /\ current \in Thread /\ at[current] = "scan"
    BY ZenonT(30) DEF IInv, WInv, TypeOK, SwitchInv, Scan
<1>2. /\ at' = [at EXCEPT ![current] = "run"] /\ cause' = [cause EXCEPT ![current] = "none"]
      /\ UNCHANGED <<queueVars, current, executing, isr, swap, saved, quantum, waitList>>
    BY <1>1, Zenon DEF Scan
<1>3. \A i \in Slot : entry'[i].inUse = entry[i].inUse /\ entry'[i].thread = entry[i].thread
    <2> TAKE i \in Slot
    <2>1. PICK x \in EntryType : x = entry[i]
        BY DEF IInv, WInv, TypeOK, EntryType
    <2>2. PICK y : y = [x EXCEPT !.signalled = FALSE, !.pending = FALSE]
        BY Zenon
    <2>3. y.inUse = x.inUse /\ y.thread = x.thread
        BY <2>2, Zenon DEF EntryType
    <2>4. entry'[i] = x \/ entry'[i] = y
        BY <2>1, <2>2, Zenon DEF Scan
    <2> QED
        BY <2>1, <2>3, <2>4, Zenon
<1>4. kthread' = kthread /\ Queues' = Queues
    BY <1>2, Zenon DEF queueVars, Queues
<1>5. \A u \in Thread : /\ at'[u] = IF u = current THEN "run" ELSE at[u]
                        /\ cause'[u] = IF u = current THEN "none" ELSE cause[u]
    BY <1>1, <1>2, Zenon DEF IInv, WInv, TypeOK
<1>6. WInv'
    BY ScanTyped, Zenon DEF IInv
<1>7. Exact(Queues)' /\ AtHome(Queues)' /\ \A u : InQueue(Queues, u)' <=> InQueue(Queues, u)
    BY <1>4, ZenonT(30) DEF IInv, Exact, AtHome, InQueue, In
<1>8. QueuedInv'
    BY <1>1, <1>2, <1>4, <1>7, ZenonT(30) DEF IInv, QueuedInv
<1>9. SwitchInv'
    BY <1>2, <1>4, Zenon DEF IInv, SwitchInv
<1>10. WaitInv'
    BY <1>1, <1>2, <1>4, <1>5, SMTT(30), Z3T(30) DEF IInv, WaitInv
<1>11. SlotInv'
    BY <1>2, <1>3, ZenonT(30) DEF IInv, SlotInv
<1>12. KeeperInv'
    BY <1>2, <1>4, <1>5, <1>7, Zenon DEF IInv, KeeperInv, Keeper
<1> QED
    BY <1>6, <1>7, <1>8, <1>9, <1>10, <1>11, <1>12, Zenon DEF IInv

\* wake and tick_wait_list: the threads they wake are Waiting, hence in no queue.
LEMMA CompletionInv ==
    ASSUME IInv, NEW s, NEW threads, NEW slots, NEW why, Completion(s, threads, slots, why)
    PROVE  IInv'
<1>1. /\ Decayed(s) /\ Woken(threads, slots) /\ why \in {"signal", "timeout"}
      /\ Complete(s, threads, slots, why)
    BY Zenon DEF Completion
<1>2. current' = current /\ executing' = executing /\ at' = at /\ swap' = swap /\ saved' = saved
    BY Zenon DEF Completion
<1>3. PICK W : W = {u \in Thread : Contains(threads, u)}
    BY Zenon
<1>4. TypeOK /\ s \in QState
    BY <1>1, Zenon DEF IInv, WInv, Decayed
<1>5. /\ \E done : SlotsDone(W, done)
      /\ Unlinks(W, why) /\ Install(FoldLeft(Awaken, s, threads))
    BY <1>1, <1>3, <1>4, Completed, Zenon
<1>6. WInv'
    BY CompletionTyped, Zenon DEF IInv
<1>7. \A u \in W : u \in Thread /\ Contains(waitList, u) /\ kthread[u].state = "Waiting"
    BY <1>1, <1>3, Zenon DEF Woken, IInv, WaitInv
<1>8. /\ Exact(s) /\ AtHome(s) /\ \A u : InQueue(s, u) <=> InQueue(Queues, u)
    <2>1. PICK r : r = Queues /\ r.ready = ready /\ r.summary = summary /\ r.kthread = kthread
        <3>1. Queues.ready = ready /\ Queues.summary = summary /\ Queues.kthread = kthread
            BY DEF Queues
        <3> QED
            BY <3>1, Zenon
    <2>2. /\ Exact(s) /\ (\A c, p, t : In(s, c, p, t) <=> In(r, c, p, t))
          /\ \A t : InQueue(s, t) <=> InQueue(r, t)
        <3>1. s.ready = r.ready /\ s.summary = r.summary /\ Exact(r)
            BY <1>1, <2>1, Zenon DEF Decayed, IInv
        <3> QED
            BY <3>1, SameQueues, Zenon
    <2>3. AtHome(s)
        BY <1>1, <2>1, <2>2, Zenon DEF AtHome, Decayed, IInv
    <2> QED
        BY <2>1, <2>2, <2>3
<1>9. PICK e : e = FoldLeft(Awaken, s, threads)
    BY Zenon
<1>10. Awakened(s, e, W)
    <2>1. PICK q \in Seq(Thread) : q = threads
        BY <1>1, Zenon DEF Woken
    <2>2. IsInjective(q)
        BY <1>1, <2>1, ZenonT(30) DEF Woken, IInv, WaitInv
    <2>3. \A u \in Thread : Contains(q, u) => ~InQueue(s, u)
        BY <1>3, <1>7, <1>8, <2>1, Zenon DEF IInv, QueuedInv
    <2> QED
        BY <1>3, <1>4, <1>8, <1>9, <2>1, <2>2, <2>3, WokenAll, Zenon
<1>11. Queues' = e /\ kthread' = e.kthread
    <2>1. e \in QState /\ Install(e)
        BY <1>5, <1>9, <1>10, Zenon DEF Awakened
    <2> QED
        BY <2>1, Installed DEF Install
<1>12. Exact(Queues)' /\ AtHome(Queues)'
    <2>1. Exact(e) /\ AtHome(e)
        BY <1>10, Zenon DEF Awakened
    <2> QED
        BY <1>11, <2>1, QueuesNext, Zenon
<1>13. \A u \in Thread :
           /\ InQueue(Queues, u)' <=> InQueue(Queues, u) \/ u \in W
           /\ kthread'[u].state = IF u \in W THEN "Ready" ELSE kthread[u].state
    <2>1. \A u : InQueue(Queues, u)' <=> InQueue(e, u)
        BY <1>11, QueuesNext, Zenon
    <2> QED
        BY <1>1, <1>8, <1>10, <1>11, <2>1, Zenon DEF Awakened, Decayed
<1>14. /\ \A u \in Thread : Contains(waitList', u) <=> Contains(waitList, u) /\ u \notin W
       /\ IsInjective(waitList')
       /\ \A u \in Thread : cause'[u] = IF u \in W THEN why ELSE cause[u]
    BY <1>5, ZenonT(30) DEF Unlinks, IInv, WaitInv
<1>15. QueuedInv'
    <2>1. ASSUME current \in W
          PROVE  swap = NoSwap /\ at[current] = "block"
        BY <1>7, <2>1, Zenon DEF IInv, SwitchInv, WaitInv
    <2>2. current \in Thread
        BY <1>4, ZenonT(30) DEF TypeOK
    <2> QED
        BY <1>2, <1>13, <2>1, <2>2, Zenon DEF IInv, QueuedInv
<1>16. SwitchInv'
    BY <1>2, <1>4, <1>13, ZenonT(30) DEF IInv, SwitchInv, TypeOK
<1>17. WaitInv'
    BY <1>1, <1>2, <1>7, <1>13, <1>14, Zenon DEF IInv, WaitInv
<1>18. SlotInv'
    <2>1. PICK done : SlotsDone(W, done)
        BY <1>5
    <2>2. \A i \in Slot : entry'[i].inUse =>
              /\ i \notin done /\ entry'[i] = entry[i] /\ entry[i].inUse /\ entry[i].thread \notin W
        BY <2>1, SMTT(30), Z3T(30) DEF SlotsDone, IInv, SlotInv
    <2>3. \A t \in Thread : Contains(waitList', t) =>
              \E i \in Slot : entry'[i].inUse /\ entry'[i].thread = t
        <3> SUFFICES ASSUME NEW t \in Thread, Contains(waitList', t)
                     PROVE  \E i \in Slot : entry'[i].inUse /\ entry'[i].thread = t
            BY Zenon
        <3>1. Contains(waitList, t) /\ t \notin W
            BY <1>14, Zenon
        <3>2. PICK i \in Slot : entry[i].inUse /\ entry[i].thread = t
            BY <3>1, Zenon DEF IInv, SlotInv
        <3>3. entry'[i] = entry[i]
            BY <2>1, <3>1, <3>2, ZenonT(30) DEF SlotsDone
        <3> QED
            BY <3>2, <3>3, Zenon
    <2> QED
        BY <1>14, <2>2, <2>3, Zenon DEF IInv, SlotInv
<1>19. KeeperInv'
    <2>1. \A t \in Thread : Keeper(t) => t \notin W
        BY <1>7, Zenon DEF IInv, KeeperInv, WaitInv
    <2> QED
        <3>1. KeeperInv
            BY DEF IInv
        <3> QED
            BY <1>2, <1>13, <2>1, <3>1, Zenon DEF KeeperInv, Keeper
<1> QED
    BY <1>6, <1>12, <1>15, <1>16, <1>17, <1>18, <1>19 DEF IInv

\* Every step keeps the invariant, when some thread other than the boot thread
\* never waits.
LEMMA NextInv ==
    ASSUME IInv, Next, NEW keeper, Keeper(keeper)
    PROVE  IInv'
<1>1. WInv
    BY DEF IInv
<1>2. CASE Pick
    BY <1>2, PickInv
<1>3. CASE Swap
    BY <1>3, SwapInv
<1>4. CASE Scan
    BY <1>4, ScanInv, Zenon
<1>5. CASE \E o \in Object, timed \in BOOLEAN : WaitOn(o, timed)
    BY <1>5, WaitOnInv, Zenon
<1>6. CASE \E s, threads, slots, why : Completion(s, threads, slots, why)
    BY <1>6, CompletionInv, Zenon
<1> QED
    BY <1>1, <1>2, <1>3, <1>4, <1>5, <1>6, Steps, Zenon

\* A step that changes nothing keeps the invariant.
LEMMA StutterInv ==
    ASSUME IInv, UNCHANGED vars
    PROVE  IInv'
<1>1. /\ UNCHANGED <<current, executing, at, swap, saved>> /\ kthread' = kthread
      /\ Queues' = Queues /\ entry' = entry /\ waitList' = waitList /\ cause' = cause
    BY ZenonT(30) DEF vars, queueVars, threadVars, waitVars, Queues
<1>2. Exact(Queues)' /\ AtHome(Queues)' /\ \A u : InQueue(Queues, u)' <=> InQueue(Queues, u)
    BY <1>1, Zenon DEF IInv, Exact, AtHome, InQueue, In
<1>3. WInv'
    BY StutterTyped, ZenonT(30) DEF IInv
<1>4. QueuedInv' /\ SwitchInv'
    BY <1>1, <1>2, Zenon DEF IInv, QueuedInv, SwitchInv
<1>5. WaitInv' /\ SlotInv'
    BY <1>1, ZenonT(30) DEF IInv, WaitInv, SlotInv
<1>6. KeeperInv'
    BY <1>1, <1>2, Zenon DEF IInv, KeeperInv, Keeper
<1> QED
    BY <1>2, <1>3, <1>4, <1>5, <1>6, Zenon DEF IInv

\* The invariant says what the properties say.
LEMMA InvProperties ==
    ASSUME IInv
    PROVE  QueuedOnce /\ WaitRecordsAgree /\ WaitBlocks /\ ExecutesCurrent
<1>1. QueuedOnce
    BY QueueProperties, Zenon DEF IInv, WInv, TypeOK
<1>2. \A t : t \in Range(waitList) <=> Contains(waitList, t)
    BY ElementOf DEF IInv, WInv, TypeOK
<1>3. ASSUME NEW t \in Thread, NEW armed, armed = {i \in Slot : entry[i].inUse /\ entry[i].thread = t}
      PROVE  IF t \in Range(waitList) THEN \E i \in Slot : armed = {i} ELSE armed = {}
    <2>1. CASE t \in Range(waitList)
        <3>1. PICK i \in Slot : entry[i].inUse /\ entry[i].thread = t
            BY <1>2, <2>1, Zenon DEF IInv, SlotInv
        <3>2. armed = {i}
            BY <1>3, <3>1, SMTT(30), Z3T(30) DEF IInv, SlotInv
        <3> QED
            BY <2>1, <3>2, Zenon
    <2>2. CASE t \notin Range(waitList)
        BY <1>2, <1>3, <2>2, SMTT(30), Z3T(30) DEF IInv, SlotInv
    <2> QED
        BY <2>1, <2>2, Zenon
<1>4. WaitRecordsAgree
    BY <1>2, <1>3, Zenon DEF IInv, WaitInv, WaitRecordsAgree
<1>5. WaitBlocks /\ ExecutesCurrent
    BY DEF IInv, WaitInv, SwitchInv, WaitBlocks, ExecutesCurrent
<1> QED
    BY <1>1, <1>4, <1>5, Zenon

\* Every dispatcher step keeps the invariant, for any numbers of threads, slots and
\* objects, if every kernel_rsp was seeded and some thread other than the boot
\* thread never waits, so that there is always a thread to switch to.
THEOREM WaitsInvariant ==
    ASSUME Unseeded = {}, NEW keeper \in Thread \ Waiters, keeper # BootThread
    PROVE  Spec => []IInv
<1>1. Keeper(keeper)
    BY DEF Keeper
<1>2. Init => IInv
    BY InitInv, Zenon
<1>3. IInv /\ [Next]_vars => IInv'
    BY <1>1, NextInv, StutterInv, Zenon
<1> QED
    BY <1>2, <1>3, PTL DEF Spec

\* A thread's state, the wait list and the wait entries tell the same story at every
\* moment: no signal finds a waiter that is not on the list, or one that is armed
\* twice.
THEOREM WaitsConsistent ==
    ASSUME Unseeded = {}, NEW keeper \in Thread \ Waiters, keeper # BootThread
    PROVE  Spec => []WaitRecordsAgree
<1>1. Spec => []IInv
    BY WaitsInvariant, Zenon
<1>2. IInv => WaitRecordsAgree
    BY InvProperties, Zenon
<1> QED
    BY <1>1, <1>2, PTL

\* wait_on does not return to a thread before something ended its wait.
THEOREM WaitsBlock ==
    ASSUME Unseeded = {}, NEW keeper \in Thread \ Waiters, keeper # BootThread
    PROVE  Spec => []WaitBlocks
<1>1. Spec => []IInv
    BY WaitsInvariant
<1>2. IInv => WaitBlocks
    BY InvProperties, Zenon
<1> QED
    BY <1>1, <1>2, PTL

\* Outside a switch the PRCB's current_thread is the thread whose stack the CPU is
\* on.
THEOREM CurrentExecutes ==
    ASSUME Unseeded = {}, NEW keeper \in Thread \ Waiters, keeper # BootThread
    PROVE  Spec => []ExecutesCurrent
<1>1. Spec => []IInv
    BY WaitsInvariant
<1>2. IInv => ExecutesCurrent
    BY InvProperties, Zenon
<1> QED
    BY <1>1, <1>2, PTL

\* A thread that a signal, a timeout and a preemption reach in any order is put in
\* one ready queue, once.
THEOREM WokenOnce ==
    ASSUME Unseeded = {}, NEW keeper \in Thread \ Waiters, keeper # BootThread
    PROVE  Spec => []QueuedOnce
<1>1. Spec => []IInv
    BY WaitsInvariant
<1>2. IInv => QueuedOnce
    BY InvProperties
<1> QED
    BY <1>1, <1>2, PTL
=============================================================================
