------------------------- MODULE ReadyQueuesProofs --------------------------
(***************************************************************************)
(* What the operators of ReadyQueues do to the queues, for any number of   *)
(* threads, CPUs and priorities.  The theorems of the modules that build   *)
(* actions from these operators rest on the lemmas here.                   *)
(***************************************************************************)
EXTENDS ReadyQueues, WellFoundedInduction, TLAPS

-----------------------------------------------------------------------------
(* Sequences *)

\* A list is a function on its positions.
LEMMA Positions ==
    ASSUME NEW S, NEW q \in Seq(S)
    PROVE  /\ Len(q) \in Nat /\ q \in [1 .. Len(q) -> S] /\ DOMAIN q = 1 .. Len(q)
           /\ \A i \in 1 .. Len(q) : q[i] \in S
    OBVIOUS

\* A function on positions is a list.
LEMMA FromPositions ==
    ASSUME NEW S, NEW n \in Nat, NEW q \in [1 .. n -> S]
    PROVE  q \in Seq(S) /\ Len(q) = n
    OBVIOUS

\* What is added to a list comes last.
LEMMA AppendLast ==
    ASSUME NEW S, NEW q \in Seq(S), NEW t \in S
    PROVE  /\ Append(q, t) \in Seq(S) /\ Append(q, t) # <<>>
           /\ Len(Append(q, t)) = Len(q) + 1
           /\ \A i \in 1 .. Len(q) : Append(q, t)[i] = q[i]
           /\ Append(q, t)[Len(q) + 1] = t
    OBVIOUS

\* Two lists, one after the other.
LEMMA Joined ==
    ASSUME NEW S, NEW a \in Seq(S), NEW b \in Seq(S)
    PROVE  /\ a \o b \in Seq(S) /\ Len(a \o b) = Len(a) + Len(b)
           /\ \A i \in 1 .. Len(a) + Len(b) :
                 (a \o b)[i] = IF i <= Len(a) THEN a[i] ELSE b[i - Len(a)]
    OBVIOUS

-----------------------------------------------------------------------------
(* Extremes of sets of numbers, and first-in first-out lists *)

\* Min yields the least element of a set of natural numbers.
LEMMA Least ==
    ASSUME NEW S \in SUBSET Nat, S # {}
    PROVE  Min(S) \in S /\ \A y \in S : Min(S) <= y
<1>1. PICK x \in S : \A y \in S : ~(<<y, x>> \in OpToRel(<, Nat))
    BY WFMin, NatLessThanWellFounded
<1>2. ASSUME NEW y \in S
      PROVE  x <= y
    <2>1. <<y, x>> \in Nat \X Nat /\ <<y, x>>[1] = y /\ <<y, x>>[2] = x
        OBVIOUS
    <2>2. ~(y < x)
        BY <1>1, <2>1 DEF OpToRel
    <2> QED
        BY <2>2
<1> QED
    BY <1>2, Zenon DEF Min

\* Max yields the greatest element of a bounded set of natural numbers.
LEMMA Greatest ==
    ASSUME NEW n \in Nat, NEW S \in SUBSET (0 .. n), S # {}
    PROVE  Max(S) \in S /\ \A y \in S : Max(S) >= y
<1> DEFINE D == {n - x : x \in S}
<1>1. D \subseteq Nat
    OBVIOUS
<1>0. D # {}
    BY Zenon
<1>2. PICK m \in D : \A y \in D : m <= y
    BY <1>0, <1>1, Least, Zenon
<1>3. n - m \in S /\ \A y \in S : n - m >= y
    BY <1>2
<1> QED
    BY <1>3, Zenon DEF Max

\* Adding a thread to the tail of a queue it is not in.
LEMMA Appended ==
    ASSUME NEW q \in Seq(Thread), NEW t \in Thread, ~Contains(q, t), IsInjective(q)
    PROVE  /\ Append(q, t) \in Seq(Thread) /\ Append(q, t) # <<>> /\ IsInjective(Append(q, t))
           /\ \A u : Contains(Append(q, t), u) <=> Contains(q, u) \/ u = t
    BY AppendLast DEF Contains, IsInjective

\* Unlinking a thread closes the gap at its first position and moves nothing else.
LEMMA GapClosed ==
    ASSUME NEW q \in Seq(Thread), NEW t, Contains(q, t), NEW r, r = RemoveFirst(q, t)
    PROVE  /\ r \in Seq(Thread) /\ Len(r) = Len(q) - 1 /\ DOMAIN r = 1 .. Len(r)
           /\ \E k \in 1 .. Len(q) :
                 q[k] = t /\ \A i \in 1 .. Len(r) : r[i] = IF i < k THEN q[i] ELSE q[i + 1]
<1>1. /\ Len(q) \in Nat /\ DOMAIN q = 1 .. Len(q)
      /\ \A i \in 1 .. Len(q) : q[i] \in Thread
    BY Positions
<1>2. PICK k \in 1 .. Len(q) :
          q[k] = t /\ RemoveFirst(q, t) = SubSeq(q, 1, k - 1) \o SubSeq(q, k + 1, Len(q))
    <2> DEFINE I == {i \in 1 .. Len(q) : q[i] = t}
    <2>1. I \in SUBSET Nat /\ I # {}
        BY <1>1 DEF Contains
    <2>2. Min(I) \in I
        BY <2>1, Least, Zenon
    <2>3. RemoveFirst(q, t) = SubSeq(q, 1, Min(I) - 1) \o SubSeq(q, Min(I) + 1, Len(q))
        BY <2>1, Zenon DEF RemoveFirst, Contains
    <2> QED
        BY <2>2, <2>3, Zenon
<1>3. q[k] = t /\ k \in Nat /\ 1 <= k /\ k <= Len(q)
    BY <1>1, <1>2
<1>4. /\ r \in Seq(Thread) /\ Len(r) = Len(q) - 1 /\ DOMAIN r = 1 .. Len(r)
      /\ \A i \in 1 .. Len(r) : r[i] = IF i < k THEN q[i] ELSE q[i + 1]
    <2>1. PICK a : a = SubSeq(q, 1, k - 1)
        BY Zenon
    <2>2. PICK b : b = SubSeq(q, k + 1, Len(q))
        BY Zenon
    <2>3. /\ a \in Seq(Thread) /\ Len(a) = k - 1
          /\ \A i \in 1 .. k - 1 : a[i] = q[i]
        <3>1. k - 1 \in Int /\ \A i \in 1 .. k - 1 : q[i] \in Thread
            BY <1>1, <1>3
        <3> QED
            BY <1>1, <1>3, <2>1, <3>1
    <2>4. /\ b \in Seq(Thread) /\ Len(b) = Len(q) - k
          /\ \A i \in 1 .. Len(q) - k : b[i] = q[k + i]
        <3>1. k + 1 \in Int /\ Len(q) \in Int /\ \A i \in k + 1 .. Len(q) : q[i] \in Thread
            BY <1>1, <1>3
        <3>2. \A i \in 1 .. Len(q) - (k + 1) + 1 : b[i] = q[(k + 1) + i - 1]
            BY <2>2, <3>1
        <3>3. b \in Seq(Thread) /\ Len(b) = IF k + 1 <= Len(q) THEN Len(q) - (k + 1) + 1 ELSE 0
            BY <2>2, <3>1
        <3>4. ASSUME NEW i \in 1 .. Len(q) - k
              PROVE  b[i] = q[k + i]
            <4>1. i \in 1 .. Len(q) - (k + 1) + 1 /\ (k + 1) + i - 1 = k + i
                BY <1>1, <1>3
            <4> QED
                BY <3>2, <4>1
        <3>5. Len(b) = Len(q) - k
            <4>1. PICK n \in Nat : n = Len(q)
                BY <1>1, Zenon
            <4>2. PICK m : m = Len(b)
                OBVIOUS
            <4>3. k \in Nat /\ k <= n /\ m = IF k + 1 <= n THEN n - (k + 1) + 1 ELSE 0
                BY <1>3, <3>3, <4>1, <4>2
            <4>4. m = n - k
                BY ONLY n \in Nat, <4>3
            <4> QED
                BY <4>1, <4>2, <4>4, Zenon
        <3> QED
            BY <3>3, <3>4, <3>5
    <2>5. r = a \o b
        BY <1>2, <2>1, <2>2
    <2>6. /\ r \in Seq(Thread) /\ Len(r) = Len(a) + Len(b)
          /\ \A i \in 1 .. Len(a) + Len(b) : r[i] = IF i <= Len(a) THEN a[i] ELSE b[i - Len(a)]
        <3>1. /\ a \o b \in Seq(Thread) /\ Len(a \o b) = Len(a) + Len(b)
              /\ \A i \in 1 .. Len(a) + Len(b) :
                    (a \o b)[i] = IF i <= Len(a) THEN a[i] ELSE b[i - Len(a)]
            BY <2>3, <2>4, Joined, Zenon
        <3> QED
            BY <2>5, <3>1, Zenon
    <2>7. Len(r) = Len(q) - 1 /\ DOMAIN r = 1 .. Len(r)
        BY <1>1, <1>3, <2>3, <2>4, <2>6, Positions
    <2>8. ASSUME NEW i \in 1 .. Len(r)
          PROVE  r[i] = IF i < k THEN q[i] ELSE q[i + 1]
        <3>1. CASE i < k
            <4>1. i \in 1 .. k - 1 /\ i <= Len(a) /\ i \in 1 .. Len(a) + Len(b)
                BY <1>1, <1>3, <2>3, <2>6, <3>1
            <4>2. r[i] = a[i]
                BY <2>6, <4>1
            <4> QED
                BY <2>3, <3>1, <4>1, <4>2
        <3>2. CASE ~(i < k)
            <4>1. i - (k - 1) \in 1 .. Len(q) - k /\ k + (i - (k - 1)) = i + 1
                BY <1>1, <1>3, <2>7, <3>2
            <4>2. r[i] = b[i - (k - 1)]
                BY <1>1, <1>3, <2>3, <2>4, <2>6, <2>7, <3>2
            <4> QED
                BY <2>4, <3>2, <4>1, <4>2
        <3> QED
            BY <3>1, <3>2
    <2> QED
        BY <2>6, <2>7, <2>8, Zenon
<1> QED
    BY <1>3, <1>4

\* Unlinking a thread from the queue it is in; if it was in there once, it is gone.
LEMMA Unlinking ==
    ASSUME NEW q \in Seq(Thread), NEW t, Contains(q, t)
    PROVE  /\ RemoveFirst(q, t) \in Seq(Thread) /\ Len(RemoveFirst(q, t)) = Len(q) - 1
           /\ IsInjective(q) => /\ IsInjective(RemoveFirst(q, t))
                                /\ \A u : Contains(RemoveFirst(q, t), u) <=> Contains(q, u) /\ u # t
<1>1. /\ Len(q) \in Nat /\ DOMAIN q = 1 .. Len(q)
      /\ \A i \in 1 .. Len(q) : q[i] \in Thread
    BY Positions
<1>2. PICK r : r = RemoveFirst(q, t)
    OBVIOUS
<1>3. r \in Seq(Thread) /\ Len(r) = Len(q) - 1 /\ DOMAIN r = 1 .. Len(r)
    BY <1>2, GapClosed
<1>4. PICK k \in 1 .. Len(q) :
          q[k] = t /\ \A i \in 1 .. Len(r) : r[i] = IF i < k THEN q[i] ELSE q[i + 1]
    BY <1>2, GapClosed, SMTT(30), Z3T(30)
<1>5. k \in Nat /\ 1 <= k /\ k <= Len(q)
    BY <1>1
<1>6. ASSUME IsInjective(q)
      PROVE  IsInjective(r)
    <2>1. ASSUME NEW i \in 1 .. Len(r), NEW j \in 1 .. Len(r), r[i] = r[j]
          PROVE  i = j
        <3>1. PICK m \in DOMAIN q : m = IF i < k THEN i ELSE i + 1
            BY <1>1, <1>3, <1>4, <1>5
        <3>2. PICK n \in DOMAIN q : n = IF j < k THEN j ELSE j + 1
            BY <1>1, <1>3, <1>4, <1>5
        <3>3. q[m] = q[n]
            BY <1>4, <2>1, <3>1, <3>2
        <3>4. m = n
            BY <1>6, <3>3 DEF IsInjective
        <3> QED
            BY <1>1, <1>5, <3>1, <3>2, <3>4
    <2> QED
        BY <1>3, <2>1 DEF IsInjective
<1>7. ASSUME IsInjective(q), NEW u
      PROVE  Contains(r, u) <=> Contains(q, u) /\ u # t
    <2>1. ASSUME NEW i \in 1 .. Len(r)
          PROVE  r[i] # t /\ Contains(q, r[i])
        <3>1. PICK m \in 1 .. Len(q) : m = (IF i < k THEN i ELSE i + 1) /\ m # k
            BY <1>1, <1>3, <1>4, <1>5
        <3>2. r[i] = q[m]
            BY <1>3, <1>4, <3>1
        <3>3. q[m] # q[k]
            BY <1>1, <1>5, <1>7, <3>1 DEF IsInjective
        <3> QED
            BY <1>4, <3>1, <3>2, <3>3 DEF Contains
    <2>2. ASSUME NEW i \in 1 .. Len(q), q[i] # t
          PROVE  Contains(r, q[i])
        <3>1. CASE i < k
            BY <1>1, <1>3, <1>4, <1>5, <3>1 DEF Contains
        <3>2. CASE i > k
            <4>1. i - 1 \in 1 .. Len(r) /\ r[i - 1] = q[i]
                BY <1>1, <1>3, <1>4, <1>5, <3>2
            <4> QED
                BY <4>1 DEF Contains
        <3> QED
            BY <1>4, <1>5, <2>2, <3>1, <3>2
    <2> QED
        BY <1>1, <1>3, <2>1, <2>2, Zenon DEF Contains
<1> QED
    BY <1>2, <1>3, <1>6, <1>7

-----------------------------------------------------------------------------
(* The state of the queues *)

QState == [ready : [CPU -> [Priority -> Seq(Thread)]],
           summary : [CPU -> SUBSET Priority],
           kthread : [Thread -> KThread]]

In(s, c, p, t) == Contains(s.ready[c][p], t)
InQueue(s, t) == \E c \in CPU, p \in Priority : In(s, c, p, t)

\* The summary is exact, and a thread is in one queue at most, once.
Exact(s) ==
    /\ \A c \in CPU, p \in Priority : p \in s.summary[c] <=> s.ready[c][p] # <<>>
    /\ \A c \in CPU, p \in Priority : IsInjective(s.ready[c][p])
    /\ \A t \in Thread, c, d \in CPU, p, r \in Priority :
          In(s, c, p, t) /\ In(s, d, r, t) => c = d /\ p = r

\* A queued thread's fields name its queue.
Tracked(s) ==
    \A t \in Thread, c \in CPU, p \in Priority :
        In(s, c, p, t) => s.kthread[t].queuedCpu = c /\ s.kthread[t].queuedPri = p

\* A change of fields of a Kthread that leaves the queues alone.
LEMMA SameQueues ==
    ASSUME NEW s, NEW r, r.ready = s.ready, r.summary = s.summary
    PROVE  /\ Exact(s) => Exact(r)
           /\ \A c, p, t : In(r, c, p, t) <=> In(s, c, p, t)
           /\ \A t : InQueue(r, t) <=> InQueue(s, t)
    BY DEF Exact, In, InQueue

\* Two Kthreads that differ in state and queue location at most.
Alike(k, l) ==
    l.home = k.home /\ l.affinity = k.affinity /\ l.priority = k.priority /\ l.base = k.base

\* From s to e, only the state of thread t was set.
Restated(s, e, t, st) ==
    /\ e \in QState /\ e.ready = s.ready /\ e.summary = s.summary
    /\ \A u \in Thread :
          /\ Alike(s.kthread[u], e.kthread[u])
          /\ e.kthread[u].queuedPri = s.kthread[u].queuedPri
          /\ e.kthread[u].queuedCpu = s.kthread[u].queuedCpu
          /\ e.kthread[u].state = IF u = t THEN st ELSE s.kthread[u].state

\* An assignment to a thread's state changes nothing else.
LEMMA StateSet ==
    ASSUME NEW s \in QState, NEW t \in Thread, NEW st \in State,
           NEW e, e = SetState(s, t, st)
    PROVE  Restated(s, e, t, st)
<1>1. PICK k \in KThread : k = [s.kthread[t] EXCEPT !.state = st]
    BY Zenon DEF QState, KThread
<1>2. e = [s EXCEPT !.kthread = [s.kthread EXCEPT ![t] = k]]
    BY <1>1 DEF SetState, QState
<1>3. e \in QState /\ e.ready = s.ready /\ e.summary = s.summary
    BY <1>2, Zenon DEF QState
<1>4. e.kthread = [s.kthread EXCEPT ![t] = k]
    BY <1>2 DEF QState
<1>5. /\ Alike(s.kthread[t], k) /\ k.state = st
      /\ k.queuedPri = s.kthread[t].queuedPri /\ k.queuedCpu = s.kthread[t].queuedCpu
    BY <1>1 DEF Alike, QState, KThread
<1>6. \A u \in Thread : e.kthread[u] = IF u = t THEN k ELSE s.kthread[u]
    BY <1>4 DEF QState
<1>7. \A k1 : Alike(k1, k1)
    BY DEF Alike
<1> QED
    BY <1>3, <1>5, <1>6, <1>7 DEF Restated

\* From s to e, thread t went to the tail of queue p of CPU c.
Entered(s, e, c, p, t) ==
    /\ e \in QState /\ Exact(e)
    /\ Tracked(s) => Tracked(e)
    /\ \A d \in CPU, r \in Priority, u \in Thread :
          In(e, d, r, u) <=> In(s, d, r, u) \/ <<d, r, u>> = <<c, p, t>>
    /\ \A u \in Thread : /\ Alike(s.kthread[u], e.kthread[u])
                          /\ e.kthread[u].state = s.kthread[u].state
    /\ \A d \in CPU, r \in Priority :
          Len(e.ready[d][r]) = Len(s.ready[d][r]) + (IF d = c /\ r = p THEN 1 ELSE 0)

\* Enqueue puts a thread that is in no queue at the tail of one.
LEMMA Enqueued ==
    ASSUME NEW s \in QState, Exact(s), NEW c \in CPU, NEW p \in Priority, NEW t \in Thread,
           ~InQueue(s, t),
           NEW e, e = Enqueue(s, c, p, t)
    PROVE  Entered(s, e, c, p, t)
<1>1. /\ e.ready = [s.ready EXCEPT ![c][p] = Append(@, t)]
      /\ e.summary = [s.summary EXCEPT ![c] = @ \cup {p}]
      /\ e.kthread = [s.kthread EXCEPT ![t] = [@ EXCEPT !.queuedPri = p, !.queuedCpu = c]]
    BY DEF Enqueue, QState
<1>2. /\ Append(s.ready[c][p], t) \in Seq(Thread) /\ Append(s.ready[c][p], t) # <<>>
      /\ IsInjective(Append(s.ready[c][p], t))
      /\ \A u : Contains(Append(s.ready[c][p], t), u) <=> Contains(s.ready[c][p], u) \/ u = t
    <2>1. PICK q \in Seq(Thread) : q = s.ready[c][p]
        BY DEF QState
    <2>2. ~Contains(q, t) /\ IsInjective(q)
        BY <2>1 DEF Exact, InQueue, In
    <2>3. /\ Append(q, t) \in Seq(Thread) /\ Append(q, t) # <<>> /\ IsInjective(Append(q, t))
          /\ \A u : Contains(Append(q, t), u) <=> Contains(q, u) \/ u = t
        BY <2>2, Appended
    <2> QED
        BY <2>1, <2>3
<1>3. \A d \in CPU, r \in Priority :
          e.ready[d][r] = IF d = c /\ r = p THEN Append(s.ready[c][p], t) ELSE s.ready[d][r]
    BY <1>1 DEF QState
<1>4. e \in QState
    <2>1. e.ready \in [CPU -> [Priority -> Seq(Thread)]]
        BY <1>1, <1>2 DEF QState
    <2>2. e.summary \in [CPU -> SUBSET Priority]
        BY <1>1 DEF QState
    <2>3. e.kthread \in [Thread -> KThread]
        <3>1. PICK k \in KThread : k = [s.kthread[t] EXCEPT !.queuedPri = p, !.queuedCpu = c]
            BY Zenon DEF KThread, QState
        <3>2. e.kthread = [s.kthread EXCEPT ![t] = k]
            BY <1>1, <3>1
        <3> QED
            BY <3>2 DEF QState
    <2> QED
        BY <2>1, <2>2, <2>3, Zenon DEF Enqueue, QState
<1>5. \A d \in CPU, r \in Priority, u \in Thread :
          In(e, d, r, u) <=> In(s, d, r, u) \/ <<d, r, u>> = <<c, p, t>>
    BY <1>2, <1>3 DEF In
<1>6. Exact(e)
    <2>1. \A d \in CPU, r \in Priority : r \in e.summary[d] <=> e.ready[d][r] # <<>>
        BY <1>1, <1>2, <1>3 DEF Exact, QState
    <2>2. \A d \in CPU, r \in Priority : IsInjective(e.ready[d][r])
        BY <1>2, <1>3 DEF Exact
    <2>3. \A u \in Thread, b, d \in CPU, r, z \in Priority :
              In(e, b, r, u) /\ In(e, d, z, u) => b = d /\ r = z
        BY <1>5 DEF Exact, InQueue
    <2> QED
        BY <2>1, <2>2, <2>3 DEF Exact
<1>7. Tracked(s) => Tracked(e)
    BY <1>1, <1>5 DEF Tracked, QState, KThread, InQueue
<1>8. \A u \in Thread : Alike(s.kthread[u], e.kthread[u]) /\ e.kthread[u].state = s.kthread[u].state
    <2>1. PICK k \in KThread : k = [s.kthread[t] EXCEPT !.queuedPri = p, !.queuedCpu = c]
        BY Zenon DEF KThread, QState
    <2>2. Alike(s.kthread[t], k) /\ k.state = s.kthread[t].state
        BY <2>1 DEF Alike, QState, KThread
    <2>3. \A u \in Thread : e.kthread[u] = IF u = t THEN k ELSE s.kthread[u]
        BY <1>1, <2>1 DEF QState
    <2>4. \A k1 : Alike(k1, k1)
        BY DEF Alike
    <2> QED
        BY <2>2, <2>3, <2>4
<1>9. ASSUME NEW d \in CPU, NEW r \in Priority
      PROVE  Len(e.ready[d][r]) = Len(s.ready[d][r]) + (IF d = c /\ r = p THEN 1 ELSE 0)
    <2>1. PICK q \in Seq(Thread) : q = s.ready[d][r]
        BY DEF QState
    <2>2. Len(q) \in Nat /\ Len(Append(q, t)) = Len(q) + 1
        BY Positions, AppendLast
    <2>3. e.ready[d][r] = IF d = c /\ r = p THEN Append(q, t) ELSE q
        BY <1>3, <2>1
    <2>4. Len(q) + 0 = Len(q)
        BY <2>2
    <2>5. CASE d = c /\ r = p
        BY <2>1, <2>2, <2>3, <2>5
    <2>6. CASE ~(d = c /\ r = p)
        BY <2>1, <2>3, <2>4, <2>6, Zenon
    <2> QED
        BY <2>5, <2>6, Zenon
<1> QED
    BY <1>4, <1>5, <1>6, <1>7, <1>8, <1>9, Zenon DEF Entered

\* From s to e, thread t left queue p of CPU c.
Left(s, e, c, p, t) ==
    /\ e \in QState /\ Exact(e)
    /\ Tracked(s) => Tracked(e)
    /\ \A d \in CPU, r \in Priority, u \in Thread :
          In(e, d, r, u) <=> In(s, d, r, u) /\ u # t
    /\ e.kthread = s.kthread
    /\ \A d \in CPU, r \in Priority :
          Len(e.ready[d][r]) = Len(s.ready[d][r]) - (IF d = c /\ r = p THEN 1 ELSE 0)

\* Unlink takes a thread out of the queue it is in.
LEMMA Dequeued ==
    ASSUME NEW s \in QState, Exact(s), NEW c \in CPU, NEW p \in Priority, NEW t \in Thread,
           In(s, c, p, t),
           NEW e, e = Unlink(s, c, p, t)
    PROVE  Left(s, e, c, p, t)
<1>1. PICK q \in Seq(Thread) : q = s.ready[c][p]
    BY DEF QState
<1>2. PICK rest : rest = RemoveFirst(q, t)
    OBVIOUS
<1>3. /\ e.ready = [s.ready EXCEPT ![c][p] = rest]
      /\ e.summary = [s.summary EXCEPT ![c] = IF rest = <<>> THEN @ \ {p} ELSE @]
      /\ e.kthread = s.kthread
    BY <1>1, <1>2 DEF Unlink, QState
<1>4. Contains(q, t) /\ IsInjective(q)
    BY <1>1 DEF In, Exact
<1>5. /\ rest \in Seq(Thread) /\ IsInjective(rest) /\ Len(rest) = Len(q) - 1
      /\ \A u : Contains(rest, u) <=> Contains(q, u) /\ u # t
    BY <1>2, <1>4, Unlinking
<1>6. \A d \in CPU, r \in Priority :
          e.ready[d][r] = IF d = c /\ r = p THEN rest ELSE s.ready[d][r]
    BY <1>3 DEF QState
<1>7. e \in QState
    <2>1. e.ready \in [CPU -> [Priority -> Seq(Thread)]]
        BY <1>3, <1>5 DEF QState
    <2>2. e.summary \in [CPU -> SUBSET Priority]
        BY <1>3 DEF QState
    <2> QED
        BY <1>3, <2>1, <2>2, Zenon DEF Unlink, QState
<1>8. \A d \in CPU, r \in Priority, u \in Thread :
          In(e, d, r, u) <=> In(s, d, r, u) /\ u # t
    BY <1>1, <1>5, <1>6 DEF In, Exact
<1>9. Exact(e)
    <2>1. s.ready[c][p] # <<>> /\ p \in s.summary[c]
        BY <1>1, <1>4 DEF Contains, Exact
    <2>2. \A d \in CPU, r \in Priority : r \in e.summary[d] <=> e.ready[d][r] # <<>>
        BY <1>3, <1>6, <2>1 DEF Exact, QState
    <2>3. \A d \in CPU, r \in Priority : IsInjective(e.ready[d][r])
        BY <1>5, <1>6 DEF Exact
    <2>4. \A u \in Thread, b, d \in CPU, r, z \in Priority :
              In(e, b, r, u) /\ In(e, d, z, u) => b = d /\ r = z
        BY <1>8 DEF Exact
    <2> QED
        BY <2>2, <2>3, <2>4 DEF Exact
<1>10. Tracked(s) => Tracked(e)
    BY <1>3, <1>8 DEF Tracked
<1>11. \A d \in CPU, r \in Priority :
           Len(e.ready[d][r]) = Len(s.ready[d][r]) - (IF d = c /\ r = p THEN 1 ELSE 0)
    <2>1. ASSUME NEW d \in CPU, NEW r \in Priority
          PROVE  Len(e.ready[d][r]) = Len(s.ready[d][r]) - (IF d = c /\ r = p THEN 1 ELSE 0)
        <3>1. CASE d = c /\ r = p
            BY <1>1, <1>5, <1>6, <3>1
        <3>2. CASE ~(d = c /\ r = p)
            <4>1. e.ready[d][r] = s.ready[d][r] /\ s.ready[d][r] \in Seq(Thread)
                BY <1>6, <3>2 DEF QState
            <4>2. \A n \in Nat : n - 0 = n
                OBVIOUS
            <4>3. Len(s.ready[d][r]) \in Nat
                BY <4>1, Positions
            <4>4. Len(s.ready[d][r]) - 0 = Len(s.ready[d][r])
                BY <4>2, <4>3, Zenon
            <4> QED
                BY <3>2, <4>1, <4>4, Zenon
        <3> QED
            BY <3>1, <3>2, Zenon
    <2> QED
        BY <2>1, Zenon
<1> QED
    BY <1>3, <1>7, <1>8, <1>9, <1>10, <1>11, Zenon DEF Left

-----------------------------------------------------------------------------
(* add_ready, remove_ready and schedule *)

\* add_ready has a CPU with a PRCB to go to, whatever the affinity mask names.
LEMMA TargetExists ==
    ASSUME NEW k
    PROVE  TargetCpu(k) \in CPU
    BY QueueAssumption DEF TargetCpu, CPU, BootCpu

\* The u8 and the clamp both name a queue.
LEMMA QueueExists ==
    ASSUME NEW p \in Int
    PROVE  /\ Clamp(p) \in Priority /\ AsU8(p) \in Nat
           /\ \A u \in Nat : (IF u > TopPriority THEN TopPriority ELSE u) \in Priority
    BY QueueAssumption DEF Clamp, AsU8, Priority, NeverQueued

\* add_ready puts a thread that is in no queue into one.
LEMMA Added ==
    ASSUME NEW s \in QState, Exact(s), NEW t \in Thread, NEW u8 \in Nat, ~InQueue(s, t),
           NEW e, e = AddReady(s, t, u8)
    PROVE  \E c \in CPU, p \in Priority : Entered(s, e, c, p, t)
<1>1. PICK p \in Priority : p = IF u8 > TopPriority THEN TopPriority ELSE u8
    BY QueueExists
<1>2. PICK c \in CPU : c = TargetCpu(s.kthread[t])
    BY TargetExists
<1>3. e = Enqueue(s, c, p, t)
    BY <1>1, <1>2 DEF AddReady
<1>4. Entered(s, e, c, p, t)
    BY <1>3, Enqueued
<1> QED
    BY <1>4

\* schedule finds a thread exactly when one is queued on its CPU.
LEMMA NextFound ==
    ASSUME NEW s \in QState, Exact(s), NEW c \in CPU
    PROVE  \/ /\ NextThread(s, c) = NoThread
              /\ \A p \in Priority, t \in Thread : ~In(s, c, p, t)
           \/ /\ NextThread(s, c) \in Thread /\ TopQueue(s, c) \in Priority
              /\ In(s, c, TopQueue(s, c), NextThread(s, c))
<1>1. CASE s.summary[c] = {}
    <2>1. \A p \in Priority : s.ready[c][p] = <<>>
        BY <1>1 DEF Exact
    <2>2. \A p \in Priority, t \in Thread : ~In(s, c, p, t)
        BY <2>1 DEF In, Contains
    <2> QED
        BY <1>1, <2>2 DEF NextThread
<1>2. CASE s.summary[c] # {}
    <2>1. s.summary[c] \in SUBSET (0 .. TopPriority) /\ TopPriority \in Nat
        BY QueueAssumption DEF QState, Priority, NeverQueued
    <2>2. PICK p \in Priority : p = TopQueue(s, c) /\ p \in s.summary[c]
        BY <1>2, <2>1, Greatest DEF TopQueue, Priority
    <2>3. s.ready[c][p] # <<>> /\ s.ready[c][p] \in Seq(Thread)
        BY <2>2 DEF Exact, QState
    <2>4. NextThread(s, c) = Head(s.ready[c][p])
        BY <1>2, <2>2, <2>3 DEF NextThread
    <2>5. Head(s.ready[c][p]) \in Thread /\ Contains(s.ready[c][p], Head(s.ready[c][p]))
        BY <2>3 DEF Contains
    <2> QED
        BY <2>2, <2>4, <2>5 DEF In
<1> QED
    BY <1>1, <1>2

\* A current thread that schedule switches away from is queued when it is Running.
Requeues(s, cur, next) == cur # NoThread /\ cur # next /\ s.kthread[cur].state = "Running"

\* From s to e, schedule went from thread cur to thread next on CPU c: it popped
\* next, which was queued there, and queued cur if it was still Running.
Switched(s, e, c, cur, next) ==
    /\ e \in QState /\ Exact(e) /\ (Tracked(s) => Tracked(e))
    /\ next \in Thread /\ \E p \in Priority : In(s, c, p, next)
    /\ \A d \in CPU, u \in Thread :
          (\E p \in Priority : In(e, d, p, u)) <=>
              \/ u # next /\ \E p \in Priority : In(s, d, p, u)
              \/ Requeues(s, cur, next) /\ d = c /\ u = cur
    /\ \A u \in Thread :
          /\ e.kthread[u].state = IF Requeues(s, cur, next) /\ u = cur
                                  THEN "Ready" ELSE s.kthread[u].state
          /\ Alike(s.kthread[u], e.kthread[u])

\* The critical section of schedule: nothing if no thread is queued on its CPU,
\* else a switch, provided a current thread that is Running is in no queue.
LEMMA SelectedSwitches ==
    ASSUME NEW s \in QState, Exact(s), NEW c \in CPU, NEW cur \in Thread \cup {NoThread},
           cur # NoThread /\ s.kthread[cur].state = "Running" => ~InQueue(s, cur),
           NEW next, next = NextThread(s, c), NEW e, e = Selected(s, c, cur)
    PROVE  \/ next = NoThread /\ e = s /\ \A p \in Priority, t \in Thread : ~In(s, c, p, t)
           \/ Switched(s, e, c, cur, next)
<1>1. CASE next = NoThread
    <2>1. e = s
        BY <1>1 DEF Selected
    <2>2. NoThread \notin Thread
        BY QueueAssumption
    <2> QED
        BY <1>1, <2>1, <2>2, NextFound, Zenon
<1>2. CASE next # NoThread
    <2>1. PICK p \in Priority : p = TopQueue(s, c) /\ next \in Thread /\ In(s, c, p, next)
        BY <1>2, NextFound
    <2>2. PICK m : m = Unlink(s, c, p, next)
        OBVIOUS
    <2>3. Left(s, m, c, p, next)
        BY <2>1, <2>2, Dequeued
    <2>4. /\ m \in QState /\ Exact(m) /\ (Tracked(s) => Tracked(m)) /\ m.kthread = s.kthread
          /\ \A d \in CPU, r \in Priority, u \in Thread : In(m, d, r, u) <=> In(s, d, r, u) /\ u # next
        BY <2>3 DEF Left
    <2>5. e = IF next = cur THEN m ELSE Requeue(m, c, cur)
        BY <1>2, <2>1, <2>2 DEF Selected, PopNext
    <2>6. CASE ~Requeues(s, cur, next)
        <3>1. e = m
            BY <2>4, <2>5, <2>6 DEF Requeue, Requeues
        <3>2. \A d \in CPU, u \in Thread :
                  (\E r \in Priority : In(e, d, r, u)) <=>
                      (u # next /\ \E r \in Priority : In(s, d, r, u))
            BY <2>4, <3>1, Zenon
        <3> QED
            BY <2>1, <2>4, <2>6, <3>1, <3>2 DEF Switched, Alike
    <2>7. CASE Requeues(s, cur, next)
        <3>1. cur \in Thread /\ s.kthread[cur] \in KThread /\ s.kthread[cur].priority \in Int
            BY <2>7 DEF Requeues, QState, KThread
        <3>2. PICK r \in Priority : r = Clamp(s.kthread[cur].priority)
            BY <3>1, QueueExists
        <3>3. PICK n : n = Enqueue(m, c, r, cur)
            OBVIOUS
        <3>4. ~InQueue(m, cur)
            BY <2>4, <2>7, <3>1 DEF InQueue, Requeues
        <3>5. Entered(m, n, c, r, cur)
            BY <2>4, <3>1, <3>3, <3>4, Enqueued
        <3>6. /\ n \in QState /\ Exact(n) /\ (Tracked(m) => Tracked(n))
              /\ \A u \in Thread : /\ Alike(s.kthread[u], n.kthread[u])
                                    /\ n.kthread[u].state = s.kthread[u].state
            BY <2>4, <3>5 DEF Entered
        <3>7. \A d \in CPU, z \in Priority, u \in Thread :
                  In(n, d, z, u) <=> In(m, d, z, u) \/ <<d, z, u>> = <<c, r, cur>>
            BY <3>5 DEF Entered
        <3>8. e = SetState(n, cur, "Ready")
            BY <2>4, <2>5, <2>7, <3>2, <3>3 DEF Requeue, Requeues
        <3>9. Restated(n, e, cur, "Ready")
            BY <3>1, <3>6, <3>8, StateSet, Zenon DEF State
        <3>10. /\ Exact(e)
               /\ \A d, z, u : In(e, d, z, u) <=> In(n, d, z, u)
            BY <3>6, <3>9, SameQueues, Zenon DEF Restated
        <3>11. \A u \in Thread :
                   /\ e.kthread[u].state = IF u = cur THEN "Ready" ELSE s.kthread[u].state
                   /\ Alike(s.kthread[u], e.kthread[u])
                   /\ e.kthread[u].queuedPri = n.kthread[u].queuedPri
                   /\ e.kthread[u].queuedCpu = n.kthread[u].queuedCpu
            BY <3>6, <3>9, SMTT(30), Z3T(30) DEF Restated, Alike
        <3>12. Tracked(s) => Tracked(e)
            BY <2>4, <3>6, <3>10, <3>11, SMTT(30), Z3T(30) DEF Tracked
        <3>13. \A d \in CPU, u \in Thread :
                   (\E z \in Priority : In(e, d, z, u)) <=>
                       \/ u # next /\ \E z \in Priority : In(s, d, z, u)
                       \/ d = c /\ u = cur
            BY <2>4, <3>7, <3>10, Zenon
        <3> QED
            BY <2>1, <2>7, <3>9, <3>10, <3>11, <3>12, <3>13 DEF Switched, Restated
    <2> QED
        BY <2>6, <2>7
<1> QED
    BY <1>1, <1>2

\* remove_ready, when it finds the thread where it looks.
LEMMA Removed ==
    ASSUME NEW s \in QState, Exact(s), NEW c \in CPU, NEW p \in Priority \cup {NeverQueued},
           NEW t \in Thread, Finds(s, t, c, p), NEW e, e = RemoveReady(s, t, c, p)
    PROVE  /\ e \in QState /\ Exact(e) /\ (Tracked(s) => Tracked(e)) /\ InQueue(s, t)
           /\ \A u \in Thread : InQueue(e, u) <=> InQueue(s, u) /\ u # t
           /\ \A u \in Thread : /\ Alike(s.kthread[u], e.kthread[u])
                                 /\ e.kthread[u].state = s.kthread[u].state
<1>1. p \in Priority /\ In(s, c, p, t)
    BY DEF Finds, In
<1>2. PICK m : m = Unlink(s, c, p, t)
    OBVIOUS
<1>3. Left(s, m, c, p, t)
    BY <1>1, <1>2, Dequeued
<1>4. /\ m \in QState /\ Exact(m) /\ (Tracked(s) => Tracked(m)) /\ m.kthread = s.kthread
      /\ \A d \in CPU, r \in Priority, u \in Thread : In(m, d, r, u) <=> In(s, d, r, u) /\ u # t
    BY <1>3 DEF Left
<1>5. PICK k \in KThread : k = [s.kthread[t] EXCEPT !.queuedPri = NeverQueued, !.queuedCpu = 0]
    <2>1. 0 \in CPU
        BY QueueAssumption DEF CPU
    <2>2. s.kthread[t] \in KThread
        BY DEF QState
    <2> QED
        BY <2>1, <2>2, Zenon DEF KThread
<1>6. e = [m EXCEPT !.kthread = [s.kthread EXCEPT ![t] = k]]
    BY <1>2, <1>4, <1>5 DEF RemoveReady
<1>7. /\ e \in QState /\ e.ready = m.ready /\ e.summary = m.summary
      /\ e.kthread = [s.kthread EXCEPT ![t] = k]
    BY <1>4, <1>6, ZenonT(30) DEF QState
<1>8. Exact(e) /\ \A d, r, u : In(e, d, r, u) <=> In(m, d, r, u)
    BY <1>4, <1>7, SameQueues
<1>9. \A u \in Thread : InQueue(e, u) <=> InQueue(s, u) /\ u # t
    BY <1>4, <1>8 DEF InQueue
<1>10. k.state = s.kthread[t].state /\ Alike(s.kthread[t], k)
    BY <1>5 DEF KThread, QState, Alike
<1>11. \A u \in Thread : u # t => e.kthread[u] = s.kthread[u]
    BY <1>7 DEF QState
<1>12. \A u \in Thread : Alike(s.kthread[u], e.kthread[u]) /\ e.kthread[u].state = s.kthread[u].state
    <2>1. \A u : Alike(u, u)
        BY DEF Alike
    <2> QED
        BY <1>7, <1>10, <1>11, <2>1 DEF QState
<1>13. Tracked(s) => Tracked(e)
    BY <1>4, <1>8, <1>11 DEF Tracked
<1> QED
    BY <1>1, <1>7, <1>8, <1>9, <1>12, <1>13 DEF InQueue

-----------------------------------------------------------------------------
\* The queues of a state, as one value of the type the lemmas on them use.
LEMMA QueuesTyped ==
    ASSUME QueueTypeOK
    PROVE  Queues \in QState
    BY DEF QueueTypeOK, Queues, QState

\* Install makes a value of that type the next state of the queues.
LEMMA Installed ==
    ASSUME NEW e \in QState, Install(e)
    PROVE  QueueTypeOK' /\ Queues' = e
    BY DEF Install, QState, Queues, QueueTypeOK

-----------------------------------------------------------------------------
(* The properties of the queues, from the facts above *)

\* Contains and Range agree.
LEMMA ElementOf ==
    ASSUME NEW q \in Seq(Thread), NEW t
    PROVE  t \in Range(q) <=> Contains(q, t)
    BY Positions DEF Range, Contains

\* A thread is Queued exactly when it is in a queue, and then in one place.
LEMMA PlaceCount ==
    ASSUME QueueTypeOK, Exact(Queues), NEW t \in Thread
    PROVE  /\ Queued(t) <=> InQueue(Queues, t)
           /\ \A x \in Places(t) : x[1] \in CPU /\ x[2] \in Priority /\ In(Queues, x[1], x[2], t)
           /\ IF InQueue(Queues, t) THEN \E x : Places(t) = {x} ELSE Places(t) = {}
<1>1. \A c \in CPU, p \in Priority : ready[c][p] \in Seq(Thread) /\ Queues.ready[c][p] = ready[c][p]
    BY DEF QueueTypeOK, Queues
<1>2. \A c \in CPU, p \in Priority : In(Queues, c, p, t) <=> t \in Range(ready[c][p])
    BY <1>1, ElementOf DEF In
<1>3. \A x : x \in Places(t) <=> x \in CPU \X Priority /\ In(Queues, x[1], x[2], t)
    BY <1>2 DEF Places
<1>4. \A x \in Places(t) : x[1] \in CPU /\ x[2] \in Priority /\ In(Queues, x[1], x[2], t)
    BY <1>3
<1>5. CASE InQueue(Queues, t)
    <2>1. PICK c \in CPU, p \in Priority : In(Queues, c, p, t)
        BY <1>5 DEF InQueue
    <2>2. \A x \in CPU \X Priority : In(Queues, x[1], x[2], t) => x = <<c, p>>
        BY <2>1 DEF Exact
    <2>3. Places(t) = {<<c, p>>}
        BY <1>3, <2>1, <2>2
    <2>5. Queued(t)
        BY <2>3, Zenon DEF Queued
    <2> QED
        BY <1>5, <1>4, <2>3, <2>5, Zenon
<1>6. CASE ~InQueue(Queues, t)
    <2>1. Places(t) = {}
        BY <1>3, <1>6 DEF InQueue
    <2> QED
        BY <1>6, <2>1 DEF Queued
<1> QED
    BY <1>5, <1>6

\* The queues' own properties.
LEMMA QueueProperties ==
    ASSUME QueueTypeOK, Exact(Queues)
    PROVE  SummaryExact /\ QueuedOnce /\ (Tracked(Queues) => LocationTracked)
<1>1. SummaryExact
    BY Zenon DEF Exact, Queues, SummaryExact
<1>2. QueuedOnce
    BY PlaceCount DEF Exact, Queues, QueuedOnce
<1>3. Tracked(Queues) => LocationTracked
    BY PlaceCount DEF Tracked, Queues, LocationTracked
<1> QED
    BY <1>1, <1>2, <1>3

-----------------------------------------------------------------------------
(* Walking a list *)

\* The positions of a list, walked upwards: each subset's last one comes last.
LEMMA LastPosition ==
    ASSUME NEW n \in Nat, NEW s \in SUBSET (1 .. n), s # {}
    PROVE  /\ Max(s) \in s /\ s \ {Max(s)} \in SUBSET (1 .. n)
           /\ \A k \in 1 .. n : s = 1 .. k => Max(s) = k /\ s \ {Max(s)} = 1 .. k - 1
           /\ \A k \in 1 .. n : s \in SUBSET (1 .. k) => s \ {Max(s)} \in SUBSET (1 .. k - 1)
<1>1. s \in SUBSET (0 .. n)
    OBVIOUS
<1>2. Max(s) \in s /\ \A y \in s : Max(s) >= y
    BY <1>1, Greatest
<1>4. ASSUME NEW k \in 1 .. n, s \in SUBSET (1 .. k)
      PROVE  s \ {Max(s)} \in SUBSET (1 .. k - 1)
    <2>1. PICK m \in s : m = Max(s) /\ \A y \in s : m >= y
        BY <1>2, Zenon
    <2>2. \A y \in s \ {m} : y \in 1 .. k - 1
        BY <1>4, <2>1
    <2> QED
        BY <2>1, <2>2, Zenon
<1>5. ASSUME NEW k \in 1 .. n, s = 1 .. k
      PROVE  Max(s) = k /\ s \ {Max(s)} = 1 .. k - 1
    <2>1. PICK m \in s : m = Max(s) /\ \A y \in s : m >= y
        BY <1>2, Zenon
    <2>2. m = k
        BY <1>5, <2>1
    <2> QED
        BY <1>5, <2>1, <2>2
<1> QED
    BY <1>2, <1>4, <1>5, Zenon

\* g folds op over the subsets of the positions 1 .. n.
Folds(g, op, base, s) ==
    g[s] = IF s = {} THEN base ELSE op[<<g[s \ {Max(s)}], Max(s)>>]

FoldOp(op, n, V) == op \in [V \X (1 .. n) -> V]
HasFold(n, V, base, op) ==
    \E g \in [SUBSET (1 .. n) -> V] : \A s \in SUBSET (1 .. n) : Folds(g, op, base, s)

\* A fold of a function over positions exists: it is built on the subsets of the
\* first k positions, for each k.
LEMMA FoldExists ==
    ASSUME NEW n \in Nat, NEW V, NEW base \in V, NEW op, FoldOp(op, n, V)
    PROVE  HasFold(n, V, base, op)
<1> DEFINE P == 1 .. n
           Small(k) == SUBSET (1 .. k)
           Part(k, g) == g \in [Small(k) -> V] /\ \A s \in Small(k) : Folds(g, op, base, s)
           Bad == {k \in 0 .. n : ~\E g : Part(k, g)}
<1>6. op \in [V \X P -> V]
    BY DEF FoldOp
<1>3. Bad = {}
    <2>1. SUFFICES ASSUME Bad # {} PROVE FALSE
        BY Zenon
    <2>2. PICK k \in Bad : \A m \in Bad : k <= m
        <3>1. Bad \in SUBSET Nat
            OBVIOUS
        <3> HIDE DEF Bad
        <3> QED
            BY <2>1, <3>1, Least, Zenon
    <2>3. k # 0
        <3>1. \A s \in Small(0) : s = {}
            OBVIOUS
        <3>2. PICK g : g = [s \in Small(0) |-> base]
            BY Zenon
        <3>3. Part(0, g)
            BY <3>1, <3>2 DEF Folds
        <3> QED
            BY <3>3, Zenon
    <2>4. k - 1 \in 0 .. n /\ k - 1 \notin Bad
        <3>1. k \in 0 .. n /\ k - 1 \in 0 .. n /\ ~(k <= k - 1)
            BY <2>3
        <3> HIDE DEF Bad
        <3> QED
            BY <2>2, <3>1
    <2>5. PICK g : Part(k - 1, g)
        BY <2>4, Zenon
    <2>6. PICK h : h = [s \in Small(k) |->
                          IF s = {} THEN base ELSE op[<<g[s \ {Max(s)}], Max(s)>>]]
        BY Zenon
    <2>7. ASSUME NEW s \in Small(k), s # {}
          PROVE  Max(s) \in P /\ s \ {Max(s)} \in Small(k - 1) /\ s \ {Max(s)} \in Small(k)
        <3>1. s \in SUBSET P /\ k \in 1 .. n
            BY <2>3
        <3>2. Max(s) \in s /\ s \ {Max(s)} \in SUBSET (1 .. k - 1)
            BY <2>7, <3>1, LastPosition
        <3> QED
            BY <3>1, <3>2, Zenon
    <2>8. \A s \in Small(k) :
              h[s] = IF s = {} THEN base ELSE op[<<g[s \ {Max(s)}], Max(s)>>]
        BY <2>6
    <2>9. h \in [Small(k) -> V]
        <3>1. \A s \in Small(k - 1) : g[s] \in V
            BY <2>5, Zenon
        <3>2. \A s \in Small(k) :
                  (IF s = {} THEN base ELSE op[<<g[s \ {Max(s)}], Max(s)>>]) \in V
            BY <1>6, <2>7, <3>1
        <3> QED
            BY <2>6, <3>2
    <2>10. \A s \in Small(k - 1) : s \in Small(k) /\ h[s] = g[s]
        <3>1. \A s \in Small(k - 1) : s \in Small(k)
            BY <2>4
        <3> QED
            BY <2>5, <2>8, <3>1, Zenon DEF Folds
    <2>11. \A s \in Small(k) : Folds(h, op, base, s)
        BY <2>7, <2>8, <2>10, Zenon DEF Folds
    <2> QED
        BY <2>2, <2>9, <2>11, Zenon
<1>4. PICK g : Part(n, g)
    <2>1. n \in 0 .. n
        OBVIOUS
    <2> QED
        BY <1>3, <2>1, Zenon
<1> QED
    BY <1>4, Zenon DEF HasFold

\* The threads kept of list q, up to each of its positions.
KeptUpTo(r, q, S) ==
    /\ r[0] = <<>>
    /\ \A k \in 1 .. Len(q) : r[k] = IF q[k] \in S THEN Append(r[k - 1], q[k]) ELSE r[k - 1]

\* g is the fold that Keep takes over list q.
KeepsWith(g, q, S) ==
    g = [s \in SUBSET DOMAIN q |->
           IF s = {} THEN <<>>
           ELSE IF q[Max(s)] \in S THEN Append(g[s \ {Max(s)}], q[Max(s)])
           ELSE g[s \ {Max(s)}]]

\* The walk over wait_list is a fold over its positions.
LEMMA KeepFold ==
    ASSUME NEW q, NEW S, NEW g, KeepsWith(g, q, S)
    PROVE  \E f : KeepsWith(f, q, S) /\ Keep(q, S) = f[DOMAIN q]
    BY Zenon DEF KeepsWith, Keep, FoldLeft, MapThenFoldSet

\* The walk over wait_list goes from each entry to the next.
LEMMA KeepSteps ==
    ASSUME NEW q \in Seq(Thread), NEW S
    PROVE  \E r : KeptUpTo(r, q, S) /\ Keep(q, S) = r[Len(q)]
<1>1. PICK n \in Nat : n = Len(q) /\ DOMAIN q = 1 .. n
    BY Positions
<1>2. \A i \in 1 .. n : q[i] \in Thread
    BY <1>1
<1>3. PICK V : V = Seq(Thread)
    BY Zenon
<1>4. PICK op : op = [x \in V \X (1 .. n) |-> IF q[x[2]] \in S THEN Append(x[1], q[x[2]]) ELSE x[1]]
    BY Zenon
<1>5. FoldOp(op, n, V)
    BY <1>2, <1>3, <1>4 DEF FoldOp
<1>6. PICK g \in [SUBSET (1 .. n) -> V] : \A s \in SUBSET (1 .. n) : Folds(g, op, <<>>, s)
    <2>1. PICK base \in V : base = <<>>
        <3>1. <<>> \in Seq(Thread)
            OBVIOUS
        <3> QED
            BY <1>3, <3>1, Zenon
    <2>2. HasFold(n, V, base, op)
        BY <1>5, FoldExists
    <2> QED
        BY <2>1, <2>2 DEF HasFold
<1>7. ASSUME NEW s \in SUBSET (1 .. n)
      PROVE  g[s] = IF s = {} THEN <<>>
                    ELSE IF q[Max(s)] \in S THEN Append(g[s \ {Max(s)}], q[Max(s)])
                    ELSE g[s \ {Max(s)}]
    <2>1. CASE s = {}
        BY <1>6, <2>1, Zenon DEF Folds
    <2>2. CASE s # {}
        <3>1. Max(s) \in 1 .. n /\ s \ {Max(s)} \in SUBSET (1 .. n)
            BY <2>2, LastPosition, Zenon
        <3>2. PICK v \in V, i \in 1 .. n : v = g[s \ {Max(s)}] /\ i = Max(s)
            BY <1>6, <3>1
        <3>3. g[s] = op[<<v, i>>]
            BY <1>6, <2>2, <3>2, Zenon DEF Folds
        <3>4. op[<<v, i>>] = IF q[i] \in S THEN Append(v, q[i]) ELSE v
            BY <1>4
        <3> QED
            BY <2>2, <3>2, <3>3, <3>4, Zenon
    <2> QED
        BY <2>1, <2>2
<1>8. KeepsWith(g, q, S)
    <2>1. g = [s \in SUBSET (1 .. n) |-> g[s]]
        BY <1>6
    <2> QED
        BY <1>1, <1>7, <2>1, Zenon DEF KeepsWith
<1>9. PICK f : KeepsWith(f, q, S) /\ Keep(q, S) = f[DOMAIN q]
    BY <1>8, KeepFold, Zenon
<1>10. \A s \in SUBSET (1 .. n) :
           f[s] = IF s = {} THEN <<>>
                  ELSE IF q[Max(s)] \in S THEN Append(f[s \ {Max(s)}], q[Max(s)])
                  ELSE f[s \ {Max(s)}]
    BY <1>1, <1>9, Zenon DEF KeepsWith
<1>11. PICK r : r = [k \in 0 .. n |-> f[1 .. k]]
    BY Zenon
<1>12. r[0] = <<>>
    <2>1. 1 .. 0 = {} /\ 0 \in 0 .. n
        OBVIOUS
    <2> QED
        BY <1>10, <1>11, <2>1, Zenon
<1>13. ASSUME NEW k \in 1 .. n
       PROVE  r[k] = IF q[k] \in S THEN Append(r[k - 1], q[k]) ELSE r[k - 1]
    <2>1. PICK s : s = 1 .. k
        BY Zenon
    <2>2. s \in SUBSET (1 .. n) /\ s # {}
        <3>1. 1 \in s /\ \A i \in s : i \in 1 .. n
            BY <2>1
        <3> QED
            BY <3>1
    <2>3. Max(s) = k /\ s \ {Max(s)} = 1 .. k - 1
        <3>1. \A j \in 1 .. n : s = 1 .. j => Max(s) = j /\ s \ {Max(s)} = 1 .. j - 1
            BY <2>2, LastPosition, Zenon
        <3> QED
            BY <2>1, <3>1, Zenon
    <2>4. f[s] = IF q[k] \in S THEN Append(f[1 .. k - 1], q[k]) ELSE f[1 .. k - 1]
        BY <1>10, <2>2, <2>3, Zenon
    <2>5. k \in 0 .. n /\ k - 1 \in 0 .. n
        OBVIOUS
    <2>6. r[k] = f[s] /\ r[k - 1] = f[1 .. k - 1]
        BY <1>11, <2>1, <2>5
    <2> QED
        BY <2>4, <2>6
<1>14. Keep(q, S) = r[n]
    BY <1>1, <1>9, <1>11
<1> QED
    BY <1>1, <1>12, <1>13, <1>14 DEF KeptUpTo

\* What a walk keeps of a list: the wanted threads, each as often as the list
\* has it.
LEMMA Kept ==
    ASSUME NEW q \in Seq(Thread), NEW S
    PROVE  /\ Keep(q, S) \in Seq(Thread)
           /\ \A u : Contains(Keep(q, S), u) <=> Contains(q, u) /\ u \in S
           /\ IsInjective(q) => IsInjective(Keep(q, S))
<1>1. PICK r : KeptUpTo(r, q, S) /\ Keep(q, S) = r[Len(q)]
    BY KeepSteps
<1>2. PICK n \in Nat : n = Len(q) /\ DOMAIN q = 1 .. n /\ \A i \in 1 .. n : q[i] \in Thread
    BY Positions
<1> DEFINE Good(k) ==
        /\ r[k] \in Seq(Thread)
        /\ \A u : Contains(r[k], u) <=> u \in S /\ \E i \in 1 .. k : q[i] = u
        /\ IsInjective(q) => IsInjective(r[k])
<1>3. Good(0)
    <2>1. r[0] = <<>>
        BY <1>1 DEF KeptUpTo
    <2>2. <<>> \in Seq(Thread) /\ IsInjective(<<>>) /\ (\A u : ~Contains(<<>>, u))
        BY DEF IsInjective, Contains
    <2>3. \A u : ~\E i \in 1 .. 0 : q[i] = u
        OBVIOUS
    <2> QED
        BY <2>1, <2>2, <2>3, Zenon
<1>4. ASSUME NEW k \in 1 .. n, Good(k - 1)
      PROVE  Good(k)
    <2>1. PICK a \in Seq(Thread) : a = r[k - 1]
        BY <1>4
    <2>2. PICK b : b = r[k]
        BY Zenon
    <2>3. b = IF q[k] \in S THEN Append(a, q[k]) ELSE a
        BY <1>1, <1>2, <2>1, <2>2 DEF KeptUpTo
    <2>4. \A u : Contains(a, u) <=> u \in S /\ \E i \in 1 .. k - 1 : q[i] = u
        BY <1>4, <2>1
    <2>5. \A u : (\E i \in 1 .. k : q[i] = u) <=> (q[k] = u \/ \E i \in 1 .. k - 1 : q[i] = u)
        <3>1. \A i \in 1 .. k : i = k \/ i \in 1 .. k - 1
            OBVIOUS
        <3>2. k \in 1 .. k /\ \A i \in 1 .. k - 1 : i \in 1 .. k
            OBVIOUS
        <3> QED
            BY <3>1, <3>2, Zenon
    <2>6. IsInjective(q) => IsInjective(a)
        BY <1>4, <2>1
    <2>7. CASE q[k] \notin S
        <3>1. b = a
            BY <2>3, <2>7
        <3>2. \A u : Contains(b, u) <=> u \in S /\ \E i \in 1 .. k : q[i] = u
            BY <2>4, <2>5, <2>7, <3>1, Zenon
        <3> QED
            BY <2>2, <2>6, <3>1, <3>2
    <2>8. CASE q[k] \in S
        <3>1. q[k] \in Thread /\ b = Append(a, q[k])
            BY <1>2, <2>3, <2>8
        <3>2. /\ b \in Seq(Thread)
              /\ \A u : Contains(b, u) <=> Contains(a, u) \/ u = q[k]
              /\ IsInjective(a) /\ ~Contains(a, q[k]) => IsInjective(b)
            BY <3>1, AppendLast DEF Contains, IsInjective
        <3>3. \A u : Contains(b, u) <=> u \in S /\ \E i \in 1 .. k : q[i] = u
            BY <2>4, <2>5, <2>8, <3>2, Zenon
        <3>4. IsInjective(q) => ~Contains(a, q[k])
            <4>1. \A i \in 1 .. k - 1 : i \in DOMAIN q /\ k \in DOMAIN q /\ i # k
                BY <1>2
            <4> QED
                BY <2>4, <4>1, Zenon DEF IsInjective
        <3> QED
            BY <2>2, <2>6, <3>2, <3>3, <3>4
    <2> QED
        BY <2>7, <2>8
<1>5. Good(n)
    <2> DEFINE Bad == {k \in 0 .. n : ~Good(k)}
    <2>1. SUFFICES ASSUME ~Good(n) PROVE FALSE
        OBVIOUS
    <2>8. Bad # {}
        <3>1. n \in 0 .. n
            BY <1>2
        <3> HIDE DEF Good
        <3> QED
            BY <2>1, <3>1
    <2>2. PICK k \in Bad : \A m \in Bad : k <= m
        <3>1. Bad \in SUBSET Nat
            OBVIOUS
        <3> HIDE DEF Bad
        <3> QED
            BY <2>8, <3>1, Least, Zenon
    <2>3. k \in 0 .. n /\ ~Good(k)
        BY <2>2
    <2>4. k # 0
        BY <1>3, <2>3
    <2>5. k \in 1 .. n /\ k - 1 \in 0 .. n /\ ~(k <= k - 1)
        BY <2>3, <2>4
    <2>6. k - 1 \notin Bad
        <3> HIDE DEF Bad
        <3> QED
            BY <2>2, <2>5
    <2>7. Good(k - 1)
        BY <2>5, <2>6
    <2> HIDE DEF Good
    <2> QED
        BY <1>4, <2>3, <2>5, <2>7
<1>6. \A u : Contains(q, u) <=> \E i \in 1 .. n : q[i] = u
    BY <1>2 DEF Contains
<1> QED
    BY <1>1, <1>2, <1>5, <1>6

-----------------------------------------------------------------------------
(* The type of the queues, whatever is in them *)

\* Enqueue keeps the queues' type, whichever thread it is given.
LEMMA EnqueueTyped ==
    ASSUME NEW s \in QState, NEW c \in CPU, NEW p \in Priority, NEW t \in Thread,
           NEW e, e = Enqueue(s, c, p, t)
    PROVE  e \in QState
<1>1. /\ e.ready = [s.ready EXCEPT ![c][p] = Append(@, t)]
      /\ e.summary = [s.summary EXCEPT ![c] = @ \cup {p}]
      /\ e.kthread = [s.kthread EXCEPT ![t] = [@ EXCEPT !.queuedPri = p, !.queuedCpu = c]]
    BY DEF Enqueue, QState
<1>2. e.ready \in [CPU -> [Priority -> Seq(Thread)]]
    <2>1. PICK q \in Seq(Thread) : q = s.ready[c][p]
        BY DEF QState
    <2>2. Append(q, t) \in Seq(Thread)
        BY AppendLast
    <2> QED
        BY <1>1, <2>1, <2>2 DEF QState
<1>3. e.summary \in [CPU -> SUBSET Priority]
    BY <1>1 DEF QState
<1>4. e.kthread \in [Thread -> KThread]
    <2>1. PICK k \in KThread : k = [s.kthread[t] EXCEPT !.queuedPri = p, !.queuedCpu = c]
        BY Zenon DEF KThread, QState
    <2>2. e.kthread = [s.kthread EXCEPT ![t] = k]
        BY <1>1, <2>1
    <2> QED
        BY <2>2 DEF QState
<1> QED
    BY <1>2, <1>3, <1>4, Zenon DEF Enqueue, QState

\* What a wake or a decay does to a Kthread before it is queued.
LEMMA PrioritySet ==
    ASSUME NEW s \in QState, NEW t \in Thread, NEW p \in Int,
           NEW e, e = [s EXCEPT !.kthread[t].priority = p]
    PROVE  /\ e \in QState /\ e.ready = s.ready /\ e.summary = s.summary
           /\ \A u \in Thread : /\ e.kthread[u].home = s.kthread[u].home
                                /\ e.kthread[u].affinity = s.kthread[u].affinity
                                /\ e.kthread[u].state = s.kthread[u].state
<1>1. PICK k \in KThread : k = [s.kthread[t] EXCEPT !.priority = p]
    BY Zenon DEF QState, KThread
<1>2. e = [s EXCEPT !.kthread = [s.kthread EXCEPT ![t] = k]]
    BY <1>1 DEF QState
<1>3. e \in QState /\ e.ready = s.ready /\ e.summary = s.summary
    BY ONLY <1>2, s \in QState, t \in Thread, k \in KThread, Zenon DEF QState
<1>4. e.kthread = [s.kthread EXCEPT ![t] = k]
    BY <1>2, Zenon DEF QState
<1>5. k.home = s.kthread[t].home /\ k.affinity = s.kthread[t].affinity /\ k.state = s.kthread[t].state
    BY <1>1 DEF QState, KThread
<1>6. \A u \in Thread : e.kthread[u] = IF u = t THEN k ELSE s.kthread[u]
    BY <1>4, Zenon DEF QState
<1> QED
    BY <1>3, <1>5, <1>6

\* The critical section of schedule keeps the queues' type, and finds a thread
\* or NoThread.
LEMMA SelectedTyped ==
    ASSUME NEW s \in QState, NEW c \in CPU, NEW cur \in Thread,
           NEW e, e = Selected(s, c, cur)
    PROVE  e \in QState /\ NextThread(s, c) \in Thread \cup {NoThread}
<1>1. PICK next : next = NextThread(s, c)
    BY Zenon
<1>2. CASE next = NoThread
    BY <1>1, <1>2 DEF Selected
<1>3. CASE next # NoThread
    <2>1. s.summary[c] # {} /\ s.summary[c] \in SUBSET (0 .. TopPriority) /\ TopPriority \in Nat
        BY <1>1, <1>3, QueueAssumption DEF NextThread, QState, Priority, NeverQueued
    <2>2. PICK p \in Priority : p = TopQueue(s, c)
        BY <2>1, Greatest, Zenon DEF TopQueue, Priority
    <2>3. PICK q \in Seq(Thread) : q = s.ready[c][p]
        BY DEF QState
    <2>4. q # <<>> /\ next = Head(q)
        BY <1>1, <1>3, <2>2, <2>3 DEF NextThread
    <2>5. next \in Thread /\ Contains(q, next)
        BY <2>4 DEF Contains
    <2>6. PICK rest : rest = RemoveFirst(q, next)
        BY Zenon
    <2>7. rest \in Seq(Thread)
        BY <2>5, <2>6, Unlinking
    <2>8. PICK m : m = Unlink(s, c, p, next)
        BY Zenon
    <2>9. m \in QState
        <3>1. m = [s EXCEPT !.ready[c][p] = rest,
                            !.summary[c] = IF rest = <<>> THEN @ \ {p} ELSE @]
            BY <2>3, <2>6, <2>8 DEF Unlink
        <3> QED
            BY <2>7, <3>1, Zenon DEF QState
    <2>10. e = IF next = cur THEN m ELSE Requeue(m, c, cur)
        BY <1>1, <1>3, <2>2, <2>5, <2>8 DEF Selected, PopNext
    <2>11. Requeue(m, c, cur) \in QState
        <3>1. CASE m.kthread[cur].state = "Running"
            <4>1. m.kthread[cur].priority \in Int
                BY <2>9 DEF QState, KThread
            <4>2. PICK r \in Priority : r = Clamp(m.kthread[cur].priority)
                BY <4>1, QueueExists, Zenon
            <4>3. PICK n \in QState : n = Enqueue(m, c, r, cur)
                BY <2>9, EnqueueTyped
            <4>4. PICK d : d = SetState(n, cur, "Ready")
                BY Zenon
            <4>5. d \in QState
                BY <4>4, StateSet DEF Restated, State
            <4> QED
                BY <3>1, <4>2, <4>3, <4>4, <4>5, QueueAssumption DEF Requeue
        <3>2. CASE m.kthread[cur].state # "Running"
            BY <2>9, <3>2 DEF Requeue
        <3> QED
            BY <3>1, <3>2, Zenon
    <2> QED
        BY <1>1, <2>5, <2>9, <2>10, <2>11
<1> QED
    BY <1>2, <1>3
=============================================================================
