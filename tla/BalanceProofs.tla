--------------------------- MODULE BalanceProofs ---------------------------
(***************************************************************************)
(* No move between ready queues loses a thread, duplicates one or leaves   *)
(* the summaries wrong, for any number of threads, CPUs and priorities;    *)
(* and balancing brings the loads of the CPUs together.                    *)
(*                                                                         *)
(* A thread that was created is owned: by one ready queue, by one CPU as   *)
(* its current thread, or by one set_priority.  Each action passes at most *)
(* one thread (schedule: two) from one owner to the next.                  *)
(***************************************************************************)
EXTENDS Balance, ReadyQueuesProofs

Owned(t) == InQueue(Queues, t) \/ InHand(t) \/ \E c \in CPU : current[c] = t

\* A thread has an owner from its creation on.
OwnerInv == \A t \in Thread : kthread[t].state # "Initialized" <=> Owned(t)

\* A queued thread is Ready, and in nobody's hands.
QueuedInv ==
    \A t \in Thread : InQueue(Queues, t) => ~InHand(t) /\ kthread[t].state = "Ready"

\* A set_priority between its two critical sections has the thread for itself.
CallInv ==
    /\ \A c \in CPU : call[c].at # "none" => call[c].thread \in Thread
    /\ \A c \in CPU : call[c].at = "add" => kthread[call[c].thread].state = "Ready"
    /\ \A c, d \in CPU :
          call[c].at = "add" /\ call[d].at = "add" /\ call[c].thread = call[d].thread => c = d

\* A current thread is on one CPU and nowhere else, and Running once schedule is
\* through with it.
CurrentInv ==
    /\ \A c \in CPU : current[c] # NoThread =>
          /\ ~InQueue(Queues, current[c]) /\ ~InHand(current[c])
          /\ kthread[current[c]].state = IF starting[c] = NoThread THEN "Running" ELSE "Ready"
    /\ \A c, d \in CPU : current[c] # NoThread /\ current[c] = current[d] => c = d
    /\ \A c \in CPU : starting[c] # NoThread => starting[c] = current[c]

IInv == TypeOK /\ Exact(Queues) /\ OwnerInv /\ QueuedInv /\ CallInv /\ CurrentInv

-----------------------------------------------------------------------------
\* The idle CPUs, no threads created.
LEMMA InitInv ==
    ASSUME Init
    PROVE  IInv /\ Tracked(Queues)
<1>1. 0 \in CPU /\ 0 \in AnyCpu
    BY QueueAssumption DEF CPU, AnyCpu
<1>2. QueueTypeOK
    BY <1>1 DEF Init, EmptyQueues, QueueTypeOK, NewKThread, KThread, State, BootCpu, Priority
<1>3. TypeOK
    BY <1>1, <1>2 DEF Init, TypeOK, NoCall, Call
<1>4. \A c, p, t : c \in CPU /\ p \in Priority => ~In(Queues, c, p, t)
    BY DEF Init, EmptyQueues, In, Contains, Queues
<1>5. Exact(Queues)
    <2>1. \A c \in CPU, p \in Priority : Queues.ready[c][p] = <<>> /\ Queues.summary[c] = {}
        BY DEF Init, EmptyQueues, Queues
    <2>2. IsInjective(<<>>)
        BY DEF IsInjective
    <2> QED
        BY <1>4, <2>1, <2>2 DEF Exact
<1>6. \A t : ~InQueue(Queues, t)
    BY <1>4 DEF InQueue
<1>7. \A t \in Thread : ~InHand(t) /\ kthread[t].state = "Initialized" /\ \A c \in CPU : current[c] # t
    BY QueueAssumption DEF Init, InHand, NoCall, NewKThread
<1>8. OwnerInv /\ QueuedInv
    BY <1>6, <1>7 DEF OwnerInv, QueuedInv, Owned
<1>9. CallInv /\ CurrentInv
    BY DEF Init, CallInv, CurrentInv, NoCall
<1> QED
    BY <1>3, <1>4, <1>5, <1>8, <1>9 DEF IInv, Tracked

\* A thread that was not there before enters a queue.
LEMMA CreateInv ==
    ASSUME IInv, NEW t \in Thread, Create(t)
    PROVE  IInv' /\ (Tracked(Queues) => Tracked(Queues)')
<1>1. PICK s \in QState : s = Queues
    BY QueuesTyped DEF IInv, TypeOK
<1>2. /\ Exact(s) /\ s.kthread = kthread
      /\ kthread[t].state = "Initialized" /\ kthread[t].priority \in Int
    BY <1>1 DEF IInv, Create, Queues, TypeOK, QueueTypeOK, KThread
<1>3. PICK m : m = SetState(s, t, "Ready")
    OBVIOUS
<1>4. Restated(s, m, t, "Ready")
    BY <1>3, StateSet DEF State
<1>5. /\ m \in QState /\ Exact(m)
      /\ \A u \in Thread : m.kthread[u].state = IF u = t THEN "Ready" ELSE s.kthread[u].state
      /\ \A u : InQueue(m, u) <=> InQueue(s, u)
      /\ \A c, p, u : In(m, c, p, u) <=> In(s, c, p, u)
    BY <1>2, <1>4, SameQueues DEF Restated
<1>6. ~Owned(t)
    BY <1>2 DEF IInv, OwnerInv
<1>7. ~InQueue(m, t)
    BY <1>1, <1>5, <1>6 DEF Owned
<1>8. PICK e : e = AddReady(m, t, AsU8(kthread[t].priority))
    OBVIOUS
<1>9. PICK c \in CPU, p \in Priority : Entered(m, e, c, p, t)
    BY <1>2, <1>5, <1>7, <1>8, Added, QueueExists
<1>10. Install(e) /\ UNCHANGED <<current, starting, call>>
    BY <1>1, <1>2, <1>3, <1>8 DEF Create
<1>11. /\ e \in QState /\ Exact(e) /\ (Tracked(m) => Tracked(e))
       /\ \A u \in Thread : e.kthread[u].state = m.kthread[u].state
    BY <1>9 DEF Entered
<1>12. \A u \in Thread : InQueue(e, u) <=> InQueue(s, u) \/ u = t
    BY <1>5, <1>9 DEF Entered, InQueue
<1>13. \A u \in Thread : e.kthread[u].state = IF u = t THEN "Ready" ELSE kthread[u].state
    BY <1>2, <1>5, <1>11
<1>14. QueueTypeOK' /\ Queues' = e /\ kthread' = e.kthread
    BY <1>10, <1>11, Installed DEF Install
<1>15. Tracked(Queues) => Tracked(Queues)'
    <2>1. Tracked(s) => Tracked(m)
        BY <1>4, <1>5 DEF Tracked, Restated
    <2> QED
        BY <1>1, <1>11, <1>14, <2>1, ZenonT(30)
<1>16. TypeOK' /\ Exact(Queues)'
    BY <1>10, <1>11, <1>14 DEF IInv, TypeOK
<1>17. /\ \A u \in Thread : InQueue(Queues, u)' <=> InQueue(Queues, u) \/ u = t
       /\ \A u \in Thread : kthread'[u].state = IF u = t THEN "Ready" ELSE kthread[u].state
    BY <1>1, <1>12, <1>13, <1>14
<1>18. OwnerInv'
    BY <1>10, <1>17 DEF IInv, OwnerInv, Owned, InHand
<1>19. QueuedInv'
    BY <1>6, <1>10, <1>17, Zenon DEF IInv, QueuedInv, Owned, InHand
<1>20. CallInv'
    BY <1>6, <1>10, <1>17, ZenonT(30) DEF IInv, CallInv, Owned, InHand
<1>21. CurrentInv'
    BY <1>6, <1>10, <1>17 DEF IInv, CurrentInv, Owned, InHand, TypeOK
<1> QED
    BY <1>15, <1>16, <1>18, <1>19, <1>20, <1>21 DEF IInv

\* schedule takes a thread from a queue of its CPU and gives its own back.
LEMMA ScheduleInv ==
    ASSUME IInv, NEW c \in CPU, Schedule(c)
    PROVE  IInv' /\ (Tracked(Queues) => Tracked(Queues)')
<1>1. PICK s \in QState : s = Queues
    BY QueuesTyped DEF IInv, TypeOK
<1>2. /\ Exact(s) /\ s.kthread = kthread /\ NoThread \notin Thread
      /\ starting[c] = NoThread /\ call[c].at = "none"
    BY <1>1, QueueAssumption DEF IInv, Schedule, Idle, Queues
<1>3. PICK cur \in Thread \cup {NoThread} : cur = current[c]
    BY DEF IInv, TypeOK
<1>4. PICK next : next = NextThread(s, c) /\ next # NoThread
    BY <1>1 DEF Schedule
<1>5. cur # NoThread => ~InQueue(s, cur) /\ ~InHand(cur) /\ kthread[cur].state = "Running"
    BY <1>1, <1>2, <1>3 DEF IInv, CurrentInv
<1>6. PICK e : e = Selected(s, c, cur)
    OBVIOUS
<1>7. Switched(s, e, c, cur, next)
    BY <1>2, <1>4, <1>5, <1>6, SelectedSwitches
<1>8. /\ e \in QState /\ Exact(e) /\ (Tracked(s) => Tracked(e)) /\ next \in Thread
      /\ InQueue(s, next) /\ next # cur
    <2>1. /\ e \in QState /\ Exact(e) /\ (Tracked(s) => Tracked(e)) /\ next \in Thread
          /\ \E p \in Priority : In(s, c, p, next)
        BY <1>7 DEF Switched
    <2>2. InQueue(s, next)
        BY <2>1 DEF InQueue
    <2> QED
        BY <1>2, <1>5, <2>1, <2>2
<1>9. Requeues(s, cur, next) <=> cur # NoThread
    BY <1>2, <1>5, <1>8, Zenon DEF Requeues
<1>10. \A u \in Thread : /\ InQueue(e, u) <=> (InQueue(s, u) /\ u # next) \/ u = cur
                         /\ e.kthread[u].state = IF u = cur THEN "Ready" ELSE s.kthread[u].state
    <2>1. /\ \A d \in CPU, u \in Thread :
                (\E p \in Priority : In(e, d, p, u)) <=>
                    (u # next /\ \E p \in Priority : In(s, d, p, u)) \/ (cur # NoThread /\ d = c /\ u = cur)
          /\ \A u \in Thread : e.kthread[u].state = IF cur # NoThread /\ u = cur
                                                    THEN "Ready" ELSE s.kthread[u].state
        BY <1>7, <1>9, Zenon DEF Switched
    <2>2. \A u \in Thread : InQueue(e, u) <=> (InQueue(s, u) /\ u # next) \/ u = cur
        BY <1>2, <2>1 DEF InQueue
    <2> QED
        BY <1>2, <2>1, <2>2
<1>11. /\ Install(e) /\ current' = [current EXCEPT ![c] = next]
       /\ starting' = [starting EXCEPT ![c] = next] /\ call' = call
    BY <1>1, <1>3, <1>4, <1>6, <1>8, Zenon DEF Schedule
<1>12. QueueTypeOK' /\ Queues' = e /\ kthread' = e.kthread
    BY <1>8, <1>11, Installed DEF Install
<1>13. TypeOK' /\ Exact(Queues)' /\ (Tracked(Queues) => Tracked(Queues)')
    BY <1>1, <1>8, <1>11, <1>12, Zenon DEF IInv, TypeOK
<1>14. /\ \A u \in Thread : InQueue(Queues, u)' <=> (InQueue(Queues, u) /\ u # next) \/ u = cur
       /\ \A u \in Thread : kthread'[u].state = IF u = cur THEN "Ready" ELSE kthread[u].state
       /\ \A u : InHand(u)' <=> InHand(u)
       /\ \A d \in CPU : /\ current'[d] = IF d = c THEN next ELSE current[d]
                         /\ starting'[d] = IF d = c THEN next ELSE starting[d]
    BY <1>1, <1>2, <1>10, <1>11, <1>12, Zenon DEF InHand, IInv, TypeOK
<1>15. /\ InQueue(Queues, next) /\ ~InHand(next) /\ kthread[next].state = "Ready"
       /\ \A d \in CPU : current[d] # next
    BY <1>1, <1>2, <1>8, Zenon DEF IInv, QueuedInv, CurrentInv
<1>16. OwnerInv'
    <2>1. \A u \in Thread : Owned(u)' <=> Owned(u)
        BY <1>3, <1>8, <1>14, <1>15 DEF Owned
    <2> QED
        BY <1>2, <1>3, <1>5, <1>14, <2>1, SMTT(30), Z3T(30) DEF IInv, OwnerInv
<1>17. QueuedInv'
    BY <1>2, <1>5, <1>14, ZenonT(30) DEF IInv, QueuedInv
<1>18. CallInv'
    <2>1. cur \in Thread => ~InHand(cur)
        BY <1>2, <1>5
    <2> QED
        BY <1>11, <1>14, <2>1 DEF IInv, CallInv, InHand
<1>19. CurrentInv'
    <2>1. \A d \in CPU : current'[d] # NoThread =>
              /\ ~InQueue(Queues, current[d])' /\ ~InHand(current[d])'
              /\ kthread'[current'[d]].state = IF starting'[d] = NoThread THEN "Running" ELSE "Ready"
        BY <1>2, <1>3, <1>8, <1>14, <1>15, SMTT(30), Z3T(30) DEF IInv, CurrentInv, TypeOK
    <2>2. \A b, d \in CPU : current'[b] # NoThread /\ current'[b] = current'[d] => b = d
        BY <1>14, <1>15 DEF IInv, CurrentInv
    <2>3. \A d \in CPU : starting'[d] # NoThread => starting'[d] = current'[d]
        BY <1>14 DEF IInv, CurrentInv
    <2> QED
        BY <2>1, <2>2, <2>3 DEF CurrentInv
<1> QED
    BY <1>13, <1>16, <1>17, <1>18, <1>19 DEF IInv

\* The thread that schedule picked becomes Running on its CPU.
LEMMA StartInv ==
    ASSUME IInv, NEW c \in CPU, Start(c)
    PROVE  IInv' /\ (Tracked(Queues) => Tracked(Queues)')
<1>1. PICK s \in QState : s = Queues
    BY QueuesTyped DEF IInv, TypeOK
<1>2. PICK t \in Thread : t = starting[c] /\ t = current[c] /\ t # NoThread
    BY DEF IInv, TypeOK, CurrentInv, Start
<1>3. PICK e : e = SetState(s, t, "Running")
    OBVIOUS
<1>4. Restated(s, e, t, "Running") /\ s.kthread = kthread /\ Exact(s)
    BY <1>1, <1>3, StateSet, Zenon DEF State, Queues, IInv
<1>5. /\ e \in QState /\ Exact(e) /\ (Tracked(s) => Tracked(e))
      /\ \A u \in Thread : InQueue(e, u) <=> InQueue(s, u)
      /\ \A u \in Thread : e.kthread[u].state = IF u = t THEN "Running" ELSE s.kthread[u].state
    BY <1>4, SameQueues DEF Restated, Tracked
<1>6. Install(e) /\ starting' = [starting EXCEPT ![c] = NoThread] /\ UNCHANGED <<current, call>>
    BY <1>1, <1>2, <1>3, Zenon DEF Start
<1>7. QueueTypeOK' /\ Queues' = e /\ kthread' = e.kthread
    BY <1>5, <1>6, Installed, Zenon DEF Install
<1>8. TypeOK' /\ Exact(Queues)' /\ (Tracked(Queues) => Tracked(Queues)')
    BY <1>1, <1>5, <1>6, <1>7, Zenon DEF IInv, TypeOK
<1>9. /\ \A u \in Thread : InQueue(Queues, u)' <=> InQueue(Queues, u)
      /\ \A u \in Thread : kthread'[u].state = IF u = t THEN "Running" ELSE kthread[u].state
      /\ \A u : InHand(u)' <=> InHand(u)
      /\ \A d \in CPU : starting'[d] = IF d = c THEN NoThread ELSE starting[d]
    BY <1>1, <1>4, <1>5, <1>6, <1>7, Zenon DEF InHand, IInv, TypeOK
<1>10. ~InQueue(Queues, t) /\ ~InHand(t) /\ \A d \in CPU : current[d] = t => d = c
    BY <1>2 DEF IInv, CurrentInv
<1>11. OwnerInv'
    BY <1>2, <1>6, <1>9 DEF IInv, OwnerInv, Owned
<1>12. QueuedInv'
    BY <1>9, <1>10, Zenon DEF IInv, QueuedInv
<1>13. CallInv'
    BY <1>6, <1>9, <1>10 DEF IInv, CallInv, InHand
<1>14. CurrentInv'
    BY <1>2, <1>6, <1>9, <1>10 DEF IInv, CurrentInv, TypeOK
<1> QED
    BY <1>8, <1>11, <1>12, <1>13, <1>14, Zenon DEF IInv

\* set_priority and set_thread_affinity write fields of a Kthread that say nothing
\* of its state or its queue.
LEMMA FieldsInv ==
    ASSUME IInv, NEW t \in Thread, NEW k \in KThread, k.state = kthread[t].state,
           k.queuedPri = kthread[t].queuedPri, k.queuedCpu = kthread[t].queuedCpu,
           kthread' = [kthread EXCEPT ![t] = k], UNCHANGED <<ready, summary>>
    PROVE  /\ QueueTypeOK' /\ Exact(Queues)' /\ (Tracked(Queues) => Tracked(Queues)')
           /\ \A u \in Thread : /\ InQueue(Queues, u)' <=> InQueue(Queues, u)
                                /\ kthread'[u].state = kthread[u].state
<1>1. QueueTypeOK'
    BY DEF IInv, TypeOK, QueueTypeOK
<1>2. PICK s \in QState : s = Queues
    BY QueuesTyped DEF IInv, TypeOK
<1>3. PICK e : e = Queues'
    OBVIOUS
<1>4. /\ e.ready = s.ready /\ e.summary = s.summary /\ e.kthread = kthread' /\ s.kthread = kthread
      /\ Exact(s)
    BY <1>2, <1>3 DEF Queues, IInv
<1>5. Exact(e) /\ \A c, p, u : In(e, c, p, u) <=> In(s, c, p, u)
    BY <1>4, SameQueues
<1>6. \A u : InQueue(e, u) <=> InQueue(s, u)
    BY <1>5 DEF InQueue
<1>7. \A u \in Thread : /\ kthread'[u].state = kthread[u].state
                        /\ kthread'[u].queuedPri = kthread[u].queuedPri
                        /\ kthread'[u].queuedCpu = kthread[u].queuedCpu
    BY DEF IInv, TypeOK, QueueTypeOK
<1>8. Tracked(s) => Tracked(e)
    BY <1>4, <1>5, <1>7, SMTT(30), Z3T(30) DEF Tracked
<1> QED
    BY <1>1, <1>2, <1>3, <1>5, <1>6, <1>7, <1>8, Zenon

\* set_priority stores the new priority and looks a Ready thread's place up: no
\* queue changes, and the place is one the thread's record named.
LEMMA SetPriorityInv ==
    ASSUME IInv, NEW c \in CPU, NEW t \in Tuned, NEW p \in NewPriorities, SetPriority(c, t, p)
    PROVE  IInv' /\ (Tracked(Queues) => Tracked(Queues)')
<1>1. t \in Thread /\ p \in Int /\ kthread[t] \in KThread
    BY BalanceAssumption DEF IInv, TypeOK, QueueTypeOK
<1>2. PICK k : k = [kthread[t] EXCEPT !.priority = p, !.base = p]
    OBVIOUS
<1>3. /\ k \in KThread /\ k.state = kthread[t].state
      /\ k.queuedPri = kthread[t].queuedPri /\ k.queuedCpu = kthread[t].queuedCpu
    BY <1>1, <1>2, Zenon DEF KThread
<1>4. kthread' = [kthread EXCEPT ![t] = k] /\ UNCHANGED <<ready, summary, current, starting>>
    BY <1>2 DEF SetPriority
<1>5. /\ QueueTypeOK' /\ Exact(Queues)' /\ (Tracked(Queues) => Tracked(Queues)')
      /\ \A u \in Thread : /\ InQueue(Queues, u)' <=> InQueue(Queues, u)
                           /\ kthread'[u].state = kthread[u].state
    BY <1>1, <1>3, <1>4, FieldsInv, Zenon
<1>6. PICK new : /\ new = IF kthread[t].state = "Ready"
                          THEN [at |-> "remove", thread |-> t, cpu |-> kthread[t].queuedCpu,
                                pri |-> kthread[t].queuedPri]
                          ELSE call[c]
    BY Zenon
<1>7. call[c] \in Call /\ call[c].at = "none" /\ new \in Call /\ new.at # "add"
      /\ (new.at # "none" => new.thread \in Thread)
    BY <1>1, <1>6 DEF SetPriority, Idle, IInv, TypeOK, Call, KThread
<1>8. call' = [call EXCEPT ![c] = new]
    BY <1>6, Zenon DEF SetPriority, IInv, TypeOK
<1>9. TypeOK'
    BY <1>4, <1>5, <1>7, <1>8, Zenon DEF IInv, TypeOK
<1>10. \A d \in CPU : call'[d] = IF d = c THEN new ELSE call[d]
    BY <1>8 DEF IInv, TypeOK
<1>11. \A u : InHand(u)' <=> InHand(u)
    BY <1>7, <1>10 DEF InHand
<1>12. OwnerInv'
    BY <1>4, <1>5, <1>11 DEF IInv, OwnerInv, Owned
<1>13. QueuedInv'
    BY <1>5, <1>11, Zenon DEF IInv, QueuedInv
<1>14. CallInv'
    BY <1>5, <1>7, <1>10, SMTT(30), Z3T(30) DEF IInv, CallInv
<1>15. CurrentInv'
    BY <1>4, <1>5, <1>11, SMTT(30), Z3T(30) DEF IInv, CurrentInv, TypeOK
<1> QED
    BY <1>5, <1>9, <1>12, <1>13, <1>14, <1>15, Zenon DEF IInv

\* set_thread_affinity writes the mask and the home CPU only: a queued thread
\* stays in its queue, where its record says.
LEMMA SetAffinityInv ==
    ASSUME IInv, NEW t \in Tuned, NEW mask \in Masks, SetAffinity(t, mask)
    PROVE  IInv' /\ (Tracked(Queues) => Tracked(Queues)')
<1>1. t \in Thread /\ mask \in SUBSET AnyCpu /\ mask # {} /\ kthread[t] \in KThread
    BY BalanceAssumption, Zenon DEF IInv, TypeOK, QueueTypeOK
<1>2. Min(mask) \in AnyCpu
    <2>1. mask \in SUBSET Nat
        BY <1>1, QueueAssumption DEF AnyCpu
    <2> QED
        BY <1>1, <2>1, Least, Zenon
<1>3. PICK k : k = [kthread[t] EXCEPT !.affinity = mask, !.home = Min(mask), !.affinitized = TRUE]
    OBVIOUS
<1>4. /\ k \in KThread /\ k.state = kthread[t].state
      /\ k.queuedPri = kthread[t].queuedPri /\ k.queuedCpu = kthread[t].queuedCpu
    BY <1>1, <1>2, <1>3, Zenon DEF KThread
<1>5. kthread' = [kthread EXCEPT ![t] = k] /\ UNCHANGED <<ready, summary, current, starting, call>>
    BY <1>3 DEF SetAffinity
<1>6. /\ QueueTypeOK' /\ Exact(Queues)' /\ (Tracked(Queues) => Tracked(Queues)')
      /\ \A u \in Thread : /\ InQueue(Queues, u)' <=> InQueue(Queues, u)
                           /\ kthread'[u].state = kthread[u].state
    BY <1>1, <1>4, <1>5, FieldsInv, Zenon
<1>7. TypeOK'
    BY <1>5, <1>6 DEF IInv, TypeOK
<1>8. \A u : InHand(u)' <=> InHand(u)
    BY <1>5 DEF InHand
<1>9. OwnerInv'
    BY <1>5, <1>6, <1>8, Zenon DEF IInv, OwnerInv, Owned
<1>10. QueuedInv'
    BY <1>6, <1>8, Zenon DEF IInv, QueuedInv
<1>11. CallInv'
    BY <1>5, <1>6, Zenon DEF IInv, CallInv
<1>12. CurrentInv'
    BY <1>5, <1>6, <1>8 DEF IInv, CurrentInv, TypeOK
<1> QED
    BY <1>6, <1>7, <1>9, <1>10, <1>11, <1>12 DEF IInv

\* remove_ready passes a thread from its queue to set_priority, or leaves it alone.
LEMMA RemoveOldInv ==
    ASSUME IInv, NEW c \in CPU, RemoveOld(c)
    PROVE  IInv' /\ (Tracked(Queues) => Tracked(Queues)')
<1>1. PICK s \in QState : s = Queues
    BY QueuesTyped DEF IInv, TypeOK
<1>2. /\ Exact(s) /\ s.kthread = kthread /\ call[c].at = "remove"
      /\ call[c] \in Call /\ call[c].thread \in Thread
    BY <1>1 DEF IInv, RemoveOld, Queues, CallInv, TypeOK
<1>3. PICK t \in Thread, b \in CPU, p \in Priority \cup {NeverQueued} :
          t = call[c].thread /\ b = call[c].cpu /\ p = call[c].pri
    BY <1>2 DEF Call
<1>4. PICK e : e = IF Finds(s, t, b, p) THEN RemoveReady(s, t, b, p) ELSE s
    OBVIOUS
<1>5. PICK new : new = IF Finds(s, t, b, p) THEN [NoCall EXCEPT !.at = "add", !.thread = t] ELSE NoCall
    OBVIOUS
<1>6. Install(e) /\ call' = [call EXCEPT ![c] = new] /\ UNCHANGED <<current, starting>>
    BY <1>1, <1>3, <1>4, <1>5, Zenon DEF RemoveOld
<1>7. /\ new \in Call /\ (new.at # "none" => new.thread \in Thread)
      /\ new.at = "add" <=> Finds(s, t, b, p)
      /\ Finds(s, t, b, p) => new.thread = t
    <2>1. 0 \in CPU
        BY QueueAssumption DEF CPU
    <2>2. CASE Finds(s, t, b, p)
        <3>1. new = [at |-> "add", thread |-> t, cpu |-> 0, pri |-> NeverQueued]
            BY <1>5, <2>2, Zenon DEF NoCall
        <3> QED
            BY <2>1, <2>2, <3>1 DEF Call
    <2>3. CASE ~Finds(s, t, b, p)
        BY <1>5, <2>1, <2>3, Zenon DEF Call, NoCall
    <2> QED
        BY <2>2, <2>3
<1>8. /\ e \in QState /\ Exact(e) /\ (Tracked(s) => Tracked(e))
      /\ Finds(s, t, b, p) => InQueue(s, t)
      /\ \A u \in Thread : InQueue(e, u) <=> InQueue(s, u) /\ ~(Finds(s, t, b, p) /\ u = t)
      /\ \A u \in Thread : e.kthread[u].state = s.kthread[u].state
    <2>1. CASE Finds(s, t, b, p)
        BY <1>2, <1>4, <2>1, Removed, SMTT(30), Z3T(30)
    <2>2. CASE ~Finds(s, t, b, p)
        BY <1>2, <1>4, <2>2
    <2> QED
        BY <2>1, <2>2, Zenon
<1>9. QueueTypeOK' /\ Queues' = e /\ kthread' = e.kthread
    BY <1>6, <1>8, Installed, Zenon DEF Install
<1>10. TypeOK' /\ Exact(Queues)' /\ (Tracked(Queues) => Tracked(Queues)')
    BY <1>1, <1>6, <1>7, <1>8, <1>9, Zenon DEF IInv, TypeOK
<1>11. /\ \A u \in Thread : InQueue(Queues, u)' <=> InQueue(Queues, u) /\ ~(new.at = "add" /\ u = t)
       /\ \A u \in Thread : kthread'[u].state = kthread[u].state
       /\ \A d \in CPU : call'[d] = IF d = c THEN new ELSE call[d]
    BY <1>1, <1>2, <1>6, <1>7, <1>8, <1>9, ZenonT(30) DEF IInv, TypeOK
<1>12. \A u \in Thread : InHand(u)' <=> InHand(u) \/ (new.at = "add" /\ u = t)
    BY <1>2, <1>7, <1>11, Zenon DEF InHand
<1>13. new.at = "add" => /\ InQueue(Queues, t) /\ ~InHand(t) /\ kthread[t].state = "Ready"
                         /\ \A d \in CPU : current[d] # t
    BY <1>1, <1>7, <1>8, QueueAssumption, SMTT(30), Z3T(30) DEF IInv, QueuedInv, CurrentInv
<1>14. OwnerInv'
    <2>1. \A u \in Thread : Owned(u)' <=> Owned(u)
        BY <1>6, <1>11, <1>12, <1>13, Zenon DEF Owned
    <2> QED
        BY <1>11, <2>1, Zenon DEF IInv, OwnerInv
<1>15. QueuedInv'
    BY <1>11, <1>12, Zenon DEF IInv, QueuedInv
<1>16. CallInv'
    <2>1. CallInv
        BY DEF IInv
    <2>2. \A d \in CPU : call'[d].at # "none" => call'[d].thread \in Thread
        BY <1>7, <1>11, <2>1, Zenon DEF CallInv
    <2>3. \A d \in CPU : call'[d].at = "add" => kthread'[call'[d].thread].state = "Ready"
        BY <1>7, <1>11, <1>13, <2>1 DEF CallInv
    <2>4. \A d \in CPU : new.at = "add" /\ call[d].at = "add" => call[d].thread # t
        BY <1>13, Zenon DEF InHand
    <2>5. \A d, f \in CPU :
              call'[d].at = "add" /\ call'[f].at = "add" /\ call'[d].thread = call'[f].thread => d = f
        BY <1>7, <1>11, <2>1, <2>4, SMTT(30), Z3T(30) DEF CallInv
    <2> QED
        BY <2>2, <2>3, <2>5 DEF CallInv
<1>17. CurrentInv'
    <2>1. current' = current /\ starting' = starting
        BY <1>6, Zenon
    <2>2. ASSUME NEW d \in CPU, current[d] # NoThread
          PROVE  /\ ~InQueue(Queues, current[d])' /\ ~InHand(current[d])'
                 /\ kthread'[current[d]].state =
                        IF starting[d] = NoThread THEN "Running" ELSE "Ready"
        <3>1. PICK u \in Thread : u = current[d]
            BY <2>2 DEF IInv, TypeOK
        <3>2. ~InQueue(Queues, u) /\ ~InHand(u)
            BY <2>2, <3>1, Zenon DEF IInv, CurrentInv
        <3>3. ~InQueue(Queues, u)' /\ ~InHand(u)' /\ kthread'[u].state = kthread[u].state
            BY <1>11, <1>12, <1>13, <3>1, <3>2
        <3> QED
            BY <2>1, <2>2, <3>1, <3>3, Zenon DEF IInv, CurrentInv
    <2> QED
        BY <2>1, <2>2 DEF IInv, CurrentInv
<1> QED
    BY <1>10, <1>14, <1>15, <1>16, <1>17, Zenon DEF IInv

\* add_ready passes it from set_priority to a queue.
LEMMA AddNewInv ==
    ASSUME IInv, NEW c \in CPU, AddNew(c)
    PROVE  IInv' /\ (Tracked(Queues) => Tracked(Queues)')
<1>1. PICK s \in QState : s = Queues
    BY QueuesTyped DEF IInv, TypeOK
<1>2. PICK t \in Thread : t = call[c].thread /\ call[c].at = "add"
    BY DEF IInv, AddNew, CallInv
<1>3. /\ Exact(s) /\ s.kthread = kthread /\ kthread[t].priority \in Int
      /\ InHand(t) /\ ~InQueue(s, t) /\ kthread[t].state = "Ready"
    BY <1>1, <1>2, Zenon DEF IInv, Queues, TypeOK, QueueTypeOK, KThread, InHand, QueuedInv, CallInv
<1>4. \A d \in CPU : current[d] # t /\ (call[d].at = "add" /\ call[d].thread = t => d = c)
    BY <1>2, <1>3, QueueAssumption, Zenon DEF IInv, CurrentInv, CallInv
<1>5. PICK e : e = AddReady(s, t, Clamp(kthread[t].priority))
    BY Zenon
<1>6. Clamp(kthread[t].priority) \in Nat
    BY <1>3, QueueExists, QueueAssumption, SMTT(30), Z3T(30) DEF Priority
<1>7. PICK b \in CPU, p \in Priority : Entered(s, e, b, p, t)
    BY <1>3, <1>5, <1>6, Added, Zenon
<1>8. /\ e \in QState /\ Exact(e) /\ (Tracked(s) => Tracked(e))
      /\ \A u \in Thread : e.kthread[u].state = s.kthread[u].state
    BY <1>7, Zenon DEF Entered
<1>9. \A u \in Thread : InQueue(e, u) <=> InQueue(s, u) \/ u = t
    BY <1>7, Zenon DEF Entered, InQueue
<1>10. Install(e) /\ call' = [call EXCEPT ![c] = NoCall] /\ UNCHANGED <<current, starting>>
    BY <1>1, <1>2, <1>5 DEF AddNew
<1>11. QueueTypeOK' /\ Queues' = e /\ kthread' = e.kthread
    BY <1>8, <1>10, Installed, Zenon DEF Install
<1>12. NoCall \in Call /\ NoCall.at = "none"
    BY QueueAssumption DEF NoCall, Call, CPU
<1>13. TypeOK' /\ Exact(Queues)' /\ (Tracked(Queues) => Tracked(Queues)')
    BY <1>1, <1>8, <1>10, <1>11, <1>12, Zenon DEF IInv, TypeOK
<1>14. /\ \A u \in Thread : InQueue(Queues, u)' <=> InQueue(Queues, u) \/ u = t
       /\ \A u \in Thread : kthread'[u].state = kthread[u].state
       /\ \A d \in CPU : call'[d] = IF d = c THEN NoCall ELSE call[d]
    BY <1>1, <1>3, <1>8, <1>9, <1>10, <1>11, Zenon DEF IInv, TypeOK
<1>15. \A u \in Thread : InHand(u)' <=> InHand(u) /\ u # t
    BY <1>2, <1>4, <1>12, <1>14, Zenon DEF InHand
<1>16. OwnerInv'
    <2>1. \A u \in Thread : Owned(u)' <=> Owned(u)
        BY <1>3, <1>10, <1>14, <1>15, Zenon DEF Owned
    <2> QED
        BY <1>14, <2>1 DEF IInv, OwnerInv
<1>17. QueuedInv'
    BY <1>3, <1>14, <1>15, Zenon DEF IInv, QueuedInv
<1>18. CallInv'
    <2>1. CallInv
        BY DEF IInv
    <2>2. \A d \in CPU : call'[d].at # "none" => call'[d] = call[d]
        BY <1>12, <1>14, Zenon
    <2> QED
        BY <1>14, <2>1, <2>2, ZenonT(30) DEF CallInv
<1>19. CurrentInv'
    BY <1>4, <1>10, <1>14, <1>15 DEF IInv, CurrentInv, TypeOK
<1> QED
    BY <1>13, <1>16, <1>17, <1>18, <1>19, Zenon DEF IInv

-----------------------------------------------------------------------------
(* The load of a CPU, a sum over its queues *)

\* The load of a CPU with the queues q, and the queues in the array's order.
Row(q) == [i \in 1 .. TopPriority + 1 |-> q[i - 1]]
LoadOf(q) == FoldLeft(LAMBDA count, queue : count + Len(queue), 0, Row(q))

\* calculate_cpu_load looks at the CPU's queues only, before a step and after it.
LEMMA LoadNow ==
    ASSUME NEW c \in CPU
    PROVE  Load(c) = LoadOf(ready[c]) /\ Load(c)' = LoadOf(ready'[c])
<1>1. Load(c) = LoadOf(ready[c])
    BY Zenon DEF Load, LoadOf, Row, FoldLeft, MapThenFoldSet
<1>2. Load(c)' = LoadOf(ready'[c])
    BY Zenon DEF Load, LoadOf, Row, FoldLeft, MapThenFoldSet
<1> QED
    BY <1>1, <1>2

\* g is the fold by which the queues of list l are counted.
CountsWith(g, l) ==
    g = [s \in SUBSET DOMAIN l |->
           IF s = {} THEN 0 ELSE g[s \ {Max(s)}] + Len(l[Max(s)])]

\* calculate_cpu_load's outer loop is a fold over the queues.
LEMMA LoadFold ==
    ASSUME NEW q, NEW g, CountsWith(g, Row(q))
    PROVE  \E f : CountsWith(f, Row(q)) /\ LoadOf(q) = f[DOMAIN Row(q)]
    BY Zenon DEF CountsWith, LoadOf, FoldLeft, MapThenFoldSet

\* The value of `count` after each of the queues.
CountUpTo(r, q) ==
    /\ r[0] = 0
    /\ \A k \in 1 .. TopPriority + 1 : r[k] = r[k - 1] + Len(q[k - 1])

\* calculate_cpu_load goes from each queue to the next.
LEMMA LoadSteps ==
    ASSUME NEW q \in [Priority -> Seq(Thread)]
    PROVE  \E r : CountUpTo(r, q) /\ LoadOf(q) = r[TopPriority + 1]
<1>1. PICK n \in Nat : n = TopPriority + 1
    BY QueueAssumption
<1>2. PICK l : l = Row(q)
    BY Zenon
<1>3. DOMAIN l = 1 .. n /\ \A i \in 1 .. n : l[i] = q[i - 1] /\ i - 1 \in Priority
    BY <1>1, <1>2, QueueAssumption DEF Row, Priority
<1>4. PICK w \in [1 .. n -> Nat] : \A i \in 1 .. n : w[i] = Len(l[i])
    <2>1. \A i \in 1 .. n : Len(l[i]) \in Nat
        BY <1>3, Positions
    <2>2. PICK w : w = [i \in 1 .. n |-> Len(l[i])]
        BY Zenon
    <2> QED
        <3>1. w \in [1 .. n -> Nat] /\ \A i \in 1 .. n : w[i] = Len(l[i])
            BY <2>1, <2>2
        <3> QED
            BY <3>1, Zenon
<1>5. PICK op : op = [x \in Nat \X (1 .. n) |-> x[1] + w[x[2]]]
    BY Zenon
<1>6. FoldOp(op, n, Nat)
    BY <1>4, <1>5 DEF FoldOp
<1>7. PICK g \in [SUBSET (1 .. n) -> Nat] : \A s \in SUBSET (1 .. n) : Folds(g, op, 0, s)
    <2>1. PICK base \in Nat : base = 0
        OBVIOUS
    <2>2. HasFold(n, Nat, base, op)
        BY <1>6, FoldExists, Zenon
    <2> QED
        BY <2>1, <2>2 DEF HasFold
<1>8. ASSUME NEW s \in SUBSET (1 .. n)
      PROVE  g[s] = IF s = {} THEN 0 ELSE g[s \ {Max(s)}] + Len(l[Max(s)])
    <2>1. CASE s = {}
        BY <1>7, <2>1, Zenon DEF Folds
    <2>2. CASE s # {}
        <3>1. Max(s) \in 1 .. n /\ s \ {Max(s)} \in SUBSET (1 .. n)
            BY <2>2, LastPosition, Zenon
        <3>2. PICK v \in Nat, i \in 1 .. n : v = g[s \ {Max(s)}] /\ i = Max(s)
            BY <1>7, <3>1, Zenon
        <3>3. g[s] = op[<<v, i>>]
            BY <1>7, <2>2, <3>2, Zenon DEF Folds
        <3>4. op[<<v, i>>] = v + Len(l[i])
            BY <1>4, <1>5, Zenon
        <3> QED
            BY <2>2, <3>2, <3>3, <3>4, Zenon
    <2> QED
        BY <2>1, <2>2, ZenonT(30)
<1>9. CountsWith(g, l)
    <2>1. g = [s \in SUBSET (1 .. n) |-> g[s]]
        BY <1>7
    <2> QED
        BY <1>3, <1>8, <2>1, Zenon DEF CountsWith
<1>10. PICK f : CountsWith(f, l) /\ LoadOf(q) = f[1 .. n]
    BY <1>2, <1>3, <1>9, LoadFold, Zenon
<1>11. \A s \in SUBSET (1 .. n) :
           f[s] = IF s = {} THEN 0 ELSE f[s \ {Max(s)}] + Len(l[Max(s)])
    BY <1>3, <1>10, Zenon DEF CountsWith
<1>12. PICK r : r = [k \in 0 .. n |-> f[1 .. k]]
    BY Zenon
<1>13. r[0] = 0
    <2>1. 1 .. 0 = {} /\ 0 \in 0 .. n
        OBVIOUS
    <2> QED
        BY <1>11, <1>12, <2>1, Zenon
<1>14. ASSUME NEW k \in 1 .. n
       PROVE  r[k] = r[k - 1] + Len(q[k - 1])
    <2>1. PICK s : s = 1 .. k
        BY Zenon
    <2>2. s \in SUBSET (1 .. n) /\ s # {}
        <3>1. 1 \in s /\ \A i \in s : i \in 1 .. n
            BY <2>1
        <3> QED
            BY <3>1
    <2>3. Max(s) = k /\ s \ {Max(s)} = 1 .. k - 1
        <3>1. \A j \in 1 .. n : s = 1 .. j => Max(s) = j /\ s \ {Max(s)} = 1 .. j - 1
            BY <2>2, LastPosition, Zenon
        <3> QED
            BY <2>1, <3>1, Zenon
    <2>4. f[s] = f[1 .. k - 1] + Len(q[k - 1])
        BY <1>3, <1>11, <2>2, <2>3, Zenon
    <2>5. k \in 0 .. n /\ k - 1 \in 0 .. n
        OBVIOUS
    <2>6. r[k] = f[s] /\ r[k - 1] = f[1 .. k - 1]
        BY <1>12, <2>1, <2>5
    <2> QED
        BY <2>4, <2>6
<1>15. LoadOf(q) = r[n]
    BY <1>10, <1>12, SMTT(30), Z3T(30)
<1> QED
    BY <1>1, <1>13, <1>14, <1>15, Zenon DEF CountUpTo

\* A queue that gets or loses threads changes the load by as many.
LEMMA LoadChange ==
    ASSUME NEW q \in [Priority -> Seq(Thread)], NEW u \in [Priority -> Seq(Thread)],
           NEW p \in Priority, NEW d \in Int, Len(u[p]) = Len(q[p]) + d,
           \A z \in Priority : z # p => Len(u[z]) = Len(q[z])
    PROVE  LoadOf(q) \in Nat /\ LoadOf(u) = LoadOf(q) + d
<1>1. PICK n \in Nat : n = TopPriority + 1 /\ Priority = 0 .. n - 1
    BY QueueAssumption DEF Priority
<1>2. PICK a : CountUpTo(a, q) /\ LoadOf(q) = a[n]
    BY <1>1, LoadSteps
<1>3. PICK b : CountUpTo(b, u) /\ LoadOf(u) = b[n]
    BY <1>1, LoadSteps
<1>4. \A z \in Priority : Len(q[z]) \in Nat /\ Len(u[z]) \in Nat
    BY Positions
<1> DEFINE Good(k) == a[k] \in Nat /\ b[k] = a[k] + (IF p < k THEN d ELSE 0)
           Bad == {k \in 0 .. n : ~Good(k)}
<1>5. Bad = {}
    <2>1. SUFFICES ASSUME Bad # {} PROVE FALSE
        OBVIOUS
    <2>2. PICK k \in Bad : \A m \in Bad : k <= m
        <3>1. Bad \in SUBSET Nat
            OBVIOUS
        <3> HIDE DEF Bad
        <3> QED
            BY <2>1, <3>1, Least, Zenon
    <2>3. k # 0
        <3>1. a[0] = 0 /\ b[0] = 0 /\ ~(p < 0)
            BY <1>1, <1>2, <1>3 DEF CountUpTo
        <3> QED
            BY <3>1
    <2>4. k \in 1 .. n /\ k - 1 \in 0 .. n /\ k - 1 \in Priority /\ k - 1 \notin Bad
        <3>1. k \in 1 .. n /\ k - 1 \in 0 .. n /\ ~(k <= k - 1)
            BY <2>3
        <3> HIDE DEF Bad
        <3> QED
            BY <1>1, <2>2, <3>1
    <2>5. Good(k - 1)
        BY <2>4, Zenon
    <2>6. a[k] = a[k - 1] + Len(q[k - 1]) /\ b[k] = b[k - 1] + Len(u[k - 1])
        BY <1>1, <1>2, <1>3, <2>4, Zenon DEF CountUpTo
    <2>7. CASE k - 1 = p
        <3>1. Len(u[k - 1]) = Len(q[k - 1]) + d
            BY <2>7, Zenon
        <3>2. p < k /\ ~(p < k - 1)
            BY <1>1, <2>4, <2>7, SMTT(30), Z3T(30)
        <3>3. a[k - 1] \in Nat /\ b[k - 1] = a[k - 1] + 0
            BY <2>5, <3>2, Zenon
        <3> QED
            BY <1>4, <2>4, <2>6, <3>1, <3>2, <3>3, SMTT(30), Z3T(30)
    <2>8. CASE k - 1 # p
        <3>1. Len(u[k - 1]) = Len(q[k - 1])
            BY <2>4, <2>8
        <3>2. p < k <=> p < k - 1
            BY <1>1, <2>4, <2>8, SMTT(30), Z3T(30)
        <3> QED
            BY <1>4, <2>4, <2>5, <2>6, <3>1, <3>2, SMTT(30), Z3T(30)
    <2> QED
        BY <2>7, <2>8
<1>6. Good(n) /\ p < n
    BY <1>1, <1>5
<1> QED
    BY <1>2, <1>3, <1>6

\* A load is a count.
LEMMA LoadTyped ==
    ASSUME NEW q \in [Priority -> Seq(Thread)]
    PROVE  LoadOf(q) \in Nat
<1>1. 0 \in Priority
    BY QueueAssumption DEF Priority
<1>2. Len(q[0]) \in Nat
    BY <1>1, Positions
<1>3. PICK d \in Int : Len(q[0]) = Len(q[0]) + d
    BY <1>2
<1> QED
    BY <1>1, <1>3, LoadChange

-----------------------------------------------------------------------------
(* The most and the least loaded CPU, and a migration between them *)

Most(load) == Min({c \in CPU : \A d \in CPU : load[d] <= load[c]})
Fewest(load) == Min({c \in CPU : \A d \in CPU : load[c] <= load[d]})

\* The scans of the CPUs find an extreme.
LEMMA Extremes ==
    ASSUME NEW load \in [CPU -> Nat]
    PROVE  /\ Most(load) \in CPU /\ Fewest(load) \in CPU
           /\ \A d \in CPU : load[Fewest(load)] <= load[d] /\ load[d] <= load[Most(load)]
<1>1. 0 \in CPU /\ CPU \in SUBSET Nat /\ CpuCount \in Nat \ {0}
    BY QueueAssumption DEF CPU
<1>2. \E c \in CPU : \A d \in CPU : load[c] <= load[d]
    <2>1. PICK V : V = {load[c] : c \in CPU}
        BY Zenon
    <2>2. V \in SUBSET Nat /\ V # {}
        BY <1>1, <2>1
    <2>3. Min(V) \in V /\ \A n \in V : Min(V) <= n
        BY <2>2, Least
    <2> QED
        BY <2>1, <2>3, Zenon
<1>3. \E c \in CPU : \A d \in CPU : load[d] <= load[c]
    <2> DEFINE Top(k, c) == c \in 0 .. k /\ \A d \in 0 .. k : load[d] <= load[c]
               Bad == {k \in CPU : ~\E c : Top(k, c)}
    <2>1. SUFFICES ASSUME Bad # {} PROVE FALSE
        <3>1. CpuCount - 1 \in CPU /\ CPU = 0 .. CpuCount - 1
            BY QueueAssumption DEF CPU
        <3> QED
            BY <3>1
    <2>2. PICK k \in Bad : \A m \in Bad : k <= m
        <3>1. Bad \in SUBSET Nat
            BY <1>1, Zenon
        <3> HIDE DEF Bad
        <3> QED
            BY <2>1, <3>1, Least, Zenon
    <2>3. k # 0
        <3>1. Top(0, 0)
            BY <1>1
        <3> QED
            BY <3>1
    <2>4. k - 1 \in CPU /\ ~(k <= k - 1) /\ 0 .. k \subseteq CPU
        <3>1. k \in CPU /\ k # 0
            BY <2>3
        <3> HIDE DEF Bad
        <3> QED
            BY <1>1, <3>1 DEF CPU
    <2>5. k - 1 \notin Bad
        <3> HIDE DEF Bad
        <3> QED
            BY <2>2, <2>4
    <2>6. PICK c : Top(k - 1, c)
        BY <2>4, <2>5, Zenon
    <2>7. c \in CPU /\ k \in CPU /\ load[c] \in Nat /\ load[k] \in Nat
        BY <1>1, <2>4, <2>6, SMTT(30), Z3T(30)
    <2>8. \A d \in 0 .. k : d = k \/ d \in 0 .. k - 1
        BY <1>1
    <2>9. \A d \in 0 .. k - 1 : load[d] \in Nat
        <3>1. \A d \in 0 .. k - 1 : d \in CPU
            BY <2>4 DEF CPU
        <3> QED
            BY <3>1
    <2>10. CASE load[k] <= load[c]
        BY <1>1, <2>4, <2>6, <2>8, <2>10, SMTT(30), Z3T(30)
    <2>11. CASE ~(load[k] <= load[c])
        <3>1. \A d \in 0 .. k - 1 : load[d] <= load[k]
            BY <2>6, <2>7, <2>9, <2>11, SMTT(30), Z3T(30)
        <3>2. Top(k, k)
            BY <1>1, <2>7, <2>8, <3>1
        <3> QED
            BY <3>2
    <2> QED
        BY <2>10, <2>11
<1>4. PICK S : S = {c \in CPU : \A d \in CPU : load[d] <= load[c]}
    BY Zenon
<1>5. PICK T : T = {c \in CPU : \A d \in CPU : load[c] <= load[d]}
    BY Zenon
<1>6. S \in SUBSET Nat /\ S # {} /\ T \in SUBSET Nat /\ T # {}
    BY <1>1, <1>2, <1>3, <1>4, <1>5, Zenon
<1>7. Most(load) \in S /\ Fewest(load) \in T
    <2>1. Most(load) = Min(S) /\ Fewest(load) = Min(T)
        BY <1>4, <1>5, Zenon DEF Most, Fewest
    <2> QED
        BY <1>6, <2>1, Least, Zenon
<1> QED
    BY <1>4, <1>5, <1>7

\* The loads as one function of the CPU, in a state and in the next.
LEMMA LoadsNow ==
    ASSUME QueueTypeOK
    PROVE  \E load \in [CPU -> Nat] :
               /\ \A c \in CPU : load[c] = LoadOf(ready[c]) /\ load[c] = Load(c)
               /\ MostLoaded = Most(load) /\ LeastLoaded = Fewest(load)
<1>1. PICK load : load = [c \in CPU |-> LoadOf(ready[c])]
    BY Zenon
<1>2. load \in [CPU -> Nat]
    BY <1>1, LoadTyped, Zenon DEF QueueTypeOK
<1>3. \A c \in CPU : load[c] = Load(c)
    BY <1>1, LoadNow
<1>4. MostLoaded = Most(load) /\ LeastLoaded = Fewest(load)
    BY <1>3, Zenon DEF MostLoaded, LeastLoaded, Most, Fewest
<1> QED
    BY <1>1, <1>2, <1>3, <1>4, Zenon

\* The busiest and the idlest CPU after a step, in terms of the loads after it.
LEMMA LoadsNext ==
    ASSUME QueueTypeOK'
    PROVE  \E load \in [CPU -> Nat] :
               /\ \A c \in CPU : load[c] = LoadOf(ready'[c]) /\ load[c] = Load(c)'
               /\ MostLoaded' = Most(load) /\ LeastLoaded' = Fewest(load)
<1>1. PICK load : load = [c \in CPU |-> LoadOf(ready'[c])]
    BY Zenon
<1>2. load \in [CPU -> Nat]
    BY <1>1, LoadTyped DEF QueueTypeOK
<1>3. \A c \in CPU : load[c] = Load(c)'
    BY <1>1, LoadNow, Zenon
<1>4. MostLoaded' = Most(load) /\ LeastLoaded' = Fewest(load)
    BY <1>3, Zenon DEF MostLoaded, LeastLoaded, Most, Fewest
<1> QED
    BY <1>1, <1>2, <1>3, <1>4

\* find_migratable_thread returns a thread of the queue it names.
LEMMA MigratableFound ==
    ASSUME QueueTypeOK, NEW c \in CPU, Migratable(c) # <<>>
    PROVE  \E t \in Thread, p \in Priority : Migratable(c) = <<t, p>> /\ In(Queues, c, p, t)
<1>1. \A p \in Priority : ready[c][p] \in Seq(Thread)
    BY DEF QueueTypeOK
<1>2. PICK movable : movable = [p \in Priority |->
                                   {i \in DOMAIN ready[c][p] : Movable(kthread[ready[c][p][i]])}]
    BY Zenon
<1>3. PICK levels : levels = {p \in Priority : movable[p] # {}}
    BY Zenon
<1>4. \A p \in Priority :
          movable[p] = {i \in DOMAIN ready[c][p] : Movable(kthread[ready[c][p][i]])}
    BY <1>2
<1>5. levels = {p \in Priority :
                   {i \in DOMAIN ready[c][p] : Movable(kthread[ready[c][p][i]])} # {}}
    BY <1>3, <1>4
<1>6. levels # {} /\ levels \in SUBSET Nat /\ levels \in SUBSET Priority
    <2>1. levels # {}
        BY <1>5, Zenon DEF Migratable
    <2>2. Priority \in SUBSET Nat
        BY QueueAssumption DEF Priority
    <2> QED
        BY <1>3, <2>1, <2>2, Zenon
<1>7. PICK p \in Priority : p = Min(levels) /\ p \in levels
    BY <1>6, Least, Zenon
<1>8. PICK S : S = movable[p]
    OBVIOUS
<1>9. S # {} /\ S \in SUBSET Nat /\ S \in SUBSET DOMAIN ready[c][p]
    <2>1. DOMAIN ready[c][p] \in SUBSET Nat
        BY <1>1, Positions
    <2> QED
        BY <1>3, <1>4, <1>7, <1>8, <2>1, Zenon
<1>10. PICK i \in DOMAIN ready[c][p] : i = Min(S)
    BY <1>9, Least, Zenon
<1>11. Migratable(c) = <<ready[c][p][i], p>>
    <2>1. S = {j \in DOMAIN ready[c][p] : Movable(kthread[ready[c][p][j]])}
        BY <1>4, <1>8, Zenon
    <2> QED
        BY <1>5, <1>6, <1>7, <1>10, <2>1, Zenon DEF Migratable
<1>12. ready[c][p][i] \in Thread /\ Contains(ready[c][p], ready[c][p][i])
    <2>1. PICK q \in Seq(Thread) : q = ready[c][p]
        BY <1>1, Zenon
    <2>2. i \in 1 .. Len(q) /\ q[i] \in Thread
        BY <1>10, <2>1, Positions
    <2> QED
        BY <2>1, <2>2 DEF Contains
<1>13. In(Queues, c, p, ready[c][p][i])
    BY <1>12, ZenonT(30) DEF In, Queues
<1> QED
    BY <1>11, <1>12, <1>13

\* From s to e, thread t went from queue p of one CPU to queue p of another.
Migrated(s, e, t, p, from, to) ==
    /\ e \in QState /\ Exact(e)
    /\ \A u \in Thread : InQueue(e, u) <=> InQueue(s, u)
    /\ \A u \in Thread : e.kthread[u].state = s.kthread[u].state
    /\ \A d \in CPU, r \in Priority : r # p \/ d \notin {from, to} =>
          Len(e.ready[d][r]) = Len(s.ready[d][r])
    /\ Len(e.ready[from][p]) = Len(s.ready[from][p]) - 1
    /\ Len(e.ready[to][p]) = Len(s.ready[to][p]) + 1

\* migrate_thread moves the thread and no other, from the one queue to the other;
\* balance_load also records where it went.
LEMMA Migrates ==
    ASSUME NEW s \in QState, Exact(s), NEW t \in Thread, NEW p \in Priority,
           NEW from \in CPU, NEW to \in CPU, from # to, In(s, from, p, t),
           NEW b, NEW e, e = Track(b, Moved(s, t, p, from, to), t, p, to)
    PROVE  Migrated(s, e, t, p, from, to) /\ (b = "balance_load" /\ Tracked(s) => Tracked(e))
<1>1. PICK m : m = Unlink(s, from, p, t)
    OBVIOUS
<1>2. Left(s, m, from, p, t)
    BY <1>1, Dequeued, ZenonT(30)
<1>3. /\ m \in QState /\ Exact(m) /\ (Tracked(s) => Tracked(m)) /\ m.kthread = s.kthread
      /\ \A d \in CPU, r \in Priority, u \in Thread : In(m, d, r, u) <=> In(s, d, r, u) /\ u # t
    BY <1>2 DEF Left
<1>4. to \in AnyCpu
    BY QueueAssumption DEF CPU, AnyCpu
<1>5. PICK k \in KThread : k = [s.kthread[t] EXCEPT !.home = to]
    BY <1>4, Zenon DEF QState, KThread
<1>6. k.state = s.kthread[t].state /\ k.queuedCpu = s.kthread[t].queuedCpu
      /\ k.queuedPri = s.kthread[t].queuedPri
    BY <1>5 DEF QState, KThread
<1>7. PICK o : o = [m EXCEPT !.kthread = [s.kthread EXCEPT ![t] = k]]
    BY Zenon
<1>8. /\ o \in QState /\ o.ready = m.ready /\ o.summary = m.summary
      /\ o.kthread = [s.kthread EXCEPT ![t] = k]
    BY <1>3, <1>7, ZenonT(30) DEF QState
<1>9. Exact(o) /\ \A d, r, u : In(o, d, r, u) <=> In(m, d, r, u)
    BY <1>3, <1>8, SameQueues, ZenonT(30)
<1>10. \A u \in Thread : /\ o.kthread[u].state = s.kthread[u].state
                         /\ o.kthread[u].queuedCpu = s.kthread[u].queuedCpu
                         /\ o.kthread[u].queuedPri = s.kthread[u].queuedPri
    BY <1>6, <1>8, Zenon DEF QState
<1>11. Tracked(s) => Tracked(o)
    BY <1>3, <1>9, <1>10, SMTT(30), Z3T(30) DEF Tracked
<1>12. PICK n : n = Enqueue(o, to, p, t)
    OBVIOUS
<1>13. ~InQueue(o, t)
    BY <1>3, <1>9, ZenonT(30) DEF InQueue
<1>14. Entered(o, n, to, p, t)
    BY <1>8, <1>9, <1>12, <1>13, Enqueued, Zenon
<1>15. PICK v : v = [o EXCEPT !.ready[to][p] = Append(@, t), !.summary[to] = @ \cup {p}]
    OBVIOUS
<1>16. v = Moved(s, t, p, from, to)
    BY <1>1, <1>3, <1>5, <1>7, <1>15, Zenon DEF Moved
<1>17. /\ v.ready = n.ready /\ v.summary = n.summary /\ v.kthread = o.kthread
       /\ v.ready \in [CPU -> [Priority -> Seq(Thread)]] /\ v.summary \in [CPU -> SUBSET Priority]
       /\ v \in QState
    <2>1. v.ready = n.ready /\ v.summary = n.summary /\ v.kthread = o.kthread
        BY <1>8, <1>12, <1>15, ZenonT(30) DEF Enqueue, QState
    <2>2. n.ready \in [CPU -> [Priority -> Seq(Thread)]] /\ n.summary \in [CPU -> SUBSET Priority]
        BY <1>14, Zenon DEF Entered, QState
    <2> QED
        BY <1>8, <1>15, <2>1, <2>2, Zenon DEF QState
<1>18. PICK z \in KThread : z = [o.kthread[t] EXCEPT !.queuedPri = p, !.queuedCpu = to]
    BY <1>8, Zenon DEF QState, KThread
<1>19. /\ e \in QState /\ e.ready = n.ready /\ e.summary = n.summary
       /\ b = "balance_load" => e.kthread = n.kthread
       /\ b # "balance_load" => e.kthread = o.kthread
    <2>1. CASE b = "balance_load"
        <3>1. e = [v EXCEPT !.kthread = [o.kthread EXCEPT ![t] = z]]
            BY <1>16, <1>17, <1>18, <2>1, Zenon DEF Track
        <3>2. n.kthread = [o.kthread EXCEPT ![t] = z]
            BY <1>8, <1>12, <1>18, ZenonT(30) DEF Enqueue, QState
        <3>3. n.kthread \in [Thread -> KThread]
            BY <1>14, Zenon DEF Entered, QState
        <3> QED
            BY <1>17, <2>1, <3>1, <3>2, <3>3, Zenon DEF QState
    <2>2. CASE b # "balance_load"
        BY <1>16, <1>17, <2>2, Zenon DEF Track
    <2> QED
        BY <2>1, <2>2
<1>20. /\ Exact(n) /\ (Tracked(o) => Tracked(n))
       /\ \A u \in Thread : n.kthread[u].state = o.kthread[u].state
    BY <1>14, Zenon DEF Entered
<1>21. Exact(e) /\ \A d, r, u : In(e, d, r, u) <=> In(n, d, r, u)
    BY <1>19, <1>20, SameQueues, Zenon
<1>22. \A u \in Thread : e.kthread[u].state = s.kthread[u].state
    BY <1>10, <1>19, <1>20, Zenon
<1>23. b = "balance_load" /\ Tracked(s) => Tracked(e)
    BY <1>11, <1>19, <1>20, <1>21, SMTT(30), Z3T(30) DEF Tracked
<1>24. \A u \in Thread : InQueue(e, u) <=> InQueue(s, u)
    <2>1. \A d \in CPU, r \in Priority, u \in Thread :
              In(n, d, r, u) <=> In(o, d, r, u) \/ <<d, r, u>> = <<to, p, t>>
        BY <1>14 DEF Entered
    <2> QED
        BY <1>3, <1>9, <1>21, <2>1, SMTT(30), Z3T(30) DEF InQueue
<1>25. \A d \in CPU, r \in Priority :
           /\ Len(m.ready[d][r]) = Len(s.ready[d][r]) - (IF d = from /\ r = p THEN 1 ELSE 0)
           /\ Len(e.ready[d][r]) = Len(m.ready[d][r]) + (IF d = to /\ r = p THEN 1 ELSE 0)
           /\ Len(s.ready[d][r]) \in Nat
    <2>1. \A d \in CPU, r \in Priority :
              Len(m.ready[d][r]) = Len(s.ready[d][r]) - (IF d = from /\ r = p THEN 1 ELSE 0)
        BY <1>2, Zenon DEF Left
    <2>2. \A d \in CPU, r \in Priority :
              Len(n.ready[d][r]) = Len(o.ready[d][r]) + (IF d = to /\ r = p THEN 1 ELSE 0)
        BY <1>14, Zenon DEF Entered
    <2>3. \A d \in CPU, r \in Priority : Len(s.ready[d][r]) \in Nat
        BY Positions, SMTT(30), Z3T(30) DEF QState
    <2> QED
        BY <1>8, <1>19, <2>1, <2>2, <2>3, ZenonT(30)
<1>26. ASSUME NEW d \in CPU, NEW r \in Priority, r # p \/ d \notin {from, to}
       PROVE  Len(e.ready[d][r]) = Len(s.ready[d][r])
    <2>1. ~(d = from /\ r = p) /\ ~(d = to /\ r = p)
        BY <1>26
    <2>2. PICK x \in Nat : x = Len(s.ready[d][r])
        BY <1>25, Zenon
    <2>3. Len(m.ready[d][r]) = x - 0 /\ Len(e.ready[d][r]) = Len(m.ready[d][r]) + 0
        BY <1>25, <2>1, <2>2, Zenon
    <2> QED
        BY <2>2, <2>3, SMTT(30), Z3T(30)
<1>27. Len(e.ready[from][p]) = Len(s.ready[from][p]) - 1
    <2>1. PICK x \in Nat : x = Len(s.ready[from][p])
        BY <1>25, Zenon
    <2>2. Len(m.ready[from][p]) = x - 1 /\ Len(e.ready[from][p]) = Len(m.ready[from][p]) + 0
        BY <1>25, <2>1, Zenon
    <2> QED
        BY <2>1, <2>2
<1>28. Len(e.ready[to][p]) = Len(s.ready[to][p]) + 1
    <2>1. PICK x \in Nat : x = Len(s.ready[to][p])
        BY <1>25, Zenon
    <2>2. Len(m.ready[to][p]) = x - 0 /\ Len(e.ready[to][p]) = Len(m.ready[to][p]) + 1
        BY <1>25, <2>1, Zenon
    <2> QED
        BY <2>1, <2>2
<1> QED
    BY <1>19, <1>21, <1>22, <1>23, <1>24, <1>26, <1>27, <1>28, Zenon DEF Migrated

\* What SpreadShrinks says of a step.
SpreadStep ==
    /\ \A from, to \in CPU :
          from = MostLoaded /\ to = LeastLoaded => Load(to)' <= Load(from)'
    /\ Spread' <= Spread

\* A migration moves a queued thread to another queue, and a load from the CPU that
\* has most to the one that has least.
LEMMA MigrateStep ==
    ASSUME IInv, NEW b \in Balancers, Migrate(b)
    PROVE  /\ IInv' /\ (b = "balance_load" /\ Tracked(Queues) => Tracked(Queues)')
           /\ SpreadStep
<1>1. PICK s \in QState : s = Queues
    BY QueuesTyped, Zenon DEF IInv, TypeOK
<1>2. Exact(s) /\ s.kthread = kthread /\ s.ready = ready /\ QueueTypeOK
    BY <1>1 DEF IInv, Queues, TypeOK
<1>3. PICK old \in [CPU -> Nat] :
          /\ \A c \in CPU : old[c] = LoadOf(ready[c]) /\ old[c] = Load(c)
          /\ MostLoaded = Most(old) /\ LeastLoaded = Fewest(old)
    BY <1>2, LoadsNow, Zenon
<1>4. PICK from \in CPU, to \in CPU :
          /\ from = MostLoaded /\ to = LeastLoaded
          /\ \A d \in CPU : old[to] <= old[d] /\ old[d] <= old[from]
    BY <1>3, Extremes, Zenon
<1>5. old[from] >= old[to] + 2 /\ from # to
    <2>1. Threshold \in Nat /\ Threshold >= 1
        BY BalanceAssumption, SMTT(30), Z3T(30) DEF Threshold
    <2>2. Load(from) > Load(to) + Threshold
        BY <1>4, Zenon DEF Migrate, Imbalanced
    <2>3. old[from] \in Nat /\ old[to] \in Nat /\ old[from] > old[to] + Threshold
        BY <1>3, <2>2, Zenon
    <2> QED
        BY <2>1, <2>3, SMTT(30), Z3T(30)
<1>6. PICK t \in Thread, p \in Priority : Migratable(from) = <<t, p>> /\ In(s, from, p, t)
    BY <1>1, <1>2, <1>4, MigratableFound, Zenon DEF Migrate
<1>7. PICK e : e = Track(b, Moved(s, t, p, from, to), t, p, to)
    BY Zenon
<1>8. Migrated(s, e, t, p, from, to) /\ (b = "balance_load" /\ Tracked(s) => Tracked(e))
    BY <1>2, <1>5, <1>6, <1>7, Migrates, SMTT(30), Z3T(30)
<1>9. Install(e) /\ UNCHANGED <<current, starting, call>>
    <2>1. Migratable(MostLoaded)[1] = t /\ Migratable(MostLoaded)[2] = p
        BY <1>4, <1>6, SMTT(30), Z3T(30)
    <2> QED
        BY <1>1, <1>4, <1>7, <2>1, Zenon DEF Migrate
<1>10. e \in QState /\ Exact(e)
    BY <1>8 DEF Migrated
<1>11. QueueTypeOK' /\ Queues' = e /\ kthread' = e.kthread /\ ready' = e.ready
    BY <1>9, <1>10, Installed, Zenon DEF Install
<1>12. IInv'
    <2>1. TypeOK' /\ Exact(Queues)'
        BY <1>9, <1>10, <1>11, Zenon DEF IInv, TypeOK
    <2>2. \A u \in Thread : /\ InQueue(Queues, u)' <=> InQueue(Queues, u)
                            /\ kthread'[u].state = kthread[u].state
        BY <1>1, <1>2, <1>8, <1>11, Zenon DEF Migrated
    <2>3. \A u : InHand(u)' <=> InHand(u)
        BY <1>9, Zenon DEF InHand
    <2>4. OwnerInv'
        BY <1>9, <2>2, <2>3, Zenon DEF IInv, OwnerInv, Owned
    <2>5. QueuedInv'
        BY <2>2, <2>3, Zenon DEF IInv, QueuedInv
    <2>6. CallInv'
        <3>1. CallInv
            BY Zenon DEF IInv
        <3>2. call' = call
            BY <1>9, Zenon
        <3>3. \A c \in CPU : call[c].at = "add" => kthread'[call[c].thread].state = "Ready"
            <4> TAKE c \in CPU
            <4> HAVE call[c].at = "add"
            <4>1. call[c].thread \in Thread /\ kthread[call[c].thread].state = "Ready"
                BY <3>1, Zenon DEF CallInv
            <4> QED
                BY <2>2, <4>1, Zenon
        <3> QED
            BY <3>1, <3>2, <3>3, Zenon DEF CallInv
    <2>7. CurrentInv'
        <3>1. current' = current /\ starting' = starting
            BY <1>9, Zenon
        <3>2. ASSUME NEW c \in CPU, current[c] # NoThread
              PROVE  /\ ~InQueue(Queues, current[c])' /\ ~InHand(current[c])'
                     /\ kthread'[current[c]].state =
                            IF starting[c] = NoThread THEN "Running" ELSE "Ready"
            <4>1. PICK u \in Thread : u = current[c]
                BY <3>2 DEF IInv, TypeOK
            <4>2. ~InQueue(Queues, u) /\ ~InHand(u)
                BY <3>2, <4>1, Zenon DEF IInv, CurrentInv
            <4>3. ~InQueue(Queues, u)' /\ ~InHand(u)' /\ kthread'[u].state = kthread[u].state
                BY <2>2, <2>3, <4>2
            <4> QED
                BY <3>1, <3>2, <4>1, <4>3, Zenon DEF IInv, CurrentInv
        <3> QED
            BY <3>1, <3>2, Zenon DEF IInv, CurrentInv
    <2> QED
        BY <2>1, <2>4, <2>5, <2>6, <2>7, Zenon DEF IInv
<1>13. PICK new \in [CPU -> Nat] :
           /\ \A c \in CPU : new[c] = LoadOf(ready'[c]) /\ new[c] = Load(c)'
           /\ MostLoaded' = Most(new) /\ LeastLoaded' = Fewest(new)
    BY <1>11, LoadsNext, Zenon
<1>14. \A c \in CPU : ready[c] \in [Priority -> Seq(Thread)] /\ ready'[c] \in [Priority -> Seq(Thread)]
    BY <1>2, <1>11, Zenon DEF QueueTypeOK
<1>15. \A d \in CPU, r \in Priority :
           r # p \/ d \notin {from, to} => Len(ready'[d][r]) = Len(ready[d][r])
    BY <1>2, <1>8, <1>11, Zenon DEF Migrated
<1>16. new[from] = old[from] - 1
    <2>1. PICK d \in Int : d = -1 /\ Len(ready'[from][p]) = Len(ready[from][p]) + d
        <3>1. Len(ready'[from][p]) = Len(ready[from][p]) - 1
            BY <1>2, <1>8, <1>11, ZenonT(30) DEF Migrated
        <3>2. Len(ready[from][p]) \in Nat
            BY <1>14, Positions
        <3> QED
            BY <3>1, <3>2, SMTT(30), Z3T(30)
    <2>2. LoadOf(ready'[from]) = LoadOf(ready[from]) + d
        BY <1>14, <1>15, <2>1, LoadChange, ZenonT(30)
    <2> QED
        BY <1>3, <1>13, <2>1, <2>2, Zenon
<1>17. new[to] = old[to] + 1
    <2>1. PICK d \in Int : d = 1 /\ Len(ready'[to][p]) = Len(ready[to][p]) + d
        BY <1>2, <1>8, <1>11 DEF Migrated
    <2>2. LoadOf(ready'[to]) = LoadOf(ready[to]) + d
        BY <1>14, <1>15, <2>1, LoadChange, ZenonT(30)
    <2> QED
        BY <1>3, <1>13, <2>1, <2>2, Zenon
<1>18. ASSUME NEW c \in CPU, c # from, c # to
       PROVE  new[c] = old[c]
    <2>1. PICK d \in Int : d = 0 /\ Len(ready'[c][p]) = Len(ready[c][p]) + d
        <3>1. Len(ready'[c][p]) = Len(ready[c][p]) /\ Len(ready[c][p]) \in Nat
            BY <1>14, <1>15, <1>18, Positions
        <3> QED
            BY <3>1, SMTT(30), Z3T(30)
    <2>2. LoadOf(ready'[c]) = LoadOf(ready[c]) + d
        BY <1>14, <1>15, <1>18, <2>1, LoadChange, Zenon
    <2> QED
        BY <1>3, <1>13, <2>1, <2>2, SMTT(30), Z3T(30)
<1>19. \A c \in CPU : old[to] <= new[c] /\ new[c] <= old[from]
    BY <1>4, <1>5, <1>16, <1>17, <1>18, SMTT(30), Z3T(30)
<1>20. SpreadStep
    <2>1. new[to] <= new[from]
        BY <1>5, <1>16, <1>17, SMTT(30), Z3T(30)
    <2>2. PICK hi \in CPU, lo \in CPU : hi = MostLoaded' /\ lo = LeastLoaded'
        BY <1>13, Extremes, Zenon
    <2>3. Spread = old[from] - old[to]
        BY <1>3, <1>4, Zenon DEF Spread
    <2>4. Spread' = new[hi] - new[lo]
        <3>1. Spread' = Load(MostLoaded)' - Load(LeastLoaded)'
            BY DEF Spread
        <3>2. Load(MostLoaded)' = LoadOf(ready'[MostLoaded'])
            BY Zenon DEF Load, LoadOf, Row, FoldLeft, MapThenFoldSet
        <3>3. Load(LeastLoaded)' = LoadOf(ready'[LeastLoaded'])
            BY Zenon DEF Load, LoadOf, Row, FoldLeft, MapThenFoldSet
        <3> QED
            BY <1>13, <2>2, <3>1, <3>2, <3>3, Zenon
    <2>5. Spread' <= Spread
        BY <1>19, <2>3, <2>4
    <2> QED
        BY <1>4, <1>13, <2>1, <2>5, Zenon DEF SpreadStep
<1> QED
    BY <1>1, <1>8, <1>11, <1>12, <1>20, Zenon

-----------------------------------------------------------------------------
(* Turns *)

\* No queue of e has two threads the one before the other that the same queue of
\* s does not have in that order.
Within(s, e) ==
    \A c \in CPU, p \in Priority, t, u \in Thread :
        Before(e.ready[c][p], t, u) => Before(s.ready[c][p], t, u)

\* From s to e, no thread of a queue was overtaken.
InTurn(s, e) ==
    \A c \in CPU, p \in Priority : KeepsOrder(s.ready[c][p], e.ready[c][p])

\* A thread that leaves a queue changes the order of no others.
LEMMA RestInOrder ==
    ASSUME NEW q \in Seq(Thread), NEW x, Contains(q, x),
           NEW t, NEW u, Before(RemoveFirst(q, x), t, u)
    PROVE  Before(q, t, u)
<1>1. PICK r : r = RemoveFirst(q, x)
    BY Zenon
<1>2. r \in Seq(Thread) /\ Len(r) = Len(q) - 1 /\ DOMAIN r = 1 .. Len(r)
    BY <1>1, GapClosed, Zenon
<1>3. PICK k \in 1 .. Len(q) :
          q[k] = x /\ \A i \in 1 .. Len(r) : r[i] = IF i < k THEN q[i] ELSE q[i + 1]
    BY <1>1, GapClosed
<1>4. PICK i \in 1 .. Len(r), j \in 1 .. Len(r) : i < j /\ r[i] = t /\ r[j] = u
    BY <1>1, <1>2, Zenon DEF Before
<1>5. Len(q) \in Nat /\ DOMAIN q = 1 .. Len(q)
    BY Positions, Zenon
<1>6. PICK m \in 1 .. Len(q), n \in 1 .. Len(q) :
          m = (IF i < k THEN i ELSE i + 1) /\ n = (IF j < k THEN j ELSE j + 1) /\ m < n
    BY <1>2, <1>4, <1>5, SMTT(30), Z3T(30)
<1>7. q[m] = t /\ q[n] = u
    BY <1>3, <1>4, <1>6, Zenon
<1> QED
    BY <1>5, <1>6, <1>7, Zenon DEF Before

\* A thread that comes to the tail of what is left of a queue overtakes nobody.
LEMMA TailInOrder ==
    ASSUME NEW q, NEW m \in Seq(Thread), NEW x \in Thread, ~Contains(q, x),
           \A t, u \in Thread : Before(m, t, u) => Before(q, t, u)
    PROVE  KeepsOrder(q, Append(m, x))
<1>1. SUFFICES ASSUME NEW t \in Thread, NEW u \in Thread,
                      Contains(q, u), Before(Append(m, x), t, u)
               PROVE  Before(q, t, u)
    BY DEF KeepsOrder
<1>2. PICK r : r = Append(m, x)
    BY Zenon
<1>3. /\ Len(m) \in Nat /\ DOMAIN m = 1 .. Len(m) /\ DOMAIN r = 1 .. Len(m) + 1
      /\ \A i \in 1 .. Len(m) : r[i] = m[i]
      /\ r[Len(m) + 1] = x
    BY <1>2, AppendLast, Positions, SMTT(30), Z3T(30)
<1>4. PICK i \in 1 .. Len(m) + 1, j \in 1 .. Len(m) + 1 : i < j /\ r[i] = t /\ r[j] = u
    BY <1>1, <1>2, <1>3, Zenon DEF Before
<1>5. u # x
    BY <1>1, Zenon
<1>6. i \in 1 .. Len(m) /\ j \in 1 .. Len(m)
    BY <1>3, <1>4, <1>5
<1>7. Before(m, t, u)
    BY <1>3, <1>4, <1>6, ZenonT(30) DEF Before
<1> QED
    BY <1>7, Zenon

\* Unlink leaves the other threads of the queue as they were.
LEMMA UnlinkInOrder ==
    ASSUME NEW s \in QState, NEW c \in CPU, NEW p \in Priority, NEW x, In(s, c, p, x),
           NEW e, e = Unlink(s, c, p, x)
    PROVE  Within(s, e)
<1>1. PICK q \in Seq(Thread) : q = s.ready[c][p]
    BY DEF QState
<1>2. e.ready = [s.ready EXCEPT ![c][p] = RemoveFirst(q, x)]
    BY <1>1, ZenonT(30) DEF Unlink, QState
<1>3. \A d \in CPU, r \in Priority :
          e.ready[d][r] = IF d = c /\ r = p THEN RemoveFirst(q, x) ELSE s.ready[d][r]
    BY <1>2, SMTT(30), Z3T(30) DEF QState
<1>4. \A t, u : Before(RemoveFirst(q, x), t, u) => Before(q, t, u)
    BY <1>1, RestInOrder, ZenonT(30) DEF In
<1> QED
    BY <1>1, <1>3, <1>4, Zenon DEF Within

\* From m to e, thread x was added at the tail of queue p of CPU c.
Appends(m, e, c, p, x) ==
    \A d \in CPU, r \in Priority :
        e.ready[d][r] = IF d = c /\ r = p THEN Append(m.ready[c][p], x) ELSE m.ready[d][r]

\* A thread that was not in the queue goes to the tail of what is left of it.
LEMMA AppendInOrder ==
    ASSUME NEW s \in QState, NEW m \in QState, Within(s, m),
           NEW c \in CPU, NEW p \in Priority, NEW x \in Thread, ~In(s, c, p, x),
           NEW e, Appends(m, e, c, p, x)
    PROVE  InTurn(s, e)
<1>1. PICK q \in Seq(Thread) : q = m.ready[c][p]
    BY Zenon DEF QState
<1>2. \A d \in CPU, r \in Priority :
          e.ready[d][r] = IF d = c /\ r = p THEN Append(q, x) ELSE m.ready[d][r]
    BY <1>1, Zenon DEF Appends
<1>3. KeepsOrder(s.ready[c][p], Append(q, x))
    BY <1>1, TailInOrder, Zenon DEF Within, In
<1>4. \A d \in CPU, r \in Priority : KeepsOrder(s.ready[d][r], m.ready[d][r])
    BY Zenon DEF Within, KeepsOrder
<1> QED
    BY <1>2, <1>3, <1>4 DEF InTurn

\* Enqueue changes the one queue, at its tail.
LEMMA EnqueueAppends ==
    ASSUME NEW m \in QState, NEW c \in CPU, NEW p \in Priority, NEW x \in Thread,
           NEW e, e = Enqueue(m, c, p, x)
    PROVE  Appends(m, e, c, p, x)
<1>1. e.ready = [m.ready EXCEPT ![c][p] = Append(@, x)]
    BY Zenon DEF Enqueue, QState
<1> QED
    BY <1>1 DEF QState, Appends

\* What leaves no new order overtakes nobody.
LEMMA WithinInTurn ==
    ASSUME NEW s, NEW e, Within(s, e)
    PROVE  InTurn(s, e)
    BY Zenon DEF Within, InTurn, KeepsOrder

\* add_ready overtakes nobody if the thread is in no queue.
LEMMA AddInTurn ==
    ASSUME NEW s \in QState, NEW m \in QState, m.ready = s.ready, NEW t \in Thread,
           NEW u8 \in Nat, ~InQueue(s, t), NEW e, e = AddReady(m, t, u8)
    PROVE  InTurn(s, e)
<1>1. PICK p \in Priority : p = IF u8 > TopPriority THEN TopPriority ELSE u8
    BY QueueExists, SMTT(30), Z3T(30)
<1>2. PICK c \in CPU : c = TargetCpu(m.kthread[t])
    BY TargetExists, Zenon
<1>3. e = Enqueue(m, c, p, t)
    BY <1>1, <1>2, Zenon DEF AddReady
<1>4. Appends(m, e, c, p, t)
    BY <1>3, EnqueueAppends, Zenon
<1>5. Within(s, m)
    BY DEF Within
<1>6. ~In(s, c, p, t)
    BY Zenon DEF InQueue
<1> QED
    BY <1>4, <1>5, <1>6, AppendInOrder, Zenon

\* A step of the queues in which nobody is overtaken.
Turns == \A c \in CPU, p \in Priority : KeepsOrder(ready[c][p], ready'[c][p])

\* What is installed in turn is a step in turn.
LEMMA InstallTurns ==
    ASSUME NEW s, s = Queues, NEW e, Install(e), InTurn(s, e)
    PROVE  Turns
    BY DEF Queues, Install, InTurn, Turns

\* A new thread, and one that set_priority took out, queue up behind the others.
LEMMA AddTurns ==
    ASSUME IInv
    PROVE  /\ \A t \in Thread : Create(t) => Turns
           /\ \A c \in CPU : AddNew(c) => Turns
<1>1. PICK s \in QState : s = Queues /\ s.ready = ready /\ s.kthread = kthread
    BY QueuesTyped DEF IInv, TypeOK, Queues
<1>2. ASSUME NEW t \in Thread, Create(t)
      PROVE  Turns
    <2>1. kthread[t].state = "Initialized" /\ kthread[t].priority \in Int
        BY <1>2, Zenon DEF Create, IInv, TypeOK, QueueTypeOK, KThread
    <2>2. PICK m \in QState : m = SetState(s, t, "Ready") /\ m.ready = s.ready
        BY StateSet, SMTT(30), Z3T(30) DEF State, Restated
    <2>3. ~InQueue(s, t)
        BY <1>1, <2>1 DEF IInv, OwnerInv, Owned
    <2>4. PICK e : e = AddReady(m, t, AsU8(kthread[t].priority))
        BY Zenon
    <2>5. InTurn(s, e)
        BY <2>1, <2>2, <2>3, <2>4, QueueExists, AddInTurn, ZenonT(30)
    <2>6. Install(e)
        BY <1>1, <1>2, <2>2, <2>4, Zenon DEF Create
    <2> QED
        BY <1>1, <2>5, <2>6, InstallTurns, ZenonT(30)
<1>3. ASSUME NEW c \in CPU, AddNew(c)
      PROVE  Turns
    <2>1. PICK t \in Thread : t = call[c].thread /\ call[c].at = "add"
        BY <1>3, ZenonT(30) DEF IInv, AddNew, CallInv
    <2>2. ~InQueue(s, t) /\ kthread[t].priority \in Int
        BY <1>1, <2>1, Zenon DEF IInv, QueuedInv, InHand, TypeOK, QueueTypeOK, KThread
    <2>3. Clamp(kthread[t].priority) \in Nat
        BY <2>2, QueueExists, QueueAssumption, SMTT(30), Z3T(30) DEF Priority
    <2>4. PICK e : e = AddReady(s, t, Clamp(kthread[t].priority))
        OBVIOUS
    <2>5. InTurn(s, e)
        BY <2>2, <2>3, <2>4, AddInTurn, ZenonT(30)
    <2>6. Install(e)
        BY <1>1, <1>3, <2>1, <2>4, Zenon DEF AddNew
    <2> QED
        BY <1>1, <2>5, <2>6, InstallTurns, Zenon
<1> QED
    BY <1>2, <1>3, Zenon

\* schedule pops one thread and queues the current one behind the others.
LEMMA ScheduleTurns ==
    ASSUME IInv, NEW c \in CPU, Schedule(c)
    PROVE  Turns
<1>1. PICK s \in QState : s = Queues /\ s.kthread = kthread
    BY QueuesTyped DEF IInv, TypeOK, Queues
<1>2. PICK cur \in Thread \cup {NoThread} : cur = current[c]
    BY DEF IInv, TypeOK
<1>3. PICK next : next = NextThread(s, c) /\ next # NoThread
    BY <1>1, Zenon DEF Schedule
<1>4. Exact(s) /\ (cur # NoThread => ~InQueue(s, cur))
    BY <1>1, <1>2, Zenon DEF IInv, CurrentInv
<1>5. PICK p \in Priority : p = TopQueue(s, c) /\ next \in Thread /\ In(s, c, p, next)
    BY <1>3, <1>4, NextFound, Zenon
<1>6. PICK m : m = Unlink(s, c, p, next)
    OBVIOUS
<1>7. m \in QState /\ m.kthread = s.kthread /\ Within(s, m)
    BY <1>4, <1>5, <1>6, Dequeued, UnlinkInOrder, Zenon DEF Left
<1>8. PICK e : e = Selected(s, c, cur)
    BY Zenon
<1>9. PopNext(s, c) = m
    BY <1>3, <1>5, <1>6, Zenon DEF PopNext
<1>10. InTurn(s, e)
    <2>1. CASE next = cur
        <3>1. e = m
            BY <1>3, <1>8, <1>9, <2>1, Zenon DEF Selected
        <3> QED
            BY <1>7, <3>1, WithinInTurn, Zenon
    <2>2. CASE next # cur
        <3>1. e = Requeue(m, c, cur)
            BY <1>3, <1>8, <1>9, <2>2, ZenonT(30) DEF Selected
        <3>2. CASE cur # NoThread /\ m.kthread[cur].state = "Running"
            <4>1. PICK r \in Priority : cur \in Thread /\ r = Clamp(m.kthread[cur].priority)
                BY <1>7, <3>2, QueueExists, Zenon DEF QState, KThread
            <4>2. PICK n : n = Enqueue(m, c, r, cur)
                BY ZenonT(30)
            <4>3. e = SetState(n, cur, "Ready")
                BY <3>1, <3>2, <4>1, <4>2, Zenon DEF Requeue
            <4>4. e.ready = n.ready
                BY <4>2, <4>3 DEF SetState, Enqueue
            <4>5. Appends(m, n, c, r, cur)
                BY <1>7, <4>1, <4>2, EnqueueAppends, Zenon
            <4>6. ~In(s, c, r, cur)
                BY <1>4, <3>2, ZenonT(30) DEF InQueue
            <4>7. InTurn(s, n)
                BY <1>7, <4>1, <4>5, <4>6, AppendInOrder, ZenonT(30)
            <4> QED
                BY <4>4, <4>7, Zenon DEF InTurn
        <3>3. CASE ~(cur # NoThread /\ m.kthread[cur].state = "Running")
            <4>1. e = m
                BY <3>1, <3>3, Zenon DEF Requeue
            <4> QED
                BY <1>7, <4>1, WithinInTurn
        <3> QED
            BY <3>2, <3>3
    <2> QED
        BY <2>1, <2>2, Zenon
<1>11. Install(e)
    BY <1>1, <1>2, <1>8, Zenon DEF Schedule
<1> QED
    BY <1>1, <1>10, <1>11, InstallTurns, ZenonT(30)

\* set_priority takes its thread out, or leaves the queues alone.
LEMMA RemoveOldTurns ==
    ASSUME IInv, NEW c \in CPU, RemoveOld(c)
    PROVE  Turns
<1>1. PICK s \in QState : s = Queues
    BY QueuesTyped DEF IInv, TypeOK
<1>2. PICK t \in Thread, b \in CPU, p \in Priority \cup {NeverQueued} :
          t = call[c].thread /\ b = call[c].cpu /\ p = call[c].pri
    BY DEF RemoveOld, IInv, CallInv, TypeOK, Call
<1>3. PICK e : e = IF Finds(s, t, b, p) THEN RemoveReady(s, t, b, p) ELSE s
    OBVIOUS
<1>4. Within(s, e)
    <2>1. CASE Finds(s, t, b, p)
        <3>1. p \in Priority /\ In(s, b, p, t)
            BY <2>1 DEF Finds, In
        <3>2. PICK m : m = Unlink(s, b, p, t)
            BY Zenon
        <3>3. Within(s, m)
            BY <3>1, <3>2, UnlinkInOrder, Zenon
        <3>4. e.ready = m.ready
            BY <1>3, <2>1, <3>2, SMTT(30), Z3T(30) DEF RemoveReady, Unlink
        <3> QED
            BY <3>3, <3>4, Zenon DEF Within
    <2>2. CASE ~Finds(s, t, b, p)
        BY <1>3, <2>2 DEF Within
    <2> QED
        BY <2>1, <2>2, Zenon
<1>5. Install(e)
    BY <1>1, <1>2, <1>3, Zenon DEF RemoveOld
<1> QED
    BY <1>1, <1>4, <1>5, WithinInTurn, InstallTurns, Zenon

\* What migrate_thread adds to the queues without the thread, it adds at a tail.
LEMMA MoveAppends ==
    ASSUME NEW s, NEW t, NEW from, NEW to \in CPU, NEW p \in Priority,
           NEW m \in QState, m = Unlink(s, from, p, t),
           NEW b, NEW e, e = Track(b, Moved(s, t, p, from, to), t, p, to)
    PROVE  Appends(m, e, to, p, t)
<1>1. PICK r, y, k : m = [ready |-> r, summary |-> y, kthread |-> k]
    BY DEF QState
<1>2. PICK o : o = [m EXCEPT !.kthread[t].home = to]
    BY Zenon
<1>3. PICK n : n = [o EXCEPT !.ready[to][p] = Append(@, t), !.summary[to] = @ \cup {p}]
    BY Zenon
<1>4. e.ready = [r EXCEPT ![to][p] = Append(@, t)]
    <2>1. PICK h : h = [k EXCEPT ![t].home = to]
        BY Zenon
    <2>2. o = [ready |-> r, summary |-> y, kthread |-> h]
        BY <1>1, <1>2, <2>1, SMTT(30), Z3T(30)
    <2>3. PICK q, z : q = [r EXCEPT ![to][p] = Append(@, t)] /\ z = [y EXCEPT ![to] = @ \cup {p}]
        BY Zenon
    <2>4. n = [ready |-> q, summary |-> z, kthread |-> h]
        BY <1>3, <2>2, <2>3, Zenon
    <2>5. e = Track(b, n, t, p, to)
        BY <1>2, <1>3, Zenon DEF Moved
    <2>6. e.ready = q
        <3>1. PICK f : f = [n.kthread EXCEPT ![t] = [@ EXCEPT !.queuedPri = p, !.queuedCpu = to]]
            BY Zenon
        <3>2. e = n \/ e = [n EXCEPT !.kthread = f]
            BY <2>5, <3>1, Zenon DEF Track
        <3> QED
            BY <2>4, <3>2
    <2> QED
        BY <2>3, <2>6, Zenon
<1>5. m.ready = r /\ r \in [CPU -> [Priority -> Seq(Thread)]]
    BY <1>1, SMTT(30), Z3T(30) DEF QState
<1>6. \A d \in CPU, i \in Priority :
          e.ready[d][i] = IF d = to /\ i = p THEN Append(r[to][p], t) ELSE r[d][i]
    BY <1>4, <1>5, SMTT(30), Z3T(30)
<1> QED
    BY <1>5, <1>6, Zenon DEF Appends

\* A migration takes a thread out of one queue and adds it at the tail of another.
LEMMA MigrateTurns ==
    ASSUME IInv, NEW b \in Balancers, Migrate(b)
    PROVE  Turns
<1>1. PICK s \in QState : s = Queues /\ Exact(s) /\ QueueTypeOK
    BY QueuesTyped DEF IInv, TypeOK
<1>2. PICK load \in [CPU -> Nat] :
          /\ \A c \in CPU : load[c] = LoadOf(ready[c]) /\ load[c] = Load(c)
          /\ MostLoaded = Most(load) /\ LeastLoaded = Fewest(load)
    BY <1>1, LoadsNow
<1>3. PICK from \in CPU, to \in CPU : from = MostLoaded /\ to = LeastLoaded
    BY <1>2, Extremes, Zenon
<1>4. PICK t \in Thread, p \in Priority : Migratable(from) = <<t, p>> /\ In(s, from, p, t)
    BY <1>1, <1>3, MigratableFound, Zenon DEF Migrate
<1>5. from # to
    <2>1. Threshold \in Nat
        BY BalanceAssumption, SMTT(30), Z3T(30) DEF Threshold
    <2>2. Load(from) > Load(to) + Threshold
        BY <1>3 DEF Migrate, Imbalanced
    <2>3. Load(from) \in Nat /\ Load(to) \in Nat
        BY <1>2, Zenon
    <2> QED
        BY <2>1, <2>2, <2>3, SMTT(30), Z3T(30)
<1>6. ~In(s, to, p, t)
    BY <1>1, <1>4, <1>5, Zenon DEF Exact
<1>7. PICK m : m = Unlink(s, from, p, t)
    OBVIOUS
<1>8. m \in QState /\ Within(s, m)
    BY <1>1, <1>4, <1>7, Dequeued, UnlinkInOrder, Zenon DEF Left
<1>9. PICK e : e = Track(b, Moved(s, t, p, from, to), t, p, to)
    OBVIOUS
<1>10. Appends(m, e, to, p, t)
    BY <1>7, <1>8, <1>9, MoveAppends, Zenon
<1>11. InTurn(s, e)
    BY <1>6, <1>8, <1>10, AppendInOrder, Zenon
<1>12. Install(e)
    <2>1. Migratable(MostLoaded)[1] = t /\ Migratable(MostLoaded)[2] = p
        BY <1>3, <1>4, SMTT(30), Z3T(30)
    <2> QED
        BY <1>1, <1>3, <1>9, <2>1, Zenon DEF Migrate
<1> QED
    BY <1>1, <1>11, <1>12, InstallTurns

\* The other steps leave the queues alone.
LEMMA NextTurns ==
    ASSUME IInv, Next
    PROVE  Turns
<1>1. ready' = ready => Turns
    BY DEF Turns, KeepsOrder
<1>2. CASE \E t \in Thread : Create(t)
    BY <1>2, AddTurns
<1>3. CASE \E c \in CPU : Schedule(c) \/ RemoveOld(c) \/ AddNew(c)
    BY <1>3, ScheduleTurns, RemoveOldTurns, AddTurns, Zenon
<1>4. CASE \E c \in CPU : Start(c)
    BY <1>1, <1>4 DEF Start, Install, SetState, Queues
<1>5. CASE \E c \in CPU, t \in Tuned, p \in NewPriorities : SetPriority(c, t, p)
    BY <1>1, <1>5 DEF SetPriority
<1>6. CASE \E t \in Tuned, mask \in Masks : SetAffinity(t, mask)
    BY <1>1, <1>6 DEF SetAffinity
<1>7. CASE \E b \in Balancers : Migrate(b)
    BY <1>7, MigrateTurns, Zenon
<1> QED
    BY <1>2, <1>3, <1>4, <1>5, <1>6, <1>7, Zenon DEF Next

-----------------------------------------------------------------------------
(* The theorems *)

\* Every action keeps the owners apart.
LEMMA NextInv ==
    ASSUME IInv, [Next]_vars
    PROVE  /\ IInv'
           /\ Tracked(Queues) /\ "ki_balance_processor" \notin Balancers => Tracked(Queues)'
<1>1. CASE \E t \in Thread : Create(t)
    BY <1>1, CreateInv, Zenon
<1>2. CASE \E c \in CPU : Schedule(c) \/ Start(c) \/ RemoveOld(c) \/ AddNew(c)
    BY <1>2, ScheduleInv, StartInv, RemoveOldInv, AddNewInv, Zenon
<1>3. CASE \E c \in CPU, t \in Tuned, p \in NewPriorities : SetPriority(c, t, p)
    BY <1>3, SetPriorityInv, Zenon
<1>4. CASE \E t \in Tuned, mask \in Masks : SetAffinity(t, mask)
    BY <1>4, SetAffinityInv, Zenon
<1>5. CASE \E b \in Balancers : Migrate(b)
    <2>1. PICK b \in Balancers : Migrate(b)
        BY <1>5
    <2>2. IInv' /\ (b = "balance_load" /\ Tracked(Queues) => Tracked(Queues)')
        BY <2>1, MigrateStep
    <2>3. "ki_balance_processor" \notin Balancers => b = "balance_load"
        BY BalanceAssumption, Zenon
    <2> QED
        BY <2>2, <2>3
<1>6. CASE UNCHANGED vars
    <2>1. UNCHANGED <<ready, summary, kthread, current, starting, call>>
        BY <1>6, ZenonT(30) DEF vars, queueVars
    <2>2. Queues' = Queues
        BY <2>1 DEF Queues
    <2>3. TypeOK' /\ Exact(Queues)' /\ (Tracked(Queues) => Tracked(Queues)')
        BY <2>1, <2>2, Zenon DEF IInv, TypeOK, QueueTypeOK
    <2>4. \A u : (InQueue(Queues, u)' <=> InQueue(Queues, u)) /\ (InHand(u)' <=> InHand(u))
        BY <2>1, <2>2, Zenon DEF InHand
    <2>5. OwnerInv' /\ QueuedInv'
        BY <2>1, <2>4, Zenon DEF IInv, OwnerInv, QueuedInv, Owned
    <2>6. CallInv'
        BY <2>1, Zenon DEF IInv, CallInv
    <2>7. CurrentInv'
        BY <2>1, <2>4, Zenon DEF IInv, CurrentInv
    <2> QED
        BY <2>3, <2>5, <2>6, <2>7, Zenon DEF IInv
<1> QED
    BY <1>1, <1>2, <1>3, <1>4, <1>5, <1>6, Zenon DEF Next

\* One owner of each thread is what Conserved says.
LEMMA OwnedOnce ==
    ASSUME IInv
    PROVE  Conserved /\ StateTracksPlace
<1>1. ASSUME NEW t \in Thread, kthread[t].state # "Initialized"
      PROVE  \E o \in Owners(t) : Owners(t) = {o}
    <2>1. PICK on : on = {d \in CPU : current[d] = t}
        BY Zenon
    <2>2. PICK by : by = {d \in CPU : call[d].at = "add" /\ call[d].thread = t}
        BY Zenon
    <2>3. Owned(t) /\ t # NoThread
        BY <1>1, QueueAssumption DEF IInv, OwnerInv
    <2>4. IF InQueue(Queues, t) THEN \E x : Places(t) = {x} ELSE Places(t) = {}
        BY PlaceCount, ZenonT(30) DEF IInv, TypeOK
    <2>5. IF InHand(t) THEN \E c : by = {c} ELSE by = {}
        <3>1. \A c, d \in by : c = d
            BY <2>2, SMTT(30), Z3T(30) DEF IInv, CallInv
        <3>2. InHand(t) <=> by # {}
            BY <2>2 DEF InHand
        <3>3. ASSUME NEW c \in by
              PROVE  by = {c}
            BY <3>1
        <3> QED
            BY <3>2, <3>3, Zenon
    <2>6. on = {} \/ \E c : on = {c}
        <3>1. \A c, d \in on : c = d
            BY <2>1, <2>3, ZenonT(30) DEF IInv, CurrentInv
        <3>2. ASSUME NEW c \in on
              PROVE  on = {c}
            BY <3>1
        <3> QED
            BY <3>2, Zenon
    <2>7. /\ InQueue(Queues, t) \/ InHand(t) \/ on # {}
          /\ ~(InQueue(Queues, t) /\ InHand(t))
          /\ ~(InQueue(Queues, t) /\ on # {}) /\ ~(InHand(t) /\ on # {})
        BY <2>1, <2>3, Zenon DEF Owned, IInv, QueuedInv, CurrentInv
    <2>8. Owners(t) = {<<"queue", x>> : x \in Places(t)} \cup {<<"current", c>> : c \in on}
                        \cup {<<"call", c>> : c \in by}
        BY <2>1, <2>2, Zenon DEF Owners
    <2>9. CASE InQueue(Queues, t)
        <3>1. PICK x : Places(t) = {x}
            BY <2>4, <2>9, Zenon
        <3>2. on = {} /\ by = {}
            BY <2>5, <2>7, <2>9, Zenon
        <3>3. Owners(t) = {<<"queue", x>>}
            BY <2>8, <3>1, <3>2, Zenon
        <3> QED
            BY <3>3, Zenon
    <2>10. CASE InHand(t)
        <3>1. PICK c : by = {c}
            BY <2>5, <2>10, Zenon
        <3>2. on = {} /\ Places(t) = {}
            BY <2>4, <2>7, <2>10, Zenon
        <3>3. Owners(t) = {<<"call", c>>}
            BY <2>8, <3>1, <3>2, Zenon
        <3> QED
            BY <3>3
    <2>11. CASE on # {}
        <3>1. PICK c : on = {c}
            BY <2>6, <2>11
        <3>2. by = {} /\ Places(t) = {}
            BY <2>4, <2>5, <2>7, <2>11, Zenon
        <3>3. Owners(t) = {<<"current", c>>}
            BY <2>8, <3>1, <3>2, Zenon
        <3> QED
            BY <3>3
    <2> QED
        BY <2>7, <2>9, <2>10, <2>11, ZenonT(30)
<1>2. Conserved
    BY <1>1, Zenon DEF Conserved
<1>3. ASSUME NEW t \in Thread, kthread[t].state = "Running"
      PROVE  \E c \in CPU : current[c] = t
    BY <1>3, Zenon DEF IInv, OwnerInv, Owned, QueuedInv, CallInv, InHand
<1>4. ASSUME NEW t \in Thread, kthread[t].state = "Ready"
      PROVE  Queued(t) \/ InHand(t) \/ \E c \in CPU : starting[c] = t
    <2>1. InQueue(Queues, t) => Queued(t)
        BY PlaceCount, Zenon DEF IInv, TypeOK
    <2>2. CASE \E c \in CPU : current[c] = t
        BY <1>4, <2>2, QueueAssumption DEF IInv, CurrentInv
    <2> QED
        BY <1>4, <2>1, <2>2 DEF IInv, OwnerInv, Owned
<1> QED
    BY <1>2, <1>3, <1>4, Zenon DEF StateTracksPlace

\* Whatever the calls of create, schedule, set_priority, set_thread_affinity and the
\* two balancing routines on any number of CPUs, every created thread has an owner.
THEOREM QueuesInvariant == Spec => []IInv
<1>1. Init => IInv
    BY InitInv
<1>2. IInv /\ [Next]_vars => IInv'
    BY NextInv
<1> QED
    BY <1>1, <1>2, PTL DEF Spec

\* Queues, summaries, Kthread fields and the calls under way keep their types: no
\* queue number leaves the array, whatever priorities and masks the callers pass.
THEOREM BalanceTyped == Spec => []TypeOK
<1>1. IInv => TypeOK
    BY Zenon DEF IInv
<1> QED
    BY QueuesInvariant, <1>1, PTL

\* ready_summary has the bit of a queue exactly while the queue is not empty, so
\* select_next_thread overlooks no thread and pops from no empty queue.
THEOREM SummariesExact == Spec => []SummaryExact
<1>1. IInv => SummaryExact
    BY QueueProperties, Zenon DEF IInv, TypeOK
<1> QED
    BY QueuesInvariant, <1>1, PTL

\* No interleaving of add_ready, remove_ready and the migrations links a thread
\* into two queues, or twice into one.
THEOREM LinkedOnce == Spec => []QueuedOnce
<1>1. IInv => QueuedOnce
    BY QueueProperties DEF IInv, TypeOK
<1> QED
    BY QueuesInvariant, <1>1, PTL

\* No thread is lost between two critical sections of set_priority or in a switch,
\* and none is run by two CPUs: each has exactly one owner.
THEOREM ThreadsConserved == Spec => []Conserved
<1>1. IInv => Conserved
    BY OwnedOnce, Zenon
<1> QED
    BY QueuesInvariant, <1>1, PTL

\* A thread that says Running is some CPU's current thread, and one that says Ready
\* is queued, being started or in the hands of a set_priority.
THEOREM StatesTrackPlaces == Spec => []StateTracksPlace
<1>1. IInv => StateTracksPlace
    BY OwnedOnce
<1> QED
    BY QueuesInvariant, <1>1, PTL

\* queued_cpu and queued_priority always name the queue a thread is in, as long as
\* ki_balance_processor, which does not write them, is not called.
THEOREM QueueLocation ==
    ASSUME "ki_balance_processor" \notin Balancers
    PROVE  Spec => []LocationTracked
<1>1. Init => IInv /\ Tracked(Queues)
    BY InitInv
<1>2. IInv /\ Tracked(Queues) /\ [Next]_vars => IInv' /\ Tracked(Queues)'
    BY NextInv
<1>3. IInv /\ Tracked(Queues) => LocationTracked
    BY QueueProperties DEF IInv, TypeOK
<1> QED
    BY <1>1, <1>2, <1>3, PTL DEF Spec

\* A call of either balancing routine does not widen the gap between the busiest
\* and the idlest CPU, and does not leave the receiving CPU ahead of the giving one.
THEOREM BalancingConverges == Spec => SpreadShrinks
<1>1. IInv => ((\E b \in Balancers : Migrate(b)) => SpreadStep)
    BY MigrateStep
<1>2. IInv => [(\E b \in Balancers : Migrate(b)) =>
                 /\ \A from, to \in CPU :
                       from = MostLoaded /\ to = LeastLoaded => Load(to)' <= Load(from)'
                 /\ Spread' <= Spread]_vars
    BY <1>1 DEF SpreadStep
<1> QED
    BY QueuesInvariant, <1>2, PTL DEF Spec, SpreadShrinks

\* Threads of one queue get the CPU in the order in which they came: no thread is
\* put ahead of one that is queued, by add_ready, schedule, set_priority or balancing.
THEOREM QueuesTakeTurns == Spec => NoOvertaking
<1>1. IInv /\ [Next]_vars => [\A c \in CPU, p \in Priority : KeepsOrder(ready[c][p], ready'[c][p])]_vars
    BY NextTurns DEF Turns
<1> QED
    BY QueuesInvariant, <1>1, PTL DEF Spec, NoOvertaking
=============================================================================
