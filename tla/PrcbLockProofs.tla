--------------------------- MODULE PrcbLockProofs ---------------------------
(***************************************************************************)
(* The dispatcher lock is a mutual exclusion lock for any number of CPUs   *)
(* and any counter width that can number all their contexts.               *)
(*                                                                         *)
(* MutualExclusion is not inductive: that no two contexts hold the same    *)
(* ticket depends on the counters not having lapped each other, which in   *)
(* turn depends on how many tickets are outstanding.  TicketQueue says     *)
(* this, and OwnerExact needs MutualExclusion to survive Store.            *)
(***************************************************************************)
EXTENDS PrcbLock, FiniteSetTheorems, TLAPS

IInv == TypeOK /\ TicketQueue /\ OwnerExact

\* Two contexts being served hold the same ticket, so they are one.
LEMMA QueueExcludes == TicketQueue => MutualExclusion
  BY DEF TicketQueue, MutualExclusion, Queue

\* The queue is a set of contexts, so it is finite and can still be numbered.
LEMMA QueueBound ==
  /\ IsFiniteSet(Queue)
  /\ \A x \in Ctx \ Queue : Cardinality(Queue) < TicketMod - 1
<1>1. Queue \in SUBSET Ctx
  BY DEF Queue
<1>2. IsFiniteSet(Queue) /\ Cardinality(Queue) \in Nat /\ Cardinality(Ctx) \in Nat
  BY <1>1, FS_Subset, FS_CardinalityType, TicketAssumption
<1>3. ASSUME NEW x \in Ctx \ Queue PROVE Cardinality(Queue) < TicketMod - 1
  <2>1. Cardinality(Queue \cup {x}) = Cardinality(Queue) + 1
    BY <1>2, <1>3, FS_AddElement, Zenon
  <2>2. Queue \cup {x} \in SUBSET Ctx
    BY <1>1, <1>3
  <2>3. Cardinality(Queue \cup {x}) <= Cardinality(Ctx)
    BY <2>2, FS_Subset, TicketAssumption
  <2> QED
    BY <1>2, <2>1, <2>3, TicketAssumption
<1> QED
  BY <1>2, <1>3

\* The wrapping arithmetic of the two counters.
LEMMA IncType == ASSUME NEW n \in Ticket PROVE Inc(n) \in Ticket
  BY TicketAssumption DEF Inc, Ticket

\* A distance is itself a ticket count, and zero only between equal tickets.
LEMMA DistType ==
  ASSUME NEW n \in Ticket, NEW s \in Ticket
  PROVE  Dist(n, s) \in Ticket /\ (Dist(n, s) = 0 <=> n = s)
  BY TicketAssumption DEF Dist, Ticket

\* Drawing a ticket (fetch_add on PRCB_LOCK_NEXT) lengthens the queue by one,
\* unless it would close the circle.
LEMMA DistInc ==
  ASSUME NEW n \in Ticket, NEW s \in Ticket, Dist(n, s) < TicketMod - 1
  PROVE  Dist(Inc(n), s) = Dist(n, s) + 1
  BY TicketAssumption DEF Dist, Ticket, Inc

\* Serving one (fetch_add on PRCB_LOCK_SERVING) brings every other ticket nearer.
LEMMA DistServe ==
  ASSUME NEW n \in Ticket, NEW s \in Ticket, n # s
  PROVE  Dist(n, Inc(s)) = Dist(n, s) - 1
  BY TicketAssumption DEF Dist, Ticket, Inc

-----------------------------------------------------------------------------
\* The initial state has an empty queue.
LEMMA InitInv == Init => IInv
<1> SUFFICES ASSUME Init PROVE IInv
  OBVIOUS
<1>1. TypeOK
  BY TicketAssumption, FS_CardinalityType DEF Init, TypeOK, Ticket, PC, Ctx, Level
<1>2. Queue = {}
  BY DEF Init, Queue, Waiting, Serving, Ctx, Level
<1>3. TicketQueue
  BY <1>1, <1>2, FS_EmptySet DEF TicketQueue, Init, Dist, Queue
<1>4. OwnerExact
  BY OwnerAssumption DEF Init, OwnerExact, Ctx, Level
<1> QED
  BY <1>1, <1>3, <1>4 DEF IInv

\* Every step keeps the variables in their types.
LEMMA TypeStep == TypeOK /\ [Next]_vars => TypeOK'
<1> SUFFICES ASSUME TypeOK, [Next]_vars PROVE TypeOK'
  OBVIOUS
<1> USE DEF TypeOK
<1>1. ASSUME NEW x \in Ctx, Check(x) PROVE TypeOK'
  BY <1>1 DEF Check, PC
<1>2. ASSUME NEW x \in Ctx, Take(x) PROVE TypeOK'
  BY <1>2, IncType DEF Take, PC
<1>3. ASSUME NEW x \in Ctx, Served(x) PROVE TypeOK'
  BY <1>3 DEF Served, PC
<1>4. ASSUME NEW x \in Ctx, Store(x) PROVE TypeOK'
  BY <1>4 DEF Store, PC, Ctx
<1>5. ASSUME NEW x \in Ctx, ClearOwner(x) PROVE TypeOK'
  BY <1>5 DEF ClearOwner, PC
<1>6. ASSUME NEW x \in Ctx, Advance(x) PROVE TypeOK'
  <2>1. 0 \in Ticket
    BY TicketAssumption, FS_CardinalityType DEF Ticket
  <2> QED
    BY <1>6, <2>1, IncType DEF Advance, PC
<1>7. ASSUME NEW c \in CPU, IsrEnter(c) \/ IsrExit(c) PROVE TypeOK'
  BY <1>7 DEF IsrEnter, IsrExit, PC
<1>8. CASE UNCHANGED vars
  BY <1>8 DEF vars
<1> QED
  BY <1>1, <1>2, <1>3, <1>4, <1>5, <1>6, <1>7, <1>8 DEF Next, LockStep

\* A step that leaves the counters and the queue alone, and lets a context be
\* served only with the served ticket, keeps the queue in order.
LEMMA QueueFrame ==
  ASSUME TicketQueue, Queue' = Queue, UNCHANGED <<next, serving, ticket>>,
         \A x \in Ctx : Serving(x)' => Serving(x) \/ ticket[x] = serving
  PROVE  TicketQueue'
  BY DEF TicketQueue, Dist

\* Every step keeps the outstanding tickets contiguous and distinct.
LEMMA QueueStep == TypeOK /\ TicketQueue /\ OwnerExact /\ [Next]_vars => TicketQueue'
<1> SUFFICES ASSUME TypeOK, TicketQueue, OwnerExact, [Next]_vars PROVE TicketQueue'
  OBVIOUS
<1>1. ASSUME NEW x \in Ctx, Check(x) PROVE TicketQueue'
  <2>1. Queue' = Queue /\ \A y \in Ctx : Serving(y)' => Serving(y)
    BY <1>1 DEF Check, TypeOK, Queue, Waiting, Serving
  <2> QED
    BY <1>1, <2>1, QueueFrame DEF Check
<1>2. ASSUME NEW x \in Ctx, Take(x) PROVE TicketQueue'
  <2>1. x \notin Queue /\ Queue' = Queue \cup {x}
    BY <1>2 DEF Take, TypeOK, Queue, Waiting, Serving
  <2>2. Dist(next, serving) < TicketMod - 1
    BY <2>1, QueueBound DEF TicketQueue
  <2>3. next' \in Ticket /\ Dist(next', serving') = Dist(next, serving) + 1
    BY <1>2, <2>2, DistInc, IncType DEF Take, TypeOK
  <2>4. Cardinality(Queue') = Dist(next', serving')
    BY <2>1, <2>3, QueueBound, FS_AddElement, Zenon DEF TicketQueue
  <2>5. \A y \in Queue : ticket'[y] = ticket[y]
    BY <1>2, <2>1 DEF Take, TypeOK, Queue
  <2>6. ticket'[x] = next /\ serving' = serving
    BY <1>2 DEF Take, TypeOK
  <2>7. \A y \in Queue' : Dist(ticket'[y], serving') < Dist(next', serving')
    <3>1. SUFFICES ASSUME NEW y \in Queue' PROVE Dist(ticket'[y], serving) < Dist(next, serving) + 1
      BY <2>3, <2>6
    <3>2. Dist(next, serving) \in Int /\ \A z \in Queue : Dist(ticket[z], serving) \in Int
      BY DistType DEF TypeOK, Queue, Ticket
    <3> QED
      BY <2>1, <2>5, <2>6, <3>2 DEF TicketQueue
  <2>8. \A y \in Queue : ticket[y] # next
    <3>1. Dist(next, serving) \in Int
      BY DistType DEF TypeOK, Ticket
    <3> QED
      BY <3>1 DEF TicketQueue
  <2>9. \A y, z \in Queue' : ticket'[y] = ticket'[z] => y = z
    BY <2>1, <2>5, <2>6, <2>8 DEF TicketQueue
  <2>10. \A y \in Ctx : Serving(y)' => ticket'[y] = serving'
    BY <1>2, <2>6 DEF Take, TypeOK, TicketQueue, Serving
  <2> QED
    BY <2>4, <2>7, <2>9, <2>10 DEF TicketQueue
<1>3. ASSUME NEW x \in Ctx, Served(x) PROVE TicketQueue'
  <2>1. Queue' = Queue /\ \A y \in Ctx : Serving(y)' => Serving(y) \/ ticket[y] = serving
    BY <1>3 DEF Served, TypeOK, Queue, Waiting, Serving
  <2> QED
    BY <1>3, <2>1, QueueFrame DEF Served
<1>4. ASSUME NEW x \in Ctx, Store(x) PROVE TicketQueue'
  <2>1. Queue' = Queue /\ \A y \in Ctx : Serving(y)' => Serving(y)
    BY <1>4 DEF Store, TypeOK, Queue, Waiting, Serving
  <2> QED
    BY <1>4, <2>1, QueueFrame DEF Store
<1>5. ASSUME NEW x \in Ctx, ClearOwner(x) PROVE TicketQueue'
  <2>1. owner = x[1]
    BY <1>5 DEF ClearOwner, OwnerExact, Ctx
  <2>2. Queue' = Queue /\ \A y \in Ctx : Serving(y)' => Serving(y)
    BY <1>5, <2>1 DEF ClearOwner, TypeOK, Queue, Waiting, Serving
  <2> QED
    BY <1>5, <2>2, QueueFrame DEF ClearOwner
<1>6. ASSUME NEW x \in Ctx, Advance(x) PROVE TicketQueue'
  <2>1. x \in Queue /\ Queue' = Queue \ {x} /\ ticket[x] = serving
    BY <1>6 DEF Advance, TypeOK, Queue, Waiting, Serving, TicketQueue
  <2>2. \A y \in Queue' : /\ y \in Queue /\ y \in Ctx
                          /\ ticket'[y] = ticket[y]
                          /\ ticket[y] # serving
    BY <1>6, <2>1 DEF Advance, TypeOK, Queue, TicketQueue
  <2>3. next # serving /\ next' = next /\ serving' = Inc(serving)
    <3>1. Dist(ticket[x], serving) < Dist(next, serving)
      BY <2>1 DEF TicketQueue
    <3>2. next # serving
      BY <2>1, <3>1, DistType DEF TypeOK, Ticket
    <3> QED
      BY <1>6, <3>2 DEF Advance
  <2>4. Dist(next', serving') = Dist(next, serving) - 1
    BY <2>3, DistServe DEF TypeOK
  <2>5. Cardinality(Queue') = Dist(next', serving')
    BY <2>1, <2>4, QueueBound, FS_RemoveElement, Zenon DEF TicketQueue
  <2>6. \A y \in Queue' : Dist(ticket'[y], serving') = Dist(ticket[y], serving) - 1
    BY <2>2, <2>3, DistServe DEF TypeOK
  <2>7. \A y \in Queue' : Dist(ticket'[y], serving') < Dist(next', serving')
    <3>1. Dist(next, serving) \in Int /\ \A z \in Queue : Dist(ticket[z], serving) \in Int
      BY DistType DEF TypeOK, Queue, Ticket
    <3> QED
      BY <2>2, <2>4, <2>6, <3>1 DEF TicketQueue
  <2>8. \A y, z \in Queue' : ticket'[y] = ticket'[z] => y = z
    BY <2>2 DEF TicketQueue
  <2>9. \A y \in Ctx : ~Serving(y)'
    <3>1. \A y \in Ctx : Serving(y)' => y \in Queue' /\ Serving(y)
      BY <1>6 DEF Advance, TypeOK, Serving, Queue
    <3> QED
      BY <2>2, <3>1 DEF TicketQueue
  <2> QED
    BY <2>5, <2>7, <2>8, <2>9 DEF TicketQueue
<1>7. ASSUME NEW c \in CPU, IsrEnter(c) \/ IsrExit(c) PROVE TicketQueue'
  <2>1. Queue' = Queue /\ \A y \in Ctx : Serving(y)' => Serving(y)
    BY <1>7 DEF IsrEnter, IsrExit, TypeOK, Queue, Waiting, Serving
  <2> QED
    BY <1>7, <2>1, QueueFrame DEF IsrEnter, IsrExit
<1>8. CASE UNCHANGED vars
  BY <1>8 DEF vars, TicketQueue, Queue, Waiting, Serving, Dist
<1> QED
  BY <1>1, <1>2, <1>3, <1>4, <1>5, <1>6, <1>7, <1>8 DEF Next, LockStep

\* Every step keeps the owner slot exact.
LEMMA OwnerStep == IInv /\ [Next]_vars => OwnerExact'
<1> SUFFICES ASSUME IInv, [Next]_vars PROVE OwnerExact'
  OBVIOUS
<1> USE DEF IInv, TypeOK, OwnerExact
<1>a. MutualExclusion
  BY QueueExcludes
<1>1. ASSUME NEW x \in Ctx, Check(x) \/ Take(x) \/ Served(x) \/ Advance(x)
      PROVE  OwnerExact'
  BY <1>1, ZenonT(30) DEF Check, Take, Served, Advance, Ctx
<1>2. ASSUME NEW x \in Ctx, Store(x) PROVE OwnerExact'
  <2>1. \A y \in Ctx : pc'[y] = "held" <=> y = x
    BY <1>2, <1>a DEF Store, MutualExclusion, Serving
  <2>2. PICK c \in CPU, l \in Level : x = <<c, l>>
    BY DEF Ctx
  <2>3. owner' = c
    BY <1>2, <2>2 DEF Store
  <2>4. \A d \in CPU, m \in Level : pc'[<<d, m>>] = "held" <=> d = c /\ m = l
    <3> TAKE d \in CPU, m \in Level
    <3>1. <<d, m>> \in Ctx
      BY DEF Ctx
    <3>2. <<d, m>> = x <=> d = c /\ m = l
      BY <2>2
    <3> QED
      BY <2>1, <3>1, <3>2
  <2> QED
    BY <2>2, <2>3, <2>4, Zenon
<1>3. ASSUME NEW x \in Ctx, ClearOwner(x) PROVE OwnerExact'
  <2>1. \A y \in Ctx : pc'[y] # "held"
    BY <1>3, <1>a DEF ClearOwner, MutualExclusion, Serving
  <2>2. owner = x[1]
    <3>1. PICK c \in CPU, l \in Level : x = <<c, l>>
      BY DEF Ctx
    <3> QED
      BY <1>3, <3>1 DEF ClearOwner
  <2>3. owner' \notin CPU
    BY <1>3, <2>2, OwnerAssumption DEF ClearOwner
  <2> QED
    BY <2>1, <2>3, Zenon DEF Ctx
<1>4. ASSUME NEW c \in CPU, IsrEnter(c) \/ IsrExit(c) PROVE OwnerExact'
  BY <1>4, Zenon DEF IsrEnter, IsrExit, Ctx
<1>5. CASE UNCHANGED vars
  BY <1>5 DEF vars
<1> QED
  BY <1>1, <1>2, <1>3, <1>4, <1>5, Zenon DEF Next, LockStep

-----------------------------------------------------------------------------
\* The inductive invariant holds in every behaviour of the lock.
THEOREM LockInvariant == Spec => []IInv
<1>1. IInv /\ [Next]_vars => IInv'
  BY TypeStep, QueueStep, OwnerStep DEF IInv
<1> QED
  BY InitInv, <1>1, PTL DEF Spec

\* The counters stay u32 values and the owner slot names a CPU or nobody.
THEOREM LockTyped == Spec => []TypeOK
<1>1. IInv => TypeOK
  BY DEF IInv
<1> QED
  BY <1>1, LockInvariant, PTL

\* lock_prcb and unlock_prcb exclude each other's critical sections, whatever
\* the number of CPUs, the interrupts and the wraps of the u32 counters.
THEOREM LockExcludes == Spec => []MutualExclusion
<1>1. IInv => MutualExclusion
  BY QueueExcludes DEF IInv
<1> QED
  BY LockInvariant, <1>1, PTL

\* The owner slot is exact, so the compare_exchange of unlock_prcb never fails.
THEOREM LockOwner == Spec => []OwnerExact
<1>1. IInv => OwnerExact
  BY DEF IInv
<1> QED
  BY LockInvariant, <1>1, PTL

\* No ticket is skipped and none is outstanding twice.
THEOREM LockTickets == Spec => []TicketQueue
<1>1. IInv => TicketQueue
  BY DEF IInv
<1> QED
  BY LockInvariant, <1>1, PTL

-----------------------------------------------------------------------------
(* The lock implements FifoLock *)

\* A step that moves no ticket and lets nobody in or out is not seen by the users.
LEMMA FifoFrame ==
  ASSUME Queue' = Queue, Inside' = Inside, UNCHANGED <<serving, ticket>>
  PROVE  UNCHANGED Fifo!fifoVars
<1>1. \A x \in Ctx : Ahead(x)' = Ahead(x)
  BY DEF Ahead, Dist
<1>2. [x \in Ctx |-> Ahead(x)]' = [x \in Ctx |-> Ahead(x)]
  BY <1>1
<1> QED
  BY <1>2 DEF Fifo!fifoVars

\* The fetch_add on PRCB_LOCK_NEXT puts the caller behind everybody else.
LEMMA TakeAsks ==
  ASSUME IInv, NEW x \in Ctx, Take(x)
  PROVE  Fifo!Ask(x)
<1> USE DEF IInv
<1>1. x \notin Queue /\ Queue' = Queue \cup {x} /\ Inside' = Inside
  BY DEF Take, TypeOK, Queue, Inside, Waiting, Serving
<1>2. /\ ticket'[x] = next /\ serving' = serving
      /\ \A y \in Queue : ticket'[y] = ticket[y]
  BY <1>1 DEF Take, TypeOK, Queue
<1>3. /\ Dist(next, serving) \in Int
      /\ \A y \in Queue : /\ Dist(ticket[y], serving) \in Int
                          /\ Dist(ticket[y], serving) < Dist(next, serving)
  BY DistType DEF TypeOK, TicketQueue, Queue, Ticket
<1>4. Ahead(x)' = Queue
  BY <1>1, <1>2, <1>3 DEF Ahead, Dist
<1>5. ASSUME NEW y \in Ctx, y # x PROVE Ahead(y)' = Ahead(y)
  BY <1>1, <1>2, <1>3, <1>5 DEF Ahead, Dist
<1>6. [y \in Ctx |-> Ahead(y)]' = [[y \in Ctx |-> Ahead(y)] EXCEPT ![x] = Queue]
  BY <1>4, <1>5, Zenon
<1> QED
  BY <1>1, <1>6 DEF Fifo!Ask

\* The spin ends for the caller nobody is ahead of.
LEMMA ServedEnters ==
  ASSUME IInv, NEW x \in Ctx, Served(x)
  PROVE  Fifo!Enter(x)
<1> USE DEF IInv
<1>1. x \in Queue /\ x \notin Inside /\ Queue' = Queue /\ Inside' = Inside \cup {x}
  BY DEF Served, TypeOK, Queue, Inside, Waiting, Serving
<1>2. serving' = serving /\ ticket' = ticket /\ ticket[x] = serving
  BY DEF Served
<1>3. Dist(ticket[x], serving) = 0
  BY <1>2, DistType DEF TypeOK
<1>4. \A y \in Queue : ~(Dist(ticket[y], serving) < 0)
  BY DistType DEF TypeOK, Queue, Ticket
<1>5. Ahead(x) = {}
  BY <1>3, <1>4 DEF Ahead
<1>6. \A y \in Ctx : Ahead(y)' = Ahead(y)
  BY <1>1, <1>2 DEF Ahead, Dist
<1>7. [y \in Ctx |-> Ahead(y)]' = [y \in Ctx |-> Ahead(y)]
  BY <1>6
<1> QED
  BY <1>1, <1>5, <1>7 DEF Fifo!Enter

\* The fetch_add on PRCB_LOCK_SERVING takes the caller from before everybody else
\* and leaves their order as it is.
LEMMA AdvanceLeaves ==
  ASSUME IInv, NEW x \in Ctx, Advance(x)
  PROVE  Fifo!Leave(x)
<1> USE DEF IInv
<1>1. /\ x \in Queue /\ x \in Inside /\ ticket[x] = serving
      /\ Queue' = Queue \ {x} /\ Inside' = Inside \ {x}
  BY DEF Advance, TypeOK, Queue, Inside, Waiting, Serving, TicketQueue
<1>2. \A y \in Queue \ {x} : ticket'[y] = ticket[y] /\ ticket[y] # serving /\ ticket[y] \in Ticket
  BY <1>1 DEF Advance, TypeOK, Queue, TicketQueue
<1>3. \A y \in Queue \ {x} : Dist(ticket'[y], serving') = Dist(ticket[y], serving) - 1
  BY <1>2, DistServe DEF Advance, TypeOK
<1>4. \A y \in Queue : Dist(ticket[y], serving) \in Int
  BY DistType DEF TypeOK, Queue, Ticket
<1>5. ASSUME NEW y \in Ctx PROVE Ahead(y)' = Ahead(y) \ {x}
  <2>1. CASE y = x
    <3>1. Dist(ticket[x], serving) = 0
      BY <1>1, DistType DEF TypeOK
    <3>2. \A z \in Queue : ~(Dist(ticket[z], serving) < 0)
      BY DistType DEF TypeOK, Queue, Ticket
    <3>3. Ahead(x) = {}
      BY <3>1, <3>2 DEF Ahead
    <3>4. Ahead(x)' = {}
      BY <1>1 DEF Ahead
    <3> QED
      BY <2>1, <3>3, <3>4
  <2>2. CASE y # x
    <3>1. \A z \in Queue \ {x} : y \in Queue =>
             (Dist(ticket'[z], serving') < Dist(ticket'[y], serving')
                <=> Dist(ticket[z], serving) < Dist(ticket[y], serving))
      BY <1>3, <1>4, <2>2
    <3>2. Ahead(y)' = {z \in Queue' : y \in Queue' /\ Dist(ticket'[z], serving') < Dist(ticket'[y], serving')}
      BY DEF Ahead, Dist
    <3> QED
      BY <1>1, <2>2, <3>1, <3>2 DEF Ahead
  <2> QED
    BY <2>1, <2>2
<1>6. [y \in Ctx |-> Ahead(y)]' = [y \in Ctx |-> [z \in Ctx |-> Ahead(z)][y] \ {x}]
  BY <1>5
<1> QED
  BY <1>1, <1>6 DEF Fifo!Leave

\* Every step of lock_prcb and unlock_prcb is one of FifoLock, or does not show.
LEMMA FifoStep == IInv /\ [Next]_vars => [Fifo!Next]_(Fifo!fifoVars)
<1> SUFFICES ASSUME IInv, [Next]_vars PROVE [Fifo!Next]_(Fifo!fifoVars)
  OBVIOUS
<1> USE DEF IInv
<1>1. ASSUME NEW x \in Ctx, Take(x) \/ Served(x) \/ Advance(x) PROVE Fifo!Next
  BY <1>1, TakeAsks, ServedEnters, AdvanceLeaves DEF Fifo!Next
<1>2. ASSUME NEW x \in Ctx, Check(x) \/ Store(x) PROVE UNCHANGED Fifo!fifoVars
  <2>1. Queue' = Queue /\ Inside' = Inside
    BY <1>2 DEF Check, Store, TypeOK, Queue, Inside, Waiting, Serving
  <2> QED
    BY <1>2, <2>1, FifoFrame DEF Check, Store
<1>3. ASSUME NEW x \in Ctx, ClearOwner(x) PROVE UNCHANGED Fifo!fifoVars
  <2>1. owner = x[1]
    BY <1>3 DEF ClearOwner, OwnerExact, Ctx
  <2>2. Queue' = Queue /\ Inside' = Inside
    BY <1>3, <2>1 DEF ClearOwner, TypeOK, Queue, Inside, Waiting, Serving
  <2> QED
    BY <1>3, <2>2, FifoFrame DEF ClearOwner
<1>4. ASSUME NEW c \in CPU, IsrEnter(c) \/ IsrExit(c) PROVE UNCHANGED Fifo!fifoVars
  <2>1. Queue' = Queue /\ Inside' = Inside
    BY <1>4 DEF IsrEnter, IsrExit, TypeOK, Queue, Inside, Waiting, Serving
  <2> QED
    BY <1>4, <2>1, FifoFrame DEF IsrEnter, IsrExit
<1>5. CASE UNCHANGED vars
  <2>1. Queue' = Queue /\ Inside' = Inside
    BY <1>5 DEF vars, Queue, Inside, Waiting, Serving
  <2> QED
    BY <1>5, <2>1, FifoFrame DEF vars
<1> QED
  BY <1>1, <1>2, <1>3, <1>4, <1>5 DEF Next, LockStep

\* The tickets are handed out in FIFO order, as the comment on lock_prcb says: for
\* any number of CPUs and any width of the counters that can number their contexts,
\* callers get the lock one at a time, in the order of their fetch_add.
THEOREM LockIsFifo == Spec => ImplementsFifo
<1>1. Init => Fifo!Init
  <2>1. ASSUME Init PROVE Queue = {} /\ Inside = {}
    BY <2>1 DEF Init, Queue, Inside, Waiting, Serving, Ctx, Level
  <2>2. ASSUME Init PROVE [x \in Ctx |-> Ahead(x)] = [x \in Ctx |-> {}]
    BY <2>1, <2>2 DEF Ahead
  <2> QED
    BY <2>1, <2>2 DEF Fifo!Init
<1>2. IInv /\ [Next]_vars => [Fifo!Next]_(Fifo!fifoVars)
  BY FifoStep
<1> QED
  BY LockInvariant, <1>1, <1>2, PTL DEF Spec, ImplementsFifo, Fifo!Spec
=============================================================================
