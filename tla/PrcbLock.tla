------------------------------ MODULE PrcbLock ------------------------------
(***************************************************************************)
(* The per-CPU dispatcher lock of ke/scheduler.rs: lock_prcb and           *)
(* unlock_prcb.  It is a ticket spinlock (PRCB_LOCK_NEXT, PRCB_LOCK_SERVING*)
(* are wrapping AtomicU32 counters) with an owner slot (PRCB_LOCK_STATES)  *)
(* that lock_prcb reads first to detect a re-entrant acquisition.          *)
(*                                                                         *)
(* One lock of the array is modelled; the locks share nothing.  A CPU runs *)
(* thread-level code, and the clock ISR on top of it: the ISR exit path    *)
(* calls dispatch_pending_reschedule, which calls schedule, which calls    *)
(* lock_prcb.  While the ISR is active the code it interrupted does not    *)
(* move.  lock_prcb does not change the IRQL and masks nothing, so the     *)
(* interrupt may arrive between any two of its steps.                      *)
(***************************************************************************)
EXTENDS Integers, FiniteSets

CONSTANTS
    CPU,        \* the processors that use the lock
    TicketMod   \* the counters wrap at TicketMod (2^32 in the code)

Level == {"thread", "isr"}
Ctx == CPU \X Level

\* Fewer contexts than ticket values.  The code has at most 2 * 64 of the
\* former and 2^32 of the latter.
ASSUME TicketAssumption ==
    /\ IsFiniteSet(Ctx)
    /\ TicketMod \in Nat
    /\ Cardinality(Ctx) < TicketMod

NoOwner == "none"

\* An owner is a CPU number plus one in the code, so never the free value.
ASSUME OwnerAssumption == NoOwner \notin CPU

VARIABLES
    next,       \* PRCB_LOCK_NEXT
    serving,    \* PRCB_LOCK_SERVING
    owner,      \* PRCB_LOCK_STATES: the owning CPU, or NoOwner
    pc,         \* where each context is in lock_prcb / unlock_prcb
    ticket      \* lock_prcb's local variable, 0 when out of scope

vars == <<next, serving, owner, pc, ticket>>

Ticket == 0 .. TicketMod - 1
\* "off": no ISR is running at this level; "out": outside the lock.
PC == {"off", "out", "take", "spin", "store", "held", "advance"}

\* Mutant of Inc: a counter that does not wrap.
IncUnbounded(n) == n + 1

\* fetch_add(1) on an AtomicU32 wraps.
Inc(n) == IF n = TicketMod - 1 THEN 0 ELSE n + 1

\* Thread-level code stands still while an ISR runs on its CPU.
Active(x) == x[2] = "isr" \/ pc[<<x[1], "isr">>] = "off"

TypeOK ==
    /\ next \in Ticket /\ serving \in Ticket
    /\ owner \in CPU \cup {NoOwner}
    /\ pc \in [Ctx -> PC]
    /\ ticket \in [Ctx -> Ticket]

Init ==
    /\ next = 0 /\ serving = 0 /\ owner = NoOwner
    /\ pc = [x \in Ctx |-> IF x[2] = "isr" THEN "off" ELSE "out"]
    /\ ticket = [x \in Ctx |-> 0]

-----------------------------------------------------------------------------
(* lock_prcb *)

\* The re-entrancy test: an owner that asks again is refused at once.
Check(x) ==
    /\ pc[x] = "out" /\ Active(x)
    /\ owner # x[1]
    /\ pc' = [pc EXCEPT ![x] = "take"]
    /\ UNCHANGED <<next, serving, owner, ticket>>

Take(x) ==
    /\ pc[x] = "take" /\ Active(x)
    /\ ticket' = [ticket EXCEPT ![x] = next]
    /\ next' = Inc(next)
    /\ pc' = [pc EXCEPT ![x] = "spin"]
    /\ UNCHANGED <<serving, owner>>

\* Mutant of Served: the spin compares with >=, which a wrap of PRCB_LOCK_NEXT
\* satisfies too early.
ServedAtLeast(x) ==
    /\ pc[x] = "spin" /\ Active(x)
    /\ serving >= ticket[x]
    /\ pc' = [pc EXCEPT ![x] = "store"]
    /\ UNCHANGED <<next, serving, owner, ticket>>

\* The spin loop leaves when the load sees its own ticket.
Served(x) ==
    /\ pc[x] = "spin" /\ Active(x)
    /\ serving = ticket[x]
    /\ pc' = [pc EXCEPT ![x] = "store"]
    /\ UNCHANGED <<next, serving, owner, ticket>>

Store(x) ==
    /\ pc[x] = "store" /\ Active(x)
    /\ owner' = x[1]
    /\ pc' = [pc EXCEPT ![x] = "held"]
    /\ UNCHANGED <<next, serving, ticket>>

-----------------------------------------------------------------------------
(* unlock_prcb *)

\* Mutant of ClearOwner: the owner slot is not reset.
KeepOwner(x) ==
    /\ pc[x] = "held" /\ Active(x)
    /\ pc' = [pc EXCEPT ![x] = "advance"]
    /\ UNCHANGED <<next, serving, owner, ticket>>

\* compare_exchange(owner, 0): only a successful exchange goes on to serve the
\* next ticket; a failed one silently leaves the lock taken.
ClearOwner(x) ==
    /\ pc[x] = "held" /\ Active(x)
    /\ owner' = IF owner = x[1] THEN NoOwner ELSE owner
    /\ pc' = [pc EXCEPT ![x] = IF owner = x[1] THEN "advance" ELSE "out"]
    /\ UNCHANGED <<next, serving, ticket>>

\* Mutant of Advance: the lock is left without serving the next ticket.
AdvanceNothing(x) ==
    /\ pc[x] = "advance" /\ Active(x)
    /\ pc' = [pc EXCEPT ![x] = "out"]
    /\ ticket' = [ticket EXCEPT ![x] = 0]
    /\ UNCHANGED <<next, serving, owner>>

Advance(x) ==
    /\ pc[x] = "advance" /\ Active(x)
    /\ serving' = Inc(serving)
    /\ pc' = [pc EXCEPT ![x] = "out"]
    /\ ticket' = [ticket EXCEPT ![x] = 0]
    /\ UNCHANGED <<next, owner>>

-----------------------------------------------------------------------------
(* The clock ISR: entered between any two steps of the thread-level code, and *)
(* left only when its own dispatch attempt is over.                           *)

IsrEnter(c) ==
    /\ pc[<<c, "isr">>] = "off"
    /\ pc' = [pc EXCEPT ![<<c, "isr">>] = "out"]
    /\ UNCHANGED <<next, serving, owner, ticket>>

IsrExit(c) ==
    /\ pc[<<c, "isr">>] = "out"
    /\ pc' = [pc EXCEPT ![<<c, "isr">>] = "off"]
    /\ UNCHANGED <<next, serving, owner, ticket>>

LockStep(x) == Take(x) \/ Served(x) \/ Store(x) \/ ClearOwner(x) \/ Advance(x)

Next ==
    \/ \E x \in Ctx : Check(x) \/ LockStep(x)
    \/ \E c \in CPU : IsrEnter(c) \/ IsrExit(c)

\* A context that entered lock_prcb keeps executing, and an ISR returns when it
\* can; interrupts do not arrive so fast that the interrupted code never moves.
Fairness ==
    /\ \A x \in Ctx : SF_vars(LockStep(x))
    /\ \A c \in CPU : WF_vars(IsrExit(c))

Spec == Init /\ [][Next]_vars /\ Fairness

-----------------------------------------------------------------------------
(* Properties *)

Waiting(x) == pc[x] = "spin"
Serving(x) == pc[x] \in {"store", "held", "advance"}

\* The contexts that drew a ticket and have not yet passed it on.
Queue == {x \in Ctx : Waiting(x) \/ Serving(x)}

\* How many tickets separate n from the one being served, across a wrap.
Dist(n, s) == IF n >= s THEN n - s ELSE n - s + TicketMod

\* The outstanding tickets are exactly the ones from PRCB_LOCK_SERVING up to
\* PRCB_LOCK_NEXT, each drawn by one context, across any wrap of the counters:
\* no ticket is skipped (the lock would hang) and none is handed out twice.
TicketQueue ==
    /\ \A x \in Ctx : Serving(x) => ticket[x] = serving
    /\ \A x \in Queue : Dist(ticket[x], serving) < Dist(next, serving)
    /\ \A x, y \in Queue : ticket[x] = ticket[y] => x = y
    /\ Cardinality(Queue) = Dist(next, serving)

\* At most one context is between the end of its spin in lock_prcb and the end
\* of its unlock_prcb, however often the two counters have wrapped.
MutualExclusion == \A x, y \in Ctx : Serving(x) /\ Serving(y) => x = y

\* The owner slot names a CPU exactly while one of its contexts holds the lock:
\* unlock_prcb's compare_exchange therefore never fails, and lock_prcb's
\* re-entrancy test never refuses a CPU that holds nothing.
OwnerExact ==
    \A c \in CPU : owner = c <=> \E l \in Level : pc[<<c, l>>] = "held"

\* Who drew a ticket before x and has not passed it on: the users of the lock that
\* are nearer to PRCB_LOCK_SERVING than x is.
Ahead(x) ==
    {y \in Queue : x \in Queue /\ Dist(ticket[y], serving) < Dist(ticket[x], serving)}

Inside == {x \in Ctx : Serving(x)}

Fifo == INSTANCE FifoLock WITH
    User <- Ctx, asked <- Queue, inside <- Inside, ahead <- [x \in Ctx |-> Ahead(x)]

\* "Hand out tickets in FIFO order": lock_prcb lets its callers in one at a time
\* and in the order of their fetch_add, whatever the wraps of the two counters.
ImplementsFifo == Fifo!Spec

\* An ISR that spins for a ticket queued behind its own interrupted CPU: the
\* code that must advance PRCB_LOCK_SERVING cannot run before the ISR returns.
SelfDeadlock(c) ==
    /\ Waiting(<<c, "isr">>)
    /\ pc[<<c, "thread">>] \in {"spin", "store", "held", "advance"}

\* lock_prcb's owner slot makes a re-entrant acquisition by the CPU that is
\* already using the lock detectable: it never ends in a silent deadlock.
ReentryDetected == \A c \in CPU : ~SelfDeadlock(c)

\* Tickets are served in FIFO order, so a CPU that took one in lock_prcb gets
\* the lock; the re-entrant spin above is the only way to wait for ever.
NoStarvation ==
    \A x \in Ctx : Waiting(x) ~> (pc[x] = "held" \/ \E c \in CPU : SelfDeadlock(c))
=============================================================================
