-------------------------------- MODULE Dpc --------------------------------
(***************************************************************************)
(* Deferred procedure calls, ke/dpc.rs.  One array of slots, shared by all *)
(* CPUs, holds copies of the queued DPCs; DPC_QUEUE_LOCK guards it, so the *)
(* code between a lock and its release is one action.  drain takes the     *)
(* lock twice and runs the routines in between without it, and updates     *)
(* DPC_NEEDED after both.  DPCs are queued and removed by any CPU at any   *)
(* of these points, by a running routine included.                         *)
(***************************************************************************)
EXTENDS Naturals, FiniteSets, FiniteSetsExt

CONSTANTS
    CPU,        \* the CPUs whose clock ISR retires DPCs
    SlotCount,  \* MAX_DPCS
    Object,     \* DPC objects: distinct (routine, context) pairs
    Bare,       \* the objects whose routine is None (Dpc::new, never initialised)
    MaxInserts  \* bound on the insertions of a behaviour

ASSUME DpcAssumption ==
    /\ IsFiniteSet(CPU)
    /\ SlotCount \in Nat \ {0}
    /\ Bare \subseteq Object
    /\ MaxInserts \in Nat

Slot == 1 .. SlotCount
\* Insertions are numbered to tell apart two insertions of one object.  The
\* number doubles as INSERT_COUNT.
Serial == 1 .. MaxInserts
None == 0
NoObject == "none"
Empty == [object |-> NoObject, serial |-> None, inserted |-> FALSE, fired |-> FALSE]

VARIABLES
    slot,       \* the backing array (dpc_array)
    needed,     \* DPC_NEEDED
    inserts,    \* INSERT_COUNT
    fires,      \* FIRE_COUNT
    pc,         \* where each CPU is in ki_retire_dpc_list / drain
    pending,    \* drain's local array: the insertion collected from each slot
    todo,       \* the collected slots whose routine has not run yet
    runs,       \* how often the routine of each insertion was called
    removed,    \* the insertions a remove_dpc took out
    tornOut     \* those among them that a drain had already collected

vars == <<slot, needed, inserts, fires, pc, pending, todo, runs, removed, tornOut>>

PC == {"idle", "collect", "run", "clear", "reset", "recheck"}

TypeOK ==
    /\ slot \in [Slot -> [object : Object \cup {NoObject}, serial : Serial \cup {None},
                          inserted : BOOLEAN, fired : BOOLEAN]]
    /\ needed \in BOOLEAN
    /\ inserts \in 0 .. MaxInserts /\ fires \in 0 .. MaxInserts
    /\ pc \in [CPU -> PC]
    /\ pending \in [CPU -> [Slot -> Serial \cup {None}]]
    /\ todo \in [CPU -> SUBSET Slot]
    /\ runs \in [Serial -> Nat]
    /\ removed \subseteq Serial /\ tornOut \subseteq removed

NothingPending == [i \in Slot |-> None]

Init ==
    /\ slot = [i \in Slot |-> Empty]
    /\ needed = FALSE /\ inserts = 0 /\ fires = 0
    /\ pc = [c \in CPU |-> "idle"]
    /\ pending = [c \in CPU |-> NothingPending]
    /\ todo = [c \in CPU |-> {}]
    /\ runs = [n \in Serial |-> 0]
    /\ removed = {} /\ tornOut = {}

-----------------------------------------------------------------------------
(* Queueing *)

\* Mutant of Free: a slot whose DPC is being drained is taken for free.
FreeOnceFired(i) == ~slot[i].inserted \/ slot[i].fired

\* A slot counts as free when it is not inserted; `fired` is not looked at.
Free(i) == ~slot[i].inserted

\* insert and ke_insert_queue_dpc: the first free slot takes a copy of the DPC.
\* With no free slot both fail and change nothing.
Insert(d) ==
    /\ inserts < MaxInserts
    /\ \E i \in Slot :
        /\ Free(i) /\ \A j \in 1 .. i - 1 : ~Free(j)
        /\ slot' = [slot EXCEPT ![i] = [object |-> d, serial |-> inserts + 1,
                                        inserted |-> TRUE, fired |-> FALSE]]
    /\ inserts' = inserts + 1
    /\ needed' = TRUE
    /\ UNCHANGED <<fires, pc, pending, todo, runs, removed, tornOut>>

\* Mutant of Remove: it reports success and leaves the slot inserted.
RemoveLeavesInserted(d) ==
    /\ \E i \in Slot :
        LET Match(j) == slot[j].inserted /\ slot[j].object = d
        IN  /\ Match(i) /\ \A j \in 1 .. i - 1 : ~Match(j)
            /\ removed' = removed \cup {slot[i].serial}
            /\ tornOut' = IF slot[i].fired THEN tornOut \cup {slot[i].serial} ELSE tornOut
    /\ UNCHANGED <<slot, needed, inserts, fires, pc, pending, todo, runs>>

\* remove_dpc: the first inserted slot with this routine and context, whether a
\* drain has collected it or not.  `fired` keeps its value.
Remove(d) ==
    /\ \E i \in Slot :
        LET Match(j) == slot[j].inserted /\ slot[j].object = d
        IN  /\ Match(i) /\ \A j \in 1 .. i - 1 : ~Match(j)
            /\ slot' = [slot EXCEPT ![i].inserted = FALSE, ![i].object = NoObject,
                                    ![i].serial = None]
            /\ removed' = removed \cup {slot[i].serial}
            /\ tornOut' = IF slot[i].fired THEN tornOut \cup {slot[i].serial} ELSE tornOut
    /\ UNCHANGED <<needed, inserts, fires, pc, pending, todo, runs>>

-----------------------------------------------------------------------------
(* ki_retire_dpc_list, and the phases of the drain it calls *)

\* The loop's first test; a CPU that finds DPC_NEEDED clear returns at once.
Retire(c) ==
    /\ pc[c] = "idle" /\ needed
    /\ pc' = [pc EXCEPT ![c] = "collect"]
    /\ UNCHANGED <<slot, needed, inserts, fires, pending, todo, runs, removed, tornOut>>

\* Mutant of Collect: the slots are not marked fired.
CollectUnmarked(c) ==
    LET ready == {i \in Slot : slot[i].inserted /\ ~slot[i].fired}
        callable == {i \in ready : slot[i].object \notin Bare}
    IN  /\ pc[c] = "collect"
        /\ pending' = [pending EXCEPT ![c] =
                          [i \in Slot |-> IF i \in callable THEN slot[i].serial ELSE None]]
        /\ todo' = [todo EXCEPT ![c] = callable]
        /\ pc' = [pc EXCEPT ![c] = "run"]
        /\ UNCHANGED <<slot, needed, inserts, fires, runs, removed, tornOut>>

\* Phase 1, under the lock: mark every queued slot fired, and remember those
\* that have a routine.
Collect(c) ==
    LET ready == {i \in Slot : slot[i].inserted /\ ~slot[i].fired}
        callable == {i \in ready : slot[i].object \notin Bare}
    IN  /\ pc[c] = "collect"
        /\ slot' = [i \in Slot |-> IF i \in ready THEN [slot[i] EXCEPT !.fired = TRUE]
                                                  ELSE slot[i]]
        /\ pending' = [pending EXCEPT ![c] =
                          [i \in Slot |-> IF i \in callable THEN slot[i].serial ELSE None]]
        /\ todo' = [todo EXCEPT ![c] = callable]
        /\ pc' = [pc EXCEPT ![c] = "run"]
        /\ UNCHANGED <<needed, inserts, fires, runs, removed, tornOut>>

\* Phase 2, no lock: call the collected routines in slot order.
Run(c) ==
    /\ pc[c] = "run" /\ todo[c] # {}
    /\ LET i == Min(todo[c])
       IN  /\ runs' = [runs EXCEPT ![pending[c][i]] = @ + 1]
           /\ todo' = [todo EXCEPT ![c] = @ \ {i}]
    /\ UNCHANGED <<slot, needed, inserts, fires, pc, pending, removed, tornOut>>

\* Mutant of Ran: phase 2 stops before it has called every routine.
RanSome(c) ==
    /\ pc[c] = "run"
    /\ todo' = [todo EXCEPT ![c] = {}]
    /\ pc' = [pc EXCEPT ![c] = "clear"]
    /\ UNCHANGED <<slot, needed, inserts, fires, pending, runs, removed, tornOut>>

Ran(c) ==
    /\ pc[c] = "run" /\ todo[c] = {}
    /\ pc' = [pc EXCEPT ![c] = "clear"]
    /\ UNCHANGED <<slot, needed, inserts, fires, pending, todo, runs, removed, tornOut>>

\* Mutant of Clear: the whole array is emptied.
ClearEverySlot(c) ==
    /\ pc[c] = "clear"
    /\ slot' = [i \in Slot |-> Empty]
    /\ pc' = [pc EXCEPT ![c] = "reset"]
    /\ UNCHANGED <<needed, inserts, fires, pending, todo, runs, removed, tornOut>>

\* Phase 3, under the lock: empty the slots phase 1 collected, whatever they
\* hold by now.
Clear(c) ==
    /\ pc[c] = "clear"
    /\ slot' = [i \in Slot |-> IF pending[c][i] # None THEN Empty ELSE slot[i]]
    /\ pc' = [pc EXCEPT ![c] = "reset"]
    /\ UNCHANGED <<needed, inserts, fires, pending, todo, runs, removed, tornOut>>

\* Mutant of Reset: every slot is counted as fired.
ResetCountsSlots(c) ==
    /\ pc[c] = "reset"
    /\ needed' = FALSE
    /\ fires' = fires + SlotCount
    /\ pending' = [pending EXCEPT ![c] = NothingPending]
    /\ pc' = [pc EXCEPT ![c] = "recheck"]
    /\ UNCHANGED <<slot, inserts, todo, runs, removed, tornOut>>

\* After the lock: DPC_NEEDED is cleared unconditionally, the count brought up.
Reset(c) ==
    /\ pc[c] = "reset"
    /\ needed' = FALSE
    /\ fires' = fires + Cardinality({i \in Slot : pending[c][i] # None})
    /\ pending' = [pending EXCEPT ![c] = NothingPending]
    /\ pc' = [pc EXCEPT ![c] = "recheck"]
    /\ UNCHANGED <<slot, inserts, todo, runs, removed, tornOut>>

\* The loop's second test, "more DPCs were queued while processing".
Recheck(c) ==
    /\ pc[c] = "recheck"
    /\ pc' = [pc EXCEPT ![c] = IF needed THEN "collect" ELSE "idle"]
    /\ UNCHANGED <<slot, needed, inserts, fires, pending, todo, runs, removed, tornOut>>

RetireStep(c) == Collect(c) \/ Run(c) \/ Ran(c) \/ Clear(c) \/ Reset(c) \/ Recheck(c)

Next ==
    \/ \E d \in Object : Insert(d) \/ Remove(d)
    \/ \E c \in CPU : Retire(c) \/ RetireStep(c)

\* A CPU inside ki_retire_dpc_list keeps executing it, and the clock ISR of
\* every CPU keeps calling it.
Fairness == \A c \in CPU : WF_vars(Retire(c)) /\ WF_vars(RetireStep(c))

Spec == Init /\ [][Next]_vars /\ Fairness

-----------------------------------------------------------------------------
(* Properties *)

Queued == {n \in Serial : \E i \in Slot : slot[i].inserted /\ slot[i].serial = n}
Collected == {n \in Serial : \E c \in CPU, i \in Slot : pending[c][i] = n}
Draining(c) == pc[c] # "idle"

\* drain marks slots fired "so a concurrent drain cannot double-run a routine":
\* the routine of one insertion is called at most once, with drains on several
\* CPUs, removals and re-insertions in any order.
NoDoubleRun == \A n \in Serial : runs[n] <= 1

\* Two drains never hold the same insertion, and an insertion a drain holds
\* stays marked fired in its slot until that drain clears the slot, unless
\* remove_dpc took it out.
CollectedOnce ==
    \A c \in CPU, i \in Slot : pending[c][i] # None =>
        /\ \A d \in CPU, j \in Slot : pending[d][j] = pending[c][i] => d = c /\ j = i
        /\ pc[c] \in {"run", "clear"} =>
              \/ slot[i].serial = pending[c][i] /\ slot[i].inserted /\ slot[i].fired
              \/ pending[c][i] \in removed
              \/ tornOut # {}

\* remove_dpc cancels a DPC that no drain has collected yet: its routine is not
\* called later, by whichever CPU, and whatever is put in the slot meanwhile.
RemovedNeverRuns == \A n \in removed \ tornOut : runs[n] = 0

\* As long as no remove_dpc hits a slot a drain has already collected, phase 3
\* of drain never empties a slot over a DPC that has not run: every insertion
\* is still queued, has been collected, was removed, or has run.
NothingLost ==
    tornOut = {} =>
        \A n \in 1 .. inserts : n \in Queued \cup Collected \cup removed \/ runs[n] = 1

\* INSERT_COUNT and FIRE_COUNT agree with the array once no drain is running:
\* what was inserted has fired, was removed, or still occupies a slot.
Accounting ==
    tornOut = {} /\ (\A c \in CPU : ~Draining(c)) =>
        inserts = fires + Cardinality(removed) + Cardinality(Queued)

\* Phase 2 gets to every DPC that phase 1 collected.
CollectedRuns == \A n \in Serial : n \in Collected ~> runs[n] = 1

\* ki_retire_dpc_list "processes all DPCs ... until the queue is empty": when
\* no CPU is in it and DPC_NEEDED is clear, no DPC is waiting to fire.
NoneStranded ==
    ~needed /\ (\A c \in CPU : ~Draining(c)) =>
        \A i \in Slot : slot[i].inserted => slot[i].fired
=============================================================================
