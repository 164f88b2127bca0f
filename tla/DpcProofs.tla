----------------------------- MODULE DpcProofs ------------------------------
(***************************************************************************)
(* No routine runs twice and no DPC is lost, for any number of CPUs, slots *)
(* and insertions.                                                         *)
(*                                                                         *)
(* None of the properties is inductive.  That a collected routine has not  *)
(* run before depends on who else may have collected it: nobody, because   *)
(* drain marks a slot fired before it gives up the lock (SlotInv), and a   *)
(* collected insertion is in one drain's array and one place of it only    *)
(* (DrainInv).  That phase 3 empties the slots it should depends on what   *)
(* the slots held since: RemovalInv says that only the removal of a        *)
(* collected DPC can have changed that.                                    *)
(***************************************************************************)
EXTENDS Dpc, FiniteSetTheorems, WellFoundedInduction, TLAPS

\* The state has its types; that fires stays in its range takes more.
Typed ==
    /\ slot \in [Slot -> [object : Object \cup {NoObject}, serial : Serial \cup {None},
                          inserted : BOOLEAN, fired : BOOLEAN]]
    /\ needed \in BOOLEAN
    /\ inserts \in 0 .. MaxInserts /\ fires \in Nat
    /\ pc \in [CPU -> PC]
    /\ pending \in [CPU -> [Slot -> Serial \cup {None}]]
    /\ todo \in [CPU -> SUBSET Slot]
    /\ runs \in [Serial -> Nat]
    /\ removed \subseteq Serial /\ tornOut \subseteq removed

Holds(c, i, n) == pending[c][i] = n

\* An insertion is in one slot at most.  A drain that holds it has marked it fired;
\* one that is not marked has not run; one that has run is in a slot only as long
\* as the drain that ran it has not cleared that slot.
SlotInv ==
    \A i \in Slot :
        /\ slot[i].inserted <=> slot[i].serial # None
        /\ slot[i].serial <= inserts
        /\ slot[i].inserted =>
              /\ \A j \in Slot : slot[j].serial = slot[i].serial => j = i
              /\ slot[i].serial \notin removed
              /\ \A c \in CPU, j \in Slot : Holds(c, j, slot[i].serial) => j = i /\ slot[i].fired
              /\ runs[slot[i].serial] # 0 =>
                    \E c \in CPU : Holds(c, i, slot[i].serial) /\ pc[c] \in {"run", "clear"}

\* What drains hold: each insertion once, and those still to be run have not run.
DrainInv ==
    \A c \in CPU :
        /\ pc[c] \in {"idle", "collect", "recheck"} => \A i \in Slot : Holds(c, i, None)
        /\ pc[c] # "run" => todo[c] = {}
        /\ \A i \in Slot : pending[c][i] <= inserts
        /\ \A i \in Slot : ~Holds(c, i, None) =>
              /\ runs[pending[c][i]] = IF i \in todo[c] THEN 0 ELSE 1
              /\ \A d \in CPU, j \in Slot : Holds(d, j, pending[c][i]) => d = c /\ j = i
        /\ \A i \in todo[c] : ~Holds(c, i, None)

\* A slot a drain holds keeps its DPC until that drain clears it, unless a
\* collected DPC was removed.  Only such a removal concerns a DPC that has run.
RemovalInv ==
    tornOut = {} =>
        /\ \A c \in CPU, i \in Slot :
              ~Holds(c, i, None) => /\ pending[c][i] \notin removed
                                    /\ pc[c] \in {"run", "clear"} =>
                                         slot[i].serial = pending[c][i] /\ slot[i].fired
        /\ \A n \in removed : runs[n] = 0
        /\ \A n \in 1 .. inserts : n \in Queued \cup Collected \cup removed \/ runs[n] = 1

\* The insertions whose routine has run and whose drain is over.
Done == {n \in Serial : runs[n] = 1} \ Collected

RunInv ==
    /\ \A n \in Serial : runs[n] \in {0, 1} /\ (n > inserts => runs[n] = 0)
    /\ \A n \in removed : n <= inserts

IInv == Typed /\ SlotInv /\ DrainInv /\ RemovalInv /\ RunInv /\ fires = Cardinality(Done)

-----------------------------------------------------------------------------
(* Every step preserves the invariant *)

\* A nonempty set of slots has a first one, so that phase 2 of drain, which goes
\* through the slots in order, is well defined.
LEMMA FirstSlot ==
    ASSUME NEW S \in SUBSET Slot, S # {}
    PROVE  Min(S) \in S
<1>1. S \subseteq Nat
    BY DpcAssumption DEF Slot
<1>2. PICK x \in S : \A y \in S : ~(<<y, x>> \in OpToRel(<, Nat))
    BY <1>1, WFMin, NatLessThanWellFounded
<1>3. ASSUME NEW y \in S
      PROVE  x <= y
    <2>1. x \in Nat /\ y \in Nat
        BY <1>1, <1>2
    <2>2. <<y, x>> \in Nat \X Nat /\ <<y, x>>[1] = y /\ <<y, x>>[2] = x
        BY <2>1
    <2>3. ~(y < x)
        BY <1>2, <2>2 DEF OpToRel
    <2> QED
        BY <2>1, <2>3
<1> QED
    BY <1>3 DEF Min

\* dpc_array starts empty, DPC_NEEDED clear and the counters at zero.
LEMMA InitInv ==
    ASSUME Init
    PROVE  IInv
<1> USE DEF Init, NothingPending, Empty
<1>1. Typed
    <2>1. slot \in [Slot -> [object : Object \cup {NoObject}, serial : Serial \cup {None},
                             inserted : BOOLEAN, fired : BOOLEAN]]
        OBVIOUS
    <2>2. inserts \in 0 .. MaxInserts /\ fires \in Nat
        BY DpcAssumption
    <2> QED
        BY <2>1, <2>2, Zenon DEF Typed, PC
<1>2. SlotInv
    BY DpcAssumption DEF SlotInv, Holds, None
<1>3. DrainInv
    BY DpcAssumption DEF DrainInv, Holds, None
<1>4. RemovalInv
    BY DpcAssumption DEF RemovalInv, Holds
<1>5. RunInv
    BY DEF RunInv
<1>6. Done = {}
    BY DEF Done
<1> QED
    BY <1>1, <1>2, <1>3, <1>4, <1>5, <1>6, FS_EmptySet DEF IInv

\* insert and ke_insert_queue_dpc number the insertion afresh: no slot and no drain
\* has it.
LEMMA InsertKeeps ==
    ASSUME IInv, NEW d \in Object, Insert(d)
    PROVE  IInv'
<1> USE DpcAssumption DEF Slot, Serial, None
<1> DEFINE new == inserts + 1
<1>1. Typed'
    BY SMTT(30), Z3T(30) DEF IInv, Typed, Insert
<1>2. PICK i \in Slot : /\ ~slot[i].inserted
                        /\ slot'[i].serial = new /\ slot'[i].inserted /\ ~slot'[i].fired
                        /\ \A j \in Slot : j # i => slot'[j] = slot[j]
    BY DEF IInv, Typed, Insert, Free
<1>3. /\ inserts' = new /\ new \in Serial
      /\ UNCHANGED <<fires, pc, pending, todo, runs, removed, tornOut>>
    BY DEF Insert, IInv, Typed
<1>4. /\ new \notin removed /\ runs[new] = 0
      /\ \A j \in Slot : slot[j].serial # new /\ slot[j].serial <= new
      /\ \A c \in CPU, j \in Slot : pending[c][j] # new /\ pending[c][j] <= new
    <2>1. new \notin removed /\ runs[new] = 0
        BY <1>3 DEF IInv, Typed, RunInv
    <2>2. ASSUME NEW j \in Slot
          PROVE  slot[j].serial # new /\ slot[j].serial <= new
        <3>1. slot[j].serial <= inserts /\ slot[j].serial \in Nat /\ inserts \in Nat
            BY <2>2 DEF IInv, Typed, SlotInv
        <3> QED
            BY <3>1
    <2>3. ASSUME NEW c \in CPU, NEW j \in Slot
          PROVE  pending[c][j] # new /\ pending[c][j] <= new
        <3>1. pending[c][j] <= inserts /\ pending[c][j] \in Nat /\ inserts \in Nat
            BY <2>3 DEF IInv, Typed, DrainInv
        <3> QED
            BY <3>1
    <2> QED
        BY <2>1, <2>2, <2>3
<1> HIDE DEF new
<1>5. SlotInv'
    <2>1. SUFFICES ASSUME NEW j \in Slot
                   PROVE  /\ slot'[j].inserted <=> slot'[j].serial # None
                          /\ slot'[j].serial <= new
                          /\ slot'[j].inserted =>
                                /\ \A k \in Slot : slot'[k].serial = slot'[j].serial => k = j
                                /\ slot'[j].serial \notin removed
                                /\ \A c \in CPU, k \in Slot :
                                      Holds(c, k, slot'[j].serial) => k = j /\ slot'[j].fired
                                /\ runs[slot'[j].serial] # 0 =>
                                      \E c \in CPU : /\ Holds(c, j, slot'[j].serial)
                                                     /\ pc[c] \in {"run", "clear"}
        BY <1>3 DEF SlotInv, Holds
    <2>2. CASE j = i
        BY <1>2, <1>3, <1>4, <2>2 DEF Holds
    <2>3. CASE j # i
        BY <1>2, <1>3, <1>4, <2>3 DEF Holds, SlotInv, IInv
    <2> QED
        BY <2>2, <2>3
<1>6. DrainInv'
    BY <1>3, <1>4 DEF IInv, DrainInv, Holds
<1>7. RemovalInv'
    <2>1. SUFFICES ASSUME tornOut = {}
                   PROVE  RemovalInv'
        BY <1>3 DEF RemovalInv
    <2>2. \A c \in CPU, j \in Slot :
             ~Holds(c, j, None) /\ pc[c] \in {"run", "clear"} => j # i
        BY <1>2, <2>1 DEF IInv, SlotInv, RemovalInv, Typed, Holds
    <2>3. Collected' = Collected /\ Queued' = Queued \cup {new}
        BY <1>2, <1>3 DEF Collected, Queued
    <2>4. 1 .. new = (1 .. inserts) \cup {new}
        BY DEF new, IInv, Typed
    <2> QED
        BY <1>2, <1>3, <2>1, <2>2, <2>3, <2>4 DEF IInv, RemovalInv, Holds
<1>8. RunInv'
    BY <1>3 DEF new, IInv, Typed, RunInv
<1>9. Done' = Done
    BY <1>3 DEF Done, Collected
<1> QED
    BY <1>1, <1>3, <1>5, <1>6, <1>7, <1>8, <1>9 DEF IInv

\* remove_dpc takes the DPC out of its one slot.
LEMMA RemoveKeeps ==
    ASSUME IInv, NEW d \in Object, Remove(d)
    PROVE  IInv'
<1> USE DpcAssumption DEF Remove, Slot, Serial, None
<1>1. Typed'
    BY SMTT(30), Z3T(30) DEF IInv, Typed, PC, SlotInv, DrainInv
<1>2. SlotInv'
    BY SMTT(30), Z3T(30) DEF IInv, Typed, SlotInv, DrainInv, RunInv, Holds
<1>3. DrainInv'
    BY SMTT(30), Z3T(30) DEF IInv, Typed, SlotInv, DrainInv, RunInv, Holds
<1>4. RemovalInv'
    BY SMTT(30), Z3T(30) DEF IInv, Typed, SlotInv, DrainInv, RunInv, RemovalInv, Queued, Collected, Holds
<1>5. RunInv'
    BY SMTT(30), Z3T(30) DEF IInv, Typed, SlotInv, DrainInv, RunInv, Holds
<1>6. fires' = Cardinality(Done)'
    BY SMTT(30), Z3T(30) DEF IInv, Typed, SlotInv, DrainInv, RunInv, Done, Collected, Holds
<1> QED
    BY <1>1, <1>2, <1>3, <1>4, <1>5, <1>6 DEF IInv

\* Phase 1 takes up only what no drain has marked.
LEMMA CollectKeeps ==
    ASSUME IInv, NEW c \in CPU, Collect(c)
    PROVE  IInv'
<1> USE DpcAssumption DEF Slot, Serial, None
<1> DEFINE ready == {i \in Slot : slot[i].inserted /\ ~slot[i].fired}
           callable == {i \in ready : slot[i].object \notin Bare}
<1>1. /\ pc[c] = "collect"
      /\ UNCHANGED <<needed, inserts, fires, runs, removed, tornOut>>
      /\ pc' = [pc EXCEPT ![c] = "run"]
      /\ todo' = [todo EXCEPT ![c] = callable]
      /\ pending' = [pending EXCEPT ![c] =
                        [i \in Slot |-> IF i \in callable THEN slot[i].serial ELSE None]]
      /\ slot' = [i \in Slot |-> IF i \in ready THEN [slot[i] EXCEPT !.fired = TRUE]
                                                ELSE slot[i]]
    BY DEF Collect
<1>2. callable \subseteq ready /\ ready \subseteq Slot
    OBVIOUS
<1>3. \A i \in ready : slot[i].inserted /\ ~slot[i].fired
    OBVIOUS
<1> HIDE DEF ready, callable
<1>4. Typed'
    <2>1. slot' \in [Slot -> [object : Object \cup {NoObject}, serial : Serial \cup {None},
                              inserted : BOOLEAN, fired : BOOLEAN]]
        BY <1>1, Zenon DEF IInv, Typed
    <2>2. pending' \in [CPU -> [Slot -> Serial \cup {None}]]
        BY <1>1 DEF IInv, Typed
    <2> QED
        BY <1>1, <1>2, <2>1, <2>2 DEF IInv, Typed, PC
<1>5. \A i \in Slot : /\ slot'[i].serial = slot[i].serial
                      /\ slot'[i].inserted = slot[i].inserted
                      /\ slot[i].fired \/ i \in ready => slot'[i].fired
    BY <1>1 DEF IInv, Typed
<1>6. /\ \A i \in Slot : pending'[c][i] = IF i \in callable THEN slot[i].serial ELSE None
      /\ \A d \in CPU : d # c => pending'[d] = pending[d]
      /\ todo'[c] = callable /\ pc'[c] = "run"
      /\ \A d \in CPU : d # c => todo'[d] = todo[d] /\ pc'[d] = pc[d]
    BY <1>1 DEF IInv, Typed
<1>7. \A i \in Slot : pending[c][i] = None
    BY <1>1 DEF IInv, DrainInv, Holds
<1>8. \A i \in ready : /\ slot[i].serial # None /\ slot[i].serial \in Serial
                       /\ runs[slot[i].serial] = 0
                       /\ slot[i].serial \notin removed
                       /\ slot[i].serial <= inserts
                       /\ \A d \in CPU, j \in Slot : pending[d][j] # slot[i].serial
                       /\ \A j \in Slot : slot[j].serial = slot[i].serial => j = i
    BY <1>2, <1>3 DEF IInv, Typed, SlotInv, Holds
<1>9. SlotInv'
    <2> SUFFICES ASSUME NEW i \in Slot
                 PROVE  /\ slot[i].inserted <=> slot[i].serial # None
                        /\ slot[i].serial <= inserts
                        /\ slot[i].inserted =>
                              /\ \A j \in Slot : slot[j].serial = slot[i].serial => j = i
                              /\ slot[i].serial \notin removed
                              /\ \A d \in CPU, j \in Slot :
                                    pending'[d][j] = slot[i].serial => j = i /\ slot'[i].fired
                              /\ runs[slot[i].serial] # 0 =>
                                    \E d \in CPU : /\ pending'[d][i] = slot[i].serial
                                                   /\ pc'[d] \in {"run", "clear"}
        BY <1>1, <1>5 DEF SlotInv, Holds
    <2>1. /\ slot[i].inserted <=> slot[i].serial # None
          /\ slot[i].serial <= inserts
          /\ slot[i].inserted =>
                /\ \A j \in Slot : slot[j].serial = slot[i].serial => j = i
                /\ slot[i].serial \notin removed
        BY DEF IInv, SlotInv
    <2>2. ASSUME slot[i].inserted, NEW d \in CPU, NEW j \in Slot, pending'[d][j] = slot[i].serial
          PROVE  j = i /\ slot'[i].fired
        <3>1. CASE d = c
            BY <1>2, <1>5, <1>6, <2>1, <2>2, <3>1
        <3>2. CASE d # c
            BY <1>5, <1>6, <2>2, <3>2 DEF IInv, SlotInv, Holds
        <3> QED
            BY <3>1, <3>2
    <2>3. ASSUME slot[i].inserted, runs[slot[i].serial] # 0
          PROVE  \E d \in CPU : pending'[d][i] = slot[i].serial /\ pc'[d] \in {"run", "clear"}
        <3>1. PICK d \in CPU : pending[d][i] = slot[i].serial /\ pc[d] \in {"run", "clear"}
            BY <2>3 DEF IInv, SlotInv, Holds
        <3> QED
            BY <1>1, <1>6, <3>1
    <2> QED
        BY <2>1, <2>2, <2>3
<1>10. DrainInv'
    <2>1. ASSUME NEW i \in Slot, pending'[c][i] # None
          PROVE  /\ runs[pending'[c][i]] = IF i \in todo'[c] THEN 0 ELSE 1
                 /\ \A d \in CPU, j \in Slot : pending'[d][j] = pending'[c][i] => d = c /\ j = i
        BY <1>2, <1>6, <1>8, <2>1, SMTT(30), Z3T(30)
    <2>2. ASSUME NEW d \in CPU, d # c, NEW i \in Slot, pending'[d][i] # None
          PROVE  /\ runs[pending'[d][i]] = IF i \in todo'[d] THEN 0 ELSE 1
                 /\ \A e \in CPU, j \in Slot : pending'[e][j] = pending'[d][i] => e = d /\ j = i
        BY <1>2, <1>6, <1>8, <2>2 DEF IInv, DrainInv, Holds
    <2>3. \A i \in callable : pending'[c][i] # None
        BY <1>2, <1>6, <1>8, Zenon
    <2>4. ASSUME NEW i \in Slot
          PROVE  pending'[c][i] <= inserts
        <3>1. inserts \in Nat
            BY DEF IInv, Typed
        <3>2. CASE i \in callable
            BY <1>2, <1>6, <1>8, <3>2
        <3>3. CASE i \notin callable
            BY <1>6, <3>1, <3>3
        <3> QED
            BY <3>2, <3>3
    <2>5. ASSUME NEW d \in CPU
          PROVE  /\ pc'[d] \in {"idle", "collect", "recheck"} => \A i \in Slot : pending'[d][i] = None
                 /\ pc'[d] # "run" => todo'[d] = {}
                 /\ \A i \in Slot : pending'[d][i] <= inserts
                 /\ \A i \in todo'[d] : pending'[d][i] # None
        BY <1>6, <2>3, <2>4, SMTT(30), Z3T(30) DEF IInv, DrainInv, Holds
    <2>6. ASSUME NEW d \in CPU, NEW i \in Slot, pending'[d][i] # None
          PROVE  /\ runs[pending'[d][i]] = IF i \in todo'[d] THEN 0 ELSE 1
                 /\ \A e \in CPU, j \in Slot : pending'[e][j] = pending'[d][i] => e = d /\ j = i
        BY <2>1, <2>2, <2>6
    <2>7. inserts' = inserts /\ runs' = runs
        BY <1>1
    <2> QED
        BY <2>5, <2>6, <2>7 DEF DrainInv, Holds
<1>11. RemovalInv'
    <2>1. Queued' = Queued
        BY <1>5 DEF Queued
    <2>2. Collected \subseteq Collected'
        BY <1>6, <1>7 DEF Collected
    <2>3. ASSUME tornOut = {}, NEW d \in CPU, NEW i \in Slot, pending'[d][i] # None
          PROVE  /\ pending'[d][i] \notin removed
                 /\ pc'[d] \in {"run", "clear"} =>
                      slot[i].serial = pending'[d][i] /\ slot'[i].fired
        <3>1. CASE d = c
            BY <1>2, <1>5, <1>6, <1>8, <2>3, <3>1, ZenonT(30)
        <3>2. CASE d # c
            BY <1>5, <1>6, <2>3, <3>2 DEF IInv, RemovalInv, Holds
        <3> QED
            BY <3>1, <3>2
    <2> QED
        BY <1>1, <1>5, <2>1, <2>2, <2>3 DEF IInv, RemovalInv, Holds
<1>12. RunInv'
    BY <1>1 DEF IInv, RunInv
<1>13. Done' = Done
    <2>1. \A n \in Collected' : n \in Collected \/ runs[n] = 0
        BY <1>2, <1>6, <1>8 DEF Collected
    <2>2. Collected \subseteq Collected'
        BY <1>6, <1>7 DEF Collected
    <2> QED
        BY <1>1, <2>1, <2>2 DEF Done
<1> QED
    BY <1>1, <1>4, <1>9, <1>10, <1>11, <1>12, <1>13 DEF IInv

\* Phase 2 runs a routine that has not run, because it was still to be run.
LEMMA RunKeeps ==
    ASSUME IInv, NEW c \in CPU, Run(c)
    PROVE  IInv'
<1> USE DpcAssumption DEF Slot, Serial, None
<1>1. PICK i \in todo[c] : i = Min(todo[c])
    BY FirstSlot, Zenon DEF IInv, Typed, Run
<1>2. PICK n \in Serial : n = pending[c][i] /\ runs[n] = 0
    BY <1>1 DEF IInv, Typed, DrainInv, Holds
<1>3. /\ runs' = [runs EXCEPT ![n] = 1]
      /\ todo' = [todo EXCEPT ![c] = @ \ {i}]
      /\ pc[c] = "run"
      /\ UNCHANGED <<slot, needed, inserts, fires, pc, pending, removed, tornOut>>
    BY <1>1, <1>2 DEF Run, IInv, Typed
<1>4. Typed'
    BY <1>3, Zenon DEF IInv, Typed
<1>5. SlotInv'
    BY <1>1, <1>2, <1>3, SMTT(30), Z3T(30) DEF IInv, Typed, SlotInv, DrainInv, Holds
<1>6. DrainInv'
    <2>1. Typed /\ DrainInv
        BY DEF IInv
    <2> QED
        BY <1>1, <1>2, <1>3, <2>1, SMTT(30), Z3T(30) DEF Typed, DrainInv, Holds
<1>7. RemovalInv'
    BY <1>1, <1>2, <1>3, SMTT(30), Z3T(30)
       DEF IInv, Typed, DrainInv, RemovalInv, Queued, Collected, Holds
<1>8. RunInv'
    BY <1>1, <1>2, <1>3, SMTT(30), Z3T(30) DEF IInv, Typed, DrainInv, RunInv
<1>9. Done' = Done
    <2>1. n \in Collected /\ Collected' = Collected
        BY <1>1, <1>2, <1>3 DEF Collected, IInv, Typed
    <2>2. \A m \in Serial : m # n => runs'[m] = runs[m]
        BY <1>3 DEF IInv, Typed
    <2> QED
        BY <2>1, <2>2 DEF Done
<1> QED
    BY <1>3, <1>4, <1>5, <1>6, <1>7, <1>8, <1>9 DEF IInv

\* Phase 3 empties the slots of what this drain has run, and of nothing else
\* unless a collected DPC was removed.
LEMMA ClearKeeps ==
    ASSUME IInv, NEW c \in CPU, Clear(c)
    PROVE  IInv'
<1> USE DpcAssumption DEF Slot, Serial, None
<1>1. /\ pc[c] = "clear" /\ pc' = [pc EXCEPT ![c] = "reset"]
      /\ UNCHANGED <<needed, inserts, fires, pending, todo, runs, removed, tornOut>>
      /\ \A i \in Slot : slot'[i] = IF pending[c][i] # None THEN Empty ELSE slot[i]
    BY DEF Clear
<1>2. Empty.serial = None /\ ~Empty.inserted
    BY DEF Empty
<1>3. Typed'
    BY Zenon DEF Clear, IInv, Typed, PC, Empty
<1>4. SlotInv'
    <2>1. SUFFICES ASSUME NEW i \in Slot
                   PROVE  /\ slot'[i].inserted <=> slot'[i].serial # None
                          /\ slot'[i].serial <= inserts
                          /\ slot'[i].inserted =>
                                /\ \A j \in Slot : slot'[j].serial = slot'[i].serial => j = i
                                /\ slot'[i].serial \notin removed
                                /\ \A d \in CPU, j \in Slot :
                                      pending[d][j] = slot'[i].serial => j = i /\ slot'[i].fired
                                /\ runs[slot'[i].serial] # 0 =>
                                      \E d \in CPU : /\ pending[d][i] = slot'[i].serial
                                                     /\ pc'[d] \in {"run", "clear"}
        BY <1>1 DEF SlotInv, Holds
    <2>2. CASE pending[c][i] # None
        BY <1>1, <1>2, <2>2, SMTT(30), Z3T(30) DEF IInv, Typed
    <2>3. CASE pending[c][i] = None
        <3>1. slot'[i] = slot[i] /\ (slot[i].inserted => slot[i].serial # None)
            BY <1>1, <2>3 DEF IInv, SlotInv
        <3>2. ASSUME slot[i].inserted, NEW j \in Slot, slot'[j].serial = slot[i].serial
              PROVE  j = i
            BY <1>1, <1>2, <3>1, <3>2 DEF IInv, SlotInv
        <3>3. ASSUME slot[i].inserted, runs[slot[i].serial] # 0
              PROVE  \E d \in CPU : pending[d][i] = slot[i].serial /\ pc'[d] \in {"run", "clear"}
            <4>1. PICK d \in CPU : pending[d][i] = slot[i].serial /\ pc[d] \in {"run", "clear"}
                BY <3>3 DEF IInv, SlotInv, Holds
            <4>2. d # c
                BY <2>3, <3>1, <3>3, <4>1, Zenon
            <4> QED
                BY <1>1, <4>1, <4>2 DEF IInv, Typed
        <3> QED
            BY <3>1, <3>2, <3>3, SMTT(30), Z3T(30) DEF IInv, SlotInv, Holds
    <2> QED
        BY <2>2, <2>3
<1>5. DrainInv'
    BY <1>1, SMTT(30), Z3T(30) DEF IInv, Typed, DrainInv, Holds
<1>6. RemovalInv'
    <2>1. SUFFICES ASSUME tornOut = {}
                   PROVE  RemovalInv'
        BY <1>1 DEF RemovalInv
    <2>2. ASSUME NEW d \in CPU, NEW i \in Slot, pending[d][i] # None, pc'[d] \in {"run", "clear"}
          PROVE  slot'[i] = slot[i] /\ pc[d] \in {"run", "clear"}
        <3>1. d # c /\ pc[d] \in {"run", "clear"}
            BY <1>1, <2>2, Zenon DEF IInv, Typed
        <3>2. pending[c][i] = None
            BY <1>1, <2>1, <2>2, <3>1, SMTT(30), Z3T(30) DEF IInv, RemovalInv, DrainInv, Holds
        <3> QED
            BY <1>1, <3>1, <3>2
    <2>3. Collected' = Collected
        BY <1>1 DEF Collected
    <2>4. \A n \in Queued : n \in Queued' \cup Collected
        <3>1. SUFFICES ASSUME NEW n \in Serial, NEW i \in Slot, slot[i].inserted,
                              slot[i].serial = n
                       PROVE  n \in Queued' \cup Collected
            BY DEF Queued
        <3>2. CASE pending[c][i] = None
            BY <1>1, <3>1, <3>2 DEF Queued
        <3>3. CASE pending[c][i] # None
            BY <1>1, <2>1, <3>1, <3>3, ZenonT(30) DEF Collected, IInv, RemovalInv, Holds
        <3> QED
            BY <3>2, <3>3
    <2> QED
        BY <1>1, <2>1, <2>2, <2>3, <2>4, SMTT(30), Z3T(30) DEF IInv, RemovalInv, Holds
<1>7. RunInv'
    BY <1>1 DEF IInv, RunInv
<1>8. Done' = Done
    BY <1>1 DEF Done, Collected
<1> QED
    BY <1>1, <1>3, <1>4, <1>5, <1>6, <1>7, <1>8, Zenon DEF IInv

\* drain counts what it has run and forgets it.
LEMMA ResetKeeps ==
    ASSUME IInv, NEW c \in CPU, Reset(c)
    PROVE  IInv'
<1> USE DpcAssumption DEF Slot, Serial, None
<1> DEFINE mine == {i \in Slot : pending[c][i] # None}
           ran == {n \in Serial : \E i \in mine : pending[c][i] = n}
<1>1. /\ pc[c] = "reset" /\ pc' = [pc EXCEPT ![c] = "recheck"] /\ needed' = FALSE
      /\ UNCHANGED <<slot, inserts, todo, runs, removed, tornOut>>
      /\ fires' = fires + Cardinality(mine)
      /\ pending' = [pending EXCEPT ![c] = [i \in Slot |-> None]]
    BY DEF Reset, NothingPending
<1>2. /\ todo[c] = {}
      /\ \A i \in mine : /\ pending[c][i] \in Serial /\ runs[pending[c][i]] = 1
                         /\ \A d \in CPU, j \in Slot :
                               pending[d][j] = pending[c][i] => d = c /\ j = i
    BY <1>1, SMTT(30), Z3T(30) DEF IInv, Typed, DrainInv, Holds
<1>3. /\ \A i \in Slot : pending'[c][i] = None
      /\ \A d \in CPU : d # c => pending'[d] = pending[d] /\ pc'[d] = pc[d]
      /\ pc'[c] = "recheck"
    BY <1>1 DEF IInv, Typed
<1>4. /\ IsFiniteSet(mine) /\ Cardinality(mine) \in Nat
      /\ IsFiniteSet(Serial)
    <2>1. IsFiniteSet(1 .. SlotCount) /\ IsFiniteSet(1 .. MaxInserts)
        BY FS_Interval
    <2>2. mine \subseteq 1 .. SlotCount
        OBVIOUS
    <2> HIDE DEF mine
    <2>3. IsFiniteSet(mine)
        BY <2>1, <2>2, FS_Subset, Zenon
    <2> QED
        BY <2>1, <2>3, FS_CardinalityType
<1>5. Typed'
    <2>1. fires' \in Nat
        BY <1>1, <1>4, SMTT(30), Z3T(30) DEF IInv, Typed
    <2> QED
        BY <1>1, <2>1, Zenon DEF IInv, Typed, PC
<1>6. SlotInv'
    <2>1. \A i \in Slot : slot[i].inserted => slot[i].serial # None
        BY Zenon DEF IInv, SlotInv
    <2>2. ASSUME NEW i \in Slot, slot[i].inserted, NEW d \in CPU, NEW j \in Slot,
                 pending'[d][j] = slot[i].serial
          PROVE  pending[d][j] = slot[i].serial
        BY <1>3, <2>1, <2>2
    <2>3. ASSUME NEW d \in CPU, pc[d] \in {"run", "clear"}
          PROVE  pending'[d] = pending[d] /\ pc'[d] = pc[d]
        BY <1>1, <1>3, <2>3, Zenon
    <2> QED
        BY <1>1, <2>2, <2>3, SMTT(30), Z3T(30) DEF IInv, SlotInv, Holds
<1>7. DrainInv'
    <2>1. ASSUME NEW d \in CPU, NEW i \in Slot, pending'[d][i] # None
          PROVE  d # c /\ pending'[d][i] = pending[d][i]
        BY <1>3, <2>1, Zenon
    <2>2. ASSUME NEW d \in CPU, NEW i \in Slot, pending'[d][i] # None,
                 NEW e \in CPU, NEW j \in Slot, pending'[e][j] = pending'[d][i]
          PROVE  e = d /\ j = i
        BY <2>1, <2>2, SMTT(30), Z3T(30) DEF IInv, DrainInv, Holds
    <2>3. \A i \in Slot : pending'[c][i] <= inserts
        BY <1>3, SMTT(30), Z3T(30) DEF IInv, Typed
    <2> QED
        BY <1>1, <1>2, <1>3, <2>1, <2>2, <2>3, SMTT(30), Z3T(30) DEF IInv, DrainInv, Holds
<1>8. RemovalInv'
    <2>1. Queued' = Queued
        BY <1>1 DEF Queued
    <2>2. \A n \in Collected : n \in Collected' \/ runs[n] = 1
        BY <1>2, <1>3, SMTT(30), Z3T(30) DEF Collected
    <2>3. ASSUME tornOut = {}, NEW d \in CPU, NEW i \in Slot, pending'[d][i] # None
          PROVE  /\ pending'[d][i] \notin removed
                 /\ pc'[d] \in {"run", "clear"} => slot[i].serial = pending'[d][i] /\ slot[i].fired
        BY <1>3, <2>3 DEF IInv, RemovalInv, Holds
    <2> QED
        BY <1>1, <2>1, <2>2, <2>3 DEF IInv, RemovalInv, Holds
<1>9. RunInv'
    BY <1>1 DEF IInv, RunInv
<1>10. Cardinality(Done') = Cardinality(Done) + Cardinality(mine)
    <2>1. Done' = Done \cup ran
        BY <1>1, <1>2, <1>3, SMTT(30), Z3T(30) DEF Done, Collected
    <2>2. Done \cap ran = {}
        BY <1>2 DEF Done, Collected
    <2>3. IsFiniteSet(Done) /\ IsFiniteSet(ran)
        BY <1>4, FS_Subset DEF Done
    <2>4. Cardinality(ran) = Cardinality(mine)
        <3> DEFINE f == [i \in mine |-> pending[c][i]]
        <3>1. f \in Bijection(mine, ran)
            BY <1>2 DEF Bijection, Injection, Surjection, IsInjective
        <3> HIDE DEF f, mine, ran
        <3> QED
            BY <1>4, <3>1, FS_Bijection, Zenon DEF ExistsBijection
    <2> HIDE DEF mine, ran
    <2>5. Cardinality(Done \cup ran) = Cardinality(Done) + Cardinality(ran) - 0
        BY <2>2, <2>3, FS_Union, FS_EmptySet
    <2>6. Cardinality(Done) \in Nat /\ Cardinality(ran) \in Nat
        BY <2>3, FS_CardinalityType
    <2> QED
        BY <2>1, <2>4, <2>5, <2>6, SMTT(30), Z3T(30)
<1> QED
    BY <1>1, <1>5, <1>6, <1>7, <1>8, <1>9, <1>10 DEF IInv

\* The two tests of ki_retire_dpc_list's loop, and the end of phase 2, only move
\* a CPU along.
LEMMA MovesKeep ==
    ASSUME IInv, NEW c \in CPU, Retire(c) \/ Ran(c) \/ Recheck(c)
    PROVE  IInv'
<1>1. UNCHANGED <<slot, inserts, fires, pending, todo, runs, removed, tornOut, needed>>
    BY DEF Retire, Ran, Recheck
<1>2. PICK l \in {"collect", "idle", "clear"} :
          /\ pc' = [pc EXCEPT ![c] = l]
          /\ IF l = "clear" THEN pc[c] = "run" /\ todo[c] = {} ELSE pc[c] \in {"idle", "recheck"}
    BY DEF Retire, Ran, Recheck
<1>3. Typed'
    BY <1>1, <1>2 DEF IInv, Typed, PC
<1>4. pc'[c] = l /\ \A d \in CPU : d # c => pc'[d] = pc[d]
    BY <1>2 DEF IInv, Typed
<1>5. /\ \A d \in CPU : pc[d] \in {"run", "clear"} => pc'[d] \in {"run", "clear"}
      /\ \A d \in CPU : pc'[d] \in {"run", "clear"} => pc[d] \in {"run", "clear"}
    BY <1>2, <1>4, Zenon
<1>6. SlotInv'
    BY <1>1, <1>5, SMTT(30), Z3T(30) DEF IInv, SlotInv, Holds
<1>7. DrainInv'
    <2>1. /\ \A d \in CPU : pc'[d] \in {"idle", "collect", "recheck"} =>
                               pc[d] \in {"idle", "collect", "recheck"}
          /\ \A d \in CPU : pc'[d] # "run" => todo[d] = {}
        BY <1>2, <1>4, Zenon DEF IInv, DrainInv
    <2> QED
        BY <1>1, <2>1, SMTT(30), Z3T(30) DEF IInv, DrainInv, Holds
<1>8. RemovalInv'
    BY <1>1, <1>5, SMTT(30), Z3T(30) DEF IInv, RemovalInv, Holds, Queued, Collected
<1>9. RunInv' /\ Done' = Done
    BY <1>1 DEF IInv, RunInv, Done, Collected
<1> QED
    BY <1>1, <1>3, <1>6, <1>7, <1>8, <1>9, Zenon DEF IInv

-----------------------------------------------------------------------------
(* The theorems *)

\* Whatever the CPUs, routines and interrupts do next, the invariant stays.
LEMMA NextInv ==
    ASSUME IInv, [Next]_vars
    PROVE  IInv'
<1>1. ASSUME NEW d \in Object, Insert(d)
      PROVE  IInv'
    BY <1>1, InsertKeeps
<1>2. ASSUME NEW d \in Object, Remove(d)
      PROVE  IInv'
    BY <1>2, RemoveKeeps
<1>3. ASSUME NEW c \in CPU, Retire(c) \/ Ran(c) \/ Recheck(c)
      PROVE  IInv'
    BY <1>3, MovesKeep
<1>4. ASSUME NEW c \in CPU, Collect(c) \/ Run(c)
      PROVE  IInv'
    BY <1>4, CollectKeeps, RunKeeps
<1>5. ASSUME NEW c \in CPU, Clear(c) \/ Reset(c)
      PROVE  IInv'
    BY <1>5, ClearKeeps, ResetKeeps
<1>6. CASE UNCHANGED vars
    <2>1. UNCHANGED <<slot, inserts, fires, pending, todo, pc, runs, removed, tornOut, needed>>
        BY <1>6, Zenon DEF vars
    <2>2. Typed' /\ SlotInv'
        BY <2>1, SMTT(30), Z3T(30) DEF IInv, Typed, SlotInv, Holds
    <2>3. DrainInv' /\ RunInv'
        BY <2>1, SMTT(30), Z3T(30) DEF IInv, DrainInv, RunInv, Holds
    <2>4. RemovalInv'
        BY <2>1 DEF IInv, RemovalInv, Holds, Queued, Collected
    <2>5. Done' = Done
        BY <2>1 DEF Done, Collected
    <2> QED
        BY <2>1, <2>2, <2>3, <2>4, <2>5 DEF IInv
<1> QED
    BY <1>1, <1>2, <1>3, <1>4, <1>5, <1>6 DEF Next, RetireStep

\* The inductive invariant of the DPC array, drain and the two counters holds
\* in every reachable state.
THEOREM Invariance == Spec => []IInv
    BY InitInv, NextInv, PTL DEF Spec

\* The counters, slots and drain's local arrays keep their types; FIRE_COUNT
\* never exceeds the number of insertions there can be.
THEOREM DpcTyped == Spec => []TypeOK
<1>1. ASSUME IInv
      PROVE  fires <= MaxInserts
    <2>1. Done \subseteq 1 .. MaxInserts
        BY DEF Done, Serial
    <2>2. IsFiniteSet(1 .. MaxInserts) /\ Cardinality(1 .. MaxInserts) = MaxInserts
        BY DpcAssumption, FS_Interval
    <2> QED
        BY <1>1, <2>1, <2>2, FS_Subset, Zenon DEF IInv
<1>2. IInv => TypeOK
    BY <1>1, DpcAssumption DEF IInv, Typed, TypeOK
<1> QED
    BY <1>2, Invariance, PTL

\* Marking slots fired is enough: with any number of CPUs in drain at once, and
\* routines that queue and remove DPCs, no insertion's routine runs twice.
THEOREM RunsOnce == Spec => []NoDoubleRun
<1>1. IInv => NoDoubleRun
    BY SMTT(30), Z3T(30) DEF IInv, RunInv, NoDoubleRun
<1> QED
    BY <1>1, Invariance, PTL

\* No two drains hold the same insertion, and a slot keeps what a drain took
\* from it until that drain clears it or remove_dpc interferes.
THEOREM OneCollector == Spec => []CollectedOnce
<1>1. ASSUME IInv, NEW c \in CPU, NEW i \in Slot, pending[c][i] # None
      PROVE  \A d \in CPU, j \in Slot : pending[d][j] = pending[c][i] => d = c /\ j = i
    BY <1>1, Zenon DEF IInv, DrainInv, Holds
<1>2. ASSUME IInv, NEW c \in CPU, NEW i \in Slot, pending[c][i] # None, tornOut = {},
             pc[c] \in {"run", "clear"}
      PROVE  slot[i].serial = pending[c][i] /\ slot[i].inserted /\ slot[i].fired
    <2>1. slot[i].serial = pending[c][i] /\ slot[i].fired
        BY <1>2, Zenon DEF IInv, RemovalInv, Holds
    <2> QED
        BY <1>2, <2>1 DEF IInv, SlotInv
<1>3. IInv => CollectedOnce
    BY <1>1, <1>2, Zenon DEF CollectedOnce
<1> QED
    BY <1>3, Invariance, PTL

\* Phase 3 of drain, which empties slots by index, loses no DPC as long as no
\* remove_dpc hits a slot that a drain has collected.
THEOREM NoneLost == Spec => []NothingLost
<1>1. IInv => NothingLost
    BY DEF IInv, RemovalInv, NothingLost
<1> QED
    BY <1>1, Invariance, PTL

\* Under the same condition INSERT_COUNT, FIRE_COUNT and the array agree whenever
\* no drain is running.
THEOREM CountersAccount == Spec => []Accounting
<1>1. ASSUME IInv, tornOut = {}, \A c \in CPU : ~Draining(c)
      PROVE  inserts = fires + Cardinality(removed) + Cardinality(Queued)
    <2> USE DpcAssumption DEF Serial, None
    <2>1. inserts \in Nat /\ fires = Cardinality(Done)
        BY <1>1 DEF IInv, Typed
    <2>2. Collected = {}
        BY <1>1 DEF IInv, DrainInv, Collected, Draining, Holds
    <2>3. 1 .. inserts = (Done \cup removed) \cup Queued
        <3>1. 1 .. inserts \subseteq (Done \cup removed) \cup Queued
            BY <1>1, <2>2 DEF IInv, Typed, RemovalInv, Done
        <3>2. Done \subseteq 1 .. inserts
            BY <1>1 DEF IInv, Typed, RunInv, Done
        <3>3. removed \subseteq 1 .. inserts
            BY <1>1 DEF IInv, Typed, RunInv
        <3>4. Queued \subseteq 1 .. inserts
            BY <1>1 DEF IInv, Typed, SlotInv, Queued
        <3> QED
            BY <3>1, <3>2, <3>3, <3>4, Zenon
    <2>4. Done \cap removed = {}
        BY <1>1 DEF IInv, RemovalInv, Done
    <2>5. (Done \cup removed) \cap Queued = {}
        <3>1. Done \cap Queued = {}
            BY <1>1, SMTT(30), Z3T(30) DEF IInv, SlotInv, Done, Queued, Draining, Typed
        <3>2. removed \cap Queued = {}
            BY <1>1 DEF IInv, SlotInv, Queued
        <3> QED
            BY <3>1, <3>2
    <2>6. IsFiniteSet(Done) /\ IsFiniteSet(removed) /\ IsFiniteSet(Queued)
        <3>1. IsFiniteSet(1 .. inserts)
            BY <2>1, FS_Interval
        <3> QED
            BY <2>3, <3>1, FS_Subset, Zenon
    <2>7. Cardinality(Done \cup removed) = Cardinality(Done) + Cardinality(removed) - 0
        BY <2>4, <2>6, FS_Union, FS_EmptySet
    <2>8. Cardinality((Done \cup removed) \cup Queued)
              = Cardinality(Done \cup removed) + Cardinality(Queued) - 0
        BY <2>5, <2>6, FS_Union, FS_EmptySet, ZenonT(30)
    <2>9. Cardinality(1 .. inserts) = inserts
        BY <2>1, FS_Interval
    <2>10. Cardinality(Done) \in Nat /\ Cardinality(removed) \in Nat /\ Cardinality(Queued) \in Nat
        BY <2>6, FS_CardinalityType
    <2>11. inserts = Cardinality((Done \cup removed) \cup Queued)
        BY <2>3, <2>9, Zenon
    <2> QED
        BY ONLY <2>1, <2>7, <2>8, <2>10, <2>11
<1>2. IInv => Accounting
    BY <1>1 DEF Accounting
<1> QED
    BY <1>2, Invariance, PTL

-----------------------------------------------------------------------------
(* Removal *)

\* A DPC that was removed before a drain collected it has not run, and no drain has
\* it on its list.
CancelInv ==
    \A n \in removed \ tornOut : runs[n] = 0 /\ \A c \in CPU, i \in Slot : ~Holds(c, i, n)

\* A step that takes nothing from the slots and adds nothing to the drains' lists
\* leaves the removed DPCs alone.
LEMMA CancelFrame ==
    ASSUME CancelInv, UNCHANGED <<runs, removed, tornOut>>,
           \A c \in CPU, i \in Slot : pending'[c][i] \in {pending[c][i], None},
           removed \subseteq Serial
    PROVE  CancelInv'
    BY DEF CancelInv, Holds, Serial, None

\* remove_dpc on a slot that is not fired: no drain holds its DPC.
LEMMA RemoveCancels ==
    ASSUME IInv, CancelInv, NEW d \in Object, Remove(d)
    PROVE  CancelInv'
<1>1. PICK i \in Slot : /\ slot[i].inserted
                        /\ removed' = removed \cup {slot[i].serial}
                        /\ tornOut' = IF slot[i].fired THEN tornOut \cup {slot[i].serial}
                                                       ELSE tornOut
    BY Zenon DEF Remove
<1>2. pending' = pending /\ runs' = runs
    BY DEF Remove
<1>3. ~slot[i].fired => /\ runs[slot[i].serial] = 0
                        /\ \A c \in CPU, j \in Slot : ~Holds(c, j, slot[i].serial)
    BY <1>1 DEF IInv, SlotInv
<1> QED
    BY <1>1, <1>2, <1>3 DEF CancelInv, Holds

\* Phase 1 of drain collects from slots that are still inserted.
LEMMA CollectSkipsRemoved ==
    ASSUME IInv, CancelInv, NEW c \in CPU, Collect(c)
    PROVE  CancelInv'
<1>1. /\ UNCHANGED <<runs, removed, tornOut>>
      /\ \A d \in CPU \ {c} : pending'[d] = pending[d]
      /\ \A i \in Slot : pending'[c][i] # None =>
            slot[i].inserted /\ pending'[c][i] = slot[i].serial
    BY Zenon DEF Collect, IInv, Typed
<1>2. \A i \in Slot : slot[i].inserted => slot[i].serial \notin removed
    BY DEF IInv, SlotInv
<1>3. \A n \in removed : n # None
    BY DEF IInv, Typed, Serial, None
<1> QED
    BY <1>1, <1>2, <1>3 DEF CancelInv, Holds

\* Phase 2 calls the routines on the drain's list only.
LEMMA RunSkipsRemoved ==
    ASSUME IInv, CancelInv, NEW c \in CPU, Run(c)
    PROVE  CancelInv'
<1>1. PICK i \in Slot : runs' = [runs EXCEPT ![pending[c][i]] = @ + 1]
    <2>1. todo[c] # {} /\ todo[c] \in SUBSET Slot
        BY DEF Run, IInv, Typed
    <2>2. Min(todo[c]) \in Slot
        BY <2>1, FirstSlot, Zenon
    <2> QED
        BY <2>2, Zenon DEF Run
<1>2. UNCHANGED <<pending, removed, tornOut>>
    BY DEF Run
<1>3. \A n \in removed \ tornOut : n # pending[c][i] /\ n \in Serial
    BY DEF CancelInv, Holds, IInv, Typed
<1> QED
    BY <1>1, <1>2, <1>3 DEF CancelInv, Holds, IInv, Typed

\* A DPC that remove_dpc took from the queue before any drain collected it never
\* runs, for any number of CPUs, slots and insertions.
THEOREM RemovedStayOut == Spec => []RemovedNeverRuns
<1>1. Init => CancelInv
    BY DEF Init, CancelInv
<1>2. ASSUME IInv, CancelInv, [Next]_vars
      PROVE  CancelInv'
    <2>1. removed \subseteq Serial
        BY <1>2, Zenon DEF IInv, Typed
    <2>2. ASSUME NEW d \in Object, Insert(d) PROVE CancelInv'
        BY <1>2, <2>1, <2>2, CancelFrame, Zenon DEF Insert
    <2>3. ASSUME NEW c \in CPU, Retire(c) \/ Ran(c) \/ Recheck(c) \/ Clear(c) PROVE CancelInv'
        BY <1>2, <2>1, <2>3, CancelFrame, Zenon DEF Retire, Ran, Recheck, Clear
    <2>4. ASSUME NEW c \in CPU, Reset(c) PROVE CancelInv'
        <3>1. \A d \in CPU, i \in Slot : pending'[d][i] \in {pending[d][i], None}
            BY <1>2, <2>4 DEF Reset, NothingPending, IInv, Typed
        <3> QED
            BY <1>2, <2>1, <2>4, <3>1, CancelFrame, Zenon DEF Reset
    <2>5. CASE UNCHANGED vars
        BY <1>2, <2>1, <2>5, CancelFrame DEF vars
    <2> QED
        BY <1>2, <2>2, <2>3, <2>4, <2>5, RemoveCancels, CollectSkipsRemoved, RunSkipsRemoved, Zenon
           DEF Next, RetireStep
<1>3. CancelInv => RemovedNeverRuns
    BY DEF CancelInv, RemovedNeverRuns
<1> QED
    BY <1>1, <1>2, <1>3, Invariance, PTL DEF Spec
=============================================================================
