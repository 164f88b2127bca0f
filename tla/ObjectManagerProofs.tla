------------------------ MODULE ObjectManagerProofs -------------------------
(***************************************************************************)
(* The object manager counts every use, frees no object that can still be  *)
(* reached and implements the safety part of ObjectLife, for any number of *)
(* clients, objects, names and processes and any table sizes.              *)
(***************************************************************************)
EXTENDS ObjectManagerCounts

-----------------------------------------------------------------------------
(* Inserting, inheriting and closing handles keep the invariant *)

\* close_handle_in_process gives back the reference of the handle.
LEMMA CloseInProcessStep ==
  ASSUME IInv, NEW c \in Client, NEW w \in Process, NEW i \in Index(w), CloseInProcess(c, w, i)
  PROVE  IInv' /\ LifeStep
<1>0. TypeOK /\ <<w, i>> \in Slot
  BY SlotMember, Zenon DEF IInv, Table
<1>1. PICK p \in Object : p = slot[<<w, i>>] /\ call[c] = Idle /\ lock = NoClient
  BY <1>0 DEF TypeOK, CloseInProcess, Resting, Free
<1>2. (Called(c, "delete", p) /\ Less(refs[p]) = 0) \/ call' = call
  BY <1>1 DEF CloseInProcess
<1>3. call' \in [Client -> {Idle} \cup [at : At, obj : Object]]
  BY <1>0, <1>1, <1>2, CallType, Zenon DEF TypeOK, At
<1>4. TypeOK'
  BY <1>0, <1>1, <1>3, SMTT(30), Z3T(30) DEF TypeOK, CloseInProcess, Less
<1>5. \A o \in Object : NumSlots(o)' = NumSlots(o) - One(p, o) /\ NumSlots(o) \in Nat
  <2>1. \A o \in Object : NumSlots(o)' = NumSlots(o) + One(NoObject, o) - One(p, o)
    BY <1>0, <1>1, SlotUpdate, Zenon DEF CloseInProcess
  <2>2. \A o \in Object : One(NoObject, o) = 0 /\ One(p, o) \in Nat
    BY DEF One, NoObject, Object
  <2>3. \A o \in Object : NumSlots(o) \in Nat
    BY NumType
  <2> QED
    BY <2>1, <2>2, <2>3
<1>6. HandleCountExact'
  <2>1. \A o \in Object : NumClosing(o)' = NumClosing(o) /\ NumClosing(o) \in Nat
    BY <1>0, <1>1, <1>2, DeleteCloses, NumType, Zenon
  <2>2. \A o \in Object : handles[o] = NumSlots(o) + NumClosing(o)
    BY HandleTerms DEF IInv, Exact
  <2>3. NumSlots(p) # 0
    BY <1>0, <1>1, NumType, Zenon
  <2>4. \A o \in Object : handles'[o] = handles[o] - One(p, o)
    BY <1>0, <1>1, <1>5, <2>1, <2>2, <2>3, SMTT(30), Z3T(30) DEF CloseInProcess, Less, One, TypeOK
  <2>5. \A o \in Object : handles'[o] = NumSlots(o)' + NumClosing(o)'
    BY <1>5, <2>1, <2>2, <2>4, SMTT(30), Z3T(30) DEF One
  <2> QED
    BY <2>5, HandleTerms
<1>7. \A o \in Object : Counted(o)' = Counted(o) - One(p, o)
  <2> SUFFICES ASSUME NEW o \in Object
               PROVE  Counted(o)' = Counted(o) - One(p, o)
    BY Zenon
  <2>1. /\ NumPointers(o)' = NumPointers(o) /\ Published(o)' = Published(o)
        /\ closed'[o] = closed[o] /\ One(p, o) \in Nat
    BY NumUnchanged DEF CloseInProcess, One
  <2> QED
    BY <2>1, <1>5, <1>0, CountedTerms, SMTT(30), Z3T(30)
<1>8. Uses(p) \in Nat /\ Uses(p) > 0
  BY <1>0, <1>1, UsesFacts, SMTT(30), Z3T(30)
<1>9. /\ refs' = [refs EXCEPT ![p] = Less(@)]
      /\ UNCHANGED <<status, deleting, lock, closed, dir>>
      /\ \A d \in Client \ {c} : ptr'[d] = ptr[d]
  BY <1>0, <1>1, Zenon DEF CloseInProcess, TypeOK
<1> QED
  BY <1>1, <1>2, <1>4, <1>6, <1>7, <1>8, <1>9, Released, Zenon

\* insert_object_into_process begins with the client's own pointer.
LEMMA InsertStep ==
  ASSUME IInv, NEW c \in Client, Insert(c)
  PROVE  IInv' /\ LifeStep
<1>0. TypeOK /\ call[c] = Idle
  BY DEF IInv, Insert, Holding, Resting
<1>1. PICK p \in Object : p = ptr[c]
  BY <1>0 DEF Insert, Holding, TypeOK
<1>2. Counted(p) \in Nat /\ Counted(p) > 0
  BY <1>0, <1>1, Unused, SMTT(30), Z3T(30)
<1>3. CallOK(c)'
  <2>1. call'[c].at = "insert" /\ call'[c].obj = p
    BY <1>0, <1>1, Zenon DEF Insert, Called, InCall, TypeOK
  <2>2. lock' # c
    BY <1>0, IdleUnlocked, Zenon DEF Insert
  <2> QED
    BY <2>1, <2>2, <1>1, Zenon DEF CallOK, Ending, Insert
<1> QED
  BY <1>0, <1>1, <1>2, <1>3, Begun, Zenon DEF Insert, At

\* close_handle_global gives up the use of the slot and leaves its reference behind.
LEMMA CloseStep ==
  ASSUME IInv, NEW c \in Client, NEW i \in Index(Kernel), Close(c, i)
  PROVE  IInv' /\ LifeStep
<1>0. TypeOK /\ call[c] = Idle /\ <<Kernel, i>> \in Slot
  BY SlotMember, Zenon DEF IInv, Close, Resting, Table
<1>1. PICK p \in Object : p = slot[<<Kernel, i>>]
  BY <1>0, Zenon DEF Close, TypeOK
<1>2. Counted(p) \in Nat /\ Counted(p) > 0
  BY <1>0, <1>1, Unused, SMTT(30), Z3T(30)
<1>3. TypeOK'
  <2>1. call' \in [Client -> {Idle} \cup [at : At, obj : Object]]
    BY <1>0, <1>1, CallType, ZenonT(30) DEF Close, At
  <2> QED
    BY <2>1, <1>0, <1>1, SMTT(30), Z3T(30) DEF TypeOK, Close
<1>4. \A o \in Object : NumSlots(o)' = NumSlots(o) - One(p, o)
  <2>1. \A o \in Object : NumSlots(o)' = NumSlots(o) + One(NoObject, o) - One(p, o)
    BY <1>0, <1>1, SlotUpdate, Zenon DEF Close
  <2>2. \A o \in Object : One(NoObject, o) = 0 /\ One(p, o) \in Nat /\ NumSlots(o) \in Nat
    BY NumType DEF One, NoObject, Object
  <2> QED
    BY <2>1, <2>2
<1>5. \A o \in Object : NumClosing(o)' = NumClosing(o) + One(p, o)
  <2>1. \A o \in Object : NumClosing(o)' = NumClosing(o) + One(InCall("close", p), InCall("close", o))
                                           - One(call[c], InCall("close", o))
    BY <1>0, <1>1, CallUpdate, Zenon DEF Close, Called
  <2>2. \A o \in Object : /\ One(InCall("close", p), InCall("close", o)) = One(p, o)
                          /\ One(call[c], InCall("close", o)) = 0 /\ One(p, o) \in Nat
    BY <1>0 DEF One, InCall, Idle
  <2>3. \A o \in Object : NumClosing(o) \in Nat
    BY NumType, Zenon
  <2> QED
    BY <2>1, <2>2, <2>3, SMTT(30), Z3T(30)
<1>6. \A o \in Object : Counted(o)' = Counted(o)
  <2> SUFFICES ASSUME NEW o \in Object
               PROVE  Counted(o)' = Counted(o)
    OBVIOUS
  <2>1. closed'[o] = closed[o] + One(p, o) /\ One(p, o) \in Nat
    BY <1>0, <1>1, SMTT(30), Z3T(30) DEF Close, One, TypeOK
  <2>2. NumPointers(o)' = NumPointers(o) /\ Published(o)' = Published(o)
    BY NumUnchanged, Zenon DEF Close
  <2> QED
    BY <2>1, <2>2, <1>0, <1>4, CountedTerms, SMTT(30), Z3T(30)
<1>7. Exact'
  <2>1. RefsCounted'
    BY <1>6, Zenon DEF IInv, Exact, RefsCounted, Close
  <2>2. \A o \in Object : One(p, o) \in Nat /\ NumSlots(o) \in Nat /\ NumClosing(o) \in Nat
    BY NumType DEF One
  <2>3. \A o \in Object : handles'[o] = NumSlots(o)' + NumClosing(o)'
    BY <2>2, <1>4, <1>5, HandleTerms, SMTT(30), Z3T(30) DEF IInv, Exact, Close
  <2> QED
    BY <2>1, <2>3, HandleTerms, Zenon DEF Exact
<1>8. /\ call'[c].at = "close" /\ call'[c].obj = p /\ closed'[p] > 0
      /\ \A d \in Client \ {c} : call'[d] = call[d] /\ ptr'[d] = ptr[d]
      /\ \A o \in Object : closed[o] <= closed'[o] /\ Published(o)' = Published(o)
  BY <1>0, <1>1, NumUnchanged, SMTT(30), Z3T(30) DEF Close, Called, InCall, TypeOK
<1>9. CallOK(c)'
  <2>1. lock' # c
    BY <1>0, IdleUnlocked, Zenon DEF Close
  <2> QED
    BY <2>1, <1>8 DEF CallOK, Ending
<1>10. IInv'
  BY <1>2, <1>3, <1>6, <1>7, <1>8, <1>9, AcquiredInv, Zenon DEF Close
<1>11. LifeStep
  <2>1. \A o \in Object : closed'[o] = closed[o] + One(p, o) /\ One(p, o) \in Nat
    BY <1>0, <1>1, SMTT(30), Z3T(30) DEF Close, One, TypeOK
  <2>2. \A o \in Object : Uses(o)' = Uses(o) - One(p, o)
    BY <2>1, <1>0, <1>6, UsesFacts, SMTT(30), Z3T(30)
  <2>3. Uses(p) \in Nat /\ Uses(p) # 0
    BY <1>0, <1>1, UsesFacts, Zenon
  <2>4. 0 < Uses(p) /\ status' = status
    BY <2>3 DEF Close
  <2> QED
    BY <2>2, <2>4, <1>0, ReleaseStep, Zenon
<1> QED
  BY <1>10, <1>11

\* decrement_handle_count finds the reference that was left behind, and so
\* deletes nothing.
LEMMA UncountStep ==
  ASSUME IInv, NEW c \in Client, Uncount(c)
  PROVE  IInv' /\ LifeStep
<1>0. TypeOK /\ lock = NoClient
  BY Zenon DEF IInv, Uncount, Free
<1>1. call[c].at = "close" /\ call[c] # Idle /\ ~Ending(c)
  BY DEF Uncount, Idle, Ending
<1>2. PICK p \in Object : p = call[c].obj /\ Counted(p) > 0 /\ call[c] = InCall("close", p)
  <2>1. call[c].obj \in Object /\ Counted(call[c].obj) > 0
    BY <1>1, CallsLive
  <2>2. call[c] = InCall("close", call[c].obj)
    BY <1>0, <1>1, Zenon DEF InCall, TypeOK
  <2> QED
    BY <2>1, <2>2, Zenon
<1>3. refs[p] # 0 /\ Return(c)
  BY <1>2, SMTT(30), Z3T(30) DEF IInv, Exact, RefsCounted, Uncount
<1>4. TypeOK'
  <2>1. call' \in [Client -> {Idle} \cup [at : At, obj : Object]]
    BY <1>0, <1>3, Zenon DEF Return, TypeOK
  <2> QED
    BY <2>1, <1>0, <1>2, SMTT(30), Z3T(30) DEF TypeOK, Uncount, Less
<1>5. \A o \in Object : NumClosing(o)' = NumClosing(o) - One(p, o) /\ NumClosing(o) \in Nat
  <2>1. \A o \in Object : NumClosing(o)' = NumClosing(o) + One(Idle, InCall("close", o))
                                           - One(InCall("close", p), InCall("close", o))
    BY <1>0, <1>2, <1>3, CallUpdate, Zenon DEF Return
  <2>2. \A o \in Object : /\ One(InCall("close", p), InCall("close", o)) = One(p, o)
                          /\ One(Idle, InCall("close", o)) = 0 /\ One(p, o) \in Nat
    BY DEF One, InCall, Idle
  <2>3. \A o \in Object : NumClosing(o) \in Nat
    BY NumType, Zenon
  <2> QED
    BY <2>1, <2>2, <2>3
<1>6. \A o \in Object : /\ Counted(o)' = Counted(o) /\ NumSlots(o)' = NumSlots(o)
                        /\ Published(o)' = Published(o)
  BY SameCounted, Zenon DEF Uncount
<1>7. Exact'
  <2>1. RefsCounted'
    BY <1>6 DEF IInv, Exact, RefsCounted, Uncount
  <2>2. NumClosing(p) # 0 /\ \A o \in Object : NumSlots(o) \in Nat
    BY <1>2, NumType, Zenon
  <2>3. \A o \in Object : handles[o] = NumSlots(o) + NumClosing(o)
    BY HandleTerms DEF IInv, Exact
  <2>4. \A o \in Object : handles'[o] = handles[o] - One(p, o)
    <3>1. handles[p] \in Nat /\ handles[p] # 0
      BY <2>2, <2>3, <1>5, SMTT(30), Z3T(30)
    <3>2. handles' = [handles EXCEPT ![p] = handles[p] - 1]
      BY <3>1, <1>2, Zenon DEF Uncount, Less
    <3> QED
      BY <3>2, <1>0, SMTT(30), Z3T(30) DEF One, TypeOK
  <2>5. \A o \in Object : handles'[o] = NumSlots(o)' + NumClosing(o)'
    BY <2>2, <2>3, <2>4, <1>5, <1>6, SMTT(30), Z3T(30) DEF One
  <2> QED
    BY <2>1, <2>5, HandleTerms, Zenon DEF Exact
<1>8. call'[c] = Idle /\ \A d \in Client \ {c} : call'[d] = call[d] /\ ptr'[d] = ptr[d]
  BY <1>0, <1>3, Zenon DEF Return, Uncount, TypeOK
<1>9. CallOK(c)'
  BY <1>0, <1>8, IdleOK, ObjectAssumption, Zenon DEF Uncount
<1> QED
  BY <1>4, <1>6, <1>7, <1>8, <1>9, Acquired, Zenon DEF Uncount

\* A handle for an object in use, if there is a free slot: one more slot, one
\* more reference, and one more handle counted.
LEMMA Allocated ==
  ASSUME IInv, NEW w \in Table, NEW p \in Object, Uses(p) > 0, Allocate(w, p),
         UNCHANGED <<dir, ptr, closed>>,
         \A o \in Object : NumClosing(o)' = NumClosing(o)
  PROVE  /\ next' \in Index(Kernel) /\ slot' \in [Slot -> Object \cup {NoObject}]
         /\ refs' \in [Object -> Nat] /\ handles' \in [Object -> Nat]
         /\ \A o \in Object : Counted(o)' # Counted(o) => 0 < Uses(o) /\ Counted(o) < Counted(o)'
         /\ Exact'
<1>0. TypeOK /\ next \in Index(Kernel)
  BY DEF IInv, TypeOK
<1>1. \A o \in Object : NumPointers(o)' = NumPointers(o) /\ Published(o)' = Published(o)
  BY NumUnchanged, Zenon
<1>2. \A o \in Object : NumSlots(o) \in Nat /\ NumClosing(o) \in Nat
  BY NumType
<1>3. \A o \in Object : handles[o] = NumSlots(o) + NumClosing(o)
  BY HandleTerms DEF IInv, Exact
<1>4. next' \in Index(Kernel)
  <2>1. \A i \in Index(Kernel) : After(i) \in Index(Kernel)
    BY ObjectAssumption, SMTT(30), Z3T(30) DEF After, Index
  <2> QED
    BY <1>0, <2>1, Zenon DEF Allocate, Available
<1>5. CASE UNCHANGED <<slot, refs, handles>>
  <2>1. \A o \in Object : Counted(o)' = Counted(o) /\ NumSlots(o)' = NumSlots(o)
    BY <1>1, <1>5, NumUnchanged, CountedParts, Zenon
  <2>2. Exact'
    BY <2>1, <1>3, <1>5, HandleTerms, ZenonT(30) DEF IInv, Exact, RefsCounted
  <2> QED
    BY <2>1, <2>2, <1>0, <1>4, <1>5, Zenon DEF TypeOK
<1>6. ASSUME NEW i \in Available(w), slot' = [slot EXCEPT ![<<w, i>>] = p],
             refs' = Referenced(p), handles' = [handles EXCEPT ![p] = @ + 1]
      PROVE  /\ slot' \in [Slot -> Object \cup {NoObject}]
             /\ refs' \in [Object -> Nat] /\ handles' \in [Object -> Nat]
             /\ \A o \in Object : Counted(o)' # Counted(o) => 0 < Uses(o) /\ Counted(o) < Counted(o)'
             /\ Exact'
  <2>1. <<w, i>> \in Slot /\ slot[<<w, i>>] = NoObject
    BY SlotMember DEF Available
  <2>2. \A o \in Object : NumSlots(o)' = NumSlots(o) + One(p, o) - One(NoObject, o)
    BY <2>1, <1>0, <1>6, SlotUpdate, Zenon
  <2>3. \A o \in Object : One(NoObject, o) = 0 /\ One(p, o) \in Nat
    BY DEF One, NoObject, Object
  <2>4. \A o \in Object : NumSlots(o)' = NumSlots(o) + One(p, o)
    BY <2>2, <2>3, <1>2, SMTT(30), Z3T(30)
  <2>5. \A o \in Object : Counted(o)' = Counted(o) + One(p, o)
    BY <2>3, <2>4, <1>0, <1>1, CountedTerms, SMTT(30), Z3T(30)
  <2>6. \A o \in Object : handles'[o] = handles[o] + One(p, o)
    BY <1>0, <1>6, SMTT(30), Z3T(30) DEF One, TypeOK
  <2>7. \A o \in Object : handles'[o] = NumSlots(o)' + NumClosing(o)'
    BY <2>3, <2>4, <2>6, <1>2, <1>3, SMTT(30), Z3T(30)
  <2>8. HandleCountExact'
    BY <2>7, HandleTerms
  <2> QED
    <3>1. /\ refs' \in [Object -> Nat] /\ RefsCounted'
          /\ \A o \in Object : Counted(o)' # Counted(o) => 0 < Uses(o) /\ Counted(o) < Counted(o)'
      BY <2>5, <1>6, CountedOnce, Zenon
    <3>2. slot \in [Slot -> Object \cup {NoObject}] /\ handles \in [Object -> Nat]
      BY <1>0 DEF TypeOK
    <3>3. slot' \in [Slot -> Object \cup {NoObject}] /\ handles' \in [Object -> Nat]
      BY <2>1, <3>2, <1>6, SMTT(30), Z3T(30)
    <3> QED
      BY <2>8, <3>1, <3>3 DEF Exact
<1> QED
  BY <1>4, <1>5, <1>6, Zenon DEF Allocate

\* The second half of insert_object and of insert_object_into_process.
LEMMA HandleStep ==
  ASSUME IInv, NEW c \in Client, call[c].at \in {"publish", "insert"}, Free,
         NEW w \in Table, Allocate(w, call[c].obj), Return(c),
         UNCHANGED <<status, name, deleting, dir, lock, ptr, closed>>
  PROVE  IInv' /\ LifeStep
<1>0. TypeOK /\ lock = NoClient /\ call[c] # Idle /\ ~Ending(c)
  BY DEF IInv, Free, Idle, Ending
<1>1. PICK p \in Object : p = call[c].obj /\ Uses(p) > 0
  BY <1>0, CallsLive
<1>2. \A o \in Object : NumClosing(o)' = NumClosing(o)
  <2>1. Idle.at # "close" /\ call[c].at # "close"
    BY ZenonT(30) DEF Idle
  <2> QED
    BY <2>1, <1>0, SameClosing, Zenon DEF Return
<1>3. /\ next' \in Index(Kernel) /\ slot' \in [Slot -> Object \cup {NoObject}]
      /\ refs' \in [Object -> Nat] /\ handles' \in [Object -> Nat]
      /\ \A o \in Object : Counted(o)' # Counted(o) => 0 < Uses(o) /\ Counted(o) < Counted(o)'
      /\ Exact'
  BY <1>1, <1>2, Allocated, Zenon
<1>4. TypeOK'
  <2>1. call' \in [Client -> {Idle} \cup [at : At, obj : Object]]
    BY <1>0, Zenon DEF Return, TypeOK
  <2> QED
    BY <2>1, <1>0, <1>3, Zenon DEF TypeOK
<1>5. call'[c] = Idle /\ \A d \in Client \ {c} : call'[d] = call[d] /\ ptr'[d] = ptr[d]
  BY <1>0, Zenon DEF Return, TypeOK
<1>6. CallOK(c)'
  BY <1>0, <1>5, IdleOK, ObjectAssumption, Zenon
<1>7. \A o \in Object : Published(o)' = Published(o)
  BY NumUnchanged, Zenon
<1> QED
  BY <1>3, <1>4, <1>5, <1>6, <1>7, Acquired, Zenon

\* The slots of the parent, moved to the child, are as many.
LEMMA InheritedSlots ==
  ASSUME TypeOK, NEW child \in Process, NEW parent \in Process, child # parent,
         \A i \in Index(child) : slot[<<child, i>>] = NoObject,
         slot' = [s \in Slot |-> IF s[1] = child THEN slot[<<parent, s[2]>>] ELSE slot[s]],
         NEW o \in Object
  PROVE  LET n == Cardinality({i \in Index(parent) : slot[<<parent, i>>] = o})
         IN  n \in Nat /\ NumSlots(o)' = NumSlots(o) + n /\ (n > 0 => NumSlots(o) > 0)
<1> DEFINE I == {i \in Index(parent) : slot[<<parent, i>>] = o}
           A == {s \in Slot : slot[s] = o}
           B == {child} \X I
<1>1. Index(child) = Index(parent) /\ IsFiniteSet(Index(parent))
  <2>1. child # Kernel /\ parent # Kernel /\ 0 \in Int /\ ProcessSlots - 1 \in Int
    BY ObjectAssumption
  <2>2. IsFiniteSet(0 .. ProcessSlots - 1)
    BY <2>1, FS_Interval, Zenon
  <2> QED
    BY <2>1, <2>2, Zenon DEF Index
<1>2. IsFiniteSet(I) /\ Cardinality(I) \in Nat
  BY <1>1, FS_Subset, FS_CardinalityType, Zenon
<1>3. IsFiniteSet(B) /\ Cardinality(B) = Cardinality(I)
  <2>1. IsFiniteSet({child}) /\ Cardinality({child}) = 1
    BY FS_Singleton, Zenon
  <2>2. IsFiniteSet(B) /\ Cardinality(B) = Cardinality({child}) * Cardinality(I)
    BY <2>1, <1>2, FS_Product, Zenon
  <2> QED
    BY <2>1, <2>2, <1>2
<1>4. IsFiniteSet(A) /\ Cardinality(A) \in Nat
  BY SlotFinite, FS_Subset, FS_CardinalityType, Zenon
<1>5. \A i \in Index(parent) : <<child, i>> \in Slot /\ <<parent, i>> \in Slot
  BY <1>1, SlotMember, Zenon DEF Table
<1>6. \A s \in A : s[1] # child
  BY <1>1, SlotParts, SMTT(30), Z3T(30) DEF NoObject, Object
<1>7. {s \in Slot : slot'[s] = o} = A \cup B
  <2>1. ASSUME NEW s \in Slot, slot'[s] = o PROVE s \in A \cup B
    BY <2>1, <1>1, SlotParts, SMTT(30), Z3T(30)
  <2>2. ASSUME NEW s \in A PROVE s \in Slot /\ slot'[s] = o
    BY <1>6
  <2>3. ASSUME NEW s \in B PROVE s \in Slot /\ slot'[s] = o
    BY <1>5
  <2> QED
    BY <2>1, <2>2, <2>3, Zenon
<1>8. A \cap B = {}
  BY <1>6
<1>9. NumSlots(o) = Cardinality(A) /\ NumSlots(o)' = Cardinality(A \cup B)
  BY <1>7, Zenon DEF NumSlots, SlotsOf
<1>10. Cardinality(A) = 0 => I = {}
  <2>1. Cardinality(A) = 0 => A = {}
    BY <1>4, FS_EmptySet
  <2> QED
    BY <2>1, <1>5, Zenon
<1>11. Cardinality({}) = 0 /\ (Cardinality(I) = 0 <=> I = {})
  BY <1>2, FS_EmptySet, ZenonT(30)
<1> HIDE DEF A, B, I
<1>12. Cardinality(A \cup B) = Cardinality(A) + Cardinality(B)
  <2>1. Cardinality(A \cup B) = Cardinality(A) + Cardinality(B) - Cardinality(A \cap B)
    BY <1>3, <1>4, FS_Union, Zenon
  <2>2. Cardinality(A \cap B) = 0
    BY <1>8, <1>11
  <2> QED
    BY <2>1, <2>2, <1>2, <1>3, <1>4, SMTT(30), Z3T(30)
<1>13. Cardinality(I) \in Nat /\ NumSlots(o)' = NumSlots(o) + Cardinality(I)
                               /\ (Cardinality(I) > 0 => NumSlots(o) > 0)
  <2>1. PICK a \in Nat, i \in Nat : a = Cardinality(A) /\ i = Cardinality(I)
    BY <1>2, <1>4, Zenon
  <2>2. NumSlots(o) = a /\ NumSlots(o)' = a + i
    BY <2>1, <1>3, <1>9, <1>12, Zenon
  <2>3. a = 0 => i = 0
    BY <2>1, <1>10, <1>11, Zenon
  <2>4. i > 0 => a > 0
    BY <2>3
  <2> QED
    BY <2>1, <2>2, <2>4, Zenon
<1> QED
  BY <1>13 DEF I

\* inherit_process_handle_table counts every handle it copies.
LEMMA InheritStep ==
  ASSUME IInv, NEW child \in Process, NEW parent \in Process, Inherit(child, parent)
  PROVE  IInv' /\ LifeStep
<1> DEFINE n(o) == Cardinality({i \in Index(parent) : slot[<<parent, i>>] = o})
<1>0. TypeOK /\ child # parent /\ Index(child) = Index(parent)
  BY ObjectAssumption, Zenon DEF IInv, Inherit, Index
<1>1. \A o \in Object : /\ n(o) \in Nat /\ NumSlots(o)' = NumSlots(o) + n(o)
                        /\ n(o) > 0 => NumSlots(o) > 0
  BY <1>0, InheritedSlots, Zenon DEF Inherit
<1>2. /\ handles' = [o \in Object |-> handles[o] + n(o)]
      /\ refs' = [o \in Object |-> IF o \in deleting THEN refs[o] ELSE refs[o] + n(o)]
  BY DEF Inherit
<1> HIDE DEF n
<1>3. \A o \in Object : /\ NumPointers(o)' = NumPointers(o) /\ NumClosing(o)' = NumClosing(o)
                        /\ Published(o)' = Published(o) /\ closed'[o] = closed[o]
  BY NumUnchanged, Zenon DEF Inherit
<1>4. \A o \in Object : /\ Counted(o)' = Counted(o) + n(o)
                        /\ n(o) > 0 => Uses(o) > 0 /\ Counted(o) > 0
  <2>1. \A o \in Object : Counted(o)' = Counted(o) + n(o)
    BY <1>0, <1>1, <1>3, CountedTerms, SMTT(30), Z3T(30)
  <2>2. ASSUME NEW o \in Object, n(o) > 0 PROVE Uses(o) > 0 /\ Counted(o) > 0
    <3>1. NumSlots(o) # 0
      BY <1>1, <2>2, NumType
    <3>2. Uses(o) # 0
      BY <3>1, <1>0, NumType, UsesFacts, Zenon
    <3> QED
      BY <3>2, <1>0, UsesFacts, SMTT(30), Z3T(30)
  <2> QED
    BY <2>1, <2>2, Zenon
<1>5. \A o \in Object : refs'[o] = Counted(o)'
  BY <1>0, <1>1, <1>2, <1>4, SMTT(30), Z3T(30) DEF IInv, Exact, RefsCounted, LifeInv, TypeOK
<1>6. \A o \in Object : handles'[o] = NumSlots(o)' + NumClosing(o)'
  <2>1. \A o \in Object : handles[o] = NumSlots(o) + NumClosing(o)
    BY HandleTerms, Zenon DEF IInv, Exact
  <2>2. \A o \in Object : NumSlots(o) \in Nat /\ NumClosing(o) \in Nat
    BY NumType
  <2> QED
    BY <2>1, <2>2, <1>1, <1>2, <1>3, SMTT(30), Z3T(30)
<1>7. Exact'
  BY <1>5, <1>6, HandleTerms, Zenon DEF Exact, RefsCounted
<1>8. TypeOK'
  <2>1. slot' \in [Slot -> Object \cup {NoObject}]
    <3>1. ASSUME NEW s \in Slot, s[1] = child PROVE <<parent, s[2]>> \in Slot
      BY <3>1, <1>0, SlotParts, SlotMember, Zenon DEF Table
    <3> QED
      BY <3>1, <1>0 DEF Inherit, TypeOK
  <2>2. refs' \in [Object -> Nat] /\ handles' \in [Object -> Nat]
    <3>1. refs \in [Object -> Nat] /\ handles \in [Object -> Nat]
      BY <1>0, Zenon DEF TypeOK
    <3> QED
      BY <1>1, <1>2, <3>1, SMTT(30), Z3T(30)
  <2> QED
    BY <2>1, <2>2, <1>0, Zenon DEF Inherit, TypeOK
<1>9. \A o \in Object : Counted(o)' # Counted(o) => 0 < Uses(o) /\ Counted(o) < Counted(o)'
  <2>1. \A o \in Object : Counted(o) \in Nat
    BY <1>0, Unused
  <2> QED
    BY <2>1, <1>1, <1>4, SMTT(30), Z3T(30)
<1> QED
  BY <1>3, <1>7, <1>8, <1>9, ObjectAssumption, Acquired, ZenonT(30) DEF Inherit

-----------------------------------------------------------------------------
(* Deletion, and the theorems *)

\* An object that is not published is not in the directory.
LEMMA NotRemoved ==
  ASSUME TypeOK, NEW p, ~Published(p)
  PROVE  RemoveFirst(dir, p) = dir
<1>1. ~\E i \in 1 .. Len(dir) : dir[i] = p
  BY DEF Published, Range, TypeOK
<1> QED
  BY <1>1, ZenonT(30) DEF RemoveFirst, Contains

\* The steps of a deletion move no use, because there is none.
LEMMA DeletionFacts ==
  ASSUME IInv, NEW c \in Client, Ending(c)
  PROVE  \E p \in Object :
            /\ p = call[c].obj /\ status[p] = "live" /\ Counted(p) = 0 /\ ~Published(p)
            /\ \A s \in Slot : slot[s] # p
            /\ \A d \in Client : call[d].obj = p => d = c
            /\ call[c].at # "close"
<1>1. call[c] # Idle
  BY DEF Ending, Idle
<1>2. call[c].obj \in Object /\ status[call[c].obj] = "live"
  BY <1>1, CallsLive, Zenon
<1>3. Counted(call[c].obj) = 0 /\ \A d \in Client : call[d].obj = call[c].obj => d = c
  BY DEF IInv, CallInv, CallOK
<1> QED
  BY <1>2, <1>3, Unused, Zenon DEF IInv, Ending

\* try_delete_object_locked sets the flag and takes the lock.
LEMMA UnlinkStep ==
  ASSUME IInv, NEW c \in Client, Unlink(c)
  PROVE  IInv' /\ LifeStep
<1>0. TypeOK /\ lock = NoClient /\ Ending(c) /\ call[c].at = "delete"
  BY DEF IInv, Unlink, Free, Ending
<1>1. PICK p \in Object :
        /\ p = call[c].obj /\ status[p] = "live" /\ Counted(p) = 0 /\ ~Published(p)
        /\ \A s \in Slot : slot[s] # p
        /\ \A d \in Client : call[d].obj = p => d = c
        /\ call[c].at # "close"
  BY <1>0, DeletionFacts, Zenon
<1>2. p \notin deleting
  BY <1>0, <1>1, Zenon DEF IInv, CallInv, CallOK
<1>3. /\ deleting' = deleting \cup {p} /\ dir' = dir /\ lock' = c /\ Called(c, "clear", p)
      /\ UNCHANGED <<status, name, refs, handles, slot, next, ptr, closed>>
  BY <1>0, <1>1, <1>2, NotRemoved, Zenon DEF Unlink
<1>4. TypeOK'
  <2>1. call' \in [Client -> {Idle} \cup [at : At, obj : Object]]
    BY <1>0, <1>3, CallType DEF At
  <2> QED
    BY <2>1, <1>0, <1>3, ZenonT(30) DEF TypeOK
<1>5. \A o \in Object : /\ Counted(o)' = Counted(o) /\ Uses(o)' = Uses(o)
                        /\ NumSlots(o)' = NumSlots(o) /\ Published(o)' = Published(o)
  BY <1>3, SameCounted, ZenonT(30)
<1>6. Exact'
  <2>1. InCall("clear", p).at # "close"
    BY Zenon DEF InCall
  <2>2. \A o \in Object : NumClosing(o)' = NumClosing(o)
    BY <2>1, <1>0, <1>1, <1>3, SameClosing, ZenonT(30) DEF Called
  <2> QED
    BY <2>2, <1>3, <1>5, HandleTerms, Zenon DEF IInv, Exact, RefsCounted
<1>7. /\ call'[c].at = "clear" /\ call'[c].obj = p
      /\ \A d \in Client \ {c} : call'[d] = call[d]
  BY <1>0, <1>3, Zenon DEF Called, InCall, TypeOK
<1>8. ASSUME NEW d \in Client \ {c} PROVE CallOK(d)'
  <2>1. CallOK(d) /\ call'[d] = call[d] /\ call[d].obj # p /\ lock # d
    BY <1>0, <1>1, <1>7, ObjectAssumption, Zenon DEF IInv, CallInv
  <2>2. \A e \in Client : call'[e].obj = call[e].obj
    BY <1>1, <1>7, Zenon
  <2>3. call[d] = Idle \/ call[d].obj \in Object
    BY CallsLive
  <2>4. /\ lock' # d /\ ptr' = ptr /\ closed' = closed /\ status' = status
        /\ deleting' = deleting \cup {p}
    BY <1>3, Zenon
  <2>5. CASE call[d] = Idle
    BY <2>1, <2>4, <2>5, IdleOK, Zenon
  <2>6. CASE call[d].obj \in Object
    <3>1. /\ Counted(call[d].obj)' = Counted(call[d].obj)
          /\ Published(call[d].obj)' = Published(call[d].obj)
      BY <1>5, <2>1, <2>6, Zenon
    <3> QED
      BY <2>1, <2>2, <2>4, <3>1, Zenon DEF CallOK, Ending
  <2> QED
    BY <2>3, <2>5, <2>6, Zenon
<1>9. CallOK(c)'
  <2>1. \A e \in Client : call'[e].obj = call[e].obj
    BY <1>1, <1>7, Zenon
  <2> QED
    BY <2>1, <1>1, <1>3, <1>5, <1>7, Zenon DEF CallOK, Ending
<1>10. LifeInv'
  <2>1. ASSUME NEW o \in Object
        PROVE  /\ Counted(o)' > 0 => status'[o] = "live" /\ o \notin deleting'
               /\ o \in deleting' => status'[o] # "none"
    <3>1. PICK u : u = Counted(o) /\ Counted(o)' = u
      BY <1>5
    <3>2. (u > 0 => status[o] = "live" /\ o \notin deleting) /\ (o \in deleting => status[o] # "none")
      BY <3>1, Zenon DEF IInv, LifeInv
    <3>3. o = p => ~(u > 0) /\ status[o] = "live"
      BY <1>1, <3>1, SMTT(30), Z3T(30)
    <3>4. deleting' = deleting \cup {p} /\ status' = status
      BY <1>3
    <3> QED
      BY <3>1, <3>2, <3>3, <3>4, Zenon
  <2> QED
    BY <2>1 DEF LifeInv
<1>11. LifeStep
  BY <1>3, <1>5, AcquireStep, ZenonT(30)
<1> QED
  BY <1>4, <1>6, <1>8, <1>9, <1>10, <1>11, Zenon DEF IInv, CallInv

\* No handle of the kernel's table is left to be cleared.
LEMMA ClearKernelStep ==
  ASSUME IInv, NEW c \in Client, ClearKernel(c)
  PROVE  IInv' /\ LifeStep
<1>0. TypeOK /\ Ending(c) /\ call[c].at = "clear"
  BY DEF IInv, ClearKernel, Ending
<1>1. PICK p \in Object :
        /\ p = call[c].obj /\ status[p] = "live" /\ Counted(p) = 0 /\ ~Published(p)
        /\ \A s \in Slot : slot[s] # p
        /\ \A d \in Client : call[d].obj = p => d = c
        /\ call[c].at # "close"
  BY <1>0, DeletionFacts, Zenon
<1>2. p \in deleting /\ lock = c
  BY <1>0, <1>1, Zenon DEF IInv, CallInv, CallOK
<1>3. slot' = slot /\ Called(c, "free", p)
  <2>1. KernelSlotsOf(p) = {}
    BY <1>1, Zenon DEF KernelSlotsOf, SlotsOf
  <2>2. slot' = [s \in Slot |-> slot[s]]
    BY <2>1, <1>1, Zenon DEF ClearKernel
  <2> QED
    BY <2>2, <1>0, <1>1, ZenonT(30) DEF ClearKernel, TypeOK
<1>4. TypeOK'
  <2>1. call' \in [Client -> {Idle} \cup [at : At, obj : Object]]
    BY <1>0, <1>3, CallType, Zenon DEF At
  <2> QED
    BY <2>1, <1>0, <1>3, Zenon DEF TypeOK, ClearKernel
<1>5. \A o \in Object : /\ Counted(o)' = Counted(o) /\ Uses(o)' = Uses(o)
                        /\ NumSlots(o)' = NumSlots(o) /\ Published(o)' = Published(o)
  BY <1>3, SameCounted, ZenonT(30) DEF ClearKernel
<1>6. Exact'
  <2>1. InCall("free", p).at # "close"
    BY DEF InCall
  <2>2. \A o \in Object : NumClosing(o)' = NumClosing(o)
    BY <2>1, <1>0, <1>1, <1>3, SameClosing, Zenon DEF Called
  <2> QED
    BY <2>2, <1>5, HandleTerms, ZenonT(30) DEF IInv, Exact, RefsCounted, ClearKernel
<1>7. /\ call'[c].at = "free" /\ call'[c].obj = p
      /\ \A d \in Client \ {c} : call'[d] = call[d]
  BY <1>0, <1>3, ZenonT(30) DEF Called, InCall, TypeOK
<1>8. ASSUME NEW d \in Client \ {c} PROVE CallOK(d)'
  <2>1. CallOK(d) /\ call'[d] = call[d]
    BY <1>7, Zenon DEF IInv, CallInv
  <2>2. \A e \in Client : call'[e].obj = call[e].obj
    BY <1>1, <1>7, ZenonT(30)
  <2>3. call[d] = Idle \/ call[d].obj \in Object
    BY CallsLive
  <2>4. /\ lock' = lock /\ ptr' = ptr /\ closed' = closed /\ status' = status
        /\ deleting' = deleting
    BY Zenon DEF ClearKernel
  <2>5. CASE call[d] = Idle
    <3>1. lock # d
      BY <2>5, IdleUnlocked
    <3> QED
      BY <2>1, <2>4, <2>5, <3>1, IdleOK, Zenon
  <2>6. CASE call[d].obj \in Object
    <3>1. /\ Counted(call[d].obj)' = Counted(call[d].obj)
          /\ Published(call[d].obj)' = Published(call[d].obj)
      BY <1>5, <2>1, <2>6, Zenon
    <3> QED
      BY <2>1, <2>2, <2>4, <3>1, Zenon DEF CallOK, Ending
  <2> QED
    BY <2>3, <2>5, <2>6, Zenon
<1>9. CallOK(c)'
  <2>1. \A e \in Client : call'[e].obj = call[e].obj
    BY <1>1, <1>7, Zenon
  <2> QED
    BY <2>1, <1>1, <1>2, <1>5, <1>7, ZenonT(30) DEF CallOK, Ending, ClearKernel
<1>10. LifeInv'
  BY <1>5, Zenon DEF IInv, LifeInv, ClearKernel
<1>11. LifeStep
  BY <1>5, AcquireStep, ZenonT(30) DEF ClearKernel
<1> QED
  BY <1>4, <1>6, <1>8, <1>9, <1>10, <1>11, Zenon DEF IInv, CallInv

\* The pool block is freed when no slot, entry, pointer or call leads to it.
LEMMA DestroyStep ==
  ASSUME IInv, NEW c \in Client, Destroy(c)
  PROVE  IInv' /\ LifeStep
<1>0. TypeOK /\ Ending(c) /\ call[c].at = "free"
  BY DEF IInv, Destroy, Ending
<1>1. PICK p \in Object :
        /\ p = call[c].obj /\ status[p] = "live" /\ Counted(p) = 0 /\ ~Published(p)
        /\ \A s \in Slot : slot[s] # p
        /\ \A d \in Client : call[d].obj = p => d = c
        /\ call[c].at # "close"
  BY <1>0, DeletionFacts, ZenonT(30)
<1>2. lock = c
  BY <1>0 DEF IInv, CallInv, CallOK
<1>3. slot' = slot
  <2>1. slot' = [s \in Slot |-> slot[s]]
    BY <1>1, Zenon DEF Destroy
  <2> QED
    BY <2>1, <1>0, ZenonT(30) DEF TypeOK
<1>4. TypeOK'
  <2>1. call' \in [Client -> {Idle} \cup [at : At, obj : Object]]
    BY <1>0, Zenon DEF Destroy, Return, TypeOK
  <2> QED
    BY <2>1, <1>0, <1>1, <1>3, ZenonT(30) DEF TypeOK, Destroy
<1>5. \A o \in Object : /\ Counted(o)' = Counted(o) /\ Uses(o)' = Uses(o)
                        /\ NumSlots(o)' = NumSlots(o) /\ Published(o)' = Published(o)
  BY <1>3, SameCounted, ZenonT(30) DEF Destroy
<1>6. Exact'
  <2>1. Idle.at # "close"
    BY Zenon DEF Idle
  <2>2. \A o \in Object : NumClosing(o)' = NumClosing(o)
    BY <2>1, <1>0, <1>1, SameClosing, ZenonT(30) DEF Destroy, Return
  <2> QED
    BY <2>2, <1>5, HandleTerms, ZenonT(30) DEF IInv, Exact, RefsCounted, Destroy
<1>7. /\ call'[c] = Idle /\ \A d \in Client \ {c} : call'[d] = call[d]
      /\ status' = [status EXCEPT ![p] = "freed"]
  BY <1>0, <1>1, ZenonT(30) DEF Destroy, Return, TypeOK
<1>8. ASSUME NEW d \in Client \ {c} PROVE CallOK(d)'
  <2>1. CallOK(d) /\ call'[d] = call[d] /\ call[d].obj # p /\ lock # d /\ lock' # d
    BY <1>1, <1>2, <1>7, ObjectAssumption, ZenonT(30) DEF IInv, CallInv, Destroy
  <2>2. call[d] = Idle \/ call[d].obj \in Object
    BY CallsLive
  <2>3. \A o \in Object : o # p => status'[o] = status[o]
    BY <1>0, <1>7, ZenonT(30) DEF TypeOK
  <2>4. CASE call[d] = Idle
    BY <2>1, <2>4, IdleOK, Zenon
  <2>5. CASE call[d].obj \in Object
    <3>1. ASSUME Ending(d), NEW e \in Client, call'[e].obj = call[d].obj PROVE e = d
      <4>1. e # c
        <5>1. Idle.obj \notin Object
          BY SMTT(30), Z3T(30) DEF Idle, Object, NoObject
        <5> QED
          BY <5>1, <3>1, <2>5, <1>7, Zenon
      <4>2. call[e].obj = call[d].obj
        BY <4>1, <3>1, <1>7, Zenon
      <4> QED
        BY <4>2, <3>1, <2>1, Zenon DEF CallOK
    <3> QED
      BY <3>1, <2>1, <2>3, <2>5, <1>5, Zenon DEF CallOK, Ending, Destroy
  <2> QED
    BY <2>2, <2>4, <2>5
<1>9. CallOK(c)'
  BY <1>7, IdleOK, ObjectAssumption, Zenon DEF Destroy
<1>10. LifeInv'
  BY <1>0, <1>1, <1>5, <1>7, SMTT(30), Z3T(30) DEF IInv, LifeInv, Destroy, TypeOK
<1>11. LifeStep
  <2>1. [o \in Object |-> Uses(o)'] = [o \in Object |-> Uses(o)]
    BY <1>5, Zenon
  <2>2. Uses(p) = 0
    BY <1>0, <1>1, UsesFacts, SMTT(30), Z3T(30)
  <2>3. Life!Destroy(p)
    BY <2>1, <2>2, <1>1, <1>7, Zenon DEF Life!Destroy
  <2> QED
    BY <2>3 DEF LifeStep, Life!Next
<1> QED
  BY <1>4, <1>6, <1>8, <1>9, <1>10, <1>11 DEF IInv, CallInv

-----------------------------------------------------------------------------
(* Theorems *)

\* The initial states satisfy the inductive invariant and are initial in ObjectLife.
LEMMA InitInv == Init => IInv /\ Life!Init
<1> SUFFICES ASSUME Init
             PROVE  IInv /\ Life!Init
  OBVIOUS
<1>1. TypeOK
  <2>1. 1 \in Index(Kernel)
    BY ObjectAssumption DEF Index
  <2>2. dir \in Seq(Object) /\ Len(dir) <= DirSize
    BY ObjectAssumption, SMTT(30), Z3T(30) DEF Init
  <2> QED
    BY <2>1, <2>2, Zenon DEF Init, TypeOK
<1>2. \A o \in Object : Counted(o) = 0 /\ Uses(o) = 0
  <2> SUFFICES ASSUME NEW o \in Object
               PROVE  Counted(o) = 0 /\ Uses(o) = 0
    OBVIOUS
  <2>1. o # NoObject /\ ~Published(o) /\ closed[o] = 0
    BY DEF Object, NoObject, Published, Range, Init
  <2> QED
    BY <2>1, <1>1, Unused, UsesFacts, Zenon DEF Init
<1>3. Exact
  <2>1. \A o \in Object : NumSlots(o) = 0 /\ NumClosing(o) = 0
    <3> SUFFICES ASSUME NEW o \in Object
                 PROVE  NumSlots(o) = 0 /\ NumClosing(o) = 0
      OBVIOUS
    <3>1. \A s \in Slot : slot[s] # o
      BY SMTT(30), Z3T(30) DEF Init, Object, NoObject
    <3>2. \A c \in Client : call[c] # InCall("close", o)
      BY DEF Init, Idle, InCall
    <3> QED
      BY <3>1, <3>2, NumType, Zenon
  <2>2. HandleCountExact
    BY <2>1, HandleTerms, SMTT(30), Z3T(30) DEF Init
  <2> QED
    BY <2>2, <1>2, Zenon DEF Exact, RefsCounted, Init
<1>4. CallInv
  BY ObjectAssumption DEF CallInv, CallOK, Ending, Init, Idle
<1>5. LifeInv
  BY <1>2 DEF LifeInv, Init
<1>6. Life!Init
  BY <1>2 DEF Life!Init, Init
<1> QED
  BY <1>1, <1>3, <1>4, <1>5, <1>6, Zenon DEF IInv

\* A step that changes nothing keeps the invariant and is a stutter of ObjectLife.
LEMMA StutterStep == IInv /\ UNCHANGED vars => IInv' /\ LifeStep
<1> SUFFICES ASSUME IInv, UNCHANGED vars
             PROVE  IInv' /\ LifeStep
  OBVIOUS
<1>1. \A o : /\ Counted(o)' = Counted(o) /\ Uses(o)' = Uses(o)
            /\ NumSlots(o)' = NumSlots(o) /\ Published(o)' = Published(o)
  BY SameCounted DEF vars
<1>2. \A o : NumClosing(o)' = NumClosing(o)
  BY NumUnchanged DEF vars
<1>3. TypeOK' /\ LifeInv' /\ LifeStep
  BY <1>1, AcquireStep, Zenon DEF vars, IInv, TypeOK, LifeInv
<1>4. Exact'
  BY <1>1, <1>2, HandleTerms, Zenon DEF vars, IInv, Exact, RefsCounted
<1>5. CallInv'
  BY <1>1 DEF vars, IInv, CallInv, CallOK, Ending
<1> QED
  BY <1>3, <1>4, <1>5 DEF IInv

\* Every step keeps the invariant, and is a step of ObjectLife or a stutter.
LEMMA NextInv == IInv /\ [Next]_vars => IInv' /\ LifeStep
<1> SUFFICES ASSUME IInv, [Next]_vars
             PROVE  IInv' /\ LifeStep
  OBVIOUS
<1>1. ASSUME NEW c \in Client, Begin(c) PROVE IInv' /\ LifeStep
  BY <1>1, CreateStep, PublishStep, InsertStep, DereferenceStep, LookupStep, ReferenceStep,
     ResolveStep, CloseStep, CloseInProcessStep, Zenon DEF Begin
<1>2. ASSUME NEW c \in Client, Continue(c) PROVE IInv' /\ LifeStep
  <2>1. CASE PublishHandle(c)
    BY <2>1, HandleStep, Zenon DEF PublishHandle, Table
  <2>2. CASE \E w \in Table : InsertHandle(c, w)
    BY <2>2, HandleStep, Zenon DEF InsertHandle
  <2> QED
    BY <1>2, <2>1, <2>2, OpenStep, UncountStep, UnlinkStep, ClearKernelStep, DestroyStep, ZenonT(30)
       DEF Continue
<1>3. ASSUME NEW p \in Process, NEW q \in Process, Inherit(p, q) PROVE IInv' /\ LifeStep
  BY <1>3, InheritStep
<1> QED
  BY <1>1, <1>2, <1>3, StutterStep, Zenon DEF Next

\* The inductive invariant holds in every reachable state.
THEOREM Invariance == Spec => []IInv
  BY InitInv, NextInv, PTL DEF Spec

\* Tables, counters and calls keep their types: the scan of the kernel's table
\* stays inside it, and the directory within MAX_DIR_ENTRIES.
THEOREM ObjectsTyped == Spec => []TypeOK
<1>1. IInv => TypeOK
  BY DEF IInv
<1> QED
  BY <1>1, Invariance, PTL

\* ref_count is at least the number of uses and exceeds it by at most the number
\* of kernel handles closed, whatever calls are under way.
THEOREM ReferencesCovered == Spec => []RefCountCovers
<1>1. IInv => RefCountCovers
  <2> SUFFICES ASSUME IInv, NEW o \in Object
               PROVE  Uses(o) <= refs[o] /\ refs[o] <= Uses(o) + closed[o]
    BY DEF RefCountCovers
  <2>1. TypeOK /\ refs[o] = Counted(o)
    BY Zenon DEF IInv, Exact, RefsCounted
  <2> QED
    BY <2>1, UsesFacts, SMTT(30), Z3T(30)
<1> QED
  BY <1>1, Invariance, PTL

\* handle_count is exact, whatever calls are under way.
THEOREM HandlesExact == Spec => []HandleCountExact
<1>1. IInv => HandleCountExact
  BY Zenon DEF IInv, Exact
<1> QED
  BY <1>1, Invariance, PTL

\* No directory entry, handle, pointer or call leads to a header that
\* try_delete_object_locked has freed.
THEOREM NothingDangles == Spec => []NoDangling
<1>1. IInv => NoDangling
  <2> SUFFICES ASSUME IInv, NEW o \in Object, status[o] # "live"
               PROVE  /\ ~Published(o) /\ SlotsOf(o) = {} /\ Pointers(o) = {}
                      /\ \A c \in Client : call[c].obj # o
    BY DEF NoDangling
  <2>1. Counted(o) = 0
    BY Unused, SMTT(30), Z3T(30) DEF IInv, LifeInv
  <2>2. ~Published(o) /\ SlotsOf(o) = {} /\ Pointers(o) = {}
    BY <2>1, Unused, Zenon DEF IInv, SlotsOf, Pointers
  <2>3. \A c \in Client : call[c].obj # o
    BY CallsLive, SMTT(30), Z3T(30) DEF Idle, Object, NoObject
  <2> QED
    BY <2>2, <2>3, Zenon
<1> QED
  BY <1>1, Invariance, PTL

\* Between the decision to delete an object and the end of its deletion nobody
\* else has to do with it, although dereference_object drops the lock.
THEOREM OneDeleterOnly == Spec => []OneDeleter
<1>1. IInv => OneDeleter
  <2> SUFFICES ASSUME IInv, NEW c \in Client, Ending(c)
               PROVE  /\ Uses(call[c].obj) = 0 /\ handles[call[c].obj] = 0
                      /\ \A d \in Client : call[d].obj = call[c].obj => d = c
    BY Zenon DEF OneDeleter, Ending
  <2>1. PICK p \in Object :
          /\ p = call[c].obj /\ status[p] = "live" /\ Counted(p) = 0 /\ ~Published(p)
          /\ \A s \in Slot : slot[s] # p
          /\ \A d \in Client : call[d].obj = p => d = c
          /\ call[c].at # "close"
    BY DeletionFacts, Zenon
  <2>2. NumSlots(p) = 0
    BY <2>1, NumType
  <2>3. NumClosing(p) = 0
    <3>1. ASSUME NEW d \in Client, call[d] = InCall("close", p) PROVE FALSE
      BY <2>1, <3>1, SMTT(30), Z3T(30) DEF InCall
    <3> QED
      BY <3>1, NumType, Zenon
  <2>4. handles[p] = 0
    <3>1. handles[p] = NumSlots(p) + NumClosing(p)
      BY HandleTerms, Zenon DEF IInv, Exact
    <3> QED
      BY <2>2, <2>3, <3>1
  <2>5. Uses(p) = 0
    BY <2>1, UsesFacts, SMTT(30), Z3T(30) DEF IInv
  <2> QED
    BY <2>1, <2>4, <2>5, Zenon
<1> QED
  BY <1>1, Invariance, PTL

\* The object manager implements ObjectLife: objects are born used once, come
\* into use only through a use, and die unused, once.
THEOREM ImplementsLife == Spec => Life!Safety
<1>1. Init => Life!Init
  BY InitInv
<1>2. IInv /\ [Next]_vars => [Life!Next]_(Life!lifeVars)
  BY NextInv DEF LifeStep
<1> QED
  BY <1>1, <1>2, Invariance, PTL DEF Spec, Life!Safety
=============================================================================
