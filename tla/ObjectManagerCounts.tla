------------------------ MODULE ObjectManagerCounts -------------------------
(***************************************************************************)
(* The inductive invariant of ObjectManager, and the lemmas its proof      *)
(* rests on: counting slots, pointers and calls, and what a step that      *)
(* gives or takes one use of an object does to the invariant.  Then the    *)
(* steps that create and publish objects, look them up, and reference and  *)
(* dereference them.                                                       *)
(*                                                                         *)
(* RefCountCovers, HandleCountExact, NoDangling and OneDeleter are not     *)
(* inductive.  ref_count covers the uses because it counts exactly those   *)
(* and the references that closed kernel handles have left behind.  That a *)
(* client in the middle of a call has a live object depends on what keeps  *)
(* it alive: a directory entry, the client's own pointer or a reference    *)
(* left behind.  CallInv names it for each kind of call, and LifeInv says  *)
(* that whatever is counted is alive.                                      *)
(***************************************************************************)
EXTENDS ObjectManager, FiniteSetTheorems, WellFoundedInduction, TLAPS

NumSlots(o) == Cardinality(SlotsOf(o))
NumPointers(o) == Cardinality(Pointers(o))
NumClosing(o) == Cardinality(Closing(o))

\* What ref_count counts: the uses, and the references left behind.
Counted(o) == Uses(o) + closed[o]

Ending(c) == call[c].at \in {"delete", "clear", "free"}

\* What keeps the object of a call alive, or that nothing does.
CallOK(c) ==
    /\ call[c].at \in {"publish", "open"} => Published(call[c].obj)
    /\ call[c].at = "open" => ptr[c] = NoObject
    /\ call[c].at = "insert" => ptr[c] = call[c].obj
    /\ call[c].at = "close" => closed[call[c].obj] > 0
    /\ Ending(c) => /\ Counted(call[c].obj) = 0 /\ status[call[c].obj] = "live"
                    /\ \A d \in Client : call[d].obj = call[c].obj => d = c
    /\ call[c].at = "delete" => call[c].obj \notin deleting
    /\ call[c].at \in {"clear", "free"} => call[c].obj \in deleting
    /\ lock = c <=> call[c].at \in {"clear", "free"}

CallInv == \A c \in Client : CallOK(c)

LifeInv ==
    \A o \in Object :
        /\ Counted(o) > 0 => status[o] = "live" /\ o \notin deleting
        /\ o \in deleting => status[o] # "none"

RefsCounted == \A o \in Object : refs[o] = Counted(o)

Exact == RefsCounted /\ HandleCountExact

IInv == TypeOK /\ Exact /\ CallInv /\ LifeInv

-----------------------------------------------------------------------------
(* Counting *)

\* How many arguments a function takes to o.
Count(f, S, o) == Cardinality({x \in S : f[x] = o})

One(x, y) == IF x = y THEN 1 ELSE 0
SameBut(f, g, S, x) == \A z \in S : z # x => g[z] = f[z]
\* A count is a natural number, and zero when nothing is counted.
LEMMA CountType ==
  ASSUME NEW S, IsFiniteSet(S), NEW f, NEW o
  PROVE  /\ Count(f, S, o) \in Nat
         /\ Count(f, S, o) = 0 <=> \A x \in S : f[x] # o
<1>1. {x \in S : f[x] = o} \in SUBSET S
  OBVIOUS
<1>2. IsFiniteSet({x \in S : f[x] = o})
  BY <1>1, FS_Subset
<1>3. Cardinality({x \in S : f[x] = o}) \in Nat
  BY <1>2, FS_CardinalityType
<1>4. Cardinality({x \in S : f[x] = o}) = 0 <=> {x \in S : f[x] = o} = {}
  BY <1>2, FS_EmptySet
<1> QED
  BY <1>3, <1>4 DEF Count

\* One assignment changes the counts of the old and of the new value only.
LEMMA CountUpdate ==
  \A S, f, g, o : \A x \in S :
      IsFiniteSet(S) /\ SameBut(f, g, S, x)
        => Count(g, S, o) = Count(f, S, o) + One(g[x], o) - One(f[x], o)
<1> SUFFICES ASSUME NEW S, IsFiniteSet(S), NEW f, NEW g, NEW x \in S, NEW o, SameBut(f, g, S, x)
             PROVE  Count(g, S, o) = Count(f, S, o) + One(g[x], o) - One(f[x], o)
  OBVIOUS
<1> DEFINE A == {z \in S : f[z] = o}
           B == {z \in S : g[z] = o}
<1>0. Count(f, S, o) = Cardinality(A) /\ Count(g, S, o) = Cardinality(B)
  BY DEF Count
<1> HIDE DEF A, B
<1>1. IsFiniteSet(A) /\ A \in SUBSET S
  BY FS_Subset DEF A
<1>2. Cardinality(A) \in Nat
  BY <1>1, FS_CardinalityType
<1>3. CASE g[x] = o /\ f[x] = o
  <2>1. B = A
    BY <1>3 DEF A, B, SameBut
  <2> QED
    BY <2>1, <1>2, <1>3, <1>0 DEF One
<1>4. CASE g[x] = o /\ f[x] # o
  <2>1. B = A \cup {x} /\ x \notin A
    BY <1>4 DEF A, B, SameBut
  <2>2. Cardinality(B) = Cardinality(A) + 1
    BY <2>1, <1>1, FS_AddElement, Zenon
  <2> QED
    BY <2>2, <1>2, <1>4, <1>0 DEF One
<1>5. CASE g[x] # o /\ f[x] = o
  <2>1. B = A \ {x} /\ x \in A
    BY <1>5 DEF A, B, SameBut
  <2>2. Cardinality(B) = Cardinality(A) - 1
    BY <2>1, <1>1, FS_RemoveElement
  <2> QED
    BY <2>2, <1>2, <1>5, <1>0 DEF One
<1>6. CASE g[x] # o /\ f[x] # o
  <2>1. B = A
    BY <1>6 DEF A, B, SameBut
  <2> QED
    BY <2>1, <1>2, <1>6, <1>0 DEF One
<1> QED
  BY <1>3, <1>4, <1>5, <1>6

\* A slot is a table with one of its indices.
LEMMA SlotMember ==
  ASSUME NEW w \in Table, NEW i \in Index(w)
  PROVE  <<w, i>> \in Slot
  BY DEF Slot

\* A slot is a pair of a table and an index of it.
LEMMA SlotParts ==
  ASSUME NEW s \in Slot
  PROVE  s = <<s[1], s[2]>> /\ s[1] \in Table /\ s[2] \in Index(s[1])
  BY DEF Slot

\* There are finitely many slots.
LEMMA SlotFinite == IsFiniteSet(Slot)
<1> DEFINE I == 0 .. KernelSlots + ProcessSlots
<1>1. IsFiniteSet(Table)
  <2>1. IsFiniteSet(Process)
    BY ObjectAssumption
  <2> QED
    BY <2>1, FS_AddElement DEF Table
<1>2. IsFiniteSet(I)
  <2>1. KernelSlots + ProcessSlots \in Int /\ 0 \in Int
    BY ObjectAssumption
  <2> QED
    BY <2>1, FS_Interval
<1>3. IsFiniteSet(Table \X I)
  BY <1>1, <1>2, FS_Product, Zenon
<1>4. \A w \in Table : Index(w) \subseteq I
  BY ObjectAssumption DEF Index
<1>5. Slot \in SUBSET (Table \X I)
  BY <1>4 DEF Slot
<1> QED
  BY <1>3, <1>5, FS_Subset

\* The three counts of an object.
LEMMA NumAsCount ==
  ASSUME NEW o
  PROVE  /\ NumSlots(o) = Count(slot, Slot, o)
         /\ NumPointers(o) = Count(ptr, Client, o)
         /\ NumClosing(o) = Count(call, Client, InCall("close", o))
         /\ NumSlots(o)' = Count(slot', Slot, o)
         /\ NumPointers(o)' = Count(ptr', Client, o)
         /\ NumClosing(o)' = Count(call', Client, InCall("close", o))
  BY DEF NumSlots, NumPointers, NumClosing, SlotsOf, Pointers, Closing, Count, InCall

\* The three counts are natural numbers, zero when nothing is counted.
LEMMA NumType ==
  ASSUME NEW o
  PROVE  /\ NumSlots(o) \in Nat /\ NumPointers(o) \in Nat /\ NumClosing(o) \in Nat
         /\ NumSlots(o) = 0 <=> \A s \in Slot : slot[s] # o
         /\ NumPointers(o) = 0 <=> \A c \in Client : ptr[c] # o
         /\ NumClosing(o) = 0 <=> \A c \in Client : call[c] # InCall("close", o)
         /\ NumSlots(o)' \in Nat /\ NumPointers(o)' \in Nat
         /\ NumSlots(o)' = 0 <=> \A s \in Slot : slot'[s] # o
         /\ NumPointers(o)' = 0 <=> \A c \in Client : ptr'[c] # o
  BY NumAsCount, CountType, SlotFinite, ObjectAssumption

\* What an assignment to one slot, one pointer or one call does to the counts.
LEMMA SlotUpdate ==
  ASSUME TypeOK, NEW s \in Slot, NEW y, slot' = [slot EXCEPT ![s] = y]
  PROVE  \A o \in Object : NumSlots(o)' = NumSlots(o) + One(y, o) - One(slot[s], o)
<1>1. slot'[s] = y /\ SameBut(slot, slot', Slot, s)
  BY DEF TypeOK, SameBut
<1>2. ASSUME NEW o
      PROVE  Count(slot', Slot, o) = Count(slot, Slot, o) + One(slot'[s], o) - One(slot[s], o)
  <2>1. IsFiniteSet(Slot) /\ s \in Slot /\ SameBut(slot, slot', Slot, s)
    BY <1>1, SlotFinite
  <2> QED
    BY ONLY <2>1, CountUpdate, SMT
<1> QED
  BY <1>1, <1>2, NumAsCount, Zenon

\* The same for a pointer a client is given or gives up.
LEMMA PointerUpdate ==
  ASSUME TypeOK, NEW c \in Client, NEW y, ptr' = [ptr EXCEPT ![c] = y]
  PROVE  \A o \in Object : NumPointers(o)' = NumPointers(o) + One(y, o) - One(ptr[c], o)
<1>1. ptr'[c] = y /\ SameBut(ptr, ptr', Client, c)
  BY DEF TypeOK, SameBut
<1>2. ASSUME NEW o
      PROVE  Count(ptr', Client, o) = Count(ptr, Client, o) + One(ptr'[c], o) - One(ptr[c], o)
  <2>1. IsFiniteSet(Client) /\ c \in Client /\ SameBut(ptr, ptr', Client, c)
    BY <1>1, ObjectAssumption
  <2> QED
    BY ONLY <2>1, CountUpdate, SMT
<1> QED
  BY <1>1, <1>2, NumAsCount, Zenon

\* The same for a call a client begins, goes on with or ends.
LEMMA CallUpdate ==
  ASSUME TypeOK, NEW c \in Client, NEW k, call' = [call EXCEPT ![c] = k]
  PROVE  \A o \in Object :
            NumClosing(o)' = NumClosing(o) + One(k, InCall("close", o))
                                           - One(call[c], InCall("close", o))
<1>1. call'[c] = k /\ SameBut(call, call', Client, c)
  BY DEF TypeOK, SameBut
<1>2. ASSUME NEW o
      PROVE  Count(call', Client, o) = Count(call, Client, o) + One(call'[c], o) - One(call[c], o)
  <2>1. IsFiniteSet(Client) /\ c \in Client /\ SameBut(call, call', Client, c)
    BY <1>1, ObjectAssumption
  <2> QED
    BY ONLY <2>1, CountUpdate, SMT
<1> QED
  BY <1>1, <1>2, NumAsCount, Zenon

\* What is not assigned keeps its count.
LEMMA NumUnchanged ==
  ASSUME NEW o
  PROVE  /\ slot' = slot => NumSlots(o)' = NumSlots(o)
         /\ ptr' = ptr => NumPointers(o)' = NumPointers(o)
         /\ call' = call => NumClosing(o)' = NumClosing(o)
         /\ dir' = dir => Published(o)' = Published(o)
  BY Zenon DEF NumSlots, NumPointers, NumClosing, SlotsOf, Pointers, Closing, Published, InCall

-----------------------------------------------------------------------------
(* Uses, and what is counted *)

\* What is counted of an object, in the counts of slots and pointers.
LEMMA CountedParts ==
  ASSUME NEW o
  PROVE  /\ Counted(o) = NumPointers(o) + NumSlots(o) + (IF Published(o) THEN 1 ELSE 0)
                        + closed[o]
         /\ Counted(o)' = NumPointers(o)' + NumSlots(o)' + (IF Published(o)' THEN 1 ELSE 0)
                        + closed'[o]
  BY DEF Counted, Uses, NumPointers, NumSlots

\* The uses of an object: what is counted less the references left behind.  It
\* is unused when no pointer, no slot and no directory entry leads to it.
LEMMA UsesFacts ==
  ASSUME TypeOK, NEW o \in Object
  PROVE  /\ Uses(o) \in Nat /\ Uses(o)' \in Nat /\ closed[o] \in Nat
         /\ Counted(o) = Uses(o) + closed[o] /\ Counted(o)' = Uses(o)' + closed'[o]
         /\ Uses(o) = 0 <=> /\ \A c \in Client : ptr[c] # o
                            /\ \A s \in Slot : slot[s] # o
                            /\ ~Published(o)
<1>1. closed[o] \in Nat
  BY DEF TypeOK
<1>2. /\ NumSlots(o) \in Nat /\ NumPointers(o) \in Nat
      /\ NumSlots(o)' \in Nat /\ NumPointers(o)' \in Nat
      /\ NumSlots(o) = 0 <=> \A s \in Slot : slot[s] # o
      /\ NumPointers(o) = 0 <=> \A c \in Client : ptr[c] # o
  BY NumType
<1>3. /\ Uses(o) = NumPointers(o) + NumSlots(o) + (IF Published(o) THEN 1 ELSE 0)
      /\ Uses(o)' = NumPointers(o)' + NumSlots(o)' + (IF Published(o)' THEN 1 ELSE 0)
  BY DEF Uses, NumPointers, NumSlots
<1>4. /\ Uses(o) \in Nat /\ Uses(o)' \in Nat
      /\ Uses(o) = 0 <=> NumPointers(o) = 0 /\ NumSlots(o) = 0 /\ ~Published(o)
  BY ONLY <1>2, <1>3
<1> QED
  BY <1>1, <1>2, <1>4 DEF Counted

\* An object is not counted when nothing at all refers to it.
LEMMA Unused ==
  ASSUME TypeOK, NEW o \in Object
  PROVE  /\ Counted(o) \in Nat
         /\ Counted(o) = 0 <=> /\ \A c \in Client : ptr[c] # o
                               /\ \A s \in Slot : slot[s] # o
                               /\ ~Published(o) /\ closed[o] = 0
<1>1. closed[o] \in Nat
  BY DEF TypeOK
<1>2. /\ NumSlots(o) \in Nat /\ NumPointers(o) \in Nat
      /\ NumSlots(o) = 0 <=> \A s \in Slot : slot[s] # o
      /\ NumPointers(o) = 0 <=> \A c \in Client : ptr[c] # o
  BY NumType
<1>3. Counted(o) = NumPointers(o) + NumSlots(o) + (IF Published(o) THEN 1 ELSE 0) + closed[o]
  BY CountedParts
<1>4. Counted(o) \in Nat /\ (Counted(o) = 0 <=> NumPointers(o) = 0 /\ NumSlots(o) = 0
                                          /\ ~Published(o) /\ closed[o] = 0)
  BY ONLY <1>1, <1>2, <1>3
<1> QED
  BY <1>2, <1>4

\* After a step too, nothing leads to an object that is not counted.
LEMMA UnusedNext ==
  ASSUME TypeOK', NEW o \in Object, Counted(o)' = 0
  PROVE  /\ \A c \in Client : ptr'[c] # o
         /\ ~Published(o)' /\ closed'[o] = 0
<1>1. closed'[o] \in Nat
  BY DEF TypeOK
<1>2. /\ NumSlots(o)' \in Nat /\ NumPointers(o)' \in Nat
      /\ NumPointers(o)' = 0 <=> \A c \in Client : ptr'[c] # o
  BY NumType
<1>3. Counted(o)' = NumPointers(o)' + NumSlots(o)' + (IF Published(o)' THEN 1 ELSE 0) + closed'[o]
  BY CountedParts
<1>4. NumPointers(o)' = 0 /\ NumSlots(o)' = 0 /\ ~Published(o)' /\ closed'[o] = 0
  <2>1. \/ Published(o)' /\ Counted(o)' = NumPointers(o)' + NumSlots(o)' + 1 + closed'[o]
        \/ ~Published(o)' /\ Counted(o)' = NumPointers(o)' + NumSlots(o)' + 0 + closed'[o]
    BY <1>3
  <2> QED
    BY <1>1, <1>2, <2>1, SMTT(30), Z3T(30)
<1> QED
  BY <1>2, <1>4

\* The object of every call is alive, nobody deletes an object that is counted,
\* and an object about to be referenced is in use.
LEMMA CallsLive ==
  ASSUME IInv, NEW c \in Client, call[c] # Idle
  PROVE  /\ call[c].obj \in Object /\ call[c].at \in At
         /\ status[call[c].obj] = "live"
         /\ ~Ending(c) => Counted(call[c].obj) > 0
         /\ call[c].at \in {"publish", "open", "insert"} => Uses(call[c].obj) > 0
<1>1. call[c] \in [at : At, obj : Object]
  BY DEF IInv, TypeOK
<1>2. Counted(call[c].obj) \in Nat /\ CallOK(c)
  BY <1>1, Unused DEF IInv, CallInv
<1>3. ~Ending(c) => Counted(call[c].obj) # 0
  BY <1>1, <1>2, Unused DEF CallOK, Ending, At, IInv
<1>4. call[c].at \in {"publish", "open", "insert"} => Uses(call[c].obj) # 0
  BY <1>1, <1>2, UsesFacts, Zenon DEF CallOK, IInv
<1>5. Uses(call[c].obj) \in Nat
  BY <1>1, UsesFacts, Zenon DEF IInv
<1>6. Uses(call[c].obj) # 0 => Uses(call[c].obj) > 0
  BY <1>5
<1> QED
  BY <1>1, <1>2, <1>3, <1>4, <1>6 DEF IInv, LifeInv, CallOK

\* A client that is in no call does not have OB_DELETE_LOCK.
LEMMA IdleUnlocked ==
  ASSUME IInv, NEW c \in Client, call[c] = Idle
  PROVE  lock # c
<1>1. CallOK(c) /\ call[c].at \notin {"clear", "free"}
  BY DEF IInv, CallInv, Idle
<1> QED
  BY <1>1 DEF CallOK

-----------------------------------------------------------------------------
(* Steps *)

LifeStep == [Life!Next]_(Life!lifeVars)

\* Beginning and ending a call: its type, and the closes under way.
LEMMA CallType ==
  ASSUME TypeOK, NEW c \in Client, NEW a \in At, NEW o \in Object
  PROVE  /\ Called(c, a, o) => call' \in [Client -> {Idle} \cup [at : At, obj : Object]]
         /\ Return(c) => call' \in [Client -> {Idle} \cup [at : At, obj : Object]]
<1>1. InCall(a, o) \in [at : At, obj : Object]
  BY DEF InCall
<1> QED
  BY <1>1, Zenon DEF TypeOK, Called, Return

\* A step that neither begins nor ends a close leaves them alone.
LEMMA SameClosing ==
  ASSUME TypeOK, NEW c \in Client, call[c].at # "close", NEW k, k.at # "close",
         call' = [call EXCEPT ![c] = k]
  PROVE  \A o \in Object : NumClosing(o)' = NumClosing(o)
<1> SUFFICES ASSUME NEW o \in Object
             PROVE  NumClosing(o)' = NumClosing(o)
  OBVIOUS
<1>1. One(k, InCall("close", o)) = 0 /\ One(call[c], InCall("close", o)) = 0
  BY DEF One, InCall
<1>2. NumClosing(o)' = NumClosing(o) + One(k, InCall("close", o)) - One(call[c], InCall("close", o))
  BY CallUpdate, Zenon
<1>3. NumClosing(o) \in Nat
  BY NumType
<1> QED
  BY <1>1, <1>2, <1>3

\* A client that starts a deletion is not closing a handle before or after.
LEMMA DeleteCloses ==
  ASSUME TypeOK, NEW c \in Client, call[c] = Idle, NEW p, Called(c, "delete", p) \/ call' = call
  PROVE  \A o \in Object : NumClosing(o)' = NumClosing(o)
<1>1. CASE call' = call
  BY <1>1, NumUnchanged
<1>2. CASE Called(c, "delete", p)
  <2>1. Idle.at # "close" /\ InCall("delete", p).at # "close"
    BY DEF Idle, InCall
  <2> QED
    BY <1>2, <2>1, SameClosing, Zenon DEF Called
<1> QED
  BY <1>1, <1>2

\* HandleCountExact in terms of the counts, before and after a step.
LEMMA HandleTerms ==
  /\ HandleCountExact <=> \A o \in Object : handles[o] = NumSlots(o) + NumClosing(o)
  /\ HandleCountExact' <=> \A o \in Object : handles'[o] = NumSlots(o)' + NumClosing(o)'
  BY DEF HandleCountExact, NumSlots, NumClosing

\* What is counted of an object and its parts, before and after a step.
LEMMA CountedTerms ==
  ASSUME TypeOK, NEW o \in Object
  PROVE  /\ NumPointers(o) \in Nat /\ NumSlots(o) \in Nat /\ closed[o] \in Nat
         /\ Counted(o) = NumPointers(o) + NumSlots(o) + (IF Published(o) THEN 1 ELSE 0)
                        + closed[o]
         /\ Counted(o)' = NumPointers(o)' + NumSlots(o)' + (IF Published(o)' THEN 1 ELSE 0)
                        + closed'[o]
<1>1. closed[o] \in Nat
  BY DEF TypeOK
<1> QED
  BY <1>1, NumType, CountedParts

\* What nearly every step does: it disturbs no call but that of c, revives no
\* uncounted object, and takes nothing from under a call.
Kept(c) ==
    /\ deleting' = deleting /\ lock' = lock
    /\ \A o \in Object : /\ status[o] = "live" => status'[o] = "live"
                         /\ Published(o) => Published(o)'
                         /\ closed[o] <= closed'[o]
                         /\ status[o] = "live" /\ Counted(o) = 0 => Counted(o)' = 0
    /\ \A d \in Client \ {c} : call'[d] = call[d] /\ (call[d] # Idle => ptr'[d] = ptr[d])
    /\ \/ call'[c] = call[c] \/ call'[c] = Idle
       \/ \E o \in Object : call'[c].obj = o /\ Counted(o) > 0

\* A step of c alone leaves the calls of the other clients sound.
LEMMA CallsKept ==
  ASSUME IInv, TypeOK', NEW c, Kept(c), NEW d \in Client \ {c}
  PROVE  CallOK(d)'
<1>1. CallOK(d) /\ call'[d] = call[d]
  BY DEF IInv, CallInv, Kept
<1>2. CASE call[d] = Idle
  BY <1>1, <1>2, SMTT(30), Z3T(30) DEF CallOK, Idle, Kept, Ending
<1>3. CASE call[d] # Idle
  <2> DEFINE o == call[d].obj
  <2>1. /\ o \in Object /\ status[o] = "live" /\ ptr'[d] = ptr[d]
        /\ closed[o] \in Nat /\ closed'[o] \in Nat
    BY <1>3, CallsLive, Zenon DEF IInv, TypeOK, Kept
  <2>2. ASSUME Ending(d), NEW e \in Client, call'[e].obj = o
        PROVE  e = d
    <3>1. \A x \in Client : call[x].obj = o => x = d
      BY <1>1, <2>2, Zenon DEF CallOK
    <3>2. Counted(o) = 0 /\ o # NoObject
      BY <1>1, <2>1, <2>2, SMTT(30), Z3T(30) DEF CallOK, Object, NoObject
    <3>3. call'[e] = call[e] \/ call'[e] = Idle \/ \E x \in Object : call'[e].obj = x /\ Counted(x) > 0
      BY DEF Kept
    <3> QED
      BY <3>1, <3>2, <3>3, <2>2, SMTT(30), Z3T(30) DEF Idle
  <2>3. Ending(d)' <=> Ending(d)
    BY <1>1, Zenon DEF Ending
  <2>4. Ending(d)' => Counted(o)' = 0 /\ status'[o] = "live"
    BY <1>1, <2>1, <2>3, Zenon DEF CallOK, Kept
  <2> QED
    BY <1>1, <2>1, <2>2, <2>3, <2>4 DEF CallOK, Kept
<1> QED
  BY <1>2, <1>3

\* The step that gives back the last use may begin to delete the object: no
\* call of another client is about it.
LEMMA LastUse ==
  ASSUME IInv, TypeOK', NEW c \in Client, Kept(c), NEW p \in Object, Counted(p) > 0, Counted(p)' = 0,
         status'[p] = "live", lock # c, call'[c] = InCall("delete", p)
  PROVE  CallOK(c)'
<1>1. ASSUME NEW d \in Client \ {c}, call'[d].obj = p
      PROVE  FALSE
  <2>1. CallOK(d)' /\ CallOK(d) /\ call'[d] = call[d]
    BY CallsKept, Zenon DEF IInv, CallInv, Kept
  <2>2. call[d] # Idle
    BY <2>1, <1>1, SMTT(30), Z3T(30) DEF Idle, Object, NoObject
  <2>3. call[d].at \in At /\ ~Ending(d)
    BY <2>1, <2>2, <1>1, CallsLive, SMTT(30), Z3T(30) DEF CallOK
  <2> QED
    BY <2>1, <2>3, <1>1, UnusedNext, SMTT(30), Z3T(30) DEF CallOK, At, Ending
<1>2. p \notin deleting' /\ lock' # c
  BY DEF IInv, LifeInv, Kept
<1>3. call'[c].at = "delete" /\ call'[c].obj = p
  BY DEF InCall
<1> QED
  BY <1>1, <1>2, <1>3, Zenon DEF CallOK, Ending

\* A client that is in no call has nothing to fear.
LEMMA IdleOK ==
  ASSUME NEW c \in Client, call'[c] = Idle, lock' # c
  PROVE  CallOK(c)'
  BY DEF CallOK, Ending, Idle

\* Only a new object comes to be counted.
LEMMA LifeKept ==
  ASSUME IInv, deleting' = deleting,
         \A o \in Object : /\ Counted(o)' > 0 => status'[o] = "live" /\ (Counted(o) > 0 \/ status[o] = "none")
                           /\ status'[o] = "none" => status[o] = "none"
  PROVE  LifeInv'
  BY DEF IInv, LifeInv

\* The steps of ObjectLife that leave every object alive.
LEMMA AcquireStep ==
  ASSUME status' = status,
         \A o \in Object : Uses(o)' # Uses(o) =>
             status[o] = "live" /\ 0 < Uses(o) /\ Uses(o) < Uses(o)'
  PROVE  LifeStep
  BY DEF LifeStep, Life!Next, Life!Acquire

\* Giving up one use is a Release of ObjectLife.
LEMMA ReleaseStep ==
  ASSUME TypeOK, status' = status, NEW p \in Object, 0 < Uses(p),
         \A o \in Object : Uses(o)' = Uses(o) - One(p, o)
  PROVE  LifeStep
<1>1. \A o \in Object : Uses(o)' = IF o = p THEN Uses(o) - 1 ELSE Uses(o)
  BY UsesFacts DEF One
<1>2. [o \in Object |-> Uses(o)'] = [[o \in Object |-> Uses(o)] EXCEPT ![p] = @ - 1]
  BY <1>1, Zenon
<1>3. Life!Release(p)
  BY <1>2 DEF Life!Release
<1> QED
  BY <1>3 DEF LifeStep, Life!Next

\* A step that gives back a use of p, and begins to delete p only if it was the
\* last one, keeps the invariant.
LEMMA Released ==
  ASSUME IInv, TypeOK', HandleCountExact', NEW c \in Client, NEW p \in Object,
         Uses(p) > 0, call[c] = Idle, lock = NoClient,
         \A o \in Object : Counted(o)' = Counted(o) - One(p, o),
         refs' = [refs EXCEPT ![p] = Less(@)],
         (Called(c, "delete", p) /\ Less(refs[p]) = 0) \/ call' = call,
         UNCHANGED <<status, deleting, lock, closed, dir>>,
         \A d \in Client \ {c} : ptr'[d] = ptr[d]
  PROVE  IInv' /\ LifeStep
<1>0. TypeOK /\ Counted(p) > 0
  BY UsesFacts DEF IInv
<1>1. /\ TypeOK /\ status[p] = "live" /\ lock # c
      /\ \A o \in Object : refs[o] \in Nat /\ refs[o] = Counted(o) /\ closed[o] \in Nat
  BY <1>0, ObjectAssumption, Zenon DEF IInv, LifeInv, TypeOK, Exact, RefsCounted
<1>2. \A o \in Object : refs'[o] = Counted(o)'
  BY <1>0, <1>1, SMTT(30), Z3T(30) DEF Less, One, TypeOK
<1>3. Exact'
  BY <1>2, Zenon DEF Exact, RefsCounted
<1>4. Kept(c)
  <2>1. \A o \in Object : status[o] = "live" /\ Counted(o) = 0 => Counted(o)' = 0
    BY <1>0 DEF One
  <2>2. \A o \in Object : Published(o) => Published(o)'
    BY NumUnchanged, Zenon
  <2>3. call'[c] = call[c] \/ (call'[c].obj = p /\ Counted(p) > 0)
    BY <1>0, <1>1, SMTT(30), Z3T(30) DEF Called, InCall, TypeOK
  <2>4. \A d \in Client \ {c} : call'[d] = call[d]
    BY <1>1, ZenonT(30) DEF Called, TypeOK
  <2> QED
    BY <2>1, <2>2, <2>3, <2>4, <1>1, SMTT(30), Z3T(30) DEF Kept
<1>5. CallOK(c)'
  <2>1. CASE call' = call
    BY <2>1, <1>1, IdleOK
  <2>2. CASE Called(c, "delete", p) /\ Less(refs[p]) = 0
    <3>1. call'[c] = InCall("delete", p) /\ status'[p] = "live" /\ refs'[p] = 0
      BY <2>2, <1>1, Zenon DEF Called, TypeOK
    <3>2. Counted(p)' = 0
      BY <3>1, <1>2, Zenon
    <3> QED
      BY <3>1, <3>2, <1>0, <1>1, <1>4, LastUse, Zenon
  <2> QED
    BY <2>1, <2>2, Zenon
<1>6. LifeInv'
  <2>1. \A o \in Object : Counted(o) \in Nat /\ (Counted(o)' > 0 => Counted(o) > 0)
    BY <1>1, Unused, SMTT(30), Z3T(30) DEF One
  <2> QED
    BY <2>1, LifeKept, Zenon DEF IInv, LifeInv
<1>7. LifeStep
  <2>1. \A o \in Object : Uses(o)' = Uses(o) - One(p, o)
    BY <1>0, UsesFacts, SMTT(30), Z3T(30) DEF One
  <2> QED
    BY <1>0, <2>1, ReleaseStep, Zenon
<1> QED
  BY <1>3, <1>4, <1>5, <1>6, <1>7, CallsKept, Zenon DEF IInv, CallInv

\* A step that leaves an uncounted object uncounted keeps the invariant.  It is a
\* step of client c, or of none.
LEMMA AcquiredInv ==
  ASSUME IInv, TypeOK', Exact', NEW c, c \in Client => CallOK(c)',
         UNCHANGED <<status, deleting, lock>>,
         \A o \in Object : /\ Published(o) => Published(o)'
                           /\ closed[o] <= closed'[o]
                           /\ Counted(o)' # Counted(o) => 0 < Counted(o),
         \A d \in Client \ {c} : call'[d] = call[d] /\ (call[d] # Idle => ptr'[d] = ptr[d]),
         \/ call'[c] = call[c] \/ call'[c] = Idle
         \/ \E o \in Object : call'[c].obj = o /\ Counted(o) > 0
  PROVE  IInv'
<1>1. Kept(c)
  BY DEF Kept
<1>2. \A o \in Object : Counted(o) \in Nat /\ (Counted(o)' > 0 => Counted(o) > 0)
  BY Unused, Zenon DEF IInv
<1>3. LifeInv'
  BY <1>2, LifeKept, Zenon DEF IInv, LifeInv
<1> QED
  BY <1>1, <1>3, CallsKept, Zenon DEF IInv, CallInv

\* A step that adds uses to objects in use, or none, keeps the invariant and is a
\* step of ObjectLife.
LEMMA Acquired ==
  ASSUME IInv, TypeOK', Exact', NEW c, c \in Client => CallOK(c)',
         UNCHANGED <<status, deleting, lock, closed>>,
         \A o \in Object : /\ Published(o) => Published(o)'
                           /\ Counted(o)' # Counted(o) => 0 < Uses(o) /\ Counted(o) < Counted(o)',
         \A d \in Client \ {c} : call'[d] = call[d] /\ (call[d] # Idle => ptr'[d] = ptr[d]),
         \/ call'[c] = call[c] \/ call'[c] = Idle
         \/ \E o \in Object : call'[c].obj = o /\ Counted(o) > 0
  PROVE  IInv' /\ LifeStep
<1>0. TypeOK
  BY DEF IInv
<1>1. \A o \in Object :
          /\ closed[o] <= closed'[o]
          /\ 0 < Uses(o) => 0 < Counted(o)
          /\ Uses(o)' # Uses(o) => 0 < Uses(o) /\ Uses(o) < Uses(o)'
  BY <1>0, UsesFacts, SMTT(30), Z3T(30)
<1>2. IInv'
  BY <1>1, AcquiredInv, Zenon
<1>3. \A o \in Object : 0 < Uses(o) => status[o] = "live"
  BY <1>1 DEF IInv, LifeInv
<1>4. LifeStep
  BY <1>1, <1>3, AcquireStep, Zenon
<1> QED
  BY <1>2, <1>4

\* What is counted depends on the slots, the pointers, the directory and the
\* closes alone.
LEMMA SameCounted ==
  ASSUME UNCHANGED <<slot, ptr, dir, closed>>, NEW o
  PROVE  /\ Counted(o)' = Counted(o) /\ NumSlots(o)' = NumSlots(o) /\ Published(o)' = Published(o)
         /\ Uses(o)' = Uses(o)
<1>1. NumPointers(o)' = NumPointers(o) /\ NumSlots(o)' = NumSlots(o) /\ Published(o)' = Published(o)
  BY NumUnchanged, Zenon
<1>2. Uses(o)' = Uses(o)
  BY <1>1, Zenon DEF Uses, NumPointers, NumSlots
<1> QED
  BY <1>1, <1>2, Zenon DEF Counted

-----------------------------------------------------------------------------
(* Creation, publication, lookup, reference and dereference keep the invariant *)

\* dereference_object gives a use back, and only the last one starts a deletion.
LEMMA DereferenceStep ==
  ASSUME IInv, NEW c \in Client, Dereference(c)
  PROVE  IInv' /\ LifeStep
<1>0. TypeOK
  BY DEF IInv
<1>1. PICK p \in Object : p = ptr[c] /\ call[c] = Idle /\ lock = NoClient
  BY <1>0 DEF TypeOK, Dereference, Holding, Resting, Free
<1>2. (Called(c, "delete", p) /\ Less(refs[p]) = 0) \/ call' = call
  BY <1>1, Zenon DEF Dereference
<1>3. call' \in [Client -> {Idle} \cup [at : At, obj : Object]]
  BY <1>0, <1>1, <1>2, CallType, Zenon DEF TypeOK, At
<1>4. TypeOK'
  BY <1>0, <1>1, <1>3, SMTT(30), Z3T(30) DEF TypeOK, Dereference, Less
<1>5. \A o \in Object : NumClosing(o)' = NumClosing(o)
  BY <1>0, <1>1, <1>2, DeleteCloses, Zenon
<1>6. HandleCountExact'
  BY <1>5, Zenon DEF IInv, Exact, HandleCountExact, NumClosing, SlotsOf, Dereference
<1>7. \A o \in Object : Counted(o)' = Counted(o) - One(p, o)
  <2> SUFFICES ASSUME NEW o \in Object
               PROVE  Counted(o)' = Counted(o) - One(p, o)
    OBVIOUS
  <2>1. NumPointers(o)' = NumPointers(o) + One(NoObject, o) - One(p, o)
    BY <1>0, <1>1, PointerUpdate, Zenon DEF Dereference
  <2>2. NumSlots(o)' = NumSlots(o) /\ Published(o)' = Published(o) /\ closed'[o] = closed[o]
    BY NumUnchanged DEF Dereference
  <2>3. One(NoObject, o) = 0 /\ One(p, o) \in Nat
    BY DEF One, NoObject, Object
  <2> QED
    BY <2>1, <2>2, <2>3, <1>0, CountedTerms, SMTT(30), Z3T(30)
<1>8. Uses(p) \in Nat /\ Uses(p) > 0
  BY <1>0, <1>1, UsesFacts, SMTT(30), Z3T(30)
<1>9. /\ refs' = [refs EXCEPT ![p] = Less(@)]
      /\ UNCHANGED <<status, deleting, lock, closed, dir>>
      /\ \A d \in Client \ {c} : ptr'[d] = ptr[d]
  BY <1>0, <1>1, Zenon DEF Dereference, TypeOK
<1> QED
  BY <1>1, <1>2, <1>4, <1>6, <1>7, <1>8, <1>9, Released, Zenon

\* A new pointer to p, in a client that held none, is one more use of p.
LEMMA NewPointer ==
  ASSUME TypeOK, NEW d \in Client, ptr[d] = NoObject, NEW p \in Object,
         ptr' = [ptr EXCEPT ![d] = p], UNCHANGED <<slot, dir, closed>>
  PROVE  \A o \in Object : Counted(o)' = Counted(o) + One(p, o)
<1> SUFFICES ASSUME NEW o \in Object
             PROVE  Counted(o)' = Counted(o) + One(p, o)
  OBVIOUS
<1>1. NumPointers(o)' = NumPointers(o) + One(p, o) - One(NoObject, o)
  BY PointerUpdate, Zenon
<1>2. One(NoObject, o) = 0 /\ One(p, o) \in Nat
  BY DEF One, NoObject, Object
<1>3. NumSlots(o)' = NumSlots(o) /\ Published(o)' = Published(o) /\ closed'[o] = closed[o]
  BY NumUnchanged
<1> QED
  BY <1>1, <1>2, <1>3, CountedTerms, SMTT(30), Z3T(30)

\* A reference that is counted for an object in use.
LEMMA CountedOnce ==
  ASSUME IInv, NEW p \in Object, Uses(p) > 0, refs' = Referenced(p),
         \A o \in Object : Counted(o)' = Counted(o) + One(p, o)
  PROVE  /\ refs' = [refs EXCEPT ![p] = @ + 1]
         /\ refs' \in [Object -> Nat] /\ RefsCounted'
         /\ \A o \in Object : Counted(o)' # Counted(o) => 0 < Uses(o) /\ Counted(o) < Counted(o)'
<1>0. Counted(p) > 0
  BY UsesFacts DEF IInv
<1>1. p \notin deleting /\ refs \in [Object -> Nat] /\ \A o \in Object : refs[o] = Counted(o)
  BY <1>0 DEF IInv, LifeInv, TypeOK, Exact, RefsCounted
<1>2. refs' = [refs EXCEPT ![p] = @ + 1]
  BY <1>1 DEF Referenced
<1>3. \A o \in Object : refs'[o] = Counted(o)'
  BY <1>1, <1>2 DEF One
<1>4. RefsCounted'
  BY <1>3, Zenon DEF RefsCounted
<1> QED
  BY <1>1, <1>2, <1>4, SMTT(30), Z3T(30) DEF One

\* reference_object on behalf of another client.
LEMMA ReferenceStep ==
  ASSUME IInv, NEW c \in Client, NEW d \in Client, Reference(c, d)
  PROVE  IInv' /\ LifeStep
<1>0. TypeOK /\ call[d] = Idle /\ ptr[d] = NoObject /\ lock = NoClient
  BY DEF IInv, Reference, Empty, Resting, Free
<1>1. PICK p \in Object : p = ptr[c]
  BY <1>0 DEF TypeOK, Reference, Holding
<1>2. Uses(p) \in Nat /\ Uses(p) > 0
  BY <1>0, <1>1, UsesFacts
<1>3. \A o \in Object : Counted(o)' = Counted(o) + One(p, o)
  BY <1>0, <1>1, NewPointer, Zenon DEF Reference
<1>4. /\ refs' \in [Object -> Nat] /\ RefsCounted'
      /\ \A o \in Object : Counted(o)' # Counted(o) => 0 < Uses(o) /\ Counted(o) < Counted(o)'
  BY <1>1, <1>2, <1>3, CountedOnce, Zenon DEF Reference
<1>5. TypeOK'
  BY <1>0, <1>1, <1>4, Zenon DEF TypeOK, Reference
<1>6. Exact'
  BY <1>4, Zenon DEF IInv, Exact, HandleCountExact, SlotsOf, Closing, InCall, Reference
<1>7. \A x \in Client \ {d} : call'[x] = call[x] /\ ptr'[x] = ptr[x]
  BY <1>0 DEF Reference, TypeOK
<1>8. CallOK(d)' /\ call'[d] = call[d]
  BY <1>0, IdleOK, ObjectAssumption, Zenon DEF Reference
<1>9. \A o \in Object : Published(o)' = Published(o)
  BY NumUnchanged, Zenon DEF Reference
<1> QED
  BY <1>4, <1>5, <1>6, <1>7, <1>8, <1>9, Acquired, Zenon DEF Reference

\* reference_object_by_handle: the slot keeps the object in use until then.
LEMMA ResolveStep ==
  ASSUME IInv, NEW c \in Client, NEW s \in Slot, Resolve(c, s)
  PROVE  IInv' /\ LifeStep
<1>0. TypeOK /\ call[c] = Idle /\ ptr[c] = NoObject /\ lock = NoClient
  BY DEF IInv, Resolve, Empty, Resting, Free
<1>1. PICK p \in Object : p = slot[s]
  BY <1>0 DEF TypeOK, Resolve
<1>2. Uses(p) \in Nat /\ Uses(p) > 0
  BY <1>0, <1>1, UsesFacts
<1>3. \A o \in Object : Counted(o)' = Counted(o) + One(p, o)
  BY <1>0, <1>1, NewPointer, Zenon DEF Resolve
<1>4. /\ refs' \in [Object -> Nat] /\ RefsCounted'
      /\ \A o \in Object : Counted(o)' # Counted(o) => 0 < Uses(o) /\ Counted(o) < Counted(o)'
  BY <1>1, <1>2, <1>3, CountedOnce, Zenon DEF Resolve
<1>5. TypeOK'
  BY <1>0, <1>1, <1>4, Zenon DEF TypeOK, Resolve
<1>6. Exact'
  BY <1>4, Zenon DEF IInv, Exact, HandleCountExact, SlotsOf, Closing, InCall, Resolve
<1>7. \A x \in Client \ {c} : call'[x] = call[x] /\ ptr'[x] = ptr[x]
  BY <1>0 DEF Resolve, TypeOK
<1>8. CallOK(c)' /\ call'[c] = call[c]
  BY <1>0, IdleOK, ObjectAssumption DEF Resolve
<1>9. \A o \in Object : Published(o)' = Published(o)
  BY NumUnchanged, Zenon DEF Resolve
<1> QED
  BY <1>4, <1>5, <1>6, <1>7, <1>8, <1>9, Acquired, Zenon DEF Resolve

\* open_object_by_name: the directory entry keeps the object in use between the
\* lookup and the reference.
LEMMA OpenStep ==
  ASSUME IInv, NEW c \in Client, Open(c)
  PROVE  IInv' /\ LifeStep
<1>0. TypeOK /\ lock = NoClient
  BY Zenon DEF IInv, Open, Free
<1>1. call[c] # Idle /\ ~Ending(c) /\ ptr[c] = NoObject
  BY SMTT(30), Z3T(30) DEF IInv, CallInv, CallOK, Open, Idle, Ending
<1>2. PICK p \in Object : p = call[c].obj /\ Uses(p) > 0
  BY <1>1, CallsLive DEF Open
<1>3. \A o \in Object : Counted(o)' = Counted(o) + One(p, o)
  BY <1>0, <1>1, <1>2, NewPointer, Zenon DEF Open
<1>4. /\ refs' \in [Object -> Nat] /\ RefsCounted'
      /\ \A o \in Object : Counted(o)' # Counted(o) => 0 < Uses(o) /\ Counted(o) < Counted(o)'
  BY <1>2, <1>3, CountedOnce, Zenon DEF Open
<1>5. TypeOK'
  <2>1. call' \in [Client -> {Idle} \cup [at : At, obj : Object]]
    BY <1>0, Zenon DEF Open, Return, TypeOK
  <2> QED
    BY <2>1, <1>0, <1>2, <1>4, Zenon DEF TypeOK, Open
<1>6. call'[c] = Idle /\ \A x \in Client \ {c} : call'[x] = call[x] /\ ptr'[x] = ptr[x]
  BY <1>0, Zenon DEF Open, Return, TypeOK
<1>7. Exact'
  <2>1. call[c].at # "close" /\ Idle.at # "close"
    BY DEF Open, Idle
  <2>2. \A o \in Object : NumClosing(o)' = NumClosing(o) /\ NumSlots(o)' = NumSlots(o)
    BY <2>1, <1>0, SameClosing, NumUnchanged, Zenon DEF Open, Return
  <2> QED
    BY <1>4, <2>2, HandleTerms, Zenon DEF IInv, Exact, Open
<1>8. CallOK(c)'
  BY <1>0, <1>6, IdleOK, ObjectAssumption, Zenon DEF Open
<1>9. \A o \in Object : Published(o)' = Published(o)
  BY NumUnchanged, Zenon DEF Open
<1> QED
  BY <1>4, <1>5, <1>6, <1>7, <1>8, <1>9, Acquired, Zenon DEF Open

\* A step that only begins a call, about an object that is counted.
LEMMA Begun ==
  ASSUME IInv, NEW c \in Client, NEW a \in At, a # "close", NEW p \in Object, Counted(p) > 0,
         call[c] = Idle, Called(c, a, p), CallOK(c)',
         UNCHANGED <<status, name, refs, handles, deleting, dir, slot, next, lock, ptr, closed>>
  PROVE  IInv' /\ LifeStep
<1>0. TypeOK
  BY Zenon DEF IInv
<1>1. TypeOK'
  BY <1>0, CallType, Zenon DEF TypeOK
<1>2. \A o \in Object : /\ NumSlots(o)' = NumSlots(o) /\ NumPointers(o)' = NumPointers(o)
                        /\ Published(o)' = Published(o)
  BY NumUnchanged, Zenon
<1>3. \A o \in Object : Counted(o)' = Counted(o)
  BY <1>2, CountedParts
<1>4. \A o \in Object : NumClosing(o)' = NumClosing(o)
  <2>1. InCall(a, p).at # "close" /\ Idle.at # "close"
    BY ZenonT(30) DEF InCall, Idle
  <2> QED
    BY <2>1, <1>0, SameClosing, Zenon DEF Called
<1>5. Exact'
  <2>1. RefsCounted'
    BY <1>3, Zenon DEF IInv, Exact, RefsCounted
  <2> QED
    BY <2>1, <1>2, <1>4, HandleTerms, Zenon DEF IInv, Exact
<1>6. /\ call'[c].obj = p
      /\ \A d \in Client \ {c} : call'[d] = call[d]
  BY <1>0 DEF Called, InCall, TypeOK
<1> QED
  BY <1>1, <1>2, <1>3, <1>5, <1>6, Acquired, Zenon

\* The minimum of a nonempty set of positions is in the set.
LEMMA MinMember ==
  ASSUME NEW I, I \subseteq Nat, I # {}
  PROVE  Min(I) \in I
<1>1. PICK i \in I : \A j \in I : <<j, i>> \notin OpToRel(<, Nat)
  BY WFMin, NatLessThanWellFounded
<1>2. ASSUME NEW j \in I PROVE i <= j
  <2>1. ~(j < i)
    <3>1. <<j, i>> \in Nat \X Nat
      BY Zenon
    <3> QED
      BY <3>1, <1>1 DEF OpToRel
  <2> QED
    BY <2>1
<1> QED
  BY <1>2, Zenon DEF Min

\* The first entry with a name is an entry.
LEMMA FirstNamed ==
  ASSUME TypeOK, NEW n, n \in Names
  PROVE  LET I == {i \in 1 .. Len(dir) : name[dir[i]] = n}
         IN  I # {} /\ dir[Min(I)] \in Object /\ Published(dir[Min(I)])
<1> DEFINE I == {i \in 1 .. Len(dir) : name[dir[i]] = n}
<1>1. I # {} /\ I \subseteq Nat
  BY DEF Names, TypeOK
<1>2. \A i \in I : i \in DOMAIN dir /\ dir[i] \in Object
  BY DEF TypeOK
<1> HIDE DEF I
<1>3. Min(I) \in I
  BY <1>1, MinMember, Zenon
<1>4. dir[Min(I)] \in Object /\ Published(dir[Min(I)])
  BY <1>2, <1>3, Zenon DEF Published, Range
<1> QED
  BY <1>1, <1>4 DEF I

\* lookup_object finds a published object.
LEMMA LookupStep ==
  ASSUME IInv, NEW c \in Client, NEW n \in Name, Lookup(c, n)
  PROVE  IInv' /\ LifeStep
<1>0. TypeOK /\ call[c] = Idle /\ ptr[c] = NoObject
  BY DEF IInv, Lookup, Empty, Resting
<1>1. PICK p \in Object : Published(p) /\ Called(c, "open", p)
  <2> DEFINE I == {i \in 1 .. Len(dir) : name[dir[i]] = n}
  <2>1. I # {} /\ dir[Min(I)] \in Object /\ Published(dir[Min(I)])
    BY <1>0, FirstNamed, Zenon DEF Lookup
  <2>2. Called(c, "open", dir[Min(I)])
    BY DEF Lookup
  <2> HIDE DEF I
  <2> QED
    BY <2>1, <2>2, ZenonT(30)
<1>2. Counted(p) \in Nat /\ Counted(p) > 0
  <2>1. Counted(p) \in Nat /\ Counted(p) # 0
    BY <1>0, <1>1, Unused, Zenon
  <2> QED
    BY <2>1
<1>3. CallOK(c)'
  <2>1. call'[c].at = "open" /\ call'[c].obj = p
    BY <1>0, <1>1 DEF Called, InCall, TypeOK
  <2>2. lock' # c
    BY <1>0, IdleUnlocked, Zenon DEF Lookup
  <2> QED
    BY <2>1, <2>2, <1>0, <1>1, NumUnchanged, ZenonT(30) DEF CallOK, Ending, Lookup
<1> QED
  BY <1>0, <1>1, <1>2, <1>3, Begun, Zenon DEF Lookup, At

\* insert_object: the directory entry takes over the use of the creator.
LEMMA PublishStep ==
  ASSUME IInv, NEW c \in Client, Publish(c)
  PROVE  IInv' /\ LifeStep
<1>0. TypeOK /\ call[c] = Idle
  BY Zenon DEF IInv, Publish, Holding, Resting
<1>1. PICK p \in Object : p = ptr[c] /\ ~Published(p)
  BY <1>0, ZenonT(30) DEF Publish, Holding, Published, TypeOK
<1>2. Counted(p) \in Nat /\ Counted(p) > 0
  BY <1>0, <1>1, Unused
<1>3. TypeOK'
  <2>1. call' \in [Client -> {Idle} \cup [at : At, obj : Object]]
    BY <1>0, <1>1, CallType, Zenon DEF Publish, At
  <2>2. dir' \in Seq(Object) /\ Len(dir') <= DirSize
    BY <1>0, <1>1, ObjectAssumption, SMTT(30), Z3T(30) DEF Publish, TypeOK
  <2> QED
    BY <2>1, <2>2, <1>0, Zenon DEF TypeOK, Publish
<1>4. \A o \in Object : Published(o)' <=> Published(o) \/ o = p
  <2>1. dir' = Append(dir, p) /\ dir \in Seq(Object)
    BY <1>0, <1>1, Zenon DEF Publish, TypeOK
  <2>2. Range(dir') = Range(dir) \cup {p}
    BY <2>1 DEF Range
  <2> QED
    BY <2>2, Zenon DEF Published
<1>5. \A o \in Object : NumSlots(o)' = NumSlots(o) /\ NumClosing(o)' = NumClosing(o)
  <2>1. InCall("publish", p).at # "close" /\ Idle.at # "close"
    BY DEF InCall, Idle
  <2> QED
    BY <2>1, <1>0, <1>1, SameClosing, NumUnchanged, Zenon DEF Called, Publish
<1>6. \A o \in Object : Counted(o)' = Counted(o)
  <2> SUFFICES ASSUME NEW o \in Object
               PROVE  Counted(o)' = Counted(o)
    OBVIOUS
  <2>1. NumPointers(o)' = NumPointers(o) + One(NoObject, o) - One(p, o)
    BY <1>0, <1>1, PointerUpdate, ZenonT(30) DEF Publish
  <2>2. One(NoObject, o) = 0 /\ One(p, o) = IF p = o THEN 1 ELSE 0
    BY DEF One, NoObject, Object
  <2>3. closed'[o] = closed[o]
    BY Zenon DEF Publish
  <2>4. CASE o = p
    <3>1. NumPointers(o)' = NumPointers(o) - 1
      BY <2>1, <2>2, <2>4, <1>0, CountedTerms, SMTT(30), Z3T(30)
    <3> QED
      BY <3>1, <2>3, <2>4, <1>0, <1>1, <1>4, <1>5, CountedTerms, SMTT(30), Z3T(30)
  <2>5. CASE o # p
    BY <2>1, <2>2, <2>3, <2>5, <1>0, <1>4, <1>5, CountedTerms, SMTT(30), Z3T(30)
  <2> QED
    BY <2>4, <2>5
<1>7. Exact'
  <2>1. RefsCounted'
    BY <1>6 DEF IInv, Exact, RefsCounted, Publish
  <2> QED
    BY <2>1, <1>5, HandleTerms, Zenon DEF IInv, Exact, Publish
<1>8. /\ call'[c].at = "publish" /\ call'[c].obj = p
      /\ \A d \in Client \ {c} : call'[d] = call[d] /\ ptr'[d] = ptr[d]
  BY <1>0, <1>1, ZenonT(30) DEF Publish, Called, InCall, TypeOK
<1>9. CallOK(c)'
  <2>1. lock' # c
    BY <1>0, IdleUnlocked, Zenon DEF Publish
  <2> QED
    BY <2>1, <1>4, <1>8, Zenon DEF CallOK, Ending
<1> QED
  BY <1>2, <1>3, <1>4, <1>6, <1>7, <1>8, <1>9, Acquired, Zenon DEF Publish

\* create_object makes the client the first user of a new object.
LEMMA CreateStep ==
  ASSUME IInv, NEW c \in Client, NEW p \in Object, NEW n \in Name, Create(c, p, n)
  PROVE  IInv' /\ LifeStep
<1>0. TypeOK /\ call[c] = Idle /\ ptr[c] = NoObject /\ status[p] = "none"
  BY DEF IInv, Create, Empty, Resting
<1>1. TypeOK'
  BY <1>0, ZenonT(30) DEF TypeOK, Create
<1>2. Counted(p) = 0 /\ p \notin deleting /\ \A o \in Object : Counted(o) \in Nat
  BY <1>0, Unused DEF IInv, LifeInv
<1>3. \A o \in Object : Counted(o)' = Counted(o) + One(p, o)
  BY <1>0, NewPointer, Zenon DEF Create
<1>4. \A o \in Object : Counted(o)' = IF o = p THEN 1 ELSE Counted(o)
  BY <1>2, <1>3 DEF One
<1>5. Exact'
  <2>1. RefsCounted'
    BY <1>0, <1>4, Zenon DEF IInv, Exact, RefsCounted, Create, TypeOK
  <2>2. HandleCountExact'
    BY HandleTerms, NumUnchanged, Zenon DEF IInv, Exact, Create
  <2> QED
    BY <2>1, <2>2 DEF Exact
<1>6. Kept(c)
  <2>1. \A o \in Object : Published(o)' = Published(o) /\ closed[o] <= closed'[o]
    BY <1>0, NumUnchanged, SMTT(30), Z3T(30) DEF Create, TypeOK
  <2>2. \A o \in Object : status[o] = "live" => status'[o] = "live" /\ Counted(o)' = Counted(o)
    BY <1>0, <1>4, Zenon DEF Create, TypeOK
  <2>3. \A d \in Client \ {c} : call'[d] = call[d] /\ ptr'[d] = ptr[d]
    BY <1>0, Zenon DEF Create, TypeOK
  <2> QED
    BY <2>1, <2>2, <2>3, Zenon DEF Kept, Create
<1>7. CallOK(c)'
  <2>1. lock' # c
    BY <1>0, IdleUnlocked, Zenon DEF Create
  <2> QED
    BY <2>1, <1>0, IdleOK, Zenon DEF Create
<1>8. LifeInv'
  BY <1>0, <1>2, <1>4, Zenon DEF Create, IInv, LifeInv, TypeOK
<1>9. LifeStep
  <2>0. \A o \in Object : Uses(o)' = IF o = p THEN 1 ELSE Uses(o)
    BY <1>0, <1>2, <1>4, UsesFacts, SMTT(30), Z3T(30) DEF Create
  <2>1. [o \in Object |-> Uses(o)'] = [[o \in Object |-> Uses(o)] EXCEPT ![p] = 1]
    BY <2>0, Zenon
  <2>2. Life!Birth(p)
    BY <2>1, <1>0 DEF Life!Birth, Create
  <2> QED
    BY <2>2 DEF LifeStep, Life!Next
<1> QED
  BY <1>1, <1>5, <1>6, <1>7, <1>8, <1>9, CallsKept, Zenon DEF IInv, CallInv
=============================================================================
