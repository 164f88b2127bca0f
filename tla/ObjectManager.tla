--------------------------- MODULE ObjectManager ---------------------------
(***************************************************************************)
(* Lifetime of executive objects, ob/mod.rs: creation, publication in a    *)
(* directory, handles in the kernel's table and in those of processes,     *)
(* references, and deletion.                                               *)
(*                                                                         *)
(* Three spinlocks guard the parts: NAMESPACE the directory, HANDLE_TABLE  *)
(* the kernel's handle table, OB_DELETE_LOCK the counters and the process  *)
(* tables.  What is done under one lock is one action.  Deletion alone     *)
(* keeps OB_DELETE_LOCK while it takes the other two, so it has several.   *)
(*                                                                         *)
(* A client is a pointer variable of some thread together with the call    *)
(* that thread is making; it counts one reference when it is not null.     *)
(* Clients give up only references they hold, which is true of every call  *)
(* that the kernel makes.  Two functions that nothing calls dereference a  *)
(* header they looked up and did not reference, open_object_with_access    *)
(* and lookup_object_with_flags; they are left out.  As every caller of    *)
(* insert_object does, clients leave the reference of create_object behind *)
(* when they publish the object: the directory entry stands for it.        *)
(*                                                                         *)
(* Headers are not reused after they are freed: a stale pointer shows as a *)
(* pointer to a freed object.  Diagnostic counters are left out.           *)
(***************************************************************************)
EXTENDS Lists

CONSTANTS
    Client,
    MaxObjects,     \* bound on the objects created
    Name,
    Process,        \* processes with a handle table
    KernelSlots,    \* MAX_HANDLES
    ScanLimit,      \* HANDLE_SCAN_LIMIT
    ProcessSlots,   \* HANDLE_TABLE_SIZE
    DirSize,        \* MAX_DIR_ENTRIES
    MaxHandles      \* bound on the handles inserted for an object at a time

\* Object headers, numbered as they are created.
Object == 1 .. MaxObjects
NoObject == 0
NoClient == "nobody"
NoName == "unnamed"
Kernel == "kernel"

ASSUME ObjectAssumption ==
    /\ IsFiniteSet(Client) /\ NoClient \notin Client
    /\ MaxObjects \in Nat
    /\ NoName \notin Name
    /\ IsFiniteSet(Process) /\ Kernel \notin Process
    /\ KernelSlots \in Nat /\ KernelSlots > 1
    /\ ScanLimit \in Nat \ {0}
    /\ ProcessSlots \in Nat
    /\ DirSize \in Nat /\ MaxHandles \in Nat

Table == Process \cup {Kernel}
\* Slot 0 of the kernel's table is never used.
Index(w) == IF w = Kernel THEN 1 .. KernelSlots - 1 ELSE 0 .. ProcessSlots - 1
Slot == UNION {{w} \X Index(w) : w \in Table}

VARIABLES
    status,     \* whether the pool block of a header is allocated
    name,       \* ObjectHeader.name
    refs,       \* ObjectHeader.ref_count
    handles,    \* ObjectHeader.handle_count
    deleting,   \* the headers with OB_FLAG_DELETING
    dir,        \* Directory.entries, up to num_entries
    slot,       \* the valid slots of all handle tables
    next,       \* HandleTable.next: where the next scan of the kernel's table starts
    lock,       \* the client that deletes an object under OB_DELETE_LOCK
    ptr,        \* the referenced pointer each client holds
    call,       \* the call each client is in the middle of
    closed      \* history: how many kernel handles of each object were closed

vars == <<status, name, refs, handles, deleting, dir, slot, next, lock, ptr, call,
          closed>>

Idle == [at |-> "idle", obj |-> NoObject]
At == {"publish", "insert", "open", "close", "delete", "clear", "free"}
InCall(at, o) == [at |-> at, obj |-> o]

TypeOK ==
    /\ status \in [Object -> {"none", "live", "freed"}]
    /\ name \in [Object -> Name \cup {NoName}]
    /\ refs \in [Object -> Nat] /\ handles \in [Object -> Nat]
    /\ deleting \subseteq Object
    /\ dir \in Seq(Object) /\ Len(dir) <= DirSize
    /\ slot \in [Slot -> Object \cup {NoObject}]
    /\ next \in Index(Kernel)
    /\ lock \in Client \cup {NoClient}
    /\ ptr \in [Client -> Object \cup {NoObject}]
    /\ call \in [Client -> {Idle} \cup [at : At, obj : Object]]
    /\ closed \in [Object -> Nat]

Init ==
    /\ status = [o \in Object |-> "none"]
    /\ name = [o \in Object |-> NoName]
    /\ refs = [o \in Object |-> 0] /\ handles = [o \in Object |-> 0]
    /\ deleting = {}
    /\ dir = <<>>
    /\ slot = [s \in Slot |-> NoObject]
    /\ next = 1
    /\ lock = NoClient
    /\ ptr = [c \in Client |-> NoObject]
    /\ call = [c \in Client |-> Idle]
    /\ closed = [o \in Object |-> 0]

-----------------------------------------------------------------------------
(* The pieces of the calls *)

Free == lock = NoClient
Resting(c) == call[c] = Idle
Empty(c) == Resting(c) /\ ptr[c] = NoObject
Holding(c) == Resting(c) /\ ptr[c] # NoObject

Called(c, at, o) == call' = [call EXCEPT ![c] = InCall(at, o)]
Return(c) == call' = [call EXCEPT ![c] = Idle]

SlotsOf(o) == {s \in Slot : slot[s] = o}
KernelSlotsOf(o) == {s \in SlotsOf(o) : s[1] = Kernel}

\* The saturating decrements of ref_count and handle_count.
Less(n) == IF n = 0 THEN 0 ELSE n - 1

\* increment_reference, unless the object is being deleted.
Referenced(o) == IF o \in deleting THEN refs ELSE [refs EXCEPT ![o] = @ + 1]

-----------------------------------------------------------------------------
(* Names *)

Names == {name[dir[i]] : i \in 1 .. Len(dir)}

\* create_object: the object is counted once and is not in the directory yet.
Create(c, o, n) ==
    /\ Empty(c)
    /\ status[o] = "none" /\ \A x \in 1 .. o - 1 : status[x] # "none"
    /\ n \notin Names /\ Len(dir) < DirSize
    /\ status' = [status EXCEPT ![o] = "live"]
    /\ name' = [name EXCEPT ![o] = n]
    /\ refs' = [refs EXCEPT ![o] = 1]
    /\ ptr' = [ptr EXCEPT ![c] = o]
    /\ UNCHANGED <<handles, deleting, dir, slot, next, lock, call, closed>>

\* insert_object, under NAMESPACE.  When the directory is full it fails, and
\* the client keeps its pointer.
Publish(c) ==
    /\ Holding(c) /\ ptr[c] \notin Range(dir)
    /\ Len(dir) < DirSize
    /\ dir' = Append(dir, ptr[c])
    /\ ptr' = [ptr EXCEPT ![c] = NoObject]
    /\ Called(c, "publish", ptr[c])
    /\ UNCHANGED <<status, name, refs, handles, deleting, slot, next, lock, closed>>

\* open_object_by_name: lookup_object walks the entries without a lock and
\* returns the first that has the name, with no reference.
Lookup(c, n) ==
    /\ Empty(c) /\ n \in Names
    /\ Called(c, "open", dir[Min({i \in 1 .. Len(dir) : name[dir[i]] = n})])
    /\ UNCHANGED <<status, name, refs, handles, deleting, dir, slot, next, lock, ptr,
                   closed>>

\* It then calls reference_object, and returns the pointer whatever that says.
Open(c) ==
    /\ call[c].at = "open" /\ Free
    /\ refs' = Referenced(call[c].obj)
    /\ ptr' = [ptr EXCEPT ![c] = call[c].obj]
    /\ Return(c)
    /\ UNCHANGED <<status, name, handles, deleting, dir, slot, next, lock, closed>>

-----------------------------------------------------------------------------
(* Handles *)

\* How many slots of the kernel's table a scan from `next` looks at before i.
Distance(i) == IF next <= i THEN i - next ELSE i - next + (KernelSlots - 1)

\* Mutant of After: the scan does not start over at the end of the table.
AfterOn(i) == i + 1
After(i) == IF i + 1 >= KernelSlots THEN 1 ELSE i + 1

\* The free slots a scan may find.  That of a process's table goes all round it.
Available(w) ==
    {i \in Index(w) : slot[<<w, i>>] = NoObject /\ (w = Kernel => Distance(i) < ScanLimit)}

\* allocate_handle_in_table_locked and allocate_handle_in_global_table_locked.
\* The scan of the kernel's table finds the first free slot, or gives up and
\* resumes there the next time.  Which free slot a process gets is left open.
Allocate(w, o) ==
    \/ \E i \in Available(w) :
        /\ IF w = Kernel THEN /\ \A j \in Available(w) : Distance(i) <= Distance(j)
                              /\ next' = After(i)
                         ELSE UNCHANGED next
        /\ slot' = [slot EXCEPT ![<<w, i>>] = o]
        /\ refs' = Referenced(o)
        /\ handles' = [handles EXCEPT ![o] = @ + 1]
    \/ /\ Available(w) = {}
       /\ IF w = Kernel /\ ScanLimit < KernelSlots - 1
          THEN next' \in {i \in Index(w) : Distance(i) = ScanLimit}
          ELSE UNCHANGED next
       /\ UNCHANGED <<slot, refs, handles>>

\* The bound; a closed kernel handle counts.
MayInsert(o) == Cardinality(SlotsOf(o)) + closed[o] < MaxHandles

\* insert_object, under OB_DELETE_LOCK.
PublishHandle(c) ==
    /\ call[c].at = "publish" /\ Free
    /\ Allocate(Kernel, call[c].obj)
    /\ Return(c)
    /\ UNCHANGED <<status, name, deleting, dir, lock, ptr, closed>>

\* insert_object_into_process.  Under NAMESPACE it writes an entry beyond
\* num_entries, which nothing reads.
Insert(c) ==
    /\ Holding(c) /\ Len(dir) < DirSize /\ MayInsert(ptr[c])
    /\ Called(c, "insert", ptr[c])
    /\ UNCHANGED <<status, name, refs, handles, deleting, dir, slot, next, lock, ptr,
                   closed>>

\* It then takes OB_DELETE_LOCK; without a process, the kernel's table is used.
InsertHandle(c, w) ==
    /\ call[c].at = "insert" /\ Free
    /\ Allocate(w, call[c].obj)
    /\ Return(c)
    /\ UNCHANGED <<status, name, deleting, dir, lock, ptr, closed>>

\* reference_object_by_handle and reference_object_by_handle_in_process.
Resolve(c, s) ==
    /\ Empty(c) /\ Free /\ slot[s] # NoObject
    /\ refs' = Referenced(slot[s])
    /\ ptr' = [ptr EXCEPT ![c] = slot[s]]
    /\ UNCHANGED <<status, name, handles, deleting, dir, slot, next, lock, call,
                   closed>>

\* Mutant of Inherit: the copied handles hold no references.
InheritUncounted(child, parent) ==
    /\ Free /\ child # parent
    /\ \A i \in Index(child) : slot[<<child, i>>] = NoObject
    /\ slot' = [s \in Slot |-> IF s[1] = child THEN slot[<<parent, s[2]>>] ELSE slot[s]]
    /\ handles' = [o \in Object |->
                     handles[o] + Cardinality({i \in Index(parent) : slot[<<parent, i>>] = o})]
    /\ UNCHANGED <<status, name, refs, deleting, dir, next, lock, ptr, call, closed>>

\* inherit_process_handle_table, into the table of a new process.
Inherit(child, parent) ==
    /\ Free /\ child # parent
    /\ \A i \in Index(child) : slot[<<child, i>>] = NoObject
    /\ slot' = [s \in Slot |-> IF s[1] = child THEN slot[<<parent, s[2]>>] ELSE slot[s]]
    /\ LET Copied(o) == Cardinality({i \in Index(parent) : slot[<<parent, i>>] = o})
       IN  /\ handles' = [o \in Object |-> handles[o] + Copied(o)]
           /\ refs' = [o \in Object |-> IF o \in deleting THEN refs[o]
                                                          ELSE refs[o] + Copied(o)]
    /\ UNCHANGED <<status, name, deleting, dir, next, lock, ptr, call, closed>>

\* close_handle_global, under HANDLE_TABLE: the slot is free at once.
Close(c, i) ==
    /\ Resting(c) /\ slot[<<Kernel, i>>] # NoObject
    /\ slot' = [slot EXCEPT ![<<Kernel, i>>] = NoObject]
    /\ Called(c, "close", slot[<<Kernel, i>>])
    /\ closed' = [closed EXCEPT ![slot[<<Kernel, i>>]] = @ + 1]
    /\ UNCHANGED <<status, name, refs, handles, deleting, dir, next, lock, ptr>>

\* Mutant of Uncount: the count is left to the type's close procedure.
UncountNot(c) ==
    /\ call[c].at = "close" /\ Free
    /\ Return(c)
    /\ UNCHANGED <<status, name, refs, handles, deleting, dir, slot, next, lock, ptr, closed>>

\* decrement_handle_count, under OB_DELETE_LOCK: the handle is no longer
\* counted, and the reference it was given is not returned.
Uncount(c) ==
    LET o == call[c].obj
    IN  /\ call[c].at = "close" /\ Free
        /\ handles' = [handles EXCEPT ![o] = Less(@)]
        /\ IF Less(handles[o]) = 0 /\ refs[o] = 0 THEN Called(c, "delete", o) ELSE Return(c)
        /\ UNCHANGED <<status, name, refs, deleting, dir, slot, next, lock, ptr, closed>>

\* Mutant of CloseInProcess: the last handle deletes the object.
CloseInProcessDeletes(c, p, i) ==
    LET o == slot[<<p, i>>]
    IN  /\ Resting(c) /\ Free /\ o # NoObject
        /\ slot' = [slot EXCEPT ![<<p, i>>] = NoObject]
        /\ handles' = [handles EXCEPT ![o] = Less(@)]
        /\ refs' = [refs EXCEPT ![o] = Less(@)]
        /\ IF Less(handles[o]) = 0 THEN Called(c, "delete", o) ELSE UNCHANGED call
        /\ UNCHANGED <<status, name, deleting, dir, next, lock, ptr, closed>>

\* close_handle_in_process, which returns the reference too.
CloseInProcess(c, p, i) ==
    LET o == slot[<<p, i>>]
    IN  /\ Resting(c) /\ Free /\ o # NoObject
        /\ slot' = [slot EXCEPT ![<<p, i>>] = NoObject]
        /\ handles' = [handles EXCEPT ![o] = Less(@)]
        /\ refs' = [refs EXCEPT ![o] = Less(@)]
        /\ IF Less(handles[o]) = 0 /\ Less(refs[o]) = 0
           THEN Called(c, "delete", o) ELSE UNCHANGED call
        /\ UNCHANGED <<status, name, deleting, dir, next, lock, ptr, closed>>

-----------------------------------------------------------------------------
(* References *)

\* reference_object, by a client that passes its own pointer on to another.
Reference(c, d) ==
    /\ Holding(c) /\ Empty(d) /\ Free
    /\ refs' = Referenced(ptr[c])
    /\ ptr' = [ptr EXCEPT ![d] = ptr[c]]
    /\ UNCHANGED <<status, name, handles, deleting, dir, slot, next, lock, call,
                   closed>>

\* Mutant of Dereference: the decision to delete forgets the handles.
DereferenceDeletes(c) ==
    LET o == ptr[c]
    IN  /\ Holding(c) /\ Free
        /\ refs' = [refs EXCEPT ![o] = Less(@)]
        /\ ptr' = [ptr EXCEPT ![c] = NoObject]
        /\ IF Less(refs[o]) <= handles[o] THEN Called(c, "delete", o) ELSE UNCHANGED call
        /\ UNCHANGED <<status, name, handles, deleting, dir, slot, next, lock, closed>>

\* dereference_object, up to the release of OB_DELETE_LOCK.  Also the end of a
\* reference_object_by_handle_with_access that is refused.
Dereference(c) ==
    LET o == ptr[c]
    IN  /\ Holding(c) /\ Free
        /\ refs' = [refs EXCEPT ![o] = Less(@)]
        /\ ptr' = [ptr EXCEPT ![c] = NoObject]
        /\ IF Less(refs[o]) = 0 /\ handles[o] = 0
           THEN Called(c, "delete", o) ELSE UNCHANGED call
        /\ UNCHANGED <<status, name, handles, deleting, dir, slot, next, lock, closed>>

-----------------------------------------------------------------------------
(* Deletion: delete_object and try_delete_object_locked *)

\* The flag is tested and set, and the directory entry removed.
Unlink(c) ==
    LET o == call[c].obj
    IN  /\ call[c].at = "delete" /\ Free
        /\ IF o \in deleting
           THEN Return(c) /\ UNCHANGED <<deleting, dir, lock>>
           ELSE /\ deleting' = deleting \cup {o}
                /\ dir' = RemoveFirst(dir, o)
                /\ lock' = c
                /\ Called(c, "clear", o)
        /\ UNCHANGED <<status, name, refs, handles, slot, next, ptr, closed>>

\* The lowest slot of the kernel's table that holds the object.
ClearKernel(c) ==
    LET mine == KernelSlotsOf(call[c].obj)
    IN  /\ call[c].at = "clear"
        /\ slot' = [s \in Slot |-> IF s \in mine /\ \A r \in mine : s[2] <= r[2]
                                   THEN NoObject ELSE slot[s]]
        /\ Called(c, "free", call[c].obj)
        /\ UNCHANGED <<status, name, refs, handles, deleting, dir, next, lock, ptr,
                       closed>>

\* Mutant of Destroy: OB_DELETE_LOCK is not released.
DestroyLocked(c) ==
    LET o == call[c].obj
    IN  /\ call[c].at = "free"
        /\ slot' = [s \in Slot |-> IF slot[s] = o /\ s[1] # Kernel THEN NoObject ELSE slot[s]]
        /\ status' = [status EXCEPT ![o] = "freed"]
        /\ Return(c)
        /\ UNCHANGED <<name, refs, handles, deleting, dir, next, lock, ptr, closed>>

\* Every slot of every process; then the type's delete procedure, the security
\* descriptor and the pool block.
Destroy(c) ==
    LET o == call[c].obj
    IN  /\ call[c].at = "free"
        /\ slot' = [s \in Slot |-> IF slot[s] = o /\ s[1] # Kernel THEN NoObject ELSE slot[s]]
        /\ status' = [status EXCEPT ![o] = "freed"]
        /\ lock' = NoClient
        /\ Return(c)
        /\ UNCHANGED <<name, refs, handles, deleting, dir, next, ptr, closed>>

-----------------------------------------------------------------------------
\* The rest of a call a client has begun.
Continue(c) ==
    \/ Open(c) \/ PublishHandle(c) \/ Uncount(c)
    \/ Unlink(c) \/ ClearKernel(c) \/ Destroy(c)
    \/ \E w \in Table : InsertHandle(c, w)

Begin(c) ==
    \/ \E o \in Object, n \in Name : Create(c, o, n)
    \/ Publish(c) \/ Insert(c) \/ Dereference(c)
    \/ \E n \in Name : Lookup(c, n)
    \/ \E d \in Client : Reference(c, d)
    \/ \E s \in Slot : Resolve(c, s)
    \/ \E i \in Index(Kernel) : Close(c, i)
    \/ \E p \in Process : \E i \in Index(p) : CloseInProcess(c, p, i)

Next ==
    \/ \E c \in Client : Begin(c) \/ Continue(c)
    \/ \E p, q \in Process : Inherit(p, q)

\* A client inside a call goes on with it.  It waits only for a deletion, and
\* there are no more of those than objects.
Fairness == \A c \in Client : WF_vars(Continue(c))

Spec == Init /\ [][Next]_vars /\ Fairness

-----------------------------------------------------------------------------
(* Properties *)

Pointers(o) == {c \in Client : ptr[c] = o}
Closing(o) == {c \in Client : call[c] = InCall("close", o)}
Published(o) == o \in Range(dir)

\* handle_count, "the handle-table slot count", is the number of slots that hold
\* the object in all handle tables together, plus the closes of kernel handles
\* that have cleared their slot and not come to decrement_handle_count yet.
HandleCountExact ==
    \A o \in Object : handles[o] = Cardinality(SlotsOf(o)) + Cardinality(Closing(o))

\* Everybody who holds a reference and can give it back: the clients that have a
\* pointer, the slots, and the directory entry.
Uses(o) ==
    Cardinality(Pointers(o)) + Cardinality(SlotsOf(o)) + (IF Published(o) THEN 1 ELSE 0)

\* ref_count covers the uses, whatever calls are under way: it never counts fewer,
\* so that no object is deleted in use, and it counts no more of them
\* than kernel handles of the object were closed.  As long as none was, it is
\* exact.  From then on it is not: close_handle_global frees the slot and keeps
\* its reference, where the integration layer of ntdll expects it to "free a
\* handle slot and dereference the object".
RefCountCovers == \A o \in Object : Uses(o) <= refs[o] /\ refs[o] <= Uses(o) + closed[o]

\* No pointer anywhere leads to a freed header: not in the directory, not in a
\* handle table, not in a client, and not in a call that fetched it before it
\* took OB_DELETE_LOCK (open_object_by_name, close_handle_global, delete_object).
NoDangling ==
    \A o \in Object : status[o] # "live" =>
        /\ ~Published(o) /\ SlotsOf(o) = {} /\ Pointers(o) = {}
        /\ \A c \in Client : call[c].obj # o

\* OB_DELETE_LOCK is dropped between the decision to delete and delete_object,
\* and still one thread at most is at it for an object, and nothing can find the
\* object meanwhile.
OneDeleter ==
    \A c \in Client : call[c].at \in {"delete", "clear", "free"} =>
        /\ Uses(call[c].obj) = 0 /\ handles[call[c].obj] = 0
        /\ \A d \in Client : call[d].obj = call[c].obj => d = c

\* The object manager implements ObjectLife, but for the objects that have had a
\* kernel handle closed: objects come into use only through a use and die unused,
\* once, and an unused object of which no kernel handle is ever closed does die.
\* The others do not: the reference that close_handle_global keeps is for ever.
Life == INSTANCE ObjectLife WITH phase <- status, uses <- [o \in Object |-> Uses(o)]
Implements ==
    /\ Life!Safety
    /\ \A o \in Object : [](closed[o] = 0) => Life!Reclaimed(o)

\* No call is stuck on OB_DELETE_LOCK.
CallsEnd == \A c \in Client : call[c] # Idle ~> call[c] = Idle
=============================================================================
