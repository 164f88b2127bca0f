----------------------------- MODULE LpcProofs ------------------------------
(***************************************************************************)
(* The rings of the LPC ports are queues, and the message event does not   *)
(* forget, for any number of ports, clients and servers, any ring size and *)
(* any counter width that is a multiple of it.                             *)
(*                                                                         *)
(* First comes the arithmetic of wrapping counters and what one Enqueue or *)
(* Dequeue does to a ring; then an inductive invariant that says where     *)
(* those who call them stand (IInv), and one that says who still attends   *)
(* to a waiting message (EventInv).                                        *)
(***************************************************************************)
EXTENDS Lpc, SequenceTheorems, WellFoundedInduction, TLAPS

-----------------------------------------------------------------------------
(* The arithmetic of head and tail *)

\* The table, the rings and the counters have some size.
LEMMA Sizes ==
    MaxPorts \in Nat \ {0} /\ QueueSize \in Nat \ {0} /\ CounterMod \in Nat \ {0}
    BY LpcAssumption, Zenon

\* Division with a remainder, as the provers need it.
LEMMA Division ==
    ASSUME NEW a \in Nat, NEW n \in Nat \ {0}
    PROVE  /\ a % n \in 0 .. n - 1 /\ a \div n \in Nat
           /\ a = (a \div n) * n + (a % n)
    BY SMTT(30), Z3T(30)

\* The remainder is the only one.
LEMMA Remainder ==
    ASSUME NEW n \in Nat \ {0}, NEW k \in Int, NEW r \in 0 .. n - 1
    PROVE  (k * n + r) % n = r
    BY SMTT(30), Z3T(30)

\* Adding a multiple of the divisor does not change the remainder.
LEMMA Multiple ==
    ASSUME NEW n \in Nat \ {0}, NEW a \in Nat, NEW k \in Nat
    PROVE  (a + k * n) % n = a % n
<1>1. a + k * n = ((a \div n) + k) * n + (a % n)
    BY Division, SMTT(30), Z3T(30)
<1>2. (a \div n) + k \in Int /\ a % n \in 0 .. n - 1
    BY Division
<1> QED
    BY <1>1, <1>2, Remainder, Zenon

\* Two places of a ring that are less than its size apart are different slots.
LEMMA Apart ==
    ASSUME NEW n \in Nat \ {0}, NEW a \in Nat, NEW b \in Nat, a < b, b - a < n
    PROVE  a % n # b % n
<1> SUFFICES ASSUME a % n = b % n
             PROVE  FALSE
    OBVIOUS
<1> DEFINE x == a \div n
           y == b \div n
<1>1. x \in Nat /\ y \in Nat /\ b - a = y * n - x * n
    <2>1. a % n \in 0 .. n - 1 /\ x \in Nat /\ a = x * n + (a % n)
        BY Division, Zenon
    <2>2. y \in Nat /\ b = y * n + (b % n)
        BY Division, Zenon
    <2> HIDE DEF x, y
    <2> QED
        BY <2>1, <2>2, SMTT(30), Z3T(30)
<1> HIDE DEF x, y
<1>2. CASE y <= x
    BY <1>1, <1>2, SMTT(30), Z3T(30)
<1>3. CASE y >= x + 1
    BY <1>1, <1>3, SMTT(30), Z3T(30)
<1> QED
    BY <1>1, <1>2, <1>3

\* A counter taken modulo the ring size is the same before and after the wrap,
\* because 2^32 is a multiple of MAX_PORT_MESSAGES.
LEMMA SlotOfCounter ==
    ASSUME NEW a \in Nat, NEW b \in Nat
    PROVE  (((a % CounterMod) + b) % QueueSize) = (a + b) % QueueSize
<1> DEFINE c == a \div CounterMod
           d == CounterMod \div QueueSize
           r == a % CounterMod
           k == c * d
<1>1. d \in Nat /\ CounterMod = d * QueueSize
    BY Division, LpcAssumption
<1>2. c \in Nat /\ r \in Nat /\ a = c * CounterMod + r
    BY Division, LpcAssumption
<1> HIDE DEF c, d, r
<1>3. k \in Nat /\ a = k * QueueSize + r
    <2>1. k \in Nat /\ c * (d * QueueSize) = k * QueueSize
        BY <1>1, <1>2, LpcAssumption, SMTT(30), Z3T(30)
    <2> QED
        BY <1>1, <1>2, <2>1
<1> HIDE DEF k
<1>4. a + b = (r + b) + k * QueueSize /\ r + b \in Nat
    BY <1>2, <1>3, LpcAssumption
<1>5. ((r + b) + k * QueueSize) % QueueSize = (r + b) % QueueSize
    BY <1>3, <1>4, Multiple, LpcAssumption
<1> QED
    BY <1>4, <1>5 DEF r

\* fetch-and-wrap: the successor of a wrapped count is the wrapped successor.
LEMMA IncWraps ==
    ASSUME NEW a \in Nat
    PROVE  Inc(a % CounterMod) = (a + 1) % CounterMod
<1> DEFINE k == a \div CounterMod
           r == a % CounterMod
<1>1. k \in Nat /\ r \in 0 .. CounterMod - 1 /\ a = k * CounterMod + r
    BY Division, LpcAssumption, Zenon
<1> HIDE DEF k, r
<1>2. a + 1 = (r + 1) + k * CounterMod /\ r + 1 \in Nat
    BY <1>1, LpcAssumption
<1>3. (a + 1) % CounterMod = (r + 1) % CounterMod
    BY <1>1, <1>2, Multiple, LpcAssumption
<1> QED
    BY <1>3 DEF Inc, r

\* A counter is its own remainder, and stays a counter.
LEMMA CounterType ==
    ASSUME NEW n \in Counter
    PROVE  n \in Nat /\ n % CounterMod = n /\ Inc(n) \in Counter
    BY LpcAssumption DEF Counter, Inc

-----------------------------------------------------------------------------
(* What send and receive do to one ring *)

\* A port with other counters is still a port.
LEMMA RecordType ==
    ASSUME NEW r \in PortRecord, NEW h \in Counter, NEW t \in Counter, NEW n \in 0 .. QueueSize
    PROVE  /\ [r EXCEPT !.head = h, !.pending = n] \in PortRecord
           /\ [r EXCEPT !.tail = t, !.pending = n] \in PortRecord
    BY Zenon DEF PortRecord

\* What a port holds is a sequence of its pending messages.
LEMMA ContentsSeq ==
    ASSUME TypeOK, NEW p \in Port
    PROVE  /\ Contents(p) \in Seq(Message \cup {NoMessage})
           /\ Len(Contents(p)) = port[p].pending
           /\ \A i \in 1 .. port[p].pending :
                 Contents(p)[i] = ring[p][(port[p].tail + i - 1) % QueueSize]
<1> DEFINE n == port[p].pending
           t == port[p].tail
<1>1. n \in Nat /\ t \in Nat
    BY LpcAssumption DEF TypeOK, PortRecord, Counter
<1> HIDE DEF n, t
<1>2. \A i \in 1 .. n : (t + i - 1) % QueueSize \in 0 .. QueueSize - 1
    BY <1>1, LpcAssumption
<1>3. \A i \in 1 .. n : ring[p][(t + i - 1) % QueueSize] \in Message \cup {NoMessage}
    BY <1>2, Zenon DEF TypeOK
<1> QED
    BY <1>1, <1>3, SMTT(30), Z3T(30) DEF Contents, n, t

\* A port with nothing pending holds nothing.
LEMMA NoContents ==
    ASSUME NEW p \in Port, port'[p].pending = 0
    PROVE  Contents(p)' = <<>>
<1>1. 1 .. 0 = {}
    OBVIOUS
<1>2. Contents(p)' = [i \in 1 .. 0 |-> ring'[p][(port'[p].tail + i - 1) % QueueSize]]
    BY DEF Contents
<1>3. PICK s : s = Contents(p)'
    OBVIOUS
<1>4. s \in Seq({}) /\ Len(s) = 0
    BY <1>1, <1>2, <1>3
<1> QED
    BY <1>3, <1>4, EmptySeq

\* A ring that is not touched, on a port whose tail and pending stay, holds what
\* it held.
LEMMA SameContents ==
    ASSUME NEW p \in Port, ring'[p] = ring[p], port'[p].tail = port[p].tail,
           port'[p].pending = port[p].pending
    PROVE  Contents(p)' = Contents(p)
    BY DEF Contents

\* send's half: the message goes behind those that are there, and overwrites none
\* of them, as long as the queue is not full.
LEMMA Enqueues ==
    ASSUME TypeOK, CountersAgree, NEW q \in Port, NEW m \in Message,
           port[q].pending < QueueSize, Enqueue(q, m)
    PROVE  /\ port' \in [Port -> PortRecord]
           /\ ring' \in [Port -> [0 .. QueueSize - 1 -> Message \cup {NoMessage}]]
           /\ CountersAgree'
           /\ \A p \in Port : p # q => port'[p] = port[p] /\ ring'[p] = ring[p]
           /\ \A p \in Port : port'[p].type = port[p].type
           /\ port'[q].pending = port[q].pending + 1
           /\ Contents(q)' = Append(Contents(q), m)
<1> DEFINE n == port[q].pending
           t == port[q].tail
           h == port[q].head
<1>1. n \in Nat /\ n < QueueSize /\ t \in Counter /\ h \in Counter /\ t \in Nat /\ h \in Nat
    BY LpcAssumption DEF TypeOK, PortRecord, Counter
<1>2. h = (t + n) % CounterMod
    BY DEF CountersAgree
<1>3. /\ port'[q] = [port[q] EXCEPT !.head = Inc(h), !.pending = n + 1]
      /\ port' = [port EXCEPT ![q] = [port[q] EXCEPT !.head = Inc(h), !.pending = n + 1]]
      /\ ring'[q] = [ring[q] EXCEPT ![h % QueueSize] = m]
      /\ ring' = [ring EXCEPT ![q] = [ring[q] EXCEPT ![h % QueueSize] = m]]
    BY ZenonT(30) DEF Enqueue, TypeOK, PortRecord
<1>4. /\ port'[q].head = Inc(h) /\ port'[q].tail = t /\ port'[q].pending = n + 1
      /\ port'[q].type = port[q].type
    BY <1>3 DEF TypeOK, PortRecord
<1>5. \A p \in Port : p # q => port'[p] = port[p] /\ ring'[p] = ring[p]
    BY <1>3 DEF TypeOK
<1>6. port' \in [Port -> PortRecord]
    <2>1. Inc(h) \in Counter /\ n + 1 \in 0 .. QueueSize
        BY <1>1, CounterType, LpcAssumption
    <2>2. [port[q] EXCEPT !.head = Inc(h), !.pending = n + 1] \in PortRecord
        BY <1>1, <2>1, RecordType, Zenon DEF TypeOK
    <2> QED
        BY <1>3, <2>2 DEF TypeOK
<1>7. h % QueueSize \in 0 .. QueueSize - 1
    BY <1>1, LpcAssumption
<1>8. ring' \in [Port -> [0 .. QueueSize - 1 -> Message \cup {NoMessage}]]
    BY <1>3, <1>7 DEF TypeOK
<1>9. CountersAgree'
    <2>1. Inc(h) = (t + n + 1) % CounterMod
        BY <1>1, <1>2, IncWraps
    <2>2. \A p \in Port : p # q => port'[p].head = (port'[p].tail + port'[p].pending) % CounterMod
        BY <1>5 DEF CountersAgree
    <2>3. t + (n + 1) = t + n + 1
        BY <1>1
    <2> QED
        BY <1>4, <2>1, <2>2, <2>3 DEF CountersAgree
<1>10. h % QueueSize = (t + n) % QueueSize
    <2>1. t + n \in Nat /\ (t + n) + 0 = t + n /\ h + 0 = h
        BY <1>1
    <2>2. (((t + n) % CounterMod) + 0) % QueueSize = ((t + n) + 0) % QueueSize
        BY <2>1, SlotOfCounter
    <2> QED
        BY <1>2, <2>1, <2>2
<1>11. \A i \in 1 .. n : ring'[q][(t + i - 1) % QueueSize] = ring[q][(t + i - 1) % QueueSize]
    <2> SUFFICES ASSUME NEW i \in 1 .. n
                 PROVE  ring'[q][(t + i - 1) % QueueSize] = ring[q][(t + i - 1) % QueueSize]
        OBVIOUS
    <2>1. t + i - 1 \in Nat /\ t + n \in Nat /\ t + i - 1 < t + n /\ (t + n) - (t + i - 1) < QueueSize
        BY <1>1, LpcAssumption
    <2>2. (t + i - 1) % QueueSize # (t + n) % QueueSize
        BY <2>1, Apart, LpcAssumption
    <2>3. (t + i - 1) % QueueSize \in 0 .. QueueSize - 1
        BY <2>1, LpcAssumption
    <2> QED
        BY <1>3, <1>10, <2>2, <2>3, ZenonT(30) DEF TypeOK
<1>12. ring'[q][(t + n) % QueueSize] = m
    BY <1>3, <1>7, <1>10, Zenon DEF TypeOK
<1>13. Contents(q)' \in Seq(Message \cup {NoMessage}) /\ Len(Contents(q)') = n + 1
       /\ \A i \in 1 .. n + 1 : Contents(q)'[i] = ring'[q][(t + i - 1) % QueueSize]
    <2>1. n + 1 \in Nat
        BY <1>1
    <2>2. \A i \in 1 .. n + 1 : (t + i - 1) % QueueSize \in 0 .. QueueSize - 1
        BY <1>1, LpcAssumption
    <2>3. \A i \in 1 .. n + 1 : ring'[q][(t + i - 1) % QueueSize] \in Message \cup {NoMessage}
        BY <1>8, <2>2, Zenon
    <2>4. Contents(q)' = [i \in 1 .. n + 1 |-> ring'[q][(t + i - 1) % QueueSize]]
        BY <1>4 DEF Contents
    <2> HIDE DEF n, t, h
    <2> QED
        BY <2>1, <2>3, <2>4
<1>14. /\ Contents(q) \in Seq(Message \cup {NoMessage}) /\ Len(Contents(q)) = n
       /\ \A i \in 1 .. n : Contents(q)[i] = ring[q][(t + i - 1) % QueueSize]
    BY ContentsSeq
<1> HIDE DEF n, t, h
<1>15. Contents(q)' = Append(Contents(q), m)
    <2>1. /\ Append(Contents(q), m) \in Seq(Message \cup {NoMessage})
          /\ Len(Append(Contents(q), m)) = n + 1
          /\ \A i \in 1 .. n : Append(Contents(q), m)[i] = Contents(q)[i]
          /\ Append(Contents(q), m)[n + 1] = m
        BY <1>1, <1>14, AppendProperties, SMTT(30), Z3T(30)
    <2>2. t + (n + 1) - 1 = t + n
        BY <1>1
    <2>3. \A i \in 1 .. n + 1 : i = n + 1 \/ i \in 1 .. n
        BY <1>1
    <2>4. ASSUME NEW i \in 1 .. n + 1
          PROVE  Contents(q)'[i] = Append(Contents(q), m)[i]
        <3>1. CASE i \in 1 .. n
            BY <1>11, <1>13, <1>14, <2>1, <3>1, Zenon
        <3>2. CASE i = n + 1
            BY <1>12, <1>13, <2>1, <2>2, <3>2, Zenon
        <3> QED
            BY <2>3, <3>1, <3>2, Zenon
    <2>5. PICK new \in Seq(Message \cup {NoMessage}) : new = Contents(q)'
        BY <1>13
    <2>6. PICK app \in Seq(Message \cup {NoMessage}) : app = Append(Contents(q), m)
        BY <2>1, Zenon
    <2>7. Len(new) = Len(app) /\ \A i \in 1 .. Len(new) : new[i] = app[i]
        BY <1>13, <2>1, <2>4, <2>5, <2>6
    <2>8. new = app
        BY ONLY <2>7, SeqEqual, <2>5, <2>6, Zenon
    <2> QED
        BY <2>5, <2>6, <2>8
<1> QED
    BY <1>4, <1>5, <1>6, <1>8, <1>9, <1>15, Zenon DEF n

\* receive's half: the oldest message leaves, the others stay in their order.
LEMMA Dequeues ==
    ASSUME TypeOK, CountersAgree, NEW q \in Port, port[q].pending > 0, Dequeue(q)
    PROVE  /\ port' \in [Port -> PortRecord]
           /\ ring' \in [Port -> [0 .. QueueSize - 1 -> Message \cup {NoMessage}]]
           /\ CountersAgree'
           /\ \A p \in Port : p # q => port'[p] = port[p] /\ ring'[p] = ring[p]
           /\ \A p \in Port : port'[p].type = port[p].type
           /\ Contents(q) # <<>> /\ Head(Contents(q)) = Oldest(q)
           /\ Contents(q)' = Tail(Contents(q))
<1> DEFINE n == port[q].pending
           t == port[q].tail
           h == port[q].head
<1>1. n \in Nat /\ n > 0 /\ n <= QueueSize /\ t \in Counter /\ h \in Counter /\ t \in Nat
    BY LpcAssumption DEF TypeOK, PortRecord, Counter
<1>2. h = (t + n) % CounterMod
    BY DEF CountersAgree
<1>3. /\ port'[q] = [port[q] EXCEPT !.tail = Inc(t), !.pending = n - 1]
      /\ port' = [port EXCEPT ![q] = [port[q] EXCEPT !.tail = Inc(t), !.pending = n - 1]]
      /\ ring'[q] = [ring[q] EXCEPT ![t % QueueSize] = NoMessage]
      /\ ring' = [ring EXCEPT ![q] = [ring[q] EXCEPT ![t % QueueSize] = NoMessage]]
    BY DEF Dequeue, TypeOK, PortRecord
<1>4. /\ port'[q].head = h /\ port'[q].tail = Inc(t) /\ port'[q].pending = n - 1
      /\ port'[q].type = port[q].type
    BY <1>3 DEF TypeOK, PortRecord
<1>5. \A p \in Port : p # q => port'[p] = port[p] /\ ring'[p] = ring[p]
    BY <1>3 DEF TypeOK
<1>6. Inc(t) \in Counter /\ Inc(t) \in Nat /\ Inc(t) = (t + 1) % CounterMod
    BY <1>1, CounterType DEF Inc
<1>7. port' \in [Port -> PortRecord]
    <2>1. n - 1 \in 0 .. QueueSize
        BY <1>1, Sizes
    <2>2. [port[q] EXCEPT !.tail = Inc(t), !.pending = n - 1] \in PortRecord
        BY <1>1, <1>6, <2>1, RecordType, Zenon DEF TypeOK
    <2> QED
        BY <1>3, <2>2 DEF TypeOK
<1>8. t % QueueSize \in 0 .. QueueSize - 1
    BY <1>1, LpcAssumption
<1>9. ring' \in [Port -> [0 .. QueueSize - 1 -> Message \cup {NoMessage}]]
    BY <1>3, <1>8, Zenon DEF TypeOK
<1>10. CountersAgree'
    <2>1. (Inc(t) + (n - 1)) % CounterMod = (t + n) % CounterMod
        <3>1. CASE t + 1 < CounterMod
            <4>1. Inc(t) = t + 1
                BY <1>1, <1>6, <3>1, LpcAssumption, SMTT(30), Z3T(30)
            <4> QED
                BY <1>1, <4>1
        <3>2. CASE t + 1 = CounterMod
            <4>1. Inc(t) = 0
                BY <1>1, <1>6, <3>2, LpcAssumption, SMTT(30), Z3T(30)
            <4>2. t + n = (n - 1) + 1 * CounterMod /\ n - 1 \in Nat /\ 0 + (n - 1) = n - 1
                BY <1>1, <3>2
            <4>3. ((n - 1) + 1 * CounterMod) % CounterMod = (n - 1) % CounterMod
                BY <4>2, Multiple, LpcAssumption, Zenon
            <4> QED
                BY <4>1, <4>2, <4>3, Zenon
        <3> QED
            BY <1>1, <3>1, <3>2, LpcAssumption DEF Counter
    <2>2. \A p \in Port : p # q => port'[p].head = (port'[p].tail + port'[p].pending) % CounterMod
        BY <1>5, Zenon DEF CountersAgree
    <2> QED
        BY <1>2, <1>4, <2>1, <2>2, Zenon DEF CountersAgree
<1>11. \A i \in 1 .. n - 1 : ring'[q][(Inc(t) + i - 1) % QueueSize] = ring[q][(t + i) % QueueSize]
    <2> SUFFICES ASSUME NEW i \in 1 .. n - 1
                 PROVE  ring'[q][(Inc(t) + i - 1) % QueueSize] = ring[q][(t + i) % QueueSize]
        OBVIOUS
    <2>1. t + i \in Nat /\ t < t + i /\ (t + i) - t < QueueSize
        BY <1>1, LpcAssumption
    <2>2. t % QueueSize # (t + i) % QueueSize
        BY <1>1, <2>1, Apart, LpcAssumption
    <2>3. (t + i) % QueueSize \in 0 .. QueueSize - 1
        BY <2>1, LpcAssumption, SMTT(30), Z3T(30)
    <2>4. (Inc(t) + i - 1) % QueueSize = (t + i) % QueueSize
        <3>1. t + 1 \in Nat /\ i - 1 \in Nat
              /\ Inc(t) + i - 1 = Inc(t) + (i - 1) /\ (t + 1) + (i - 1) = t + i
            BY <1>1, <1>6, SMTT(30), Z3T(30)
        <3>2. (((t + 1) % CounterMod) + (i - 1)) % QueueSize = ((t + 1) + (i - 1)) % QueueSize
            BY <3>1, SlotOfCounter, Zenon
        <3> QED
            BY <1>6, <3>1, <3>2, Zenon
    <2> QED
        BY <1>3, <2>2, <2>3, <2>4, Zenon DEF TypeOK
<1>12. /\ Contents(q)' \in Seq(Message \cup {NoMessage}) /\ Len(Contents(q)') = n - 1
       /\ \A i \in 1 .. n - 1 : Contents(q)'[i] = ring'[q][(Inc(t) + i - 1) % QueueSize]
    <2>1. n - 1 \in Nat
        BY <1>1, SMTT(30), Z3T(30)
    <2>2. \A i \in 1 .. n - 1 : (Inc(t) + i - 1) % QueueSize \in 0 .. QueueSize - 1
        BY <1>1, <1>6, LpcAssumption, SMTT(30), Z3T(30)
    <2>3. \A i \in 1 .. n - 1 : ring'[q][(Inc(t) + i - 1) % QueueSize] \in Message \cup {NoMessage}
        BY <1>9, <2>2, Zenon
    <2>4. Contents(q)' = [i \in 1 .. n - 1 |-> ring'[q][(Inc(t) + i - 1) % QueueSize]]
        BY <1>4 DEF Contents
    <2> HIDE DEF n, t, h
    <2> QED
        BY <2>1, <2>3, <2>4
<1>13. /\ Contents(q) \in Seq(Message \cup {NoMessage}) /\ Len(Contents(q)) = n
       /\ \A i \in 1 .. n : Contents(q)[i] = ring[q][(t + i - 1) % QueueSize]
    BY ContentsSeq, Zenon
<1> HIDE DEF n, t, h
<1>14. Contents(q) # <<>> /\ Head(Contents(q)) = Oldest(q)
    <2>1. Contents(q) # <<>> /\ Head(Contents(q)) = Contents(q)[1]
        BY <1>1, <1>13
    <2>2. t + 1 - 1 = t /\ 1 \in 1 .. n
        BY <1>1
    <2> QED
        BY <1>13, <2>1, <2>2, Zenon DEF Oldest, t
<1>15. Contents(q)' = Tail(Contents(q))
    <2>1. /\ Tail(Contents(q)) \in Seq(Message \cup {NoMessage})
          /\ Len(Tail(Contents(q))) = n - 1
          /\ \A i \in 1 .. n - 1 : Tail(Contents(q))[i] = Contents(q)[i + 1]
        BY <1>13, <1>14, HeadTailProperties
    <2>2. \A i \in 1 .. n - 1 : i + 1 \in 1 .. n /\ t + (i + 1) - 1 = t + i
        BY <1>1, SMTT(30), Z3T(30)
    <2>3. \A i \in 1 .. n - 1 : Contents(q)'[i] = Tail(Contents(q))[i]
        BY <1>11, <1>12, <1>13, <2>1, <2>2, SMTT(30), Z3T(30)
    <2>4. PICK new \in Seq(Message \cup {NoMessage}) : new = Contents(q)'
        BY <1>12
    <2>5. PICK rest \in Seq(Message \cup {NoMessage}) : rest = Tail(Contents(q))
        BY <2>1, Zenon
    <2>6. Len(new) = Len(rest) /\ \A i \in 1 .. Len(new) : new[i] = rest[i]
        BY <1>12, <2>1, <2>3, <2>4, <2>5, Zenon
    <2>7. new = rest
        BY ONLY <2>6, SeqEqual, <2>4, <2>5, Zenon
    <2> QED
        BY <2>4, <2>5, <2>7, Zenon
<1> QED
    BY <1>4, <1>5, <1>7, <1>9, <1>10, <1>14, <1>15, Zenon

-----------------------------------------------------------------------------
(* The invariant *)

\* A server between finding a port and answering has found a server's
\* communication port; it has a message in hand only while it answers.  A
\* client's port is a client's communication port.
Places ==
    /\ \A s \in Server : at[s] \in {"take", "reply"} =>
          found[s] \in Port /\ found[s] < count /\ port[found[s]].type = "ServerCommunication"
    /\ \A s \in Server : at[s] # "reply" => hand[s] = NoMessage
    /\ \A c \in Client : mine[c] # NoPort =>
          mine[c] < count /\ port[mine[c]].type = "ClientCommunication"

IInv == TypeOK /\ CountersAgree /\ Places

\* A nonempty set of ports has a first one: receive_from_owner_server_port takes
\* the ports in the order of their indices.
LEMMA FirstPort ==
    ASSUME NEW S \in SUBSET Port, S # {}
    PROVE  Min(S) \in S
<1>1. S \subseteq Nat
    BY LpcAssumption DEF Port
<1>2. PICK x \in S : \A y \in S : ~(<<y, x>> \in OpToRel(<, Nat))
    BY <1>1, WFMin, NatLessThanWellFounded
<1>3. ASSUME NEW y \in S
      PROVE  x <= y
    <2>1. x \in Nat /\ y \in Nat
        BY <1>1, <1>2
    <2>2. <<y, x>> \in Nat \X Nat /\ <<y, x>>[1] = y /\ <<y, x>>[2] = x
        BY <2>1
    <2>3. ~(y < x)
        BY <1>2, <2>2 DEF OpToRel
    <2> QED
        BY <2>1, <2>3
<1> QED
    BY <1>3 DEF Min

\* Port indices are numbers below MAX_PORTS, and NoPort is none of them.
LEMMA PortFacts ==
    /\ 0 \in Port /\ NoPort \notin Port
    /\ \A p \in Port : p \in Nat
    /\ 0 \in Counter /\ 0 \in 0 .. QueueSize
    BY Sizes DEF Port, NoPort, Counter

\* A port that is set up, connected or disconnected is still a port.
LEMMA PortTypes ==
    /\ \A type \in PortType \cup {"Unknown"} : NewPort(type) \in PortRecord
    /\ \A r \in PortRecord, q \in Port :
          [r EXCEPT !.peer = q, !.connected = TRUE, !.state = "Active"] \in PortRecord
    /\ \A r \in PortRecord :
          [r EXCEPT !.connected = FALSE, !.peer = 0, !.state = "Closed"] \in PortRecord
    /\ \A r \in PortRecord :
          [r EXCEPT !.connected = FALSE, !.state = "Closed", !.head = 0, !.tail = 0,
                    !.pending = 0, !.peer = 0] \in PortRecord
<1>1. \A type \in PortType \cup {"Unknown"} : NewPort(type) \in PortRecord
    BY PortFacts DEF NewPort, PortRecord
<1>2. \A r \in PortRecord, q \in Port :
          [r EXCEPT !.peer = q, !.connected = TRUE, !.state = "Active"] \in PortRecord
    BY Zenon DEF PortRecord
<1>3. \A r \in PortRecord :
          [r EXCEPT !.connected = FALSE, !.peer = 0, !.state = "Closed"] \in PortRecord
    BY PortFacts, Zenon DEF PortRecord
<1>4. \A r \in PortRecord :
          [r EXCEPT !.connected = FALSE, !.state = "Closed", !.head = 0, !.tail = 0,
                    !.pending = 0, !.peer = 0] \in PortRecord
    BY PortFacts, Zenon DEF PortRecord
<1> QED
    BY <1>1, <1>2, <1>3, <1>4, Zenon

\* The registry starts zeroed, with no port and every server before its first look.
LEMMA InitInv ==
    ASSUME Init
    PROVE  IInv
<1>1. TypeOK
    <2>1. NewPort("Unknown") \in PortRecord
        BY PortTypes, Zenon
    <2>2. count \in 0 .. MaxPorts /\ port \in [Port -> PortRecord]
        BY <2>1, LpcAssumption DEF Init
    <2>3. ring \in [Port -> [0 .. QueueSize - 1 -> Message \cup {NoMessage}]]
        BY DEF Init
    <2> QED
        BY <2>2, <2>3, Zenon DEF Init, TypeOK
<1>2. CountersAgree
    BY LpcAssumption DEF Init, CountersAgree, NewPort
<1>3. Places
    BY DEF Init, Places
<1> QED
    BY <1>1, <1>2, <1>3 DEF IInv

\* What every step does to the queues, as MessageQueues sees it.
QueueStep == Queues!Next

\* A step that touches no ring and no port is none for the queues.
LEMMA QuietStep ==
    ASSUME UNCHANGED <<port, ring>>
    PROVE  QueueStep
<1>1. \A p \in Port : Contents(p)' = Contents(p)
    BY DEF Contents
<1> QED
    BY <1>1 DEF QueueStep, Queues!Next

\* connect_port sets up two fresh ports, which hold nothing.
LEMMA ConnectKeeps ==
    ASSUME IInv, NEW c \in Client, Connect(c)
    PROVE  IInv' /\ QueueStep
<1> DEFINE clientPort == [NewPort("ClientCommunication") EXCEPT
                             !.peer = count + 1, !.connected = TRUE, !.state = "Active"]
           serverPort == [NewPort("ServerCommunication") EXCEPT
                             !.peer = count, !.connected = TRUE, !.state = "Active"]
           apiPort == [port[0] EXCEPT
                             !.peer = count + 1, !.connected = TRUE, !.state = "Active"]
<1>1. /\ count \in Port /\ count + 1 \in Port /\ count \in Nat /\ 0 < count
      /\ count' = count + 2 /\ count' \in 0 .. MaxPorts /\ count < NoPort
    <2>1. count \in 0 .. MaxPorts
        BY DEF IInv, TypeOK
    <2>2. 0 < count /\ count + 2 <= MaxPorts /\ count' = count + 2
        BY DEF Connect, ApiPort
    <2> QED
        BY <2>1, <2>2, Sizes, SMTT(30), Z3T(30) DEF Port, NoPort
<1>2. /\ port' = [port EXCEPT ![count] = clientPort, ![count + 1] = serverPort, ![0] = apiPort]
      /\ mine' = [mine EXCEPT ![c] = count]
      /\ UNCHANGED <<ring, limit, event, sending, at, found, hand, again, busy>>
    BY <1>1 DEF Connect, ApiPort, serverVars, IInv, TypeOK
<1>3. clientPort \in PortRecord /\ serverPort \in PortRecord /\ apiPort \in PortRecord
    <2>1. port[0] \in PortRecord
        BY PortFacts DEF IInv, TypeOK
    <2> QED
        BY <1>1, <2>1, PortTypes, Zenon DEF PortType
<1>4. /\ clientPort.type = "ClientCommunication" /\ serverPort.type = "ServerCommunication"
      /\ clientPort.pending = 0 /\ serverPort.pending = 0
      /\ clientPort.head = 0 /\ serverPort.head = 0
      /\ clientPort.tail = 0 /\ serverPort.tail = 0
      /\ apiPort.type = port[0].type /\ apiPort.pending = port[0].pending
      /\ apiPort.head = port[0].head /\ apiPort.tail = port[0].tail
    BY PortFacts, SMTT(30), Z3T(30) DEF NewPort, IInv, TypeOK, PortRecord
<1> HIDE DEF clientPort, serverPort, apiPort
<1>5. /\ port'[count] = clientPort /\ port'[count + 1] = serverPort /\ port'[0] = apiPort
      /\ \A p \in Port \ {0, count, count + 1} : port'[p] = port[p]
    BY <1>1, <1>2, PortFacts DEF IInv, TypeOK
<1>6. TypeOK'
    BY <1>1, <1>2, <1>3, Zenon DEF IInv, TypeOK
<1>7. CountersAgree'
    <2>1. 0 = (0 + 0) % CounterMod
        BY LpcAssumption
    <2> QED
        BY <1>4, <1>5, <2>1, PortFacts DEF IInv, CountersAgree
<1>8. \A p \in Port : p < count => p < count' /\ port'[p].type = port[p].type
    <2>1. \A p \in Port : p < count => p < count'
        BY <1>1, PortFacts
    <2>2. \A p \in Port : p < count => p # count /\ p # count + 1
        BY <1>1, PortFacts
    <2> QED
        BY <1>4, <1>5, <2>1, <2>2, Zenon
<1>9. Places'
    <2>1. ASSUME NEW s \in Server, at'[s] \in {"take", "reply"}
          PROVE  /\ found'[s] \in Port /\ found'[s] < count'
                 /\ port'[found'[s]].type = "ServerCommunication"
        <3>1. found[s] \in Port /\ found[s] < count /\ port[found[s]].type = "ServerCommunication"
            BY <1>2, <2>1 DEF IInv, Places
        <3> QED
            BY <1>2, <1>8, <3>1, Zenon
    <2>2. ASSUME NEW d \in Client, mine'[d] # NoPort
          PROVE  mine'[d] < count' /\ port'[mine'[d]].type = "ClientCommunication"
        <3>1. CASE d = c
            BY <1>1, <1>2, <1>4, <1>5, <3>1, SMTT(30), Z3T(30) DEF IInv, TypeOK
        <3>2. CASE d # c
            <4>1. /\ mine'[d] = mine[d] /\ mine[d] \in Port /\ mine[d] < count
                  /\ port[mine[d]].type = "ClientCommunication"
                BY <1>2, <2>2, <3>2 DEF IInv, TypeOK, Places
            <4> QED
                BY <1>8, <4>1, Zenon
        <3> QED
            BY <3>1, <3>2, Zenon
    <2> QED
        BY <1>2, <2>1, <2>2, Zenon DEF IInv, Places
<1>10. QueueStep
    <2> SUFFICES ASSUME NEW p \in Port
                 PROVE  Contents(p)' = Contents(p) \/ (Contents(p)' = <<>> /\ hand' = hand)
        BY DEF QueueStep, Queues!Next, Queues!Discard
    <2>1. CASE p \in {count, count + 1}
        BY <1>2, <1>4, <1>5, <2>1, NoContents, Zenon
    <2>2. CASE p \notin {count, count + 1}
        BY <1>2, <1>4, <1>5, <2>2, SameContents, PortFacts, Zenon
    <2> QED
        BY <2>1, <2>2
<1> QED
    BY <1>6, <1>7, <1>9, <1>10, Zenon DEF IInv

\* A step that leaves servers and the types of ports alone, and gives no client
\* another port, leaves everybody in place.
LEMMA SamePlaces ==
    ASSUME IInv, UNCHANGED <<count, at, found, hand>>,
           \A p \in Port : port'[p].type = port[p].type,
           \A c \in Client : mine'[c] \in {mine[c], NoPort}
    PROVE  Places'
<1>1. ASSUME NEW s \in Server, at'[s] \in {"take", "reply"}
      PROVE  /\ found'[s] \in Port /\ found'[s] < count'
             /\ port'[found'[s]].type = "ServerCommunication"
    BY <1>1, Zenon DEF IInv, Places
<1>2. ASSUME NEW c \in Client, mine'[c] # NoPort
      PROVE  mine'[c] < count' /\ port'[mine'[c]].type = "ClientCommunication"
    <2>1. mine'[c] = mine[c] /\ mine[c] \in Port
        BY <1>2 DEF IInv, TypeOK
    <2> QED
        BY <1>2, <2>1, ZenonT(30) DEF IInv, Places
<1> QED
    BY <1>1, <1>2, Zenon DEF IInv, Places

\* close_port empties the port, and leaves its peer's messages alone.
LEMMA CloseKeeps ==
    ASSUME IInv, NEW p \in Port, Close(p)
    PROVE  IInv' /\ QueueStep
<1>1. /\ UNCHANGED <<count, limit, event, sending, at, found, hand, again, busy>>
      /\ ring' = [ring EXCEPT ![p] = [i \in 0 .. QueueSize - 1 |-> NoMessage]]
      /\ mine' = [c \in Client |-> IF mine[c] = p /\ sending[c] = "no" THEN NoPort ELSE mine[c]]
      /\ port' = Disconnected(p)
    BY Zenon DEF Close, serverVars
<1>2. port' \in [Port -> PortRecord]
    BY <1>1, PortTypes, Zenon DEF Disconnected, IInv, TypeOK
<1>3. port'[p].pending = 0 /\ port'[p].head = 0 /\ port'[p].tail = 0
      /\ port'[p].type = port[p].type
    <2>1. port'[p] = [port[p] EXCEPT !.connected = FALSE, !.state = "Closed", !.head = 0,
                                     !.tail = 0, !.pending = 0, !.peer = 0]
        BY <1>1, Zenon DEF Disconnected
    <2>2. port[p] \in PortRecord
        BY DEF IInv, TypeOK
    <2> QED
        BY <2>1, <2>2, Zenon DEF PortRecord
<1>4. ASSUME NEW q \in Port, q # p
      PROVE  /\ port'[q].pending = port[q].pending /\ port'[q].head = port[q].head
             /\ port'[q].tail = port[q].tail /\ port'[q].type = port[q].type
             /\ ring'[q] = ring[q]
    <2>1. \/ port'[q] = [port[q] EXCEPT !.connected = FALSE, !.peer = 0, !.state = "Closed"]
          \/ port'[q] = port[q]
        BY <1>1, <1>4, Zenon DEF Disconnected
    <2>2. port[q] \in PortRecord
        BY DEF IInv, TypeOK
    <2>3. ring'[q] = ring[q]
        BY <1>1, <1>4 DEF IInv, TypeOK
    <2> QED
        BY <2>1, <2>2, <2>3, Zenon DEF PortRecord
<1>5. TypeOK'
    BY <1>1, <1>2, Zenon DEF IInv, TypeOK
<1>6. CountersAgree'
    <2>1. 0 = (0 + 0) % CounterMod
        BY LpcAssumption, SMTT(30), Z3T(30)
    <2> QED
        BY <1>3, <1>4, <2>1 DEF IInv, CountersAgree
<1>7. Places'
    <2>1. \A q \in Port : port'[q].type = port[q].type
        BY <1>3, <1>4, Zenon
    <2>2. \A c \in Client : mine'[c] \in {mine[c], NoPort}
        BY <1>1
    <2> QED
        BY <1>1, <2>1, <2>2, SamePlaces, Zenon
<1>8. QueueStep
    <2> SUFFICES ASSUME NEW q \in Port
                 PROVE  Contents(q)' = Contents(q) \/ (Contents(q)' = <<>> /\ hand' = hand)
        BY DEF QueueStep, Queues!Next, Queues!Discard
    <2>1. CASE q = p
        BY <1>1, <1>3, <2>1, NoContents, Zenon
    <2>2. CASE q # p
        BY <1>4, <2>2, SameContents, Zenon
    <2> QED
        BY <2>1, <2>2, Zenon
<1> QED
    BY <1>5, <1>6, <1>7, <1>8 DEF IInv

\* Whoever sends to a port with room, and is not taking a message from another one,
\* puts one message into one queue.
LEMMA PutStep ==
    ASSUME TypeOK, CountersAgree, NEW q \in Port, NEW m \in Message,
           port[q].pending < QueueSize, Enqueue(q, m)
    PROVE  QueueStep
<1>1. /\ Contents(q)' = Append(Contents(q), m) /\ Len(Contents(q)) < QueueSize
      /\ \A p \in Port : p # q => Contents(p)' = Contents(p)
    BY Enqueues, ContentsSeq, SameContents, Zenon
<1> QED
    BY <1>1 DEF QueueStep, Queues!Next, Queues!Put

\* A client sends to its peer.
LEMMA SendKeeps ==
    ASSUME IInv, NEW c \in Client, NEW m \in {"bare", "call"}, Send(c, m)
    PROVE  IInv' /\ QueueStep
<1>0. PICK q \in Port : q = port[mine[c]].peer
    BY DEF Send, IInv, TypeOK, PortRecord
<1>1. /\ port[q].pending < QueueSize
      /\ Enqueue(q, m) /\ m \in Message
      /\ UNCHANGED <<count, limit, event, mine, at, found, hand, again, busy>>
      /\ sending' \in [Client -> {"no", "signal", "wake"}]
    BY <1>0 DEF Send, Accepts, IInv, TypeOK, Message, serverVars
<1>2. /\ port' \in [Port -> PortRecord]
      /\ ring' \in [Port -> [0 .. QueueSize - 1 -> Message \cup {NoMessage}]]
      /\ CountersAgree' /\ \A p \in Port : port'[p].type = port[p].type
    BY <1>1, Enqueues, Zenon DEF IInv
<1>3. TypeOK'
    BY <1>1, <1>2, Zenon DEF IInv, TypeOK
<1>4. Places'
    BY <1>1, <1>2, SamePlaces, Zenon
<1>5. QueueStep
    BY <1>1, PutStep DEF IInv
<1> QED
    BY <1>2, <1>3, <1>4, <1>5, Zenon DEF IInv

\* A client receives at its own port, which no server serves.
LEMMA ReceiveKeeps ==
    ASSUME IInv, NEW c \in Client, Receive(c)
    PROVE  IInv' /\ QueueStep
<1>0. PICK q \in Port : q = mine[c]
    BY DEF Receive, IInv, TypeOK
<1>1. /\ port[q].pending > 0 /\ port[q].type = "ClientCommunication"
      /\ Dequeue(q)
      /\ UNCHANGED <<count, limit, event, mine, sending, at, found, hand, again, busy>>
    BY <1>0, Zenon DEF Receive, IInv, TypeOK, Places, serverVars
<1>2. /\ port' \in [Port -> PortRecord]
      /\ ring' \in [Port -> [0 .. QueueSize - 1 -> Message \cup {NoMessage}]]
      /\ CountersAgree' /\ \A p \in Port : port'[p].type = port[p].type
      /\ \A p \in Port : p # q => port'[p] = port[p] /\ ring'[p] = ring[p]
      /\ Contents(q) # <<>> /\ Contents(q)' = Tail(Contents(q))
    BY <1>1, Dequeues, Zenon DEF IInv
<1>3. TypeOK'
    BY <1>1, <1>2 DEF IInv, TypeOK
<1>4. Places'
    BY <1>1, <1>2, SamePlaces, Zenon
<1>5. QueueStep
    <2>1. \A p \in Port : p # q => Contents(p)' = Contents(p)
        BY <1>2, SameContents
    <2> QED
        BY <1>1, <1>2, <2>1, Zenon DEF QueueStep, Queues!Next, Queues!Take
<1> QED
    BY <1>2, <1>3, <1>4, <1>5, Zenon DEF IInv

\* The steps that only move a client or a server along, or touch the event.
Moves ==
    \/ \E c \in Client : Signal(c) \/ Wake(c)
    \/ \E s \in Server : \/ Ensure(s) \/ SignalReply(s) \/ WakeReply(s) \/ Clear(s) \/ Test(s)
                         \/ Park(s) \/ Timeout(s)

\* They leave the registry as it is, and put nobody at a port.
LEMMA MovesKeep ==
    ASSUME IInv, Moves
    PROVE  IInv' /\ QueueStep
<1>1. UNCHANGED <<count, port, ring, limit, mine, found, hand>>
    BY DEF Moves, Signal, Wake, Ensure, SignalReply, WakeReply, Clear, Test, Park, Timeout,
           registry, serverVars
<1>2. event' \in BOOLEAN /\ again' \in [Server -> BOOLEAN] /\ busy' \in [Server -> BOOLEAN]
    BY Zenon DEF Moves, Signal, Wake, Ensure, SignalReply, WakeReply, Clear, Test, Park, Timeout,
           serverVars, IInv, TypeOK
<1>3. sending' \in [Client -> {"no", "signal", "wake"}]
    BY DEF Moves, Signal, Wake, Ensure, SignalReply, WakeReply, Clear, Test, Park, Timeout,
           IInv, TypeOK
<1>4. /\ at' \in [Server -> {"ensure", "create", "look", "take", "reply", "signal", "wake",
                             "clear", "test", "park", "parked"}]
      /\ \A s \in Server : at'[s] \in {"take", "reply"} => at'[s] = at[s]
      /\ \A s \in Server : at'[s] # "reply" => at[s] # "reply"
    <2>1. CASE \E c \in Client : Signal(c)
        BY <2>1, Zenon DEF Signal, serverVars, IInv, TypeOK
    <2>2. CASE \E c \in Client : Wake(c)
        BY <2>2, SMTT(30), Z3T(30) DEF Wake, Awake, IInv, TypeOK
    <2>3. CASE \E s \in Server : WakeReply(s)
        BY <2>3, ZenonT(30) DEF WakeReply, Awake, IInv, TypeOK
    <2>4. CASE \E s \in Server : Ensure(s) \/ SignalReply(s) \/ Clear(s) \/ Test(s) \/ Park(s)
                                 \/ Timeout(s)
        BY <2>4, ZenonT(30) DEF Ensure, SignalReply, Clear, Test, Park, Timeout, Goto, IInv, TypeOK
    <2> QED
        BY <2>1, <2>2, <2>3, <2>4, Zenon DEF Moves
<1>5. TypeOK'
    BY <1>1, <1>2, <1>3, <1>4, Zenon DEF IInv, TypeOK
<1>6. CountersAgree' /\ QueueStep
    BY <1>1, QuietStep, Zenon DEF IInv, CountersAgree
<1>7. Places'
    BY <1>1, <1>4, Zenon DEF IInv, Places
<1> QED
    BY <1>5, <1>6, <1>7, Zenon DEF IInv

\* When dispatch_pending_alpc is over, its thread holds no port.
LEMMA DrainedKeeps ==
    ASSUME IInv, NEW s \in Server, at[s] # "reply", Drained(s),
           UNCHANGED <<registry, event, mine, sending, hand>>
    PROVE  IInv' /\ QueueStep
<1>1. UNCHANGED <<count, port, ring, limit, event, mine, sending, hand>>
    BY DEF registry
<1>2. PICK l \in {"look", "test", "clear"} : at' = [at EXCEPT ![s] = l]
    BY Zenon DEF Drained, Goto
<1>3. TypeOK'
    BY <1>1, <1>2 DEF Drained, IInv, TypeOK
<1>4. CountersAgree' /\ QueueStep
    BY <1>1, QuietStep, Zenon DEF IInv, CountersAgree
<1>5. Places'
    <2>1. \A r \in Server : r # s => at'[r] = at[r] /\ found'[r] = found[r]
        BY <1>2 DEF Drained, IInv, TypeOK
    <2>2. at'[s] = l
        BY <1>2 DEF IInv, TypeOK
    <2> QED
        BY <1>1, <2>1, <2>2 DEF IInv, Places
<1> QED
    BY <1>3, <1>4, <1>5 DEF IInv

\* ensure_api_port creates the first port, or gives up.
LEMMA CreatePortKeeps ==
    ASSUME IInv, NEW s \in Server, CreatePort(s)
    PROVE  IInv' /\ QueueStep
<1>1. CASE count # 0
    <2>1. Drained(s) /\ UNCHANGED <<registry, event, mine, sending, hand>> /\ at[s] # "reply"
        BY <1>1 DEF CreatePort, registry
    <2> QED
        BY <2>1, DrainedKeeps
<1>2. CASE count = 0
    <2>1. /\ port' = [port EXCEPT ![0] = NewPort("Connection")] /\ count' = 1
          /\ at[s] = "create" /\ at' = [at EXCEPT ![s] = "look"]
          /\ UNCHANGED <<found, again, busy, ring, limit, event, mine, sending, hand>>
        BY <1>2, Zenon DEF CreatePort, Goto, ApiPort
    <2>2. NewPort("Connection") \in PortRecord
        BY PortTypes, Zenon DEF PortType
    <2>3. /\ port'[0].pending = 0 /\ port'[0].head = 0 /\ port'[0].tail = 0
          /\ \A p \in Port : p # 0 => port'[p] = port[p]
        BY <2>1, PortFacts, Zenon DEF NewPort, IInv, TypeOK
    <2>4. TypeOK'
        <3>1. port' \in [Port -> PortRecord]
            BY <2>1, <2>2, Zenon DEF IInv, TypeOK
        <3>2. count' \in 0 .. MaxPorts
            BY <2>1, LpcAssumption, SMTT(30), Z3T(30)
        <3> QED
            BY <2>1, <3>1, <3>2 DEF IInv, TypeOK
    <2>5. CountersAgree'
        <3>1. 0 = (0 + 0) % CounterMod
            BY LpcAssumption
        <3> QED
            BY <2>3, <3>1, Zenon DEF IInv, CountersAgree
    <2>6. /\ \A r \in Server : at[r] \notin {"take", "reply"}
          /\ \A c \in Client : mine[c] = NoPort
        BY <1>2, PortFacts, SMTT(30), Z3T(30) DEF IInv, Places, TypeOK
    <2>7. Places'
        BY <2>1, <2>6 DEF IInv, Places, TypeOK
    <2>8. QueueStep
        <3> SUFFICES ASSUME NEW p \in Port
                     PROVE  Contents(p)' = Contents(p) \/ (Contents(p)' = <<>> /\ hand' = hand)
            BY DEF QueueStep, Queues!Next, Queues!Discard
        <3>1. CASE p = 0
            BY <2>1, <2>3, <3>1, NoContents, Zenon
        <3>2. CASE p # 0
            BY <2>1, <2>3, <3>2, SameContents
        <3> QED
            BY <3>1, <3>2
    <2> QED
        BY <2>4, <2>5, <2>7, <2>8 DEF IInv
<1> QED
    BY <1>1, <1>2

\* receive_from_owner_server_port finds a server's communication port, or none.
LEMMA LookKeeps ==
    ASSUME IInv, NEW s \in Server, Look(s)
    PROVE  IInv' /\ QueueStep
<1>1. CASE Waiting = {}
    BY <1>1, DrainedKeeps DEF Look
<1>2. CASE Waiting # {}
    <2>1. PICK p \in Port : /\ p = Min(Waiting) /\ p < count
                            /\ port[p].type = "ServerCommunication"
        BY <1>2, FirstPort, Zenon DEF Waiting
    <2>2. /\ at[s] = "look" /\ at' = [at EXCEPT ![s] = "take"]
          /\ found' = [found EXCEPT ![s] = p]
          /\ UNCHANGED <<count, port, ring, limit, event, mine, sending, hand, again, busy>>
        BY <1>2, <2>1, Zenon DEF Look, Goto, registry
    <2>3. TypeOK'
        BY <2>2, Zenon DEF IInv, TypeOK
    <2>4. CountersAgree' /\ QueueStep
        BY <2>2, QuietStep, Zenon DEF IInv, CountersAgree
    <2>5. Places'
        BY <2>1, <2>2 DEF IInv, TypeOK, Places
    <2> QED
        BY <2>3, <2>4, <2>5 DEF IInv
<1> QED
    BY <1>1, <1>2, Zenon

\* A server receives: the oldest message goes from the queue into its hands.
LEMMA TakeKeeps ==
    ASSUME IInv, NEW s \in Server, Take(s)
    PROVE  IInv' /\ QueueStep
<1>1. PICK q \in Port : q = found[s] /\ q < count /\ port[q].type = "ServerCommunication"
    BY Zenon DEF Take, IInv, Places
<1>2. CASE port[q].pending = 0
    BY <1>1, <1>2, DrainedKeeps, Zenon DEF Take, registry
<1>3. CASE port[q].pending # 0
    <2>1. port[q].pending > 0
        BY <1>3, SMTT(30), Z3T(30) DEF IInv, TypeOK, PortRecord
    <2>2. /\ at[s] = "take" /\ at' = [at EXCEPT ![s] = "reply"]
          /\ hand' = [hand EXCEPT ![s] = Oldest(q)] /\ Dequeue(q)
          /\ busy' = [busy EXCEPT ![s] = TRUE] /\ again' = [again EXCEPT ![s] = FALSE]
          /\ UNCHANGED <<count, found, limit, event, mine, sending>>
        BY <1>1, <1>3, Zenon DEF Take, Goto
    <2>3. /\ port' \in [Port -> PortRecord]
          /\ ring' \in [Port -> [0 .. QueueSize - 1 -> Message \cup {NoMessage}]]
          /\ CountersAgree' /\ \A p \in Port : port'[p].type = port[p].type
          /\ \A p \in Port : p # q => port'[p] = port[p] /\ ring'[p] = ring[p]
          /\ Contents(q) # <<>> /\ Head(Contents(q)) = Oldest(q)
          /\ Contents(q)' = Tail(Contents(q))
        BY <2>1, <2>2, Dequeues DEF IInv
    <2>4. Oldest(q) \in Message \cup {NoMessage}
        <3>1. port[q].tail \in Nat
            BY LpcAssumption DEF IInv, TypeOK, PortRecord, Counter
        <3>2. port[q].tail % QueueSize \in 0 .. QueueSize - 1
            BY <3>1, LpcAssumption
        <3> QED
            BY <3>2, ZenonT(30) DEF Oldest, IInv, TypeOK
    <2>5. TypeOK'
        BY <2>2, <2>3, <2>4 DEF IInv, TypeOK
    <2>6. /\ hand[s] = NoMessage /\ hand'[s] = Oldest(q)
          /\ \A r \in Server \ {s} : hand'[r] = hand[r]
        BY <2>2, Zenon DEF IInv, TypeOK, Places
    <2>7. Places'
        <3>1. \A r \in Server : r # s => at'[r] = at[r] /\ hand'[r] = hand[r]
            BY <2>2 DEF IInv, TypeOK
        <3>2. at'[s] = "reply" /\ found'[s] = q
            BY <1>1, <2>2, Zenon DEF IInv, TypeOK
        <3>3. ASSUME NEW r \in Server, at'[r] \in {"take", "reply"}
              PROVE  /\ found'[r] \in Port /\ found'[r] < count'
                     /\ port'[found'[r]].type = "ServerCommunication"
            <4>1. /\ found[r] \in Port /\ found[r] < count
                  /\ port[found[r]].type = "ServerCommunication"
                BY <1>1, <2>2, <3>1, <3>2, <3>3, Zenon DEF IInv, Places
            <4> QED
                BY <2>2, <2>3, <4>1
        <3>4. ASSUME NEW c \in Client, mine'[c] # NoPort
              PROVE  mine'[c] < count' /\ port'[mine'[c]].type = "ClientCommunication"
            <4>1. /\ mine[c] \in Port /\ mine[c] < count
                  /\ port[mine[c]].type = "ClientCommunication"
                BY <2>2, <3>4, Zenon DEF IInv, TypeOK, Places
            <4> QED
                BY <2>2, <2>3, <4>1, Zenon
        <3>5. \A r \in Server : at'[r] # "reply" => hand'[r] = NoMessage
            BY <3>1, <3>2, Zenon DEF IInv, Places
        <3> QED
            BY <3>3, <3>4, <3>5, Zenon DEF Places
    <2>8. QueueStep
        <3>1. \A p \in Port : p # q => Contents(p)' = Contents(p)
            BY <2>3, SameContents, Zenon
        <3> QED
            BY <2>3, <2>6, <3>1, Zenon DEF QueueStep, Queues!Next, Queues!Take, Queues!TakenBy
    <2> QED
        BY <2>3, <2>5, <2>7, <2>8, Zenon DEF IInv
<1> QED
    BY <1>2, <1>3, Zenon

\* The server answers, or not, and lets the message go.
LEMMA DispatchKeeps ==
    ASSUME IInv, NEW s \in Server, Dispatch(s)
    PROVE  IInv' /\ QueueStep
<1>1. /\ at[s] = "reply"
      /\ hand' = [hand EXCEPT ![s] = NoMessage] /\ found' = [found EXCEPT ![s] = NoPort]
      /\ UNCHANGED <<count, limit, event, mine, sending, again, busy>>
    BY DEF Dispatch
<1>2. PICK l \in {"signal", "look"} : at' = [at EXCEPT ![s] = l]
    BY DEF Dispatch, Goto
<1>3. ASSUME port' \in [Port -> PortRecord],
             ring' \in [Port -> [0 .. QueueSize - 1 -> Message \cup {NoMessage}]],
             CountersAgree', \A p \in Port : port'[p].type = port[p].type
      PROVE  IInv'
    <2>1. TypeOK'
        BY <1>1, <1>2, <1>3, Zenon DEF IInv, TypeOK
    <2>2. Places'
        <3>1. \A r \in Server : r # s => at'[r] = at[r] /\ hand'[r] = hand[r] /\ found'[r] = found[r]
            BY <1>1, <1>2, Zenon DEF IInv, TypeOK
        <3>2. at'[s] = l /\ hand'[s] = NoMessage
            BY <1>1, <1>2, Zenon DEF IInv, TypeOK
        <3>3. ASSUME NEW r \in Server, at'[r] \in {"take", "reply"}
              PROVE  /\ found'[r] \in Port /\ found'[r] < count'
                     /\ port'[found'[r]].type = "ServerCommunication"
            <4>1. /\ found'[r] = found[r] /\ found[r] \in Port /\ found[r] < count
                  /\ port[found[r]].type = "ServerCommunication"
                BY <3>1, <3>2, <3>3, Zenon DEF IInv, Places
            <4> QED
                BY <1>1, <1>3, <4>1, Zenon
        <3>4. ASSUME NEW c \in Client, mine'[c] # NoPort
              PROVE  mine'[c] < count' /\ port'[mine'[c]].type = "ClientCommunication"
            <4>1. /\ mine[c] \in Port /\ mine[c] < count
                  /\ port[mine[c]].type = "ClientCommunication"
                BY <1>1, <3>4, Zenon DEF IInv, TypeOK, Places
            <4> QED
                BY <1>1, <1>3, <4>1, Zenon
        <3>5. \A r \in Server : at'[r] # "reply" => hand'[r] = NoMessage
            BY <3>1, <3>2 DEF IInv, Places
        <3> QED
            BY <3>3, <3>4, <3>5, Zenon DEF Places
    <2> QED
        BY <1>3, <2>1, <2>2, Zenon DEF IInv
<1>4. CASE UNCHANGED <<port, ring>>
    BY <1>3, <1>4, QuietStep, Zenon DEF IInv, TypeOK, CountersAgree
<1>5. CASE Accepts(found[s], "reply") /\ Enqueue(port[found[s]].peer, "reply")
    <2>1. PICK q \in Port : q = port[found[s]].peer
        BY <1>1, Zenon DEF IInv, Places, TypeOK, PortRecord
    <2>2. port[q].pending < QueueSize /\ Enqueue(q, "reply") /\ "reply" \in Message
        BY <1>5, <2>1 DEF Accepts, Message
    <2> QED
        BY <1>3, <2>2, Enqueues, PutStep, Zenon DEF IInv
<1> QED
    BY <1>4, <1>5, Zenon DEF Dispatch

-----------------------------------------------------------------------------
(* The theorems *)

\* Whatever clients and servers do next, the invariant stays, and what they do
\* is a step of queues.
LEMMA NextKeeps ==
    ASSUME IInv, [Next]_vars
    PROVE  IInv' /\ QueueStep
<1>1. ASSUME NEW c \in Client, Connect(c) \/ Receive(c)
      PROVE  IInv' /\ QueueStep
    BY <1>1, ConnectKeeps, ReceiveKeeps
<1>2. ASSUME NEW c \in Client, NEW m \in {"bare", "call"}, Send(c, m)
      PROVE  IInv' /\ QueueStep
    BY <1>2, SendKeeps
<1>3. ASSUME NEW p \in Port, Close(p)
      PROVE  IInv' /\ QueueStep
    BY <1>3, CloseKeeps
<1>4. ASSUME NEW s \in Server, CreatePort(s) \/ Look(s) \/ Take(s) \/ Dispatch(s)
      PROVE  IInv' /\ QueueStep
    BY <1>4, CreatePortKeeps, LookKeeps, TakeKeeps, DispatchKeeps, Zenon
<1>5. CASE Moves
    BY <1>5, MovesKeep, ZenonT(30)
<1>6. CASE UNCHANGED vars
    BY <1>6, QuietStep DEF vars, registry, IInv, TypeOK, CountersAgree, Places
<1> QED
    BY <1>1, <1>2, <1>3, <1>4, <1>5, <1>6, Zenon DEF Next, Serve, Moves

\* The inductive invariant of ports, clients and servers holds in every
\* reachable state.
THEOREM Invariance == Spec => []IInv
<1>1. IInv /\ [Next]_vars => IInv'
    BY NextKeeps
<1> QED
    BY <1>1, InitInv, PTL DEF Spec

\* The registry, the rings and the threads keep their types; pending never
\* exceeds MAX_PORT_MESSAGES.
THEOREM LpcTyped == Spec => []TypeOK
    BY Invariance, PTL DEF IInv

\* head, tail and pending of every port agree, however often the counters wrap
\* and whatever close_port resets.
THEOREM CountersMatch == Spec => []CountersAgree
    BY Invariance, PTL DEF IInv

\* send, receive and close_port make every port a bounded queue: nothing is
\* overwritten, received twice or out of order, for any ring size and number of
\* threads.
THEOREM RingsAreQueues == Spec => Implements
<1>1. Init => Queues!Init
    <2> SUFFICES ASSUME Init
                 PROVE  Queues!Init
        OBVIOUS
    <2>1. \A p \in Port : Contents(p) = <<>>
        <3> SUFFICES ASSUME NEW p \in Port
                     PROVE  Contents(p) = <<>>
            OBVIOUS
        <3>1. Contents(p) \in Seq(Message \cup {NoMessage}) /\ Len(Contents(p)) = 0
            BY InitInv, ContentsSeq, Zenon DEF IInv, Init, NewPort
        <3> QED
            BY <3>1, EmptySeq
    <2> QED
        BY <2>1 DEF Queues!Init
<1>2. IInv /\ [Next]_vars => Queues!Next
    BY NextKeeps DEF QueueStep
<1> QED
    BY <1>1, <1>2, Invariance, PTL DEF Spec, Implements, Queues!Spec

-----------------------------------------------------------------------------
(* The message event *)

\* A server that is going to look at the queues before it tests the event.  One
\* that came from the reset of the event does not, once its message is gone.
Attends(s) ==
    \/ at[s] \in {"ensure", "create", "look", "reply", "signal", "wake", "clear"}
    \/ at[s] = "take" /\ (~again[s] \/ busy[s] \/ port[found[s]].pending > 0)

\* A thread that has not made sure of the port yet has not dispatched anything.
Fresh == \A s \in Server : at[s] \in {"ensure", "create"} => ~again[s] /\ ~busy[s]

\* A message that waits has the event set, or a client that is about to set it,
\* or a server that attends to it.
Attended ==
    Waiting # {} /\ ~event /\ (\A c \in Client : sending[c] # "signal") =>
        \E s \in Server : Attends(s)

EventInv == Fresh /\ Attended

\* No thread has dispatched anything when it starts, and no message waits.
LEMMA EventInit ==
    ASSUME Init
    PROVE  EventInv
<1>1. Waiting = {}
    BY PortFacts DEF Init, Waiting
<1>2. Fresh
    BY DEF Init, Fresh
<1> QED
    BY <1>1, <1>2 DEF EventInv, Attended

\* A step after which some server attends keeps the invariant.
LEMMA AttendedBy ==
    ASSUME Fresh', NEW s \in Server, Attends(s)'
    PROVE  EventInv'
    BY DEF EventInv, Attended

\* So does a step that brings no message, resets no event and distracts no server.
LEMMA NobodyDistracted ==
    ASSUME EventInv, Fresh', Waiting' # {} => Waiting # {}, event => event',
           (\A c \in Client : sending'[c] # "signal") => \A c \in Client : sending[c] # "signal",
           \A s \in Server : Attends(s) => Attends(s)'
    PROVE  EventInv'
    BY DEF EventInv, Attended

\* What clients do: they announce a message that comes to an empty queue, and
\* close and drain no port of a server.
LEMMA ClientsEvent ==
    ASSUME IInv, EventInv, NEW c \in Client, NEW m \in {"bare", "call"},
           Connect(c) \/ Send(c, m) \/ Receive(c) \/ Signal(c) \/ Wake(c)
    PROVE  EventInv'
<1> USE DEF serverVars, registry
<1>1. CASE Connect(c)
    <2>1. /\ UNCHANGED <<event, sending, at, found, again, busy>>
          /\ count \in Nat /\ count \in Port /\ count + 1 \in Port
          /\ 0 < count
        BY <1>1, LpcAssumption DEF Connect, Port, ApiPort, IInv, TypeOK
    <2>2. port'[count].pending = 0 /\ port'[count + 1].pending = 0
        <3>1. port'[count] = [NewPort("ClientCommunication") EXCEPT
                                 !.peer = count + 1, !.connected = TRUE, !.state = "Active"]
            BY <1>1, <2>1 DEF Connect, ApiPort, IInv, TypeOK
        <3>2. port'[count + 1] = [NewPort("ServerCommunication") EXCEPT
                                     !.peer = count, !.connected = TRUE, !.state = "Active"]
            BY <1>1, <2>1, SMTT(30), Z3T(30) DEF Connect, ApiPort, IInv, TypeOK
        <3> QED
            BY <3>1, <3>2 DEF NewPort
    <2>3. \A p \in Port : p # count /\ p # count + 1 =>
             port'[p].pending = port[p].pending /\ port'[p].type = port[p].type
        BY <1>1, <2>1, PortFacts, SMTT(30), Z3T(30) DEF Connect, ApiPort, IInv, TypeOK, PortRecord
    <2>4. Waiting' \subseteq Waiting
        <3> SUFFICES ASSUME NEW p \in Port, p < count', port'[p].pending > 0,
                            port'[p].type = "ServerCommunication"
                     PROVE  p \in Waiting
            BY DEF Waiting
        <3>1. p # count /\ p # count + 1
            BY <2>2
        <3>2. p < count
            BY <1>1, <2>1, <3>1, PortFacts, SMTT(30), Z3T(30) DEF Connect
        <3> QED
            BY <2>3, <3>1, <3>2, Zenon DEF Waiting
    <2>5. ASSUME NEW s \in Server, Attends(s)
          PROVE  Attends(s)'
        <3>1. ASSUME at[s] = "take"
              PROVE  port'[found[s]].pending = port[found[s]].pending
            <4>1. found[s] \in Port /\ found[s] < count
                BY <3>1 DEF IInv, Places
            <4>2. found[s] # count /\ found[s] # count + 1
                BY <2>1, <4>1, PortFacts, SMTT(30), Z3T(30)
            <4> QED
                BY <2>3, <4>1, <4>2, Zenon
        <3> QED
            BY <2>1, <2>5, <3>1 DEF Attends
    <2>6. Fresh'
        BY <2>1, Zenon DEF EventInv, Fresh
    <2> QED
        BY <2>1, <2>4, <2>5, <2>6, NobodyDistracted, Zenon
<1>2. CASE Send(c, m)
    <2>1. PICK q \in Port : q = port[mine[c]].peer
        BY <1>2, Zenon DEF Send, IInv, TypeOK, PortRecord
    <2>2. /\ port[q].pending < QueueSize /\ Enqueue(q, m) /\ m \in Message /\ sending[c] = "no"
          /\ UNCHANGED <<count, event, at, found, again, busy>>
          /\ sending' = [sending EXCEPT ![c] = IF port[q].pending = 0 THEN "signal" ELSE "no"]
        BY <1>2, <2>1, Zenon DEF Send, Accepts, Raises, Message
    <2>3. Fresh'
        BY <2>2, Zenon DEF EventInv, Fresh
    <2>4. CASE port[q].pending = 0
        <3>1. sending'[c] = "signal"
            BY <2>2, <2>4, Zenon DEF IInv, TypeOK
        <3> QED
            BY <2>3, <3>1 DEF EventInv, Attended
    <2>5. CASE port[q].pending # 0
        <3>1. /\ \A p \in Port : p # q => port'[p] = port[p]
              /\ \A p \in Port : port'[p].type = port[p].type
              /\ port'[q].pending = port[q].pending + 1
            BY <2>2, Enqueues, ZenonT(30) DEF IInv
        <3>2. port[q].pending \in Nat /\ port[q].pending > 0
            BY <2>5, LpcAssumption DEF IInv, TypeOK, PortRecord
        <3>3. Waiting' \subseteq Waiting
            BY <2>2, <3>1, <3>2, Zenon DEF Waiting
        <3>4. \A s \in Server : Attends(s) => Attends(s)'
            <4>1. \A p \in Port : port[p].pending > 0 => port'[p].pending > 0
                <5>1. port'[q].pending > 0
                    BY <3>1, <3>2, SMTT(30), Z3T(30)
                <5> QED
                    BY <3>1, <5>1, Zenon
            <4>2. \A s \in Server : at[s] = "take" => found[s] \in Port
                BY DEF IInv, Places
            <4> QED
                BY <2>2, <4>1, <4>2, Zenon DEF Attends
        <3>5. sending' = sending
            BY <2>2, <2>5, Zenon DEF IInv, TypeOK
        <3> QED
            BY <2>2, <2>3, <3>3, <3>4, <3>5, NobodyDistracted, ZenonT(30)
    <2> QED
        BY <2>4, <2>5
<1>3. CASE Receive(c)
    <2>1. PICK q \in Port : q = mine[c] /\ port[q].type = "ClientCommunication"
        BY <1>3 DEF Receive, IInv, TypeOK, Places
    <2>2. /\ port[q].pending > 0 /\ Dequeue(q)
          /\ UNCHANGED <<count, event, sending, at, found, again, busy>>
        BY <1>3, <2>1, Zenon DEF Receive
    <2>3. /\ \A p \in Port : p # q => port'[p] = port[p]
          /\ \A p \in Port : port'[p].type = port[p].type
        BY <2>2, Dequeues, Zenon DEF IInv
    <2>4. Waiting' \subseteq Waiting
        BY <2>1, <2>2, <2>3, Zenon DEF Waiting
    <2>5. ASSUME NEW s \in Server, at[s] = "take"
          PROVE  port'[found[s]] = port[found[s]]
        <3>1. found[s] \in Port /\ found[s] # q
            BY <2>1, <2>5, Zenon DEF IInv, Places
        <3> QED
            BY <2>3, <3>1, Zenon
    <2>6. \A s \in Server : Attends(s) => Attends(s)'
        BY <2>2, <2>5, Zenon DEF Attends
    <2>7. Fresh'
        BY <2>2, ZenonT(30) DEF EventInv, Fresh
    <2> QED
        BY <2>2, <2>4, <2>6, <2>7, NobodyDistracted, Zenon
<1>4. CASE Signal(c)
    BY <1>4, Zenon DEF Signal, EventInv, Fresh, Attended
<1>5. CASE Wake(c)
    <2>1. /\ sending[c] = "wake" /\ sending' = [sending EXCEPT ![c] = "no"]
          /\ at' = Awake
          /\ UNCHANGED <<count, port, event, found, again, busy>>
        BY <1>5 DEF Wake
    <2>2. \A s \in Server : at'[s] = at[s] \/ (at[s] = "parked" /\ at'[s] = "look")
        BY <2>1 DEF Awake
    <2>3. Fresh'
        BY <2>1, <2>2, Zenon DEF EventInv, Fresh
    <2>4. \A s \in Server : Attends(s) => Attends(s)'
        BY <2>1, <2>2, ZenonT(30) DEF Attends
    <2>5. Waiting' = Waiting
        BY <2>1 DEF Waiting
    <2>6. (\A d \in Client : sending'[d] # "signal") => \A d \in Client : sending[d] # "signal"
        BY <2>1, Zenon DEF IInv, TypeOK
    <2> QED
        BY <2>1, <2>3, <2>4, <2>5, <2>6, NobodyDistracted, Zenon
<1> QED
    BY <1>1, <1>2, <1>3, <1>4, <1>5, Zenon

\* close_port on a port that no server serves distracts nobody.
LEMMA CloseEvent ==
    ASSUME IInv, EventInv, "ServerCommunication" \notin Closable, NEW p \in Port, Close(p)
    PROVE  EventInv'
<1>1. /\ UNCHANGED <<count, event, sending, at, found, again, busy>>
      /\ port' = Disconnected(p) /\ port[p].type # "ServerCommunication"
    BY DEF Close, serverVars
<1>2. ASSUME NEW q \in Port
      PROVE  port'[q].type = port[q].type /\ (q # p => port'[q].pending = port[q].pending)
    <2>1. port[q] \in PortRecord
        BY Zenon DEF IInv, TypeOK
    <2>2. CASE q = p
        BY <1>1, <2>1, <2>2, Zenon DEF Disconnected, PortRecord
    <2>3. CASE q # p
        BY <1>1, <2>1, <2>3, Zenon DEF Disconnected, PortRecord
    <2> QED
        BY <2>2, <2>3
<1>3. Waiting' \subseteq Waiting
    BY <1>1, <1>2, Zenon DEF Waiting
<1>4. ASSUME NEW s \in Server, at[s] = "take"
      PROVE  port'[found[s]].pending = port[found[s]].pending
    <2>1. found[s] \in Port /\ found[s] # p
        BY <1>1, <1>4, Zenon DEF IInv, Places
    <2> QED
        BY <1>2, <2>1
<1>5. \A s \in Server : Attends(s) => Attends(s)'
    BY <1>1, <1>4, Zenon DEF Attends
<1>6. Fresh'
    BY <1>1 DEF EventInv, Fresh
<1> QED
    BY <1>1, <1>3, <1>5, <1>6, NobodyDistracted, ZenonT(30)

\* What servers do: they reset the event only to look at the queues once more.
LEMMA ServersEvent ==
    ASSUME IInv, EventInv, NEW s \in Server, Serve(s)
    PROVE  EventInv'
<1> USE DEF registry, Goto
<1>1. at \in [Server -> {"ensure", "create", "look", "take", "reply", "signal", "wake", "clear",
                         "test", "park", "parked"}]
      /\ again \in [Server -> BOOLEAN] /\ busy \in [Server -> BOOLEAN]
    BY DEF IInv, TypeOK
<1>2. Fresh'
    <2>1. \A r \in Server : at'[r] \in {"ensure", "create"} =>
             at[r] \in {"ensure", "create"} /\ again'[r] = again[r] /\ busy'[r] = busy[r]
        <3>1. CASE Ensure(s) \/ SignalReply(s) \/ Clear(s) \/ Test(s) \/ Park(s) \/ Timeout(s)
            BY <1>1, <3>1, Zenon DEF Ensure, SignalReply, Clear, Test, Park, Timeout
        <3>2. CASE WakeReply(s)
            BY <1>1, <3>2, Zenon DEF WakeReply, Awake
        <3>3. CASE CreatePort(s) \/ Look(s) \/ Take(s) \/ Dispatch(s)
            BY <1>1, <3>3, ZenonT(30) DEF CreatePort, Look, Take, Dispatch, Drained
        <3> QED
            BY <3>1, <3>2, <3>3, Zenon DEF Serve
    <2> QED
        BY <2>1, ZenonT(30) DEF EventInv, Fresh
<1>3. ASSUME at'[s] \in {"ensure", "create", "look", "reply", "signal", "wake", "clear"}
      PROVE  EventInv'
    BY <1>2, <1>3, AttendedBy, Zenon DEF Attends
<1>4. ASSUME ~Attends(s), UNCHANGED <<registry, event, mine, sending>>,
             \A r \in Server : r # s => at'[r] = at[r] /\ found'[r] = found[r]
                                        /\ again'[r] = again[r] /\ busy'[r] = busy[r]
      PROVE  EventInv'
    <2>1. \A r \in Server : Attends(r) => Attends(r)'
        BY <1>4, Zenon DEF Attends
    <2>2. Waiting' = Waiting
        BY <1>4 DEF Waiting
    <2> QED
        BY <1>2, <1>4, <2>1, <2>2, NobodyDistracted, Zenon
<1>5. CASE Ensure(s) \/ SignalReply(s) \/ WakeReply(s) \/ Clear(s) \/ Timeout(s) \/ Dispatch(s)
    <2>1. at'[s] \in {"create", "look", "signal", "wake"}
        BY <1>1, <1>5 DEF Ensure, SignalReply, WakeReply, Awake, Clear, Timeout, Dispatch
    <2> QED
        BY <1>3, <2>1, Zenon
<1>6. CASE CreatePort(s)
    <2>1. ~again[s] /\ ~busy[s]
        BY <1>6, Zenon DEF CreatePort, EventInv, Fresh
    <2>2. at'[s] \in {"look", "clear"}
        BY <1>1, <1>6, <2>1 DEF CreatePort, Drained
    <2> QED
        BY <1>3, <2>2, Zenon
<1>7. CASE Look(s)
    <2>1. CASE Waiting = {}
        <3>1. Waiting' = {}
            BY <1>7, <2>1, Zenon DEF Look, Waiting
        <3> QED
            BY <1>2, <3>1, Zenon DEF EventInv, Attended
    <2>2. CASE Waiting # {}
        <3>1. PICK p \in Port : p = Min(Waiting) /\ port[p].pending > 0
            BY <2>2, FirstPort, Zenon DEF Waiting
        <3>2. at'[s] = "take" /\ found'[s] = p /\ port' = port
            BY <1>1, <1>7, <2>2, <3>1, Zenon DEF Look, IInv, TypeOK
        <3>3. Attends(s)'
            BY <3>1, <3>2, ZenonT(30) DEF Attends
        <3> QED
            BY <1>2, <3>3, AttendedBy
    <2> QED
        BY <2>1, <2>2
<1>8. CASE Take(s)
    <2>1. CASE port[found[s]].pending # 0
        <3>1. at'[s] = "reply"
            BY <1>1, <1>8, <2>1, Zenon DEF Take
        <3> QED
            BY <1>3, <3>1, Zenon
    <2>2. CASE port[found[s]].pending = 0
        <3>1. at[s] = "take" /\ Drained(s) /\ UNCHANGED <<registry, event, mine, sending>>
            BY <1>8, <2>2, Zenon DEF Take
        <3>2. CASE busy[s] \/ ~again[s]
            <4>1. at'[s] \in {"look", "clear"}
                BY <1>1, <3>1, <3>2, Zenon DEF Drained
            <4> QED
                BY <1>3, <4>1
        <3>3. CASE ~busy[s] /\ again[s]
            <4>1. ~Attends(s)
                BY <2>2, <3>1, <3>3, SMTT(30), Z3T(30) DEF Attends
            <4>2. \A r \in Server : r # s => at'[r] = at[r] /\ found'[r] = found[r]
                                             /\ again'[r] = again[r] /\ busy'[r] = busy[r]
                BY <1>1, <3>1 DEF Drained, IInv, TypeOK
            <4> QED
                BY <1>4, <3>1, <4>1, <4>2, Zenon
        <3> QED
            BY <3>2, <3>3, Zenon
    <2> QED
        BY <2>1, <2>2
<1>9. CASE Test(s) \/ Park(s)
    <2>1. CASE at'[s] = "look"
        BY <1>3, <2>1, ZenonT(30)
    <2>2. CASE at'[s] # "look"
        <3>1. ~Attends(s)
            BY <1>9, Zenon DEF Test, Park, Attends
        <3>2. /\ UNCHANGED <<registry, event, mine, sending>>
              /\ \A r \in Server : r # s => at'[r] = at[r] /\ found'[r] = found[r]
                                            /\ again'[r] = again[r] /\ busy'[r] = busy[r]
            BY <1>1, <1>9 DEF Test, Park
        <3> QED
            BY <1>4, <3>1, <3>2, Zenon
    <2> QED
        BY <2>1, <2>2
<1> QED
    BY <1>5, <1>6, <1>7, <1>8, <1>9, Zenon DEF Serve

\* CSRSS never closes its communication ports.  Then the reset of the event in
\* wait_for_alpc_work, between two looks at the queues, never wipes out the
\* announcement of a message for good, with any number of clients and servers.
THEOREM EventNotForgotten ==
    ASSUME "ServerCommunication" \notin Closable
    PROVE  Spec => []EventRemembers
<1>1. ASSUME IInv, EventInv, [Next]_vars
      PROVE  EventInv'
    <2>1. ASSUME NEW c \in Client, Connect(c) \/ Receive(c) \/ Signal(c) \/ Wake(c)
          PROVE  EventInv'
        BY <1>1, <2>1, ClientsEvent
    <2>2. ASSUME NEW c \in Client, NEW m \in {"bare", "call"}, Send(c, m)
          PROVE  EventInv'
        BY <1>1, <2>2, ClientsEvent
    <2>3. ASSUME NEW p \in Port, Close(p)
          PROVE  EventInv'
        BY <1>1, <2>3, CloseEvent, Zenon
    <2>4. ASSUME NEW s \in Server, Serve(s)
          PROVE  EventInv'
        BY <1>1, <2>4, ServersEvent, Zenon
    <2>5. CASE UNCHANGED vars
        BY <1>1, <2>5, Zenon DEF vars, registry, EventInv, Fresh, Attended, Attends, Waiting
    <2> QED
        BY <1>1, <2>1, <2>2, <2>3, <2>4, <2>5, Zenon DEF Next
<1>2. EventInv => EventRemembers
    BY DEF EventInv, Attended, Attends, EventRemembers, Notifying, Asleep
<1> QED
    BY <1>1, <1>2, EventInit, Invariance, PTL DEF Spec
=============================================================================
