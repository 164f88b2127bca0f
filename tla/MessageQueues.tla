--------------------------- MODULE MessageQueues ---------------------------
(***************************************************************************)
(* What LPC ports promise those who send to them and receive from them: a  *)
(* port is a bounded queue, from which messages are taken in the order     *)
(* they were put in, each once and as it was sent.  Closing a port discards*)
(* what it holds.                                                          *)
(***************************************************************************)
EXTENDS Naturals, Sequences

CONSTANTS Port, Receiver, Message, Capacity, Nothing

VARIABLES
    queue,      \* the messages waiting at each port
    served,     \* the ports the receivers serve
    taken       \* the message each receiver is working on

Init == queue = [p \in Port |-> <<>>]

Put(p) ==
    /\ Len(queue[p]) < Capacity
    /\ \E m \in Message : queue'[p] = Append(queue[p], m)

\* One receiver gets the message, and it was free to take it.
TakenBy(r, m) ==
    /\ taken[r] = Nothing /\ taken'[r] = m
    /\ \A other \in Receiver \ {r} : taken'[other] = taken[other]

Take(p) ==
    /\ queue[p] # <<>>
    /\ queue'[p] = Tail(queue[p])
    /\ p \in served => \E r \in Receiver : TakenBy(r, Head(queue[p]))

Discard(p) == queue'[p] = <<>> /\ taken' = taken

\* What may happen to a port in one step.
Next == \A p \in Port : queue'[p] = queue[p] \/ Put(p) \/ Take(p) \/ Discard(p)

Spec == Init /\ [][Next]_<<queue, served, taken>>
=============================================================================
