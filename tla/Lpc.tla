-------------------------------- MODULE Lpc --------------------------------
(***************************************************************************)
(* Local procedure calls: ports and their message queues (lpc/mod.rs and   *)
(* lpc/port.rs), the server loop of CSRSS (servers/csrss.rs), and the event*)
(* through which senders wake it.                                          *)
(*                                                                         *)
(* The registry lock covers the bodies of connect_port, send, receive and  *)
(* close_port, so each is one action; send raises the event after it has   *)
(* dropped the lock.  receive_from_owner_server_port drops it between      *)
(* finding a port and receiving from it.  wait_single tests the event and  *)
(* wait_on then parks the thread, in two steps.  A parked thread that is   *)
(* woken or times out is taken to run again; module Dispatcher is about    *)
(* when it does.                                                           *)
(*                                                                         *)
(* A message is "bare" when it has no body, a "call" when it has one with  *)
(* the eight bytes the server asks for, or a "reply".                      *)
(***************************************************************************)
EXTENDS Naturals, Sequences, FiniteSets, FiniteSetsExt

CONSTANTS
    Client,
    Server,         \* threads in csrss_server_thread_entry or csrss_main
    MaxPorts,       \* MAX_PORTS
    QueueSize,      \* MAX_PORT_MESSAGES
    CounterMod,     \* 2^32: head and tail are u32
    Closable,       \* the types of the ports their owners close
    DefaultLength   \* PortAttributes::default().max_message_length

ASSUME LpcAssumption ==
    /\ MaxPorts \in Nat \ {0} /\ QueueSize \in Nat \ {0} /\ DefaultLength \in Nat
    /\ CounterMod \in Nat \ {0} /\ CounterMod % QueueSize = 0

Port == 0 .. MaxPorts - 1
ApiPort == 0
NoPort == MaxPorts
Counter == 0 .. CounterMod - 1
Message == {"bare", "call", "reply"}
NoMessage == "none"
DataLen(m) == IF m = "bare" THEN 0 ELSE 8

VARIABLES
    count,      \* LpcRegistry.count
    port,       \* LpcRegistry.ports
    ring,       \* LpcRegistry.messages; a slot that was read is blank
    limit,      \* attributes.max_message_length of the communication ports
    event,      \* signal_state of the message event
    mine,       \* the communication port of each client
    sending,    \* where each client is in send, after the registry lock
    at,         \* where each server thread is
    found,      \* the port it found a message at
    hand,       \* the message it is dispatching
    again,      \* it is in the dispatch of wait_for_alpc_work, and that has
                \* dispatched nothing yet
    busy        \* this dispatch_pending_alpc has dispatched something

registry == <<count, port, ring, limit>>
vars == <<registry, event, mine, sending, at, found, hand, again, busy>>

PortType == {"Connection", "ClientCommunication", "ServerCommunication"}
NewPort(type) == [type |-> type, peer |-> 0, head |-> 0, tail |-> 0, pending |-> 0,
                  connected |-> FALSE, state |-> "Initializing"]
PortRecord == [type : PortType \cup {"Unknown"},
               peer : Port, head : Counter, tail : Counter, pending : 0 .. QueueSize,
               connected : BOOLEAN, state : {"Initializing", "Active", "Closed"}]

TypeOK ==
    /\ count \in 0 .. MaxPorts
    /\ port \in [Port -> PortRecord]
    /\ ring \in [Port -> [0 .. QueueSize - 1 -> Message \cup {NoMessage}]]
    /\ limit \in {0, DefaultLength}
    /\ event \in BOOLEAN
    /\ mine \in [Client -> Port \cup {NoPort}]
    /\ sending \in [Client -> {"no", "signal", "wake"}]
    /\ at \in [Server -> {"ensure", "create", "look", "take", "reply", "signal", "wake", "clear",
                          "test", "park", "parked"}]
    /\ found \in [Server -> Port \cup {NoPort}]
    /\ hand \in [Server -> Message \cup {NoMessage}]
    /\ again \in [Server -> BOOLEAN] /\ busy \in [Server -> BOOLEAN]

\* The registry of the kernel is a zeroed pool block, so its ports take no body;
\* the one of the test build holds LpcPort::empty(), with the default limit.
Init ==
    /\ count = 0
    /\ port = [p \in Port |-> NewPort("Unknown")]
    /\ ring = [p \in Port |-> [i \in 0 .. QueueSize - 1 |-> NoMessage]]
    /\ limit \in {0, DefaultLength}
    /\ event = FALSE
    /\ mine = [c \in Client |-> NoPort]
    /\ sending = [c \in Client |-> "no"]
    /\ at = [s \in Server |-> "ensure"]
    /\ found = [s \in Server |-> NoPort]
    /\ hand = [s \in Server |-> NoMessage]
    /\ again = [s \in Server |-> FALSE] /\ busy = [s \in Server |-> FALSE]

serverVars == <<at, found, hand, again, busy>>
Goto(s, l) == at' = [at EXCEPT ![s] = l]

-----------------------------------------------------------------------------
(* The registry: what send and receive do while they hold its lock *)

Inc(n) == (n + 1) % CounterMod

\* Mutant of Accepts: only the sender's own queue is looked at.
AcceptsOwn(p, m) ==
    /\ p < count /\ port[p].connected
    /\ DataLen(m) <= limit
    /\ port[p].peer < count /\ port[p].pending < QueueSize

Accepts(p, m) ==
    /\ p < count /\ port[p].connected
    /\ DataLen(m) <= limit
    /\ port[p].peer < count /\ port[port[p].peer].pending < QueueSize

\* Mutant of Enqueue: the message is written where the queue is read.
EnqueueAtTail(q, m) ==
    /\ ring' = [ring EXCEPT ![q][port[q].tail % QueueSize] = m]
    /\ port' = [port EXCEPT ![q].head = Inc(@), ![q].pending = @ + 1]

Enqueue(q, m) ==
    /\ ring' = [ring EXCEPT ![q][port[q].head % QueueSize] = m]
    /\ port' = [port EXCEPT ![q].head = Inc(@), ![q].pending = @ + 1]

Oldest(p) == ring[p][port[p].tail % QueueSize]
Dequeue(p) ==
    /\ ring' = [ring EXCEPT ![p][port[p].tail % QueueSize] = NoMessage]
    /\ port' = [port EXCEPT ![p].tail = Inc(@), ![p].pending = @ - 1]

\* send raises the event only for a queue that was empty.
Raises(p) == port[port[p].peer].pending = 0

\* connect_port: a pair of communication ports.  The server's connection port
\* is linked to the newer of its communication ports.
Connect(c) ==
    /\ mine[c] = NoPort /\ sending[c] = "no"
    /\ ApiPort < count /\ count + 2 <= MaxPorts
    /\ port' = [port EXCEPT
          ![count] = [NewPort("ClientCommunication") EXCEPT
                          !.peer = count + 1, !.connected = TRUE, !.state = "Active"],
          ![count + 1] = [NewPort("ServerCommunication") EXCEPT
                          !.peer = count, !.connected = TRUE, !.state = "Active"],
          ![ApiPort] = [@ EXCEPT !.peer = count + 1, !.connected = TRUE, !.state = "Active"]]
    /\ count' = count + 2
    /\ mine' = [mine EXCEPT ![c] = count]
    /\ UNCHANGED <<ring, limit, event, sending, serverVars>>

\* Mutant of Disconnected: the port is emptied by its pending count alone.
DisconnectedCount(p) ==
    [q \in Port |->
        IF q = p
        THEN [port[p] EXCEPT !.connected = FALSE, !.state = "Closed", !.pending = 0, !.peer = 0]
        ELSE IF q = port[p].peer /\ q # 0 /\ q < count
        THEN [port[q] EXCEPT !.connected = FALSE, !.peer = 0, !.state = "Closed"]
        ELSE port[q]]

\* close_port.  The peer is marked and keeps what it has received; the peer of
\* a connection port is its newest communication port.  0 stands for no peer.
Disconnected(p) ==
    [q \in Port |->
        IF q = p
        THEN [port[p] EXCEPT !.connected = FALSE, !.state = "Closed", !.head = 0, !.tail = 0,
                             !.pending = 0, !.peer = 0]
        ELSE IF q = port[p].peer /\ q # 0 /\ q < count
        THEN [port[q] EXCEPT !.connected = FALSE, !.peer = 0, !.state = "Closed"]
        ELSE port[q]]

Close(p) ==
    /\ p < count /\ port[p].type \in Closable
    /\ port' = Disconnected(p)
    /\ ring' = [ring EXCEPT ![p] = [i \in 0 .. QueueSize - 1 |-> NoMessage]]
    /\ mine' = [c \in Client |-> IF mine[c] = p /\ sending[c] = "no" THEN NoPort ELSE mine[c]]
    /\ UNCHANGED <<count, limit, event, sending, serverVars>>

-----------------------------------------------------------------------------
(* Clients *)

Send(c, m) ==
    /\ mine[c] # NoPort /\ sending[c] = "no"
    /\ Accepts(mine[c], m)
    /\ Enqueue(port[mine[c]].peer, m)
    /\ sending' = [sending EXCEPT ![c] = IF Raises(mine[c]) THEN "signal" ELSE "no"]
    /\ UNCHANGED <<count, limit, event, mine, serverVars>>

\* receive on a client's port
Receive(c) ==
    /\ mine[c] # NoPort /\ sending[c] = "no"
    /\ port[mine[c]].pending > 0
    /\ Dequeue(mine[c])
    /\ UNCHANGED <<count, limit, event, mine, sending, serverVars>>

\* signal_message_event: the state is set, and then the waiters are woken.
Signal(c) ==
    /\ sending[c] = "signal"
    /\ event' = TRUE
    /\ sending' = [sending EXCEPT ![c] = "wake"]
    /\ UNCHANGED <<registry, mine, serverVars>>

\* wake, with `all`: every thread on the wait list runs again.
Awake == [s \in Server |-> IF at[s] = "parked" THEN "look" ELSE at[s]]

Wake(c) ==
    /\ sending[c] = "wake"
    /\ at' = Awake
    /\ sending' = [sending EXCEPT ![c] = "no"]
    /\ UNCHANGED <<registry, event, mine, found, hand, again, busy>>

-----------------------------------------------------------------------------
(* The server loop: csrss_server_thread_entry, dispatch_pending_alpc and   *)
(* wait_for_alpc_work                                                      *)

Waiting == {p \in Port : p < count /\ port[p].type = "ServerCommunication"
                                   /\ port[p].pending > 0}

\* The loop of dispatch_pending_alpc is over: what its caller does next.
Drained(s) ==
    /\ Goto(s, CASE busy[s] -> "look" [] ~busy[s] /\ again[s] -> "test" [] OTHER -> "clear")
    /\ again' = [again EXCEPT ![s] = FALSE]
    /\ busy' = [busy EXCEPT ![s] = FALSE]
    /\ found' = [found EXCEPT ![s] = NoPort]

\* ensure_api_port looks for the port, and creates it if there is none.  Of two
\* servers that create it one is refused, and gives this dispatch up.
Ensure(s) ==
    /\ at[s] = "ensure"
    /\ Goto(s, IF count = 0 THEN "create" ELSE "look")
    /\ UNCHANGED <<registry, event, mine, sending, found, hand, again, busy>>

CreatePort(s) ==
    /\ at[s] = "create"
    /\ IF count = 0 THEN /\ port' = [port EXCEPT ![ApiPort] = NewPort("Connection")]
                         /\ count' = 1
                         /\ Goto(s, "look")
                         /\ UNCHANGED <<found, again, busy>>
                    ELSE Drained(s) /\ UNCHANGED <<port, count>>
    /\ UNCHANGED <<ring, limit, event, mine, sending, hand>>

\* receive_from_owner_server_port looks for a port with a message.
Look(s) ==
    /\ at[s] = "look"
    /\ IF Waiting = {} THEN Drained(s)
       ELSE /\ found' = [found EXCEPT ![s] = Min(Waiting)]
            /\ Goto(s, "take")
            /\ UNCHANGED <<again, busy>>
    /\ UNCHANGED <<registry, event, mine, sending, hand>>

\* It then receives from it; if the message is gone, it reports that there is
\* none at all.
Take(s) ==
    /\ at[s] = "take"
    /\ IF port[found[s]].pending = 0
       THEN Drained(s) /\ UNCHANGED <<port, ring, hand>>
       ELSE /\ hand' = [hand EXCEPT ![s] = Oldest(found[s])]
            /\ Dequeue(found[s])
            /\ busy' = [busy EXCEPT ![s] = TRUE]
            /\ again' = [again EXCEPT ![s] = FALSE]
            /\ Goto(s, "reply")
            /\ UNCHANGED found
    /\ UNCHANGED <<count, limit, event, mine, sending>>

\* dispatch_csrss_message has nothing to say to a short message, and to some
\* calls.  A reply that send refuses is dropped.
Dispatch(s) ==
    /\ at[s] = "reply"
    /\ hand' = [hand EXCEPT ![s] = NoMessage]
    /\ found' = [found EXCEPT ![s] = NoPort]
    /\ \/ /\ hand[s] = "call" /\ Accepts(found[s], "reply")
          /\ Enqueue(port[found[s]].peer, "reply")
          /\ Goto(s, IF Raises(found[s]) THEN "signal" ELSE "look")
       \/ /\ Goto(s, "look")
          /\ UNCHANGED <<port, ring>>
    /\ UNCHANGED <<count, limit, event, mine, sending, again, busy>>

\* The reply raises the event too: it wakes the servers, not the client.
SignalReply(s) ==
    /\ at[s] = "signal"
    /\ event' = TRUE
    /\ Goto(s, "wake")
    /\ UNCHANGED <<registry, mine, sending, found, hand, again, busy>>

WakeReply(s) ==
    /\ at[s] = "wake"
    /\ at' = [Awake EXCEPT ![s] = "look"]
    /\ UNCHANGED <<registry, event, mine, sending, found, hand, again, busy>>

\* Mutant of Clear: the queues are not looked at again.
ClearAndTest(s) ==
    /\ at[s] = "clear"
    /\ event' = FALSE
    /\ Goto(s, "test")
    /\ UNCHANGED <<registry, mine, sending, again, found, hand, busy>>

\* clear_message_event
Clear(s) ==
    /\ at[s] = "clear"
    /\ event' = FALSE
    /\ again' = [again EXCEPT ![s] = TRUE]
    /\ Goto(s, "look")
    /\ UNCHANGED <<registry, mine, sending, found, hand, busy>>

\* wait_message_event: wait_single returns at once when the event is signalled.
Test(s) ==
    /\ at[s] = "test"
    /\ Goto(s, IF event THEN "look" ELSE "park")
    /\ UNCHANGED <<registry, event, mine, sending, found, hand, again, busy>>

\* wait_on does not look at the event again.
Park(s) ==
    /\ at[s] = "park"
    /\ Goto(s, "parked")
    /\ UNCHANGED <<registry, event, mine, sending, found, hand, again, busy>>

\* Mutant of Timeout: the thread goes back to its wait.
TimeoutParks(s) ==
    /\ at[s] = "parked"
    /\ Goto(s, "park")
    /\ UNCHANGED <<registry, event, mine, sending, found, hand, again, busy>>

\* CSRSS_ALPC_WAIT_MS have passed.
Timeout(s) ==
    /\ at[s] = "parked"
    /\ Goto(s, "look")
    /\ UNCHANGED <<registry, event, mine, sending, found, hand, again, busy>>

-----------------------------------------------------------------------------
Serve(s) ==
    \/ Ensure(s) \/ CreatePort(s) \/ Look(s) \/ Take(s) \/ Dispatch(s)
    \/ SignalReply(s) \/ WakeReply(s) \/ Clear(s) \/ Test(s) \/ Park(s) \/ Timeout(s)

Next ==
    \/ \E c \in Client : Connect(c) \/ Receive(c) \/ Signal(c) \/ Wake(c)
                         \/ \E m \in {"bare", "call"} : Send(c, m)
    \/ \E p \in Port : Close(p)
    \/ \E s \in Server : Serve(s)

\* A server thread always has a next step, because its wait has a deadline: this
\* is weak fairness of Serve.  It supposes that the scheduler goes on running the
\* thread, also after a wait; a thread that is woken before it has come to
\* schedule is not (ReadyNotLost of module Dispatcher).  Nothing is asked of the
\* clients.
Fairness == \A s \in Server : []<><<Serve(s)>>_vars

Spec == Init /\ [][Next]_vars /\ Fairness

-----------------------------------------------------------------------------
(* Properties *)

\* head, tail and pending tell one story: the three are stored separately, head
\* and tail wrap, and a close resets them while messages are in flight.
CountersAgree ==
    \A p \in Port : port[p].head = (port[p].tail + port[p].pending) % CounterMod

\* The ring of every port is a queue: see MessageQueues.  No message is overwritten,
\* received twice or out of order, when the counters wrap, ports are closed and
\* servers race for the same message.
Contents(p) == [i \in 1 .. port[p].pending |-> ring[p][(port[p].tail + i - 1) % QueueSize]]
Queues == INSTANCE MessageQueues WITH
              Receiver <- Server, Capacity <- QueueSize, Nothing <- NoMessage,
              queue <- [p \in Port |-> Contents(p)], taken <- hand,
              served <- {p \in Port : port[p].type = "ServerCommunication"}
Implements == Queues!Spec

Asleep(s) == at[s] \in {"park", "parked"}
Notifying == (\E c \in Client : sending[c] # "no") \/ \E s \in Server : at[s] \in {"signal", "wake"}

\* When all servers are about to wait, or do, while a message is there that no
\* sender is still going to announce, then the event is signalled: the reset and
\* the second look at the queues never wipe out an announcement for good.
EventRemembers ==
    Waiting # {} /\ ~Notifying /\ (\A s \in Server : Asleep(s) \/ at[s] = "test") => event

\* A message at a server port is not left while the servers sleep on: somebody
\* takes up a message, at the latest when the wait times out.
WorkGetsDone == Waiting # {} ~> (Waiting = {} \/ \E s \in Server : hand[s] # NoMessage)

\* "A client that sent between the drain and the reset re-signals the event, so
\* no wakeup is lost": a message is never there with every server parked and
\* nobody on the way to wake one.
NoWakeupLost ==
    Waiting # {} /\ (\A s \in Server : at[s] = "parked") => Notifying
=============================================================================
