------------------------------ MODULE FifoLock ------------------------------
(***************************************************************************)
(* What the dispatcher lock promises its users: one at a time has it, and  *)
(* they get it in the order in which they asked.  There are no numbers     *)
(* here: a user who asks sees who is before it, and enters when all of     *)
(* those have left.                                                        *)
(***************************************************************************)
CONSTANT User

VARIABLES
    asked,      \* the users who wait for the lock or have it
    inside,     \* the ones who have it
    ahead       \* who asked before each user and has not left since

fifoVars == <<asked, inside, ahead>>

Init ==
    /\ asked = {} /\ inside = {}
    /\ ahead = [u \in User |-> {}]

Ask(u) ==
    /\ u \notin asked
    /\ asked' = asked \cup {u}
    /\ ahead' = [ahead EXCEPT ![u] = asked]
    /\ UNCHANGED inside

Enter(u) ==
    /\ u \in asked \ inside /\ ahead[u] = {}
    /\ inside' = inside \cup {u}
    /\ UNCHANGED <<asked, ahead>>

Leave(u) ==
    /\ u \in inside
    /\ asked' = asked \ {u} /\ inside' = inside \ {u}
    /\ ahead' = [v \in User |-> ahead[v] \ {u}]

Next == \E u \in User : Ask(u) \/ Enter(u) \/ Leave(u)

Spec == Init /\ [][Next]_fifoVars
=============================================================================
