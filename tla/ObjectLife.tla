----------------------------- MODULE ObjectLife -----------------------------
(***************************************************************************)
(* What the object manager promises its clients: an object lives as long   *)
(* as somebody uses it, where a use is a reference or a handle.  Uses come *)
(* only from uses, so an object nobody uses stays unused; it is then       *)
(* destroyed, once.                                                        *)
(***************************************************************************)
EXTENDS Naturals

CONSTANT Object

VARIABLES
    phase,      \* "none" before its creation, "live", "freed" afterwards
    uses        \* how many uses there are of each object

lifeVars == <<phase, uses>>

Init ==
    /\ phase = [o \in Object |-> "none"]
    /\ uses = [o \in Object |-> 0]

\* The creator is the first user.
Birth(o) ==
    /\ phase[o] = "none"
    /\ phase' = [phase EXCEPT ![o] = "live"]
    /\ uses' = [uses EXCEPT ![o] = 1]

\* New uses, of several objects at once when a handle table is copied.
Acquire ==
    /\ \A o \in Object : uses'[o] # uses[o] =>
          phase[o] = "live" /\ 0 < uses[o] /\ uses[o] < uses'[o]
    /\ UNCHANGED phase

Release(o) ==
    /\ 0 < uses[o]
    /\ uses' = [uses EXCEPT ![o] = @ - 1]
    /\ UNCHANGED phase

Destroy(o) ==
    /\ phase[o] = "live" /\ uses[o] = 0
    /\ phase' = [phase EXCEPT ![o] = "freed"]
    /\ UNCHANGED uses

Next == Acquire \/ \E o \in Object : Birth(o) \/ Release(o) \/ Destroy(o)

Safety == Init /\ [][Next]_lifeVars

\* An unused object can only be destroyed, so this is weak fairness of Destroy.
Reclaimed(o) == (phase[o] = "live" /\ uses[o] = 0) ~> (phase[o] = "freed")

Spec == Safety /\ \A o \in Object : Reclaimed(o)
=============================================================================
