------------------------------- MODULE MCDpc -------------------------------
(* The DPC array on a small instance: two CPUs that retire, two slots, one   *)
(* ordinary object and one without a routine.                                *)
EXTENDS Dpc
=============================================================================
