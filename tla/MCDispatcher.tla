---------------------------- MODULE MCDispatcher ----------------------------
(* Two waiters, one of them the boot thread, and a thread that never waits.   *)
EXTENDS Dispatcher
=============================================================================
