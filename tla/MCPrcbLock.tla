----------------------------- MODULE MCPrcbLock -----------------------------
(* The dispatcher lock on a small instance: two CPUs and counters that wrap   *)
(* after five tickets, so every run of the lock wraps them many times.        *)
EXTENDS PrcbLock
=============================================================================
