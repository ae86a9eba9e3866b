------------------------------ MODULE MCSandbox ------------------------------
(***************************************************************************)
(* A bounded instance of Sandbox.  A tick is two units of time.  The       *)
(* timeouts are below a tick (rounded up to one), one tick, a tick and a   *)
(* half (rounded down) and three ticks.  Two blocks show what one call     *)
(* leaves to the next.  The pointers lie inside the memory, at its last    *)
(* fitting place, past it, and below zero with and without overflow.       *)
(***************************************************************************)
EXTENDS Sandbox

MCTimeouts == {1, 2, 3, 6}
MCPointers == {0, 2, 3, -1, -3}
=============================================================================
