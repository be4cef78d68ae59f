----------------------------- MODULE MCSpscQueue -----------------------------
(***************************************************************************)
(* SpscQueue on small rings.  The counters wrap at Modulus, so the state   *)
(* space is finite with no bound on the number of messages.                *)
(***************************************************************************)
EXTENDS SpscQueue
=============================================================================
