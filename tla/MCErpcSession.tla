---------------------------- MODULE MCErpcSession ----------------------------
(* Instances of ErpcSession for TLC. *)
EXTENDS ErpcSession

CONSTANTS a, b, server
=============================================================================
