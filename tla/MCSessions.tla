----------------------------- MODULE MCSessions -----------------------------
(* Instance of Sessions for TLC: MCSessions.cfg gives the constants. *)
EXTENDS Sessions
=============================================================================
