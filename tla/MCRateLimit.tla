---------------------------- MODULE MCRateLimit -----------------------------
(* RateLimit for TLC: two workers, a limit of two, and a key to spare when   *)
(* the overshoot is at its largest.                                          *)
EXTENDS RateLimit
=============================================================================
