----------------------------- MODULE MCInhibitors -----------------------------
(* Two applications and a counter of two values, so that it wraps around. *)
EXTENDS Inhibitors
=============================================================================
