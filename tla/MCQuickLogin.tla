----------------------------- MODULE MCQuickLogin -----------------------------
(* One session with its quick login, on either display. *)
EXTENDS QuickLogin
=============================================================================
