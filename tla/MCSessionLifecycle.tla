-------------------------- MODULE MCSessionLifecycle --------------------------
(* One login, every request and every failure at most once. *)
EXTENDS SessionLifecycle
=============================================================================
