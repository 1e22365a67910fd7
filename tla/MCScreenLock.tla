----------------------------- MODULE MCScreenLock -----------------------------
(* One session, alone: no other process follows its LockedChanged signal. *)
EXTENDS ScreenLock
=============================================================================
