------------------------------ MODULE InhibitSpec ------------------------------
(***************************************************************************)
(* What SessionManager1 promises to those who inhibit: an inhibitor is     *)
(* granted under a name that no other one in force has, stays in force for *)
(* as long as its owner counts on it, and goes alone.  Nothing is promised *)
(* about one that nobody counts on any more: it goes some time or never.   *)
(***************************************************************************)

CONSTANTS
    Owners,     \* who may inhibit
    Granted     \* the inhibitors there may be, with their cookie and client

VARIABLES
    inForce,    \* what IsInhibited and GetInhibitors look at
    names,      \* what is exported on the bus, by cookie
    claims,     \* per owner: the inhibitors it counts on
    asking      \* owners that wait for one

specVars == <<inForce, names, claims, asking>>

SpecInit == inForce = {} /\ names = {} /\ claims = [o \in Owners |-> {}] /\ asking = {}

Ask(o) ==
    /\ o \notin asking /\ asking' = asking \cup {o}
    /\ UNCHANGED <<inForce, names, claims>>

(* The registry refuses, or the owner does not wait any longer. *)
StopAsking(o) ==
    /\ o \in asking /\ asking' = asking \ {o}
    /\ UNCHANGED <<inForce, names, claims>>

(* Who still waits for it counts on it from now on. *)
Grant(o) ==
    /\ asking' = asking \ {o}
    /\ \E i \in Granted :
          /\ i.client = o /\ i.cookie \notin names
          /\ inForce' = inForce \cup {i} /\ names' = names \cup {i.cookie}
          /\ claims' = IF o \in asking THEN [claims EXCEPT ![o] = @ \cup {i}] ELSE claims

(* From now on the owner does not count on it. *)
GiveBack(o) ==
    /\ \E i \in claims[o] : claims' = [claims EXCEPT ![o] = @ \ {i}]
    /\ UNCHANGED <<inForce, names, asking>>

Abandon(o) ==
    /\ claims[o] # {} /\ claims' = [claims EXCEPT ![o] = {}]
    /\ UNCHANGED <<inForce, names, asking>>

Remove ==
    /\ \E i \in inForce :
          /\ \A o \in Owners : i \notin claims[o]
          /\ inForce' = inForce \ {i} /\ names' = names \ {i.cookie}
    /\ UNCHANGED <<claims, asking>>

SpecNext ==
    \/ Remove
    \/ \E o \in Owners : Ask(o) \/ StopAsking(o) \/ Grant(o) \/ GiveBack(o) \/ Abandon(o)

Promise == SpecInit /\ [][SpecNext]_specVars
=============================================================================
