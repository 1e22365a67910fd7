------------------------------ MODULE SessionSpec ------------------------------
(***************************************************************************)
(* What a login session promises to the display manager, to the user bus   *)
(* and to systemd, whatever its processes do: it opens at most once, it is *)
(* not opened any more when its end has been decided, the seat is given    *)
(* back and the bus is stopped only after it has closed.  The one way out  *)
(* is that the process holding the seat dies.                              *)
(***************************************************************************)

VARIABLES
    session,   \* "absent", "open", "closed"
    seat,      \* "held", "returned", or "lost" by a death of its holder
    bus,       \* "up", "down"
    ending     \* the shutdown of the session has been decided

specVars == <<session, seat, bus, ending>>

SpecTypeOK ==
    /\ session \in {"absent", "open", "closed"}
    /\ seat \in {"held", "returned", "lost"}
    /\ bus \in {"up", "down"} /\ ending \in BOOLEAN

SpecInit == session = "absent" /\ seat = "held" /\ bus = "up" /\ ending = FALSE

Open ==
    /\ session = "absent" /\ ~ending
    /\ session' = "open" /\ UNCHANGED <<seat, bus, ending>>

Close ==
    /\ session = "open"
    /\ session' = "closed" /\ UNCHANGED <<seat, bus, ending>>

Decide == ~ending /\ ending' = TRUE /\ UNCHANGED <<session, seat, bus>>

ReturnSeat ==
    /\ session = "closed" /\ seat = "held"
    /\ seat' = "returned" /\ UNCHANGED <<session, bus, ending>>

LoseSeat == seat = "held" /\ seat' = "lost" /\ UNCHANGED <<session, bus, ending>>

StopBus ==
    /\ session = "closed" /\ bus = "up"
    /\ bus' = "down" /\ UNCHANGED <<session, seat, ending>>

SpecNext == Open \/ Close \/ Decide \/ ReturnSeat \/ LoseSeat \/ StopBus

Promise == SpecInit /\ [][SpecNext]_specVars
=============================================================================
