----------------------------- MODULE MCPowerMode -----------------------------
(* Two sessions on one seat, the first one active when their services start *)
(* after a power-off that left TlpMode at performance.                      *)
EXTENDS PowerMode

CONSTANT s1

MCInit == Init /\ active = s1 /\ tlp = Performance

MCSpec == MCInit /\ [][Next]_vars /\ Fairness
=============================================================================
