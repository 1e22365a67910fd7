------------------------ MODULE SessionLifecycleProofs ------------------------
(***************************************************************************)
(* Proofs about SessionLifecycle, for any pool size and any set of         *)
(* requests and failures.                                                  *)
(*                                                                         *)
(* The invariant has three parts.  Order: who is started and who has ended *)
(* before whom.  Pipe: what the two ends of the FIFO know of each other.   *)
(* Queue: what the reader has handed to the event loop of the service.     *)
(* With Due, which says who still has to do what was promised, it shows    *)
(* that no clean-up, power-off or quit is dropped, and that the circular   *)
(* wait of Session1.Logout ends only by a step from outside.               *)
(***************************************************************************)
EXTENDS SessionLifecycle, SequenceTheorems, TLAPS

Order ==
    /\ leader = "start" => unit = "inactive"
    /\ unit \in {"inactive", "queued"} => service = "off"
    /\ owned => service \notin {"off", "dead"}
    /\ vanished \/ exitTask # "none" => service = "dead"
    /\ leader = "drain" => exitTask # "none"
    /\ exitTask # "none" => leader \in {"drain", "gone"}

Pipe ==
    /\ service \in {"off", "handshake", "init", "dead"} => reader = "none"
    /\ leader \in {"start", "unwatched"} => writer = "none"
    /\ reader = "reading" => leader = "gone" \/ writer \in {"opened", "done"}
    /\ service # "dead" /\ reader \in {"none", "queued", "opening"}
           => writer \notin {"opened", "done"}
    /\ reader \in {"ended", "done"} /\ writer = "opened" => leader = "gone"
    /\ buffer => reader = "reading"

PidPosted == \E i \in 1..Len(posted) : posted[i] = "pid"

Queue ==
    /\ service = "dead" => posted = <<>>
    /\ \A i \in 1..Len(posted) : posted[i] = "quit" => i = Len(posted) /\ reader = "done"
    /\ writer = "done" /\ reader \in {"reading", "ended", "done"}
           => buffer \/ pidKnown \/ PidPosted

Inv == TypeOK /\ Order /\ Pipe /\ ReaderEndsOnlyWithLeader /\ Queue
-----------------------------------------------------------------------------
(* Every step keeps the flags. *)
LEMMA FlagsStep ==
    ASSUME TypeOK, [Next]_vars
    PROVE  Flags'
<1>1. CASE LeaderStartsTarget
  BY <1>1
     DEF LeaderStartsTarget, Use, TypeOK, Flags, leaderVars, serviceVars, systemdVars, powerVars
<1>2. CASE LeaderWatches
  BY <1>2 DEF LeaderWatches, TypeOK, Flags, leaderVars, serviceVars, systemdVars, powerVars
<1>3. CASE LeaderSeesExit
  BY <1>3 DEF LeaderSeesExit, TypeOK, Flags, leaderVars, serviceVars, systemdVars, powerVars
<1>4. CASE LeaderExits
  BY <1>4 DEF LeaderExits, TypeOK, Flags, leaderVars, serviceVars, systemdVars, powerVars
<1>5. CASE OpenWrite
  BY <1>5 DEF OpenWrite, Use, TypeOK, Flags, leaderVars, serviceVars, systemdVars, powerVars
<1>6. CASE Write
  BY <1>6
     DEF Write, TypeOK, Flags, leaderVars, serviceVars, systemdVars, powerVars, HoldsReadEnd,
         HoldsWriteEnd
<1>7. CASE ServiceRegisters
  BY <1>7
     DEF ServiceRegisters, ProcessEnds, Use, TypeOK, Flags, leaderVars, serviceVars,
         systemdVars, powerVars
<1>8. CASE ServiceInit
  BY <1>8 DEF ServiceInit, TypeOK, Flags, leaderVars, serviceVars, systemdVars, powerVars
<1>9. CASE ServiceEvent
  BY <1>9 DEF ServiceEvent, TypeOK, Flags, leaderVars, serviceVars, systemdVars, powerVars
<1>10. CASE DoLogout
  BY <1>10 DEF DoLogout, TypeOK, Flags, leaderVars, serviceVars, systemdVars, powerVars
<1>11. CASE PrepareShutdown
  BY <1>11
     DEF PrepareShutdown, Use, TypeOK, Flags, leaderVars, serviceVars, systemdVars, powerVars
<1>12. CASE PowerOff
  BY <1>12 DEF PowerOff, TypeOK, Flags, leaderVars, serviceVars, systemdVars, powerVars
<1>13. CASE ServiceExits
  BY <1>13
     DEF ServiceExits, ProcessEnds, TypeOK, Flags, leaderVars, serviceVars, systemdVars, powerVars
<1>14. CASE OpenRead
  BY <1>14
     DEF OpenRead, Use, TypeOK, Flags, leaderVars, serviceVars, systemdVars, powerVars,
         HoldsReadEnd, HoldsWriteEnd
<1>15. CASE Read
  BY <1>15
     DEF Read, TypeOK, Flags, leaderVars, serviceVars, systemdVars, powerVars, HoldsReadEnd,
         HoldsWriteEnd
<1>16. CASE PostQuit
  BY <1>16 DEF PostQuit, TypeOK, Flags, leaderVars, serviceVars, systemdVars, powerVars
<1>17. CASE OthersInit
  BY <1>17 DEF OthersInit, TypeOK, Flags, leaderVars, serviceVars, systemdVars, powerVars
<1>18. CASE SystemdStartsService
  BY <1>18
     DEF SystemdStartsService, TypeOK, Flags, leaderVars, serviceVars, systemdVars, powerVars
<1>19. CASE SystemdStopsService
  BY <1>19
     DEF SystemdStopsService, ProcessEnds, TypeOK, Flags, leaderVars, serviceVars,
         systemdVars, powerVars
<1>20. CASE ExecStopPost
  BY <1>20 DEF ExecStopPost, TypeOK, Flags, leaderVars, serviceVars, systemdVars, powerVars
<1>21. CASE SessionExit
  BY <1>21 DEF SessionExit, TypeOK, Flags, leaderVars, serviceVars, systemdVars, powerVars
<1>22. CASE CtlShutdown
  BY <1>22 DEF CtlShutdown, TypeOK, Flags, leaderVars, serviceVars, systemdVars, powerVars
<1>23. CASE Session1Logout
  BY <1>23
     DEF Session1Logout, Use, TypeOK, Flags, leaderVars, serviceVars, systemdVars, powerVars
<1>24. CASE RequestLogout
  BY <1>24
     DEF RequestLogout, Use, TypeOK, Flags, leaderVars, serviceVars, systemdVars, powerVars
<1>25. CASE RequestPowerOff
  BY <1>25
     DEF RequestPowerOff, Use, TypeOK, Flags, leaderVars, serviceVars, systemdVars, powerVars
<1>26. CASE XConnectionCloses
  BY <1>26
     DEF XConnectionCloses, Use, TypeOK, Flags, leaderVars, serviceVars, systemdVars, powerVars
<1>27. CASE LeaderKilled
  BY <1>27 DEF LeaderKilled, Use, TypeOK, Flags, leaderVars, serviceVars, systemdVars, powerVars
<1>28. CASE ServiceKilled
  BY <1>28
     DEF ServiceKilled, ProcessEnds, Use, TypeOK, Flags, leaderVars, serviceVars, systemdVars,
         powerVars
<1>29. CASE ShutdownByHand
  BY <1>29
     DEF ShutdownByHand, Use, TypeOK, Flags, leaderVars, serviceVars, systemdVars, powerVars
<1>30. CASE UNCHANGED vars
  BY <1>30 DEF vars, TypeOK, Flags
<1> QED
  BY <1>1, <1>2, <1>3, <1>4, <1>5, <1>6, <1>7, <1>8, <1>9, <1>10, <1>11, <1>12, <1>13, <1>14,
     <1>15, <1>16, <1>17, <1>18, <1>19, <1>20, <1>21, <1>22, <1>23, <1>24, <1>25, <1>26,
     <1>27, <1>28, <1>29, <1>30
  DEF Next, Leader, Writer, Service, Reader, Systemd

(* Every step keeps the places. *)
LEMMA PlacesStep ==
    ASSUME TypeOK, [Next]_vars
    PROVE  Places'
<1>1. CASE LeaderStartsTarget
  BY <1>1
     DEF LeaderStartsTarget, Use, TypeOK, Places, leaderVars, serviceVars, systemdVars, powerVars
<1>2. CASE LeaderWatches
  BY <1>2 DEF LeaderWatches, TypeOK, Places, leaderVars, serviceVars, systemdVars, powerVars
<1>3. CASE LeaderSeesExit
  BY <1>3 DEF LeaderSeesExit, TypeOK, Places, leaderVars, serviceVars, systemdVars, powerVars
<1>4. CASE LeaderExits
  BY <1>4 DEF LeaderExits, TypeOK, Places, leaderVars, serviceVars, systemdVars, powerVars
<1>5. CASE OpenWrite
  BY <1>5 DEF OpenWrite, Use, TypeOK, Places, leaderVars, serviceVars, systemdVars, powerVars
<1>6. CASE Write
  BY <1>6
     DEF Write, TypeOK, Places, leaderVars, serviceVars, systemdVars, powerVars, HoldsReadEnd,
         HoldsWriteEnd
<1>7. CASE ServiceRegisters
  BY <1>7
     DEF ServiceRegisters, ProcessEnds, Use, TypeOK, Places, leaderVars, serviceVars,
         systemdVars, powerVars
<1>8. CASE ServiceInit
  BY <1>8 DEF ServiceInit, TypeOK, Places, leaderVars, serviceVars, systemdVars, powerVars
<1>9. CASE ServiceEvent
  BY <1>9 DEF ServiceEvent, TypeOK, Places, leaderVars, serviceVars, systemdVars, powerVars
<1>10. CASE DoLogout
  BY <1>10 DEF DoLogout, TypeOK, Places, leaderVars, serviceVars, systemdVars, powerVars
<1>11. CASE PrepareShutdown
  BY <1>11
     DEF PrepareShutdown, Use, TypeOK, Places, leaderVars, serviceVars, systemdVars, powerVars
<1>12. CASE PowerOff
  BY <1>12 DEF PowerOff, TypeOK, Places, leaderVars, serviceVars, systemdVars, powerVars
<1>13. CASE ServiceExits
  BY <1>13
     DEF ServiceExits, ProcessEnds, TypeOK, Places, leaderVars, serviceVars, systemdVars,
         powerVars
<1>14. CASE OpenRead
  BY <1>14
     DEF OpenRead, Use, TypeOK, Places, leaderVars, serviceVars, systemdVars, powerVars,
         HoldsReadEnd, HoldsWriteEnd
<1>15. CASE Read
  BY <1>15
     DEF Read, TypeOK, Places, leaderVars, serviceVars, systemdVars, powerVars, HoldsReadEnd,
         HoldsWriteEnd
<1>16. CASE PostQuit
  BY <1>16 DEF PostQuit, TypeOK, Places, leaderVars, serviceVars, systemdVars, powerVars
<1>17. CASE OthersInit
  BY <1>17 DEF OthersInit, TypeOK, Places, leaderVars, serviceVars, systemdVars, powerVars
<1>18. CASE SystemdStartsService
  BY <1>18
     DEF SystemdStartsService, TypeOK, Places, leaderVars, serviceVars, systemdVars, powerVars
<1>19. CASE SystemdStopsService
  BY <1>19
     DEF SystemdStopsService, ProcessEnds, TypeOK, Places, leaderVars, serviceVars,
         systemdVars, powerVars
<1>20. CASE ExecStopPost
  BY <1>20 DEF ExecStopPost, TypeOK, Places, leaderVars, serviceVars, systemdVars, powerVars
<1>21. CASE SessionExit
  BY <1>21 DEF SessionExit, TypeOK, Places, leaderVars, serviceVars, systemdVars, powerVars
<1>22. CASE CtlShutdown
  BY <1>22 DEF CtlShutdown, TypeOK, Places, leaderVars, serviceVars, systemdVars, powerVars
<1>23. CASE Session1Logout
  BY <1>23
     DEF Session1Logout, Use, TypeOK, Places, leaderVars, serviceVars, systemdVars, powerVars
<1>24. CASE RequestLogout
  BY <1>24
     DEF RequestLogout, Use, TypeOK, Places, leaderVars, serviceVars, systemdVars, powerVars
<1>25. CASE RequestPowerOff
  BY <1>25
     DEF RequestPowerOff, Use, TypeOK, Places, leaderVars, serviceVars, systemdVars, powerVars
<1>26. CASE XConnectionCloses
  BY <1>26
     DEF XConnectionCloses, Use, TypeOK, Places, leaderVars, serviceVars, systemdVars, powerVars
<1>27. CASE LeaderKilled
  BY <1>27
     DEF LeaderKilled, Use, TypeOK, Places, leaderVars, serviceVars, systemdVars, powerVars
<1>28. CASE ServiceKilled
  BY <1>28
     DEF ServiceKilled, ProcessEnds, Use, TypeOK, Places, leaderVars, serviceVars,
         systemdVars, powerVars
<1>29. CASE ShutdownByHand
  BY <1>29
     DEF ShutdownByHand, Use, TypeOK, Places, leaderVars, serviceVars, systemdVars, powerVars
<1>30. CASE UNCHANGED vars
  BY <1>30 DEF vars, TypeOK, Places
<1> QED
  BY <1>1, <1>2, <1>3, <1>4, <1>5, <1>6, <1>7, <1>8, <1>9, <1>10, <1>11, <1>12, <1>13, <1>14,
     <1>15, <1>16, <1>17, <1>18, <1>19, <1>20, <1>21, <1>22, <1>23, <1>24, <1>25, <1>26,
     <1>27, <1>28, <1>29, <1>30
  DEF Next, Leader, Writer, Service, Reader, Systemd

(* Every step keeps the queue and the record of what has happened. *)
LEMMA UsedStep ==
    ASSUME TypeOK, [Next]_vars
    PROVE  posted' \in Seq({"pid", "quit"}) /\ used' \subseteq Requests \cup Failures
<1>1. CASE LeaderStartsTarget
  BY <1>1 DEF LeaderStartsTarget, Use, TypeOK, leaderVars, serviceVars, systemdVars, powerVars
<1>2. CASE LeaderWatches
  BY <1>2 DEF LeaderWatches, TypeOK, leaderVars, serviceVars, systemdVars, powerVars
<1>3. CASE LeaderSeesExit
  BY <1>3 DEF LeaderSeesExit, TypeOK, leaderVars, serviceVars, systemdVars, powerVars
<1>4. CASE LeaderExits
  BY <1>4 DEF LeaderExits, TypeOK, leaderVars, serviceVars, systemdVars, powerVars
<1>5. CASE OpenWrite
  BY <1>5 DEF OpenWrite, Use, TypeOK, leaderVars, serviceVars, systemdVars, powerVars
<1>6. CASE Write
  BY <1>6
     DEF Write, TypeOK, leaderVars, serviceVars, systemdVars, powerVars, HoldsReadEnd,
         HoldsWriteEnd
<1>7. CASE ServiceRegisters
  <2>1. posted' = posted \/ posted' = <<>>
    BY <1>7 DEF ServiceRegisters, ProcessEnds
  <2>2. used' = used \/ (used' = used \cup {"handshake"} /\ "handshake" \in Failures)
    BY <1>7 DEF ServiceRegisters, Use
  <2>3. posted' \in Seq({"pid", "quit"})
    <3>1. <<>> \in Seq({"pid", "quit"})
      BY EmptySeq
    <3> QED  BY <2>1, <3>1 DEF TypeOK
  <2>4. used' \subseteq Requests \cup Failures
    BY <2>2 DEF TypeOK
  <2> QED  BY <2>3, <2>4
<1>8. CASE ServiceInit
  BY <1>8 DEF ServiceInit, TypeOK, leaderVars, serviceVars, systemdVars, powerVars
<1>9. CASE ServiceEvent
  BY <1>9 DEF ServiceEvent, TypeOK, leaderVars, serviceVars, systemdVars, powerVars
<1>10. CASE DoLogout
  BY <1>10 DEF DoLogout, TypeOK, leaderVars, serviceVars, systemdVars, powerVars
<1>11. CASE PrepareShutdown
  BY <1>11 DEF PrepareShutdown, Use, TypeOK, leaderVars, serviceVars, systemdVars, powerVars
<1>12. CASE PowerOff
  BY <1>12 DEF PowerOff, TypeOK, leaderVars, serviceVars, systemdVars, powerVars
<1>13. CASE ServiceExits
  BY <1>13
     DEF ServiceExits, ProcessEnds, TypeOK, leaderVars, serviceVars, systemdVars, powerVars
<1>14. CASE OpenRead
  BY <1>14
     DEF OpenRead, Use, TypeOK, leaderVars, serviceVars, systemdVars, powerVars, HoldsReadEnd,
         HoldsWriteEnd
<1>15. CASE Read
  BY <1>15
     DEF Read, TypeOK, leaderVars, serviceVars, systemdVars, powerVars, HoldsReadEnd,
         HoldsWriteEnd
<1>16. CASE PostQuit
  BY <1>16 DEF PostQuit, TypeOK, leaderVars, serviceVars, systemdVars, powerVars
<1>17. CASE OthersInit
  BY <1>17 DEF OthersInit, TypeOK, leaderVars, serviceVars, systemdVars, powerVars
<1>18. CASE SystemdStartsService
  BY <1>18 DEF SystemdStartsService, TypeOK, leaderVars, serviceVars, systemdVars, powerVars
<1>19. CASE SystemdStopsService
  BY <1>19
     DEF SystemdStopsService, ProcessEnds, TypeOK, leaderVars, serviceVars, systemdVars, powerVars
<1>20. CASE ExecStopPost
  BY <1>20 DEF ExecStopPost, TypeOK, leaderVars, serviceVars, systemdVars, powerVars
<1>21. CASE SessionExit
  BY <1>21 DEF SessionExit, TypeOK, leaderVars, serviceVars, systemdVars, powerVars
<1>22. CASE CtlShutdown
  BY <1>22 DEF CtlShutdown, TypeOK, leaderVars, serviceVars, systemdVars, powerVars
<1>23. CASE Session1Logout
  BY <1>23 DEF Session1Logout, Use, TypeOK, leaderVars, serviceVars, systemdVars, powerVars
<1>24. CASE RequestLogout
  BY <1>24 DEF RequestLogout, Use, TypeOK, leaderVars, serviceVars, systemdVars, powerVars
<1>25. CASE RequestPowerOff
  BY <1>25 DEF RequestPowerOff, Use, TypeOK, leaderVars, serviceVars, systemdVars, powerVars
<1>26. CASE XConnectionCloses
  BY <1>26 DEF XConnectionCloses, Use, TypeOK, leaderVars, serviceVars, systemdVars, powerVars
<1>27. CASE LeaderKilled
  BY <1>27 DEF LeaderKilled, Use, TypeOK, leaderVars, serviceVars, systemdVars, powerVars
<1>28. CASE ServiceKilled
  BY <1>28
     DEF ServiceKilled, ProcessEnds, Use, TypeOK, leaderVars, serviceVars, systemdVars, powerVars
<1>29. CASE ShutdownByHand
  BY <1>29
     DEF ShutdownByHand, Use, TypeOK, leaderVars, serviceVars, systemdVars, powerVars
<1>30. CASE UNCHANGED vars
  BY <1>30 DEF vars, TypeOK
<1> QED
  BY <1>1, <1>2, <1>3, <1>4, <1>5, <1>6, <1>7, <1>8, <1>9, <1>10, <1>11, <1>12, <1>13, <1>14,
     <1>15, <1>16, <1>17, <1>18, <1>19, <1>20, <1>21, <1>22, <1>23, <1>24, <1>25, <1>26,
     <1>27, <1>28, <1>29, <1>30
  DEF Next, Leader, Writer, Service, Reader, Systemd

LEMMA TypeStep == TypeOK /\ [Next]_vars => TypeOK'
BY FlagsStep, PlacesStep, UsedStep DEF TypeOK

(* Every step keeps the order of starts and ends: systemd starts the service *)
(* once, and only a service that has ended makes the name vanish.            *)
LEMMA OrderStep ==
    ASSUME TypeOK, Order, [Next]_vars
    PROVE  Order'
<1>1. CASE LeaderStartsTarget
  BY <1>1
     DEF LeaderStartsTarget, Use, TypeOK, Flags, Places, Order, leaderVars, serviceVars,
         systemdVars, powerVars
<1>2. CASE LeaderWatches
  BY <1>2
     DEF LeaderWatches, TypeOK, Flags, Places, Order, leaderVars, serviceVars, systemdVars,
         powerVars
<1>3. CASE LeaderSeesExit
  BY <1>3
     DEF LeaderSeesExit, TypeOK, Flags, Places, Order, leaderVars, serviceVars, systemdVars,
         powerVars
<1>4. CASE LeaderExits
  BY <1>4
     DEF LeaderExits, TypeOK, Flags, Places, Order, leaderVars, serviceVars, systemdVars,
         powerVars
<1>5. CASE OpenWrite
  BY <1>5
     DEF OpenWrite, Use, TypeOK, Flags, Places, Order, leaderVars, serviceVars, systemdVars,
         powerVars
<1>6. CASE Write
  BY <1>6
     DEF Write, TypeOK, Flags, Places, Order, leaderVars, serviceVars, systemdVars, powerVars,
         HoldsReadEnd, HoldsWriteEnd
<1>7. CASE ServiceRegisters
  BY <1>7
     DEF ServiceRegisters, ProcessEnds, Use, TypeOK, Flags, Places, Order, leaderVars,
         serviceVars, systemdVars, powerVars, ServiceAlive
<1>8. CASE ServiceInit
  BY <1>8
     DEF ServiceInit, TypeOK, Flags, Places, Order, leaderVars, serviceVars, systemdVars,
         powerVars
<1>9. CASE ServiceEvent
  BY <1>9
     DEF ServiceEvent, TypeOK, Flags, Places, Order, leaderVars, serviceVars, systemdVars,
         powerVars
<1>10. CASE DoLogout
  BY <1>10
     DEF DoLogout, TypeOK, Flags, Places, Order, leaderVars, serviceVars, systemdVars, powerVars
<1>11. CASE PrepareShutdown
  BY <1>11
     DEF PrepareShutdown, Use, TypeOK, Flags, Places, Order, leaderVars, serviceVars,
         systemdVars, powerVars
<1>12. CASE PowerOff
  BY <1>12
     DEF PowerOff, TypeOK, Flags, Places, Order, leaderVars, serviceVars, systemdVars, powerVars
<1>13. CASE ServiceExits
  BY <1>13
     DEF ServiceExits, ProcessEnds, TypeOK, Flags, Places, Order, leaderVars, serviceVars,
         systemdVars, powerVars, ServiceAlive
<1>14. CASE OpenRead
  BY <1>14
     DEF OpenRead, Use, TypeOK, Flags, Places, Order, leaderVars, serviceVars, systemdVars,
         powerVars, HoldsReadEnd, HoldsWriteEnd
<1>15. CASE Read
  BY <1>15
     DEF Read, TypeOK, Flags, Places, Order, leaderVars, serviceVars, systemdVars, powerVars,
         HoldsReadEnd, HoldsWriteEnd
<1>16. CASE PostQuit
  BY <1>16
     DEF PostQuit, TypeOK, Flags, Places, Order, leaderVars, serviceVars, systemdVars, powerVars
<1>17. CASE OthersInit
  BY <1>17
     DEF OthersInit, TypeOK, Flags, Places, Order, leaderVars, serviceVars, systemdVars, powerVars
<1>18. CASE SystemdStartsService
  BY <1>18
     DEF SystemdStartsService, TypeOK, Flags, Places, Order, leaderVars, serviceVars,
         systemdVars, powerVars
<1>19. CASE SystemdStopsService
  BY <1>19
     DEF SystemdStopsService, ProcessEnds, TypeOK, Flags, Places, Order, leaderVars,
         serviceVars, systemdVars, powerVars, ServiceAlive
<1>20. CASE ExecStopPost
  BY <1>20
     DEF ExecStopPost, TypeOK, Flags, Places, Order, leaderVars, serviceVars, systemdVars,
         powerVars
<1>21. CASE SessionExit
  BY <1>21
     DEF SessionExit, TypeOK, Flags, Places, Order, leaderVars, serviceVars, systemdVars,
         powerVars
<1>22. CASE CtlShutdown
  BY <1>22
     DEF CtlShutdown, TypeOK, Flags, Places, Order, leaderVars, serviceVars, systemdVars,
         powerVars
<1>23. CASE Session1Logout
  BY <1>23
     DEF Session1Logout, Use, TypeOK, Flags, Places, Order, leaderVars, serviceVars,
         systemdVars, powerVars
<1>24. CASE RequestLogout
  BY <1>24
     DEF RequestLogout, Use, TypeOK, Flags, Places, Order, leaderVars, serviceVars,
         systemdVars, powerVars
<1>25. CASE RequestPowerOff
  BY <1>25
     DEF RequestPowerOff, Use, TypeOK, Flags, Places, Order, leaderVars, serviceVars,
         systemdVars, powerVars
<1>26. CASE XConnectionCloses
  BY <1>26
     DEF XConnectionCloses, Use, TypeOK, Flags, Places, Order, leaderVars, serviceVars,
         systemdVars, powerVars
<1>27. CASE LeaderKilled
  BY <1>27
     DEF LeaderKilled, Use, TypeOK, Flags, Places, Order, leaderVars, serviceVars,
         systemdVars, powerVars
<1>28. CASE ServiceKilled
  BY <1>28
     DEF ServiceKilled, ProcessEnds, Use, TypeOK, Flags, Places, Order, leaderVars,
         serviceVars, systemdVars, powerVars, ServiceAlive
<1>29. CASE ShutdownByHand
  BY <1>29
     DEF ShutdownByHand, Use, TypeOK, Flags, Places, Order, leaderVars, serviceVars,
         systemdVars, powerVars
<1>30. CASE UNCHANGED vars
  BY <1>30 DEF vars, Order
<1> QED
  BY <1>1, <1>2, <1>3, <1>4, <1>5, <1>6, <1>7, <1>8, <1>9, <1>10, <1>11, <1>12, <1>13, <1>14,
     <1>15, <1>16, <1>17, <1>18, <1>19, <1>20, <1>21, <1>22, <1>23, <1>24, <1>25, <1>26,
     <1>27, <1>28, <1>29, <1>30
  DEF Next, Leader, Writer, Service, Reader, Systemd

(* Every step keeps what the two ends of the FIFO know of each other. *)
LEMMA PipeStep ==
    ASSUME TypeOK, Places, Order, Pipe, ReaderEndsOnlyWithLeader, [Next]_vars
    PROVE  Pipe' /\ ReaderEndsOnlyWithLeader'
<1>1. CASE LeaderStartsTarget
  BY <1>1
     DEF LeaderStartsTarget, Use, TypeOK, Places, Order, Pipe, ReaderEndsOnlyWithLeader,
         leaderVars, serviceVars, systemdVars, powerVars
<1>2. CASE LeaderWatches
  BY <1>2
     DEF LeaderWatches, TypeOK, Places, Order, Pipe, ReaderEndsOnlyWithLeader, leaderVars,
         serviceVars, systemdVars, powerVars
<1>3. CASE LeaderSeesExit
  BY <1>3
     DEF LeaderSeesExit, TypeOK, Places, Order, Pipe, ReaderEndsOnlyWithLeader, leaderVars,
         serviceVars, systemdVars, powerVars
<1>4. CASE LeaderExits
  BY <1>4
     DEF LeaderExits, TypeOK, Places, Order, Pipe, ReaderEndsOnlyWithLeader, leaderVars,
         serviceVars, systemdVars, powerVars
<1>5. CASE OpenWrite
  BY <1>5
     DEF OpenWrite, Use, TypeOK, Places, Order, Pipe, ReaderEndsOnlyWithLeader, leaderVars,
         serviceVars, systemdVars, powerVars
<1>6. CASE Write
  BY <1>6
     DEF Write, TypeOK, Places, Order, Pipe, ReaderEndsOnlyWithLeader, leaderVars,
         serviceVars, systemdVars, powerVars, HoldsReadEnd, HoldsWriteEnd
<1>7. CASE ServiceRegisters
  BY <1>7
     DEF ServiceRegisters, ProcessEnds, Use, TypeOK, Places, Order, Pipe,
         ReaderEndsOnlyWithLeader, leaderVars, serviceVars, systemdVars, powerVars, ServiceAlive
<1>8. CASE ServiceInit
  BY <1>8
     DEF ServiceInit, TypeOK, Places, Order, Pipe, ReaderEndsOnlyWithLeader, leaderVars,
         serviceVars, systemdVars, powerVars
<1>9. CASE ServiceEvent
  BY <1>9
     DEF ServiceEvent, TypeOK, Places, Order, Pipe, ReaderEndsOnlyWithLeader, leaderVars,
         serviceVars, systemdVars, powerVars
<1>10. CASE DoLogout
  BY <1>10
     DEF DoLogout, TypeOK, Places, Order, Pipe, ReaderEndsOnlyWithLeader, leaderVars,
         serviceVars, systemdVars, powerVars
<1>11. CASE PrepareShutdown
  BY <1>11
     DEF PrepareShutdown, Use, TypeOK, Places, Order, Pipe, ReaderEndsOnlyWithLeader,
         leaderVars, serviceVars, systemdVars, powerVars
<1>12. CASE PowerOff
  BY <1>12
     DEF PowerOff, TypeOK, Places, Order, Pipe, ReaderEndsOnlyWithLeader, leaderVars,
         serviceVars, systemdVars, powerVars
<1>13. CASE ServiceExits
  BY <1>13
     DEF ServiceExits, ProcessEnds, TypeOK, Places, Order, Pipe, ReaderEndsOnlyWithLeader,
         leaderVars, serviceVars, systemdVars, powerVars, ServiceAlive
<1>14. CASE OpenRead
  BY <1>14
     DEF OpenRead, Use, TypeOK, Places, Order, Pipe, ReaderEndsOnlyWithLeader, leaderVars,
         serviceVars, systemdVars, powerVars, HoldsReadEnd, HoldsWriteEnd
<1>15. CASE Read
  BY <1>15
     DEF Read, TypeOK, Places, Order, Pipe, ReaderEndsOnlyWithLeader, leaderVars, serviceVars,
         systemdVars, powerVars, HoldsReadEnd, HoldsWriteEnd
<1>16. CASE PostQuit
  BY <1>16
     DEF PostQuit, TypeOK, Places, Order, Pipe, ReaderEndsOnlyWithLeader, leaderVars,
         serviceVars, systemdVars, powerVars
<1>17. CASE OthersInit
  BY <1>17
     DEF OthersInit, TypeOK, Places, Order, Pipe, ReaderEndsOnlyWithLeader, leaderVars,
         serviceVars, systemdVars, powerVars
<1>18. CASE SystemdStartsService
  BY <1>18
     DEF SystemdStartsService, TypeOK, Places, Order, Pipe, ReaderEndsOnlyWithLeader,
         leaderVars, serviceVars, systemdVars, powerVars
<1>19. CASE SystemdStopsService
  BY <1>19
     DEF SystemdStopsService, ProcessEnds, TypeOK, Places, Order, Pipe,
         ReaderEndsOnlyWithLeader, leaderVars, serviceVars, systemdVars, powerVars, ServiceAlive
<1>20. CASE ExecStopPost
  BY <1>20
     DEF ExecStopPost, TypeOK, Places, Order, Pipe, ReaderEndsOnlyWithLeader, leaderVars,
         serviceVars, systemdVars, powerVars
<1>21. CASE SessionExit
  BY <1>21
     DEF SessionExit, TypeOK, Places, Order, Pipe, ReaderEndsOnlyWithLeader, leaderVars,
         serviceVars, systemdVars, powerVars
<1>22. CASE CtlShutdown
  BY <1>22
     DEF CtlShutdown, TypeOK, Places, Order, Pipe, ReaderEndsOnlyWithLeader, leaderVars,
         serviceVars, systemdVars, powerVars
<1>23. CASE Session1Logout
  BY <1>23
     DEF Session1Logout, Use, TypeOK, Places, Order, Pipe, ReaderEndsOnlyWithLeader,
         leaderVars, serviceVars, systemdVars, powerVars
<1>24. CASE RequestLogout
  BY <1>24
     DEF RequestLogout, Use, TypeOK, Places, Order, Pipe, ReaderEndsOnlyWithLeader,
         leaderVars, serviceVars, systemdVars, powerVars
<1>25. CASE RequestPowerOff
  BY <1>25
     DEF RequestPowerOff, Use, TypeOK, Places, Order, Pipe, ReaderEndsOnlyWithLeader,
         leaderVars, serviceVars, systemdVars, powerVars
<1>26. CASE XConnectionCloses
  BY <1>26
     DEF XConnectionCloses, Use, TypeOK, Places, Order, Pipe, ReaderEndsOnlyWithLeader,
         leaderVars, serviceVars, systemdVars, powerVars
<1>27. CASE LeaderKilled
  BY <1>27
     DEF LeaderKilled, Use, TypeOK, Places, Order, Pipe, ReaderEndsOnlyWithLeader, leaderVars,
         serviceVars, systemdVars, powerVars
<1>28. CASE ServiceKilled
  BY <1>28
     DEF ServiceKilled, ProcessEnds, Use, TypeOK, Places, Order, Pipe,
         ReaderEndsOnlyWithLeader, leaderVars, serviceVars, systemdVars, powerVars, ServiceAlive
<1>29. CASE ShutdownByHand
  BY <1>29
     DEF ShutdownByHand, Use, TypeOK, Places, Order, Pipe, ReaderEndsOnlyWithLeader,
         leaderVars, serviceVars, systemdVars, powerVars
<1>30. CASE UNCHANGED vars
  BY <1>30 DEF vars, Pipe, ReaderEndsOnlyWithLeader
<1> QED
  BY <1>1, <1>2, <1>3, <1>4, <1>5, <1>6, <1>7, <1>8, <1>9, <1>10, <1>11, <1>12, <1>13, <1>14,
     <1>15, <1>16, <1>17, <1>18, <1>19, <1>20, <1>21, <1>22, <1>23, <1>24, <1>25, <1>26,
     <1>27, <1>28, <1>29, <1>30
  DEF Next, Leader, Writer, Service, Reader, Systemd

(* What happens to the posted invocations: one is appended, one is taken    *)
(* from the head, or all are dropped with the process.                      *)
LEMMA AppendPosted ==
    ASSUME NEW q \in Seq({"pid", "quit"}), NEW e \in {"pid", "quit"}
    PROVE  /\ Append(q, e) \in Seq({"pid", "quit"})
           /\ Len(Append(q, e)) = Len(q) + 1
           /\ \A i \in 1..Len(q) : Append(q, e)[i] = q[i]
           /\ Append(q, e)[Len(q) + 1] = e
  OBVIOUS

LEMMA TailPosted ==
    ASSUME NEW q \in Seq({"pid", "quit"}), q # <<>>
    PROVE  /\ Tail(q) \in Seq({"pid", "quit"}) /\ Head(q) = q[1]
           /\ Len(q) \in Nat \ {0} /\ Len(Tail(q)) = Len(q) - 1
           /\ \A i \in 1..Len(Tail(q)) : Tail(q)[i] = q[i + 1]
  OBVIOUS

(* Steps that leave the queue, the pipe and the service alone. *)
Untouched ==
    /\ posted' = posted /\ pidKnown' = pidKnown /\ buffer' = buffer
    /\ service' = "dead" => service = "dead"
    /\ writer' = "done" => writer = "done"
    /\ reader' = reader

LEMMA UntouchedQueue == Queue /\ Untouched => Queue'
BY DEF Queue, Untouched, PidPosted

LEMMA EndedQueue == ProcessEnds => Queue'
<1> SUFFICES ASSUME ProcessEnds PROVE Queue'
  OBVIOUS
<1>1. posted' = <<>> /\ reader' = "none"
  BY DEF ProcessEnds
<1>2. Len(posted') = 0
  BY <1>1, EmptySeq
<1> QED  BY <1>1, <1>2 DEF Queue

(* The pid enters the queue in the order of the reads, the quit comes last, *)
(* and a pid that was written is in the pipe, in the queue, or known.       *)
LEMMA QueueStep ==
    ASSUME TypeOK, Order, Pipe, Queue, [Next]_vars
    PROVE  Queue'
<1> USE DEF TypeOK, Places
<1>1. ASSUME \/ LeaderStartsTarget \/ LeaderWatches \/ LeaderSeesExit \/ LeaderExits
             \/ DoLogout \/ PrepareShutdown \/ PowerOff \/ OthersInit
             \/ SystemdStartsService \/ ExecStopPost \/ SessionExit \/ CtlShutdown
             \/ Session1Logout \/ RequestLogout \/ RequestPowerOff \/ XConnectionCloses
             \/ LeaderKilled \/ ShutdownByHand \/ UNCHANGED vars
      PROVE  Queue'
  <2>1. Untouched
    BY <1>1 DEF Untouched, LeaderStartsTarget, LeaderWatches, LeaderSeesExit, LeaderExits,
       DoLogout, PrepareShutdown, PowerOff, OthersInit, SystemdStartsService, ExecStopPost,
       SessionExit, CtlShutdown, Session1Logout, RequestLogout, RequestPowerOff,
       XConnectionCloses, LeaderKilled, ShutdownByHand, vars, serviceVars, leaderVars
  <2> QED  BY <2>1, UntouchedQueue
<1>2. CASE ServiceExits \/ SystemdStopsService \/ ServiceKilled
  BY <1>2, EndedQueue DEF ServiceExits, SystemdStopsService, ServiceKilled
<1>3. CASE ServiceRegisters
  <2>1. CASE ProcessEnds
    BY <2>1, EndedQueue
  <2>2. CASE ~ProcessEnds
    BY <1>3, <2>2, UntouchedQueue DEF Untouched, ServiceRegisters, leaderVars
  <2> QED  BY <2>1, <2>2
<1>4. CASE ServiceInit
  BY <1>4 DEF ServiceInit, Queue, Pipe, leaderVars
<1>5. CASE OpenWrite
  BY <1>5 DEF OpenWrite, Queue, Pipe
<1>6. CASE OpenRead
  BY <1>6 DEF OpenRead, Queue, Pipe, HoldsWriteEnd
<1>7. CASE Write
  BY <1>7 DEF Write, HoldsReadEnd, Queue, Pipe, PidPosted, serviceVars
<1>8. CASE Read
  <2>1. CASE buffer
    <3>1. posted' = Append(posted, "pid") /\ reader = "reading" /\ reader' = "reading"
          /\ service' = service /\ service # "dead"
      BY <1>8, <2>1 DEF Read, Pipe
    <3>2. posted'[Len(posted) + 1] = "pid" /\ Len(posted') = Len(posted) + 1
          /\ Len(posted) \in Nat /\ \A k \in 1..Len(posted) : posted'[k] = posted[k]
      BY <3>1, AppendPosted
    <3>3. PidPosted'
      BY <3>2 DEF PidPosted
    <3>4. ASSUME NEW k \in 1..Len(posted'), posted'[k] = "quit" PROVE FALSE
      <4>1. k \in 1..Len(posted)
        BY <3>2, <3>4
      <4> QED  BY <4>1, <3>1, <3>2, <3>4 DEF Queue
    <3> QED  BY <3>1, <3>3, <3>4 DEF Queue
  <2>2. CASE ~buffer
    BY <1>8, <2>2 DEF Read, Queue, Pipe, PidPosted, leaderVars
  <2> QED  BY <2>1, <2>2
<1>9. CASE PostQuit
  <2>1. posted' = Append(posted, "quit") /\ reader = "ended" /\ reader' = "done"
        /\ service' = service /\ service # "dead" /\ writer' = writer
        /\ pidKnown' = pidKnown /\ buffer' = buffer
    BY <1>9 DEF PostQuit, Pipe, leaderVars
  <2>2. posted'[Len(posted) + 1] = "quit" /\ Len(posted') = Len(posted) + 1
        /\ Len(posted) \in Nat /\ \A k \in 1..Len(posted) : posted'[k] = posted[k]
    BY <2>1, AppendPosted
  <2>3. PidPosted => PidPosted'
    BY <2>2 DEF PidPosted
  <2>4. ASSUME NEW k \in 1..Len(posted'), posted'[k] = "quit" PROVE k = Len(posted')
    <3>1. k \in 1..Len(posted) => FALSE
      BY <2>1, <2>2, <2>4 DEF Queue
    <3> QED  BY <2>2, <3>1
  <2> QED  BY <2>1, <2>3, <2>4 DEF Queue
<1>10. CASE ServiceEvent
  <2>1. posted # <<>> /\ posted' = Tail(posted) /\ reader' = reader /\ writer' = writer
        /\ buffer' = buffer /\ service' # "dead"
        /\ (Head(posted) = "pid" => pidKnown') /\ (pidKnown => pidKnown')
    BY <1>10 DEF ServiceEvent, leaderVars
  <2>2. /\ Head(posted) = posted[1] /\ Len(posted) \in Nat \ {0}
        /\ Len(posted') = Len(posted) - 1
        /\ \A k \in 1..Len(posted') : posted'[k] = posted[k + 1]
    BY <2>1, TailPosted
  <2>3. PidPosted => pidKnown' \/ PidPosted'
    <3> SUFFICES ASSUME NEW k \in 1..Len(posted), posted[k] = "pid", k # 1
                 PROVE  PidPosted'
      BY <2>1, <2>2 DEF PidPosted
    <3>1. k - 1 \in 1..Len(posted') /\ posted'[k - 1] = "pid"
      BY <2>2
    <3> QED  BY <3>1 DEF PidPosted
  <2>4. ASSUME NEW k \in 1..Len(posted'), posted'[k] = "quit"
        PROVE  k = Len(posted') /\ reader = "done"
    <3>1. k + 1 \in 1..Len(posted) /\ posted[k + 1] = "quit"
      BY <2>2, <2>4
    <3>2. k + 1 = Len(posted) /\ reader = "done"
      BY <3>1 DEF Queue
    <3> QED  BY <2>2, <3>2
  <2> QED  BY <2>1, <2>3, <2>4 DEF Queue
<1> QED
  BY <1>1, <1>2, <1>3, <1>4, <1>5, <1>6, <1>7, <1>8, <1>9, <1>10
  DEF Next, Leader, Writer, Service, Reader, Systemd

LEMMA InitInv == Init => Inv
<1>1. Len(<<>>) = 0 /\ <<>> \in Seq({"pid", "quit"})
  BY EmptySeq
<1>2. Init => Flags /\ Places
  BY DEF Init, Flags, Places
<1> QED
  BY <1>1, <1>2 DEF Init, Inv, TypeOK, Order, Pipe, ReaderEndsOnlyWithLeader, Queue

LEMMA NextInv == Inv /\ [Next]_vars => Inv'
<1> SUFFICES ASSUME Inv, [Next]_vars PROVE Inv'
  OBVIOUS
<1>1. TypeOK /\ Order /\ Pipe /\ ReaderEndsOnlyWithLeader /\ Queue
  BY DEF Inv
<1>2. TypeOK'
  BY <1>1, TypeStep
<1>3. Order'
  BY <1>1, OrderStep
<1>4. Pipe' /\ ReaderEndsOnlyWithLeader'
  BY <1>1, PipeStep DEF TypeOK
<1>5. Queue'
  BY <1>1, QueueStep
<1> QED  BY <1>2, <1>3, <1>4, <1>5 DEF Inv

(* The invariant holds of every reachable state. *)
THEOREM Invariance == Spec => []Inv
BY InitInv, NextInv, PTL DEF Spec
-----------------------------------------------------------------------------
(* The types of the life cycle, whatever fails and however small the pool. *)
THEOREM TypeCorrect == Spec => []TypeOK
<1>1. Inv => TypeOK
  BY DEF Inv
<1> QED  BY <1>1, Invariance, PTL

(* The user bus is never stopped under a service that still uses it: the    *)
(* exit task follows the loss of Session1, and nothing else makes that name *)
(* go than the end of the service.                                          *)
THEOREM BusIsLast == Spec => []BusOutlivesService
<1>1. Inv => BusOutlivesService
  BY DEF Inv, Order, BusOutlivesService
<1> QED  BY <1>1, Invariance, PTL

(* No interleaving of the two opens, the write, the reads and the deaths of *)
(* either process makes the FIFO thread quit a session whose leader lives.  *)
THEOREM PulseIsTrue == Spec => []ReaderEndsOnlyWithLeader
<1>1. Inv => ReaderEndsOnlyWithLeader
  BY DEF Inv
<1> QED  BY <1>1, Invariance, PTL

(* The pid that the leader wrote reaches the session before the quit. *)
THEOREM PidFirst == Spec => []PidBeforeQuit
<1>1. Inv => PidBeforeQuit
  <2> SUFFICES ASSUME Inv, NEW i \in 1..Len(posted), posted[i] = "quit", writer = "done",
                      ~pidKnown
               PROVE  \E j \in 1..(i - 1) : posted[j] = "pid"
    BY DEF PidBeforeQuit
  <2>1. i = Len(posted) /\ reader = "done" /\ ~buffer /\ Len(posted) \in Nat
    BY DEF Inv, TypeOK, Queue, Pipe
  <2>2. PICK j \in 1..Len(posted) : posted[j] = "pid"
    BY <2>1 DEF Inv, Queue, PidPosted
  <2>3. j \in 1..(i - 1)
    BY <2>1, <2>2
  <2> QED  BY <2>2, <2>3
<1> QED  BY <1>1, Invariance, PTL
-----------------------------------------------------------------------------
(* The steps of the life cycle as a session sees them: systemd opens it,    *)
(* the end of the service closes it, the leader's end frees the seat.       *)
LEMMA StepKeepsPromise ==
    ASSUME Inv, [Next]_vars
    PROVE  [Abstract!SpecNext]_(Abstract!specVars)
<1> USE DEF Inv, TypeOK, Flags, Places, Abstract!specVars, SessionOf, SeatOf, BusOf
<1>1. CASE SystemdStartsService
  BY <1>1
     DEF SystemdStartsService, Order, Abstract!SpecNext, Abstract!Open, leaderVars, powerVars
<1>2. ASSUME ProcessEnds, ServiceAlive, UNCHANGED <<leader, shutdown, exitTask>>
      PROVE  Abstract!Close
  BY <1>2 DEF ProcessEnds, ServiceAlive, Abstract!Close
<1>3. CASE ServiceRegisters
  <2>1. CASE ProcessEnds
    BY <1>2, <1>3, <2>1 DEF ServiceRegisters, ServiceAlive, leaderVars, Abstract!SpecNext
  <2>2. CASE ~ProcessEnds
    BY <1>3, <2>2 DEF ServiceRegisters, leaderVars
  <2> QED  BY <2>1, <2>2
<1>4. CASE ServiceExits \/ SystemdStopsService \/ ServiceKilled
  BY <1>2, <1>4 DEF ServiceExits, SystemdStopsService, ServiceKilled, ServiceAlive, leaderVars,
     Abstract!SpecNext
<1>5. CASE DoLogout \/ XConnectionCloses \/ CtlShutdown \/ ExecStopPost \/ ShutdownByHand
  BY <1>5 DEF DoLogout, XConnectionCloses, CtlShutdown, ExecStopPost, ShutdownByHand,
     leaderVars, serviceVars, Abstract!SpecNext, Abstract!Decide
<1>6. CASE LeaderExits
  BY <1>6
     DEF LeaderExits, Order, serviceVars, systemdVars, Abstract!SpecNext, Abstract!ReturnSeat
<1>7. ASSUME leader # "gone", leader' = "gone", UNCHANGED <<service, shutdown, exitTask>>
      PROVE  Abstract!ReturnSeat \/ Abstract!LoseSeat
  <2>1. CASE exitTask = "none"
    <3>1. SeatOf = "held" /\ SeatOf' = "lost"
      BY <1>7, <2>1
    <3>2. UNCHANGED <<SessionOf, BusOf, shutdown>>
      BY <1>7
    <3> QED  BY <3>1, <3>2 DEF Abstract!LoseSeat
  <2>2. CASE exitTask # "none"
    <3>1. SessionOf = "closed" /\ SeatOf = "held" /\ SeatOf' = "returned"
      BY <1>7, <2>2 DEF Order
    <3>2. UNCHANGED <<SessionOf, BusOf, shutdown>>
      BY <1>7
    <3> QED  BY <3>1, <3>2 DEF Abstract!ReturnSeat
  <2> QED  BY <2>1, <2>2
<1>8. CASE LeaderKilled
  BY <1>7, <1>8 DEF LeaderKilled, serviceVars, systemdVars, Abstract!SpecNext
<1>10. CASE SessionExit
  BY <1>10 DEF SessionExit, Order, leaderVars, serviceVars, Abstract!SpecNext, Abstract!StopBus
<1>11. CASE LeaderSeesExit
  <2>1. exitTask = "none" /\ exitTask' = "waiting" /\ leader = "loop" /\ leader' = "drain"
    BY <1>11 DEF LeaderSeesExit, Order
  <2>2. service' = service /\ shutdown' = shutdown
    BY <1>11 DEF LeaderSeesExit, serviceVars
  <2>3. UNCHANGED SessionOf /\ UNCHANGED SeatOf /\ UNCHANGED BusOf
    BY <2>1, <2>2
  <2> QED  BY <2>2, <2>3
<1>12. ASSUME \/ LeaderStartsTarget \/ LeaderWatches \/ OpenWrite \/ ServiceInit \/ ServiceEvent
              \/ PrepareShutdown \/ PowerOff \/ OpenRead \/ Read \/ PostQuit \/ OthersInit
              \/ Session1Logout \/ RequestLogout \/ RequestPowerOff \/ Write \/ UNCHANGED vars
       PROVE  UNCHANGED Abstract!specVars
  BY <1>12 DEF LeaderStartsTarget, LeaderWatches, OpenWrite, ServiceInit, ServiceEvent,
     PrepareShutdown, PowerOff, OpenRead, Read, PostQuit, OthersInit, Session1Logout,
     RequestLogout, RequestPowerOff, Write, vars, leaderVars, serviceVars, systemdVars
<1> QED
  BY <1>1, <1>3, <1>4, <1>5, <1>6, <1>8, <1>10, <1>11, <1>12
  DEF Next, Leader, Writer, Service, Reader, Systemd

(* The two processes, the FIFO and the units implement SessionSpec. *)
THEOREM Refinement == Spec => KeepsPromise
<1>1. Init => Abstract!SpecInit
  BY DEF Init, Abstract!SpecInit, SessionOf, SeatOf, BusOf
<1>2. Inv /\ [Next]_vars => [Abstract!SpecNext]_(Abstract!specVars)
  BY StepKeepsPromise
<1> QED  BY <1>1, <1>2, Invariance, PTL DEF Spec, KeepsPromise, Abstract!Promise
-----------------------------------------------------------------------------
(* What is due when something has ended: the part of the liveness           *)
(* properties that does not need fairness.                                  *)

QuitPosted == \E i \in 1..Len(posted) : posted[i] = "quit"

(* The shutdown target has been started, or systemd is about to. *)
CleanupIsDue == service = "dead" => shutdown \/ unit = "stopPost"

(* Who asked for a power-off is on the way to it, has it, or is logged out. *)
PowerOffIsDue ==
    "RequestPowerOff" \in used => service \in {"prepare", "powerOff", "dead"} \/ powerOff

(* Once the FIFO has ended, the quit is queued or the event loop has ended. *)
QuitIsDue == reader = "done" => QuitPosted \/ service \in {"drain", "dead"}

UnitRuns == ServiceAlive => unit = "running"

Due == CleanupIsDue /\ PowerOffIsDue /\ QuitIsDue /\ UnitRuns

(* Only RequestPowerOff records itself. *)
LEMMA PowerOffRecorded ==
    [Next]_vars /\ "RequestPowerOff" \in used' => "RequestPowerOff" \in used \/ RequestPowerOff
  BY DEF Use, Next, Leader, Writer, Service, Reader, Systemd, LeaderStartsTarget, LeaderWatches,
     LeaderSeesExit, LeaderExits, OpenWrite, Write, ServiceRegisters, ServiceInit, ServiceEvent,
     DoLogout, PrepareShutdown, PowerOff, ServiceExits, OpenRead, Read, PostQuit, OthersInit,
     SystemdStartsService, SystemdStopsService, ExecStopPost, SessionExit, CtlShutdown,
     Session1Logout, RequestLogout, XConnectionCloses, ShutdownByHand, LeaderKilled,
     ServiceKilled, vars

LEMMA QuitStep ==
    ASSUME TypeOK, Order, QuitIsDue, [Next]_vars
    PROVE  QuitIsDue'
<1>1. CASE ProcessEnds
  BY <1>1 DEF ProcessEnds, QuitIsDue
<1>2. CASE PostQuit
  <2>1. posted \in Seq({"pid", "quit"})
    BY DEF TypeOK
  <2>2. Len(posted') = Len(posted) + 1 /\ posted'[Len(posted) + 1] = "quit" /\ Len(posted) \in Nat
    BY <1>2, <2>1, AppendPosted DEF PostQuit
  <2>3. Len(posted) + 1 \in 1..Len(posted')
    BY <2>2
  <2> QED BY <2>2, <2>3 DEF QuitIsDue, QuitPosted
<1>3. CASE ServiceEvent
  <2>1. posted \in Seq({"pid", "quit"}) /\ posted # <<>> /\ posted' = Tail(posted)
    BY <1>3 DEF ServiceEvent, TypeOK
  <2>2. CASE Head(posted) = "quit"
    BY <1>3, <2>2 DEF ServiceEvent, QuitIsDue
  <2>3. CASE Head(posted) = "pid"
    <3>1. ASSUME NEW i \in 1..Len(posted), posted[i] = "quit" PROVE QuitPosted'
      <4>1. i # 1
        BY <2>1, <2>3, <3>1, TailPosted
      <4>2. i - 1 \in 1..Len(posted') /\ posted'[i - 1] = "quit"
        BY <2>1, <3>1, <4>1, TailPosted
      <4> QED BY <4>2 DEF QuitPosted
    <3>2. QuitPosted => QuitPosted'
      BY <3>1 DEF QuitPosted
    <3>3. reader' = reader /\ service = "loop"
      BY <1>3 DEF ServiceEvent
    <3> QED BY <3>2, <3>3 DEF QuitIsDue
  <2> QED BY <1>3, <2>2, <2>3 DEF ServiceEvent
<1>4. CASE Read
  BY <1>4 DEF Read, QuitIsDue
<1>5. CASE ~(ProcessEnds \/ PostQuit \/ ServiceEvent \/ Read)
  <2>1. posted' = posted
    BY <1>5 DEF Next, Leader, Writer, Service, Reader, Systemd, LeaderStartsTarget, LeaderWatches,
       LeaderSeesExit, LeaderExits, OpenWrite, Write, ServiceRegisters, ServiceInit, DoLogout,
       PrepareShutdown, PowerOff, ServiceExits, OpenRead, OthersInit, SystemdStartsService,
       SystemdStopsService, ExecStopPost, SessionExit, CtlShutdown, Session1Logout, RequestLogout,
       RequestPowerOff, XConnectionCloses, ShutdownByHand, LeaderKilled, ServiceKilled, vars,
       serviceVars
  <2>2. reader' = "done" => reader = "done"
    BY <1>5 DEF Next, Leader, Writer, Service, Reader, Systemd, LeaderStartsTarget, LeaderWatches,
       LeaderSeesExit, LeaderExits, OpenWrite, Write, ServiceRegisters, ServiceInit, DoLogout,
       PrepareShutdown, PowerOff, ServiceExits, OpenRead, OthersInit, SystemdStartsService,
       SystemdStopsService, ExecStopPost, SessionExit, CtlShutdown, Session1Logout, RequestLogout,
       RequestPowerOff, XConnectionCloses, ShutdownByHand, LeaderKilled, ServiceKilled, vars,
       serviceVars
  <2>3. service \in {"drain", "dead"} => service' = service
    BY <1>5 DEF Next, Leader, Writer, Service, Reader, Systemd, LeaderStartsTarget, LeaderWatches,
       LeaderSeesExit, LeaderExits, OpenWrite, Write, ServiceRegisters, ServiceInit, DoLogout,
       PrepareShutdown, PowerOff, ServiceExits, OpenRead, OthersInit, SystemdStartsService,
       SystemdStopsService, ExecStopPost, SessionExit, CtlShutdown, Session1Logout, RequestLogout,
       RequestPowerOff, XConnectionCloses, ShutdownByHand, LeaderKilled, ServiceKilled, vars,
       serviceVars, Order
  <2> QED BY <2>1, <2>2, <2>3 DEF QuitIsDue, QuitPosted
<1> QED BY <1>1, <1>2, <1>3, <1>4, <1>5

LEMMA PlaceStep ==
    ASSUME TypeOK, Order, Due, [Next]_vars
    PROVE  CleanupIsDue' /\ UnitRuns' /\ PowerOffIsDue'
<1> USE DEF Due, CleanupIsDue, UnitRuns, PowerOffIsDue, ServiceAlive
<1>1. ASSUME ProcessEnds, shutdown' = shutdown PROVE CleanupIsDue' /\ UnitRuns' /\ PowerOffIsDue'
  BY <1>1 DEF ProcessEnds
<1>2. CASE ServiceExits \/ SystemdStopsService \/ ServiceKilled
  BY <1>1, <1>2 DEF ServiceExits, SystemdStopsService, ServiceKilled
<1>3. CASE ServiceRegisters
  BY <1>1, <1>3 DEF ServiceRegisters, powerVars
<1>4. CASE SystemdStartsService
  BY <1>4, PowerOffRecorded DEF SystemdStartsService, RequestPowerOff, powerVars, Order
<1>5. CASE ExecStopPost
  BY <1>5 DEF ExecStopPost, serviceVars, powerVars
<1>6. CASE LeaderStartsTarget
  BY <1>6 DEF LeaderStartsTarget, Use, Order, serviceVars, powerVars
<1>7. CASE ServiceInit \/ ServiceEvent \/ DoLogout \/ Session1Logout \/ RequestLogout
  <2>1. unit' = unit /\ powerOff' = powerOff /\ service \in {"init", "loop", "logout"}
        /\ service' \notin {"off", "dead"}
    BY <1>7 DEF ServiceInit, ServiceEvent, DoLogout, Session1Logout, RequestLogout, systemdVars,
       powerVars
  <2>2. "RequestPowerOff" \in used' => powerOff
    BY <1>7, <2>1, PowerOffRecorded DEF ServiceInit, ServiceEvent, DoLogout, Session1Logout,
       RequestLogout, RequestPowerOff
  <2> QED BY <2>1, <2>2
<1>8. CASE RequestPowerOff \/ PrepareShutdown \/ PowerOff
  BY <1>8 DEF RequestPowerOff, PrepareShutdown, PowerOff, Use, systemdVars, powerVars
<1>9. ASSUME \/ LeaderWatches \/ LeaderSeesExit \/ LeaderExits \/ OpenWrite \/ Write \/ OpenRead
             \/ Read \/ PostQuit \/ OthersInit \/ SessionExit \/ CtlShutdown \/ XConnectionCloses
             \/ ShutdownByHand \/ LeaderKilled \/ UNCHANGED vars
      PROVE  CleanupIsDue' /\ UnitRuns' /\ PowerOffIsDue'
  <2>1. unit' = unit /\ powerOff' = powerOff /\ service' = service /\ (shutdown => shutdown')
    BY <1>9 DEF LeaderWatches, LeaderSeesExit, LeaderExits, OpenWrite, Write, OpenRead, Read,
       PostQuit, OthersInit, SessionExit, CtlShutdown, XConnectionCloses, ShutdownByHand,
       LeaderKilled, vars, serviceVars, systemdVars, powerVars
  <2>2. "RequestPowerOff" \in used' => "RequestPowerOff" \in used
    BY <1>9 DEF LeaderWatches, LeaderSeesExit, LeaderExits, OpenWrite, Write, OpenRead, Read,
       PostQuit, OthersInit, SessionExit, CtlShutdown, XConnectionCloses, ShutdownByHand,
       LeaderKilled, vars, Use
  <2> QED BY <2>1, <2>2
<1> QED
  BY <1>2, <1>3, <1>4, <1>5, <1>6, <1>7, <1>8, <1>9
  DEF Next, Leader, Writer, Service, Reader, Systemd

LEMMA DueHolds == Spec => []Due
<1>1. Init => Due
  BY DEF Init, Due, CleanupIsDue, PowerOffIsDue, QuitIsDue, UnitRuns, ServiceAlive
<1>2. Inv /\ Due /\ [Next]_vars => Due'
  BY PlaceStep, QuitStep DEF Inv, Due
<1> QED BY <1>1, <1>2, Invariance, PTL DEF Spec

(* However the service ended, by itself, by systemd, by a failed handshake  *)
(* or by a signal, the clean-up is done or still due: the shutdown target   *)
(* is started or ExecStopPost has yet to run, and never neither.            *)
THEOREM CleanupIsNeverSkipped == Spec => []CleanupIsDue
<1>1. Due => CleanupIsDue
  BY DEF Due
<1> QED BY <1>1, DueHolds, PTL

(* A request to power off is never dropped: not when dde-am cannot be run,  *)
(* not when a logout or the end of the FIFO comes between (lines 951-977).  *)
THEOREM PowerOffIsNeverDropped == Spec => []PowerOffIsDue
<1>1. Due => PowerOffIsDue
  BY DEF Due
<1> QED BY <1>1, DueHolds, PTL

(* The quit that the end of the FIFO brings is not lost, whatever the event *)
(* loop does meanwhile (main.cpp, lines 145-170).                           *)
THEOREM QuitIsNeverLost == Spec => []QuitIsDue
<1>1. Due => QuitIsDue
  BY DEF Due
<1> QED BY <1>1, DueHolds, PTL
-----------------------------------------------------------------------------
(* Each actor that could end the circular wait waits for another: the       *)
(* service for the reader, the reader for the leader to close its end, the  *)
(* leader for the name; the unit runs, so that no ExecStopPost is due.      *)
LEMMA WaitStep ==
    ASSUME Inv, Due, CircularWait, [Next]_vars
    PROVE  CircularWait' \/ FromOutside
<1> USE DEF CircularWait
<1>1. unit = "running" /\ exitTask = "none"
  BY DEF Inv, Order, Due, UnitRuns, ServiceAlive
<1>2. HoldsWriteEnd
  BY DEF HoldsWriteEnd
<1>3. CASE OthersInit \/ UNCHANGED vars
  BY <1>3 DEF OthersInit, vars, leaderVars, systemdVars, powerVars
<1>4. ~(Leader \/ Writer \/ Service \/ Reader \/ Systemd)
  BY <1>1, <1>2 DEF Leader, Writer, Service, Reader, Systemd, LeaderStartsTarget, LeaderWatches,
     LeaderSeesExit, LeaderExits, OpenWrite, Write, ServiceRegisters, ServiceInit, ServiceEvent,
     DoLogout, PrepareShutdown, PowerOff, ServiceExits, OpenRead, Read, PostQuit,
     SystemdStartsService, SystemdStopsService, ExecStopPost, SessionExit, CtlShutdown
<1>5. ~(Session1Logout \/ RequestLogout \/ RequestPowerOff \/ XConnectionCloses)
  BY DEF Session1Logout, RequestLogout, RequestPowerOff, XConnectionCloses
<1> QED BY <1>3, <1>4, <1>5 DEF Next, FromOutside

(* What Session1.Logout leads to is a deadlock, not a delay: the three      *)
(* waits end only when somebody outside kills one of the two processes or   *)
(* starts the shutdown target by hand.                                      *)
THEOREM WaitIsFinal == Spec => OnlyOutsideBreaksIt
<1>1. Inv /\ Due /\ [Next]_vars
          => [CircularWait => CircularWait' \/ FromOutside]_vars
  BY WaitStep
<1> QED BY <1>1, Invariance, DueHolds, PTL DEF Spec, OnlyOutsideBreaksIt
=============================================================================
