---------------------------- MODULE ScreenLockProofs ----------------------------
(***************************************************************************)
(* Proofs about ScreenLock, for either display and any bounds.             *)
(*                                                                         *)
(* InCallIsCleared is inductive with the types: the flag is set only       *)
(* together with a call of Show, and whichever answer is consumed, a       *)
(* client's or the handler's, clears it.  LockInv strengthens LockUnderWay *)
(* to what every step keeps: wherever a lock is owed, it is followed from  *)
(* the signal over the handler and its Show to the lock screen.  The last  *)
(* part has a measure by which the handlers and logind come to rest.       *)
(***************************************************************************)
EXTENDS ScreenLock, FiniteSetTheorems, TLAPS

SLInv == TypeOK /\ InCallIsCleared
-----------------------------------------------------------------------------
(* What the parts of the actions do to the types. *)
LEMMA Bounded ==
    ASSUME TypeOK, NEW b \in Bounds, Spend(b) PROVE left' \in [Bounds -> Nat]
  BY DEF TypeOK, Spend

LEMMA Emitted ==
    ASSUME TypeOK, NEW e \in Events, Emit(e) PROVE inbox' \in Seq(Events)
  BY DEF TypeOK, Emit

LEMMA Called ==
    ASSUME TypeOK, NEW c \in Callers, CallShow(c)
    PROVE  waiting' \in [Callers -> Nat] /\ shows' \in Nat /\ Unanswered'
<1>1. waiting' = [waiting EXCEPT ![c] = @ + 1] /\ waiting \in [Callers -> Nat] /\ shows \in Nat
  BY DEF CallShow, TypeOK
<1>2. waiting' \in [Callers -> Nat] /\ waiting'[c] > 0
  BY <1>1
<1> QED BY <1>1, <1>2 DEF CallShow, Unanswered

LEMMA Dispatched ==
    ASSUME TypeOK, NEW s, Dispatch(s) PROVE Tail(signals) \in Seq(Signals)
<1>1. signals \in Seq(Signals) /\ signals # <<>>
  BY DEF TypeOK, Dispatch
<1> QED BY <1>1
-----------------------------------------------------------------------------
LEMMA SLInit == ASSUME Init PROVE SLInv
<1>1. left \in [Bounds -> Nat]
  BY BoundsAssumption DEF Init, Bounds
<1>2. signals \in Seq(Signals) /\ reports \in Seq(BOOLEAN) /\ inbox \in Seq(Events)
  BY DEF Init
<1>3. waiting \in [Callers -> Nat] /\ display \in {"x11", "wayland"}
  BY DisplaysAssumption DEF Init
<1>4. TypeOK
  BY <1>1, <1>2, <1>3 DEF Init, TypeOK
<1> QED BY <1>4 DEF Init, SLInv, InCallIsCleared

(* Calls of clients and their answers. *)
LEMMA ClientSteps ==
    ASSUME SLInv, RequestLock \/ SetLocked \/ \E c \in Callers : ShowFinished(c)
    PROVE  SLInv'
<1> USE DEF SLInv
<1>1. CASE RequestLock
  <2>1. left' \in [Bounds -> Nat]
    <3>1. Spend("request") /\ "request" \in Bounds
      BY <1>1 DEF RequestLock, Bounds
    <3> QED BY <3>1, Bounded
  <2>2. CASE display = "wayland" /\ signals' = Append(signals, "Lock") /\ inCall' = FALSE
             /\ UNCHANGED <<waiting, shows>>
    <3>1. "Lock" \in Signals /\ signals \in Seq(Signals)
      BY DEF TypeOK, Signals
    <3>2. signals' \in Seq(Signals)
      BY <2>2, <3>1
    <3>3. UNCHANGED <<seatVars, manager, locked, frontVars, reports, subscribed, inbox, history>>
      BY <1>1 DEF RequestLock
    <3> QED BY <2>1, <2>2, <3>2, <3>3
            DEF TypeOK, InCallIsCleared, Unanswered, seatVars, frontVars, history
  <2>3. CASE display = "x11" /\ CallShow("client") /\ UNCHANGED <<signals, inCall>>
    <3>1. waiting' \in [Callers -> Nat] /\ shows' \in Nat /\ Unanswered'
      BY <2>3, Called DEF Callers
    <3> QED BY <1>1, <2>1, <2>3, <3>1
            DEF RequestLock, TypeOK, InCallIsCleared, seatVars, frontVars, history
  <2> QED BY <1>1, <2>2, <2>3 DEF RequestLock
<1>2. CASE SetLocked
  <2>1. Tail(reports) \in Seq(BOOLEAN) /\ Head(reports) \in BOOLEAN
    BY <1>2 DEF SetLocked, TypeOK
  <2>2. locked' \in BOOLEAN /\ inbox' \in Seq(Events)
    <3>1. CASE front # "absent" /\ locked' = Head(reports) /\ EmitLocked(Head(reports))
      BY <2>1, <3>1, Emitted DEF EmitLocked, Events
    <3>2. CASE UNCHANGED <<locked, inbox>>
      BY <3>2 DEF TypeOK
    <3> QED BY <1>2, <3>1, <3>2 DEF SetLocked
  <2> QED BY <1>2, <2>1, <2>2
          DEF SetLocked, TypeOK, InCallIsCleared, Unanswered, seatVars, frontVars, history
<1>3. ASSUME NEW c \in Callers, ShowFinished(c) PROVE SLInv'
  <2>1. waiting' \in [Callers -> Nat]
    BY <1>3 DEF ShowFinished, TypeOK
  <2>2. ~inCall' /\ inCall' \in BOOLEAN
    BY <1>3 DEF ShowFinished
  <2>3. /\ UNCHANGED <<display, active, preparing, signals, manager, locked, shows>>
        /\ UNCHANGED <<front, shown, reported, reports, subscribed, inbox, mustLock, calm, left>>
    BY <1>3 DEF ShowFinished, seatVars, frontVars, history
  <2>4. TypeOK'
    BY <2>1, <2>2, <2>3 DEF TypeOK
  <2> QED BY <2>2, <2>4 DEF InCallIsCleared
<1> QED BY <1>1, <1>2, <1>3

(* The handlers of logind's signals. *)
LEMMA ManagerSteps == ASSUME SLInv, Manager PROVE SLInv'
<1> USE DEF SLInv
<1>1. CASE HandleLock
  <2>1. signals' \in Seq(Signals)
    BY <1>1, Dispatched DEF HandleLock
  <2>2. CASE UNCHANGED <<locked, inCall, waiting, shows, inbox>>
    BY <1>1, <2>1, <2>2 DEF HandleLock, TypeOK, InCallIsCleared, Unanswered, seatVars,
       frontVars, history
  <2>3. CASE locked' = TRUE /\ EmitLocked(TRUE) /\ UNCHANGED <<inCall, waiting, shows>>
    <3>1. inbox' \in Seq(Events)
      BY <2>3, Emitted DEF EmitLocked, Events
    <3> QED BY <1>1, <2>1, <2>3, <3>1 DEF HandleLock, TypeOK, InCallIsCleared, Unanswered,
            seatVars, frontVars, history
  <2>4. CASE inCall' = TRUE /\ CallShow("handler") /\ UNCHANGED <<locked, inbox>>
    <3>1. waiting' \in [Callers -> Nat] /\ shows' \in Nat /\ Unanswered'
      BY <2>4, Called DEF Callers
    <3> QED BY <1>1, <2>1, <2>4, <3>1 DEF HandleLock, TypeOK, InCallIsCleared, seatVars,
            frontVars, history
  <2> QED BY <1>1, <2>2, <2>3, <2>4 DEF HandleLock
<1>2. CASE HandleUnlock
  <2>1. signals' \in Seq(Signals)
    BY <1>2, Dispatched DEF HandleUnlock
  <2>2. inbox' \in Seq(Events)
    <3>1. CASE EmitLocked(FALSE)
      BY <3>1, Emitted DEF EmitLocked, Events
    <3>2. CASE inbox' = inbox
      BY <3>2 DEF TypeOK
    <3> QED BY <1>2, <3>1, <3>2 DEF HandleUnlock
  <2> QED BY <1>2, <2>1, <2>2 DEF HandleUnlock, TypeOK, InCallIsCleared, Unanswered, seatVars
<1>3. CASE KillFront
  BY <1>3 DEF KillFront, TypeOK, InCallIsCleared, Unanswered, seatVars, history
<1>4. CASE FinishUnlock
  <2>1. inbox' \in Seq(Events)
    BY <1>4, Emitted DEF FinishUnlock, EmitLocked, Events
  <2> QED BY <1>4, <2>1 DEF FinishUnlock, TypeOK, InCallIsCleared, Unanswered, seatVars, history
<1>5. CASE HandleInactive
  <2>1. signals' \in Seq(Signals)
    BY <1>5, Dispatched DEF HandleInactive, Signals
  <2> QED BY <1>5, <2>1 DEF HandleInactive, TypeOK, InCallIsCleared, Unanswered, seatVars,
          managerVars, frontVars
<1>6. CASE HandleActive
  <2>1. signals' \in Seq(Signals)
    BY <1>6, Dispatched DEF HandleActive
  <2> QED BY <1>6, <2>1 DEF HandleActive, TypeOK, InCallIsCleared, Unanswered, seatVars,
          managerVars, frontVars, history
<1> QED BY <1>1, <1>2, <1>3, <1>4, <1>5, <1>6 DEF Manager

(* dde-lock. *)
LEMMA FrontSteps == ASSUME SLInv, Front \/ FrontUnlocks \/ FrontCrashes PROVE SLInv'
<1> USE DEF SLInv, InCallIsCleared, Unanswered, TypeOK, seatVars, managerVars
<1>1. CASE FrontStarts
  BY <1>1 DEF FrontStarts, history
<1>2. CASE FrontShows
  BY <1>2 DEF FrontShows, history
<1>3. CASE FrontReports
  BY <1>3 DEF FrontReports, history
<1>4. CASE FrontUnlocks
  <2>1. left' \in [Bounds -> Nat]
    BY <1>4, Bounded DEF FrontUnlocks, Bounds
  <2> QED BY <1>4, <2>1 DEF FrontUnlocks
<1>5. ASSUME FrontGone PROVE inbox' \in Seq(Events)
  BY <1>5, Emitted DEF FrontGone, Events
<1>6. CASE FrontDies
  BY <1>5, <1>6 DEF FrontDies, FrontGone, history
<1>7. CASE FrontCrashes
  <2>1. left' \in [Bounds -> Nat]
    BY <1>7, Bounded DEF FrontCrashes, Bounds
  <2> QED BY <1>5, <1>7, <2>1 DEF FrontCrashes, FrontGone
<1> QED BY <1>1, <1>2, <1>3, <1>4, <1>6, <1>7 DEF Front

(* logind and the seat. *)
LEMMA SeatSteps == ASSUME SLInv, LogindSignal \/ SwitchSeat \/ Sleep PROVE SLInv'
<1> USE DEF SLInv, InCallIsCleared, Unanswered, TypeOK, managerVars, frontVars
<1>1. CASE LogindSignal
  <2>1. left' \in [Bounds -> Nat]
    BY <1>1, Bounded DEF LogindSignal, Bounds
  <2> QED BY <1>1, <2>1 DEF LogindSignal, seatVars, history, Signals
<1>2. CASE SwitchSeat
  <2>1. left' \in [Bounds -> Nat]
    BY <1>2, Bounded DEF SwitchSeat, Bounds
  <2>2. signals' \in Seq(Signals)
    BY <1>2 DEF SwitchSeat, Signals
  <2>3. active' \in BOOLEAN /\ calm' \in BOOLEAN
    BY <1>2 DEF SwitchSeat
  <2> QED BY <1>2, <2>1, <2>2, <2>3 DEF SwitchSeat
<1>3. CASE Sleep
  <2>1. left' \in [Bounds -> Nat]
    BY <1>3, Bounded DEF Sleep, Bounds
  <2>2. preparing' \in BOOLEAN
    BY <1>3 DEF Sleep
  <2> QED BY <1>3, <2>1, <2>2 DEF Sleep, history
<1> QED BY <1>1, <1>2, <1>3

LEMMA SLStep == ASSUME SLInv, [Next]_vars PROVE SLInv'
<1>1. CASE UNCHANGED vars
  BY <1>1 DEF vars, SLInv, TypeOK, InCallIsCleared, Unanswered
<1>2. CASE Next
  BY <1>2, ClientSteps, ManagerSteps, FrontSteps, SeatSteps DEF Next
<1> QED BY <1>1, <1>2
-----------------------------------------------------------------------------
LEMMA SLInvariance == Spec => []SLInv
<1>1. Init => SLInv
  BY SLInit
<1>2. SLInv /\ [Next]_vars => SLInv'
  BY SLStep
<1> QED BY <1>1, <1>2, PTL DEF Spec

(* Types of the lock model, for either display and any bounds. *)
THEOREM TypeCorrect == Spec => []TypeOK
<1>1. SLInv => TypeOK
  BY DEF SLInv
<1> QED BY <1>1, SLInvariance, PTL

(* m_inCallRequestLock never outlives the calls of Show: there is always an *)
(* answer to come that clears it (handleLoginSessionLocked, RequestLock).   *)
THEOREM FlagIsCleared == Spec => []InCallIsCleared
<1>1. SLInv => InCallIsCleared
  BY DEF SLInv
<1> QED BY <1>1, SLInvariance, PTL
-----------------------------------------------------------------------------
(* LockUnderWay.  As long as nothing has disturbed the session since it was *)
(* left at rest, everything dde-lock has said or will say is "locked", and  *)
(* what makes the Lock handler return early is on the way to be covered.    *)

NoFront == front = "absent" => ~shown /\ ~reported

OnWayland == display = "wayland" => shows = 0 /\ ~shown /\ ~reported /\ reports = <<>>

Certain == mustLock \/ calm

Shows == shows > 0 \/ shown

Intact ==
    /\ manager \in {"idle", "dead"} /\ front # "dying"
    /\ display = "x11" =>
          /\ inCall => Shows
          /\ locked \/ reported \/ reports # <<>> => shown
          /\ \A i \in 1..Len(reports) : reports[i]
          /\ shown => locked \/ ~reported \/ reports # <<>>
    /\ calm => ~active

Sent ==
    \/ LockPending
    \/ display = "x11" /\ Shows
    \/ display = "wayland" /\ locked

LockInv ==
    /\ SLInv /\ NoFront /\ OnWayland
    /\ Certain => Intact
    /\ mustLock => Sent

LEMMA LockInvInit == ASSUME Init PROVE LockInv
  BY SLInit DEF Init, LockInv, NoFront, OnWayland, Certain

(* A Lock signal stays in the queue until its handler runs. *)
LEMMA PendingAppend ==
    ASSUME TypeOK, NEW s \in Signals, signals' = Append(signals, s)
    PROVE  (LockPending \/ s = "Lock") => LockPending'
<1>1. signals \in Seq(Signals) /\ Len(signals') = Len(signals) + 1 /\ Len(signals) \in Nat
  BY DEF TypeOK
<1>2. \A i \in 1..Len(signals) : signals'[i] = signals[i]
  BY <1>1
<1>3. signals'[Len(signals) + 1] = s
  BY <1>1
<1> QED BY <1>1, <1>2, <1>3 DEF LockPending

LEMMA PendingTail ==
    ASSUME TypeOK, LockPending, Head(signals) # "Lock", signals' = Tail(signals)
    PROVE  LockPending'
<1>1. PICK i \in 1..Len(signals) : signals[i] = "Lock"
  BY DEF LockPending
<1>2. signals \in Seq(Signals) /\ i # 1
  BY <1>1 DEF TypeOK
<1>3. i - 1 \in 1..Len(signals') /\ signals'[i - 1] = "Lock"
  BY <1>1, <1>2
<1> QED BY <1>3 DEF LockPending

Rest == NoFront /\ OnWayland /\ (Certain => Intact) /\ (mustLock => Sent)

(* Calls of clients and their answers. *)
LEMMA LockClientSteps ==
    ASSUME LockInv, RequestLock \/ SetLocked \/ \E c \in Callers : ShowFinished(c)
    PROVE  Rest'
<1> USE DEF LockInv, SLInv, Rest, NoFront, OnWayland, Certain, Shows, frontVars, history, seatVars
<1>1. CASE RequestLock
  <2>1. CASE display = "wayland" /\ signals' = Append(signals, "Lock") /\ inCall' = FALSE
             /\ UNCHANGED <<waiting, shows>>
    <3>1. LockPending'
      BY <2>1, PendingAppend DEF Signals
    <3> QED BY <1>1, <2>1, <3>1 DEF RequestLock, Intact, Sent
  <2>2. CASE display = "x11" /\ CallShow("client") /\ UNCHANGED <<signals, inCall>>
    <3>1. shows' > 0
      BY <2>2 DEF CallShow, TypeOK
    <3> QED BY <1>1, <2>2, <3>1 DEF RequestLock, Intact, Sent
  <2> QED BY <1>1, <2>1, <2>2 DEF RequestLock
<1>2. CASE SetLocked
  <2>1. reports # <<>> /\ reports \in Seq(BOOLEAN) /\ reports' = Tail(reports) /\ display = "x11"
    BY <1>2 DEF SetLocked, TypeOK
  <2>2. Sent => Sent'
    BY <1>2, <2>1 DEF SetLocked, Sent, LockPending
  <2>3. ASSUME Certain PROVE Intact'
    <3>1. shown /\ front # "absent" /\ (\A i \in 1..Len(reports) : reports[i])
      BY <1>2, <2>1, <2>3 DEF Intact
    <3>2. Head(reports) = reports[1] /\ 1 \in 1..Len(reports) /\ reports[1] \in BOOLEAN
      BY <2>1
    <3>3. Head(reports) = TRUE
      BY <3>1, <3>2
    <3>4. \A i \in 1..Len(reports') : i + 1 \in 1..Len(reports) /\ reports'[i] = reports[i + 1]
      BY <2>1
    <3>5. \A i \in 1..Len(reports') : reports'[i]
      BY <3>1, <3>4
    <3>6. locked'
      BY <1>2, <3>1, <3>3 DEF SetLocked
    <3> QED BY <1>2, <2>1, <2>3, <3>1, <3>5, <3>6 DEF SetLocked, Intact
  <2> QED BY <1>2, <2>1, <2>2, <2>3 DEF SetLocked
<1>3. ASSUME NEW c \in Callers, ShowFinished(c) PROVE Rest'
  BY <1>3 DEF ShowFinished, Intact, Sent, LockPending
<1> QED BY <1>1, <1>2, <1>3

(* The handlers of logind's signals. *)
LEMMA LockManagerSteps == ASSUME LockInv, Manager PROVE Rest'
<1> USE DEF LockInv, SLInv, Rest, NoFront, OnWayland, Certain, Shows, frontVars, history, seatVars
<1>1. CASE HandleLock
  <2>1. CASE /\ locked \/ (display = "x11" /\ inCall)
             /\ UNCHANGED <<locked, inCall, waiting, shows, inbox>>
    <3>1. display \in {"x11", "wayland"} /\ UNCHANGED <<display, mustLock, calm, shown>>
      BY <1>1 DEF HandleLock, TypeOK
    <3>2. mustLock => Sent'
      BY <2>1, <3>1 DEF Intact, Sent
    <3> QED BY <1>1, <2>1, <3>2 DEF HandleLock, Intact
  <2>2. CASE display = "wayland" /\ locked' = TRUE /\ UNCHANGED <<inCall, waiting, shows>>
    BY <1>1, <2>2 DEF HandleLock, Intact, Sent
  <2>3. CASE display = "x11" /\ CallShow("handler") /\ UNCHANGED <<locked, inbox>>
    <3>1. shows' > 0
      BY <2>3 DEF CallShow, TypeOK
    <3> QED BY <1>1, <2>3, <3>1 DEF HandleLock, Intact, Sent
  <2> QED BY <1>1, <2>1, <2>2, <2>3 DEF HandleLock
<1>2. CASE HandleUnlock
  <2>1. ~mustLock' /\ ~calm'
    BY <1>2 DEF HandleUnlock
  <2>2. /\ UNCHANGED <<display, front, reported, reports, shows>>
        /\ shown' = shown \/ shown' = FALSE
    BY <1>2 DEF HandleUnlock
  <2> QED BY <2>1, <2>2
<1>3. CASE KillFront
  BY <1>3 DEF KillFront, Intact
<1>4. CASE FinishUnlock
  BY <1>4 DEF FinishUnlock, Intact
<1>5. CASE HandleInactive
  <2>1. ASSUME signals' = Append(Tail(signals), "Lock") PROVE LockPending'
    <3>1. Tail(signals) \in Seq(Signals)
      BY <1>5, Dispatched DEF HandleInactive
    <3>2. Len(signals') \in 1..Len(signals') /\ signals'[Len(signals')] = "Lock"
      BY <2>1, <3>1
    <3> QED BY <3>2 DEF LockPending
  <2>2. ASSUME signals' = Tail(signals), LockPending PROVE LockPending'
    BY <1>5, <2>2, PendingTail DEF HandleInactive, Dispatch
  <2> QED BY <1>5, <2>1, <2>2 DEF HandleInactive, Intact, Sent, managerVars
<1>6. CASE HandleActive
  <2>1. LockPending => LockPending'
    BY <1>6, PendingTail DEF HandleActive, Dispatch
  <2> QED BY <1>6, <2>1 DEF HandleActive, Intact, Sent, managerVars
<1> QED BY <1>1, <1>2, <1>3, <1>4, <1>5, <1>6 DEF Manager

(* dde-lock. *)
LEMMA LockFrontSteps ==
    ASSUME LockInv, Front \/ FrontUnlocks \/ FrontCrashes PROVE Rest'
<1> USE DEF LockInv, SLInv, Rest, NoFront, OnWayland, Certain, Shows, managerVars, history, seatVars
<1>1. CASE FrontStarts
  BY <1>1 DEF FrontStarts, Intact, Sent, LockPending
<1>2. CASE FrontShows
  BY <1>2 DEF FrontShows, Intact, Sent, LockPending, TypeOK
<1>3. CASE FrontReports
  <2>1. reports' = Append(reports, shown) /\ reports \in Seq(BOOLEAN) /\ reports' # <<>>
    <3>1. reports' = Append(reports, shown) /\ reports \in Seq(BOOLEAN) /\ shown \in BOOLEAN
      BY <1>3 DEF FrontReports, TypeOK
    <3> QED BY <3>1
  <2>2. (\A i \in 1..Len(reports) : reports[i]) /\ shown => \A i \in 1..Len(reports') : reports'[i]
    BY <2>1
  <2>3. Sent => Sent'
    BY <1>3 DEF FrontReports, Sent, LockPending
  <2>4. ASSUME Certain PROVE Intact'
    BY <1>3, <2>1, <2>2, <2>4 DEF FrontReports, Intact, TypeOK
  <2>5. OnWayland' /\ NoFront'
    <3>1. UNCHANGED <<display, front, shown, shows>> /\ reported' = shown /\ reported # shown
      BY <1>3 DEF FrontReports
    <3>2. display # "wayland" /\ front # "absent"
      BY <1>3, <3>1 DEF FrontReports, TypeOK
    <3> QED BY <3>1, <3>2
  <2>6. UNCHANGED <<mustLock, calm>>
    BY <1>3 DEF FrontReports
  <2> QED BY <2>3, <2>4, <2>5, <2>6
<1>4. CASE FrontUnlocks
  BY <1>4 DEF FrontUnlocks, Intact
<1>5. CASE FrontDies
  BY <1>5 DEF FrontDies, FrontGone, Intact
<1>6. CASE FrontCrashes
  BY <1>6 DEF FrontCrashes, FrontGone
<1> QED BY <1>1, <1>2, <1>3, <1>4, <1>5, <1>6 DEF Front

(* logind and the seat: a session that is left at rest is Intact. *)
LEMMA LockSeatSteps == ASSUME LockInv, LogindSignal \/ SwitchSeat \/ Sleep PROVE Rest'
<1> USE DEF LockInv, SLInv, Rest, NoFront, OnWayland, Certain, Shows, managerVars, frontVars
<1>1. CASE LogindSignal
  <2>1. LockPending => LockPending'
    BY <1>1, PendingAppend DEF LogindSignal, Signals
  <2> QED BY <1>1, <2>1 DEF LogindSignal, Intact, Sent, seatVars, history
<1>2. CASE SwitchSeat
  <2>1. LockPending => LockPending'
    BY <1>2, PendingAppend DEF SwitchSeat, Signals
  <2>2. mustLock => Sent'
    BY <1>2, <2>1 DEF SwitchSeat, Sent
  <2>3. ASSUME active /\ AtRest PROVE Intact'
    BY <1>2, <2>3 DEF SwitchSeat, AtRest, Intact, InCallIsCleared, TypeOK
  <2>4. ASSUME mustLock, ~calm' PROVE Intact'
    BY <1>2, <2>4 DEF SwitchSeat, Intact
  <2> QED BY <1>2, <2>2, <2>3, <2>4 DEF SwitchSeat
<1>3. CASE Sleep
  BY <1>3 DEF Sleep, Intact, Sent, LockPending, history
<1> QED BY <1>1, <1>2, <1>3

LEMMA LockInvStep == ASSUME LockInv, [Next]_vars PROVE LockInv'
<1>1. SLInv'
  BY SLStep DEF LockInv
<1>2. CASE UNCHANGED vars
  BY <1>1, <1>2 DEF vars, LockInv, NoFront, OnWayland, Certain, Shows, Intact, Sent, LockPending
<1>3. CASE Next
  <2>1. Rest'
    BY <1>3, LockClientSteps, LockManagerSteps, LockFrontSteps, LockSeatSteps DEF Next
  <2> QED BY <1>1, <2>1 DEF LockInv, Rest
<1> QED BY <1>2, <1>3

(* A session that was left at rest, with the machine awake, is locked and   *)
(* covered, or something is still on its way that does it: neither clients, *)
(* nor seat switches, nor answers that time out make the session manager    *)
(* drop the Lock signal that counts (handleLoginSessionLocked).             *)
THEOREM LockIsNeverLost == Spec => []LockUnderWay
<1>1. Init => LockInv
  BY LockInvInit
<1>2. LockInv /\ [Next]_vars => LockInv'
  BY LockInvStep
<1>3. LockInv => LockUnderWay
  BY DEF LockInv, SLInv, TypeOK, Certain, Intact, Sent, Shows, Covered, LockUnderWay
<1> QED BY <1>1, <1>2, <1>3, PTL DEF Spec
-----------------------------------------------------------------------------
(* The work that is left in the queue of signals. *)

Positions(s, x) == {i \in 1..Len(s) : s[i] = x}

LEMMA PositionsFinite ==
    ASSUME NEW S, NEW s \in Seq(S), NEW x
    PROVE  IsFiniteSet(Positions(s, x)) /\ Cardinality(Positions(s, x)) \in Nat
<1>1. IsFiniteSet(1..Len(s))
  BY FS_Interval
<1>2. Positions(s, x) \in SUBSET (1..Len(s))
  BY DEF Positions
<1> QED BY <1>1, <1>2, FS_Subset, FS_CardinalityType

LEMMA PositionsAppend ==
    ASSUME NEW S, NEW s \in Seq(S), NEW x, NEW e \in S
    PROVE  Cardinality(Positions(Append(s, e), x))
               = Cardinality(Positions(s, x)) + (IF e = x THEN 1 ELSE 0)
<1> DEFINE n == Len(s) + 1
<1>1. /\ n \in Nat /\ Len(Append(s, e)) = n /\ Append(s, e)[n] = e
      /\ \A i \in 1..Len(s) : Append(s, e)[i] = s[i]
  OBVIOUS
<1>2. n \notin Positions(s, x)
  BY DEF Positions
<1>3. IsFiniteSet(Positions(s, x)) /\ Cardinality(Positions(s, x)) \in Nat
  BY PositionsFinite
<1>4. CASE e = x
  <2>1. Positions(Append(s, e), x) = Positions(s, x) \cup {n}
    BY <1>1, <1>4 DEF Positions
  <2> QED BY <1>2, <1>3, <1>4, <2>1, FS_AddElement
<1>5. CASE e # x
  <2>1. Positions(Append(s, e), x) = Positions(s, x)
    BY <1>1, <1>5 DEF Positions
  <2> QED BY <1>3, <1>5, <2>1
<1> QED BY <1>4, <1>5

LEMMA PositionsTail ==
    ASSUME NEW S, NEW s \in Seq(S), NEW x, s # <<>>
    PROVE  Cardinality(Positions(s, x))
               = Cardinality(Positions(Tail(s), x)) + (IF Head(s) = x THEN 1 ELSE 0)
<1> DEFINE T == Positions(Tail(s), x)
           U == Positions(s, x) \ {1}
           shift == [i \in T |-> i + 1]
<1>1. /\ Len(s) \in Nat \ {0} /\ Len(Tail(s)) = Len(s) - 1 /\ Head(s) = s[1]
      /\ \A i \in 1..Len(Tail(s)) : Tail(s)[i] = s[i + 1]
  OBVIOUS
<1>2. shift \in Bijection(T, U)
  <2>1. \A i \in T : i + 1 \in U
    BY <1>1 DEF Positions
  <2>2. \A j \in U : j - 1 \in T /\ (j - 1) + 1 = j
    BY <1>1 DEF Positions
  <2>3. \A i, j \in T : shift[i] = shift[j] => i = j
    BY DEF Positions
  <2>4. shift \in [T -> U]
    BY <2>1
  <2>5. shift \in Injection(T, U)
    BY <2>3, <2>4 DEF Injection, IsInjective
  <2>6. \A j \in U : \E i \in T : shift[i] = j
    BY <2>2
  <2>7. shift \in Surjection(T, U)
    BY <2>4, <2>6 DEF Surjection
  <2> QED BY <2>5, <2>7 DEF Bijection
<1>3. Tail(s) \in Seq(S)
  OBVIOUS
<1>4. IsFiniteSet(T) /\ IsFiniteSet(Positions(s, x)) /\ Cardinality(Positions(s, x)) \in Nat
  BY <1>3, PositionsFinite
<1>5. Cardinality(U) = Cardinality(T)
  BY <1>2, <1>4, FS_Bijection DEF ExistsBijection
<1>6. Cardinality(U) = IF 1 \in Positions(s, x) THEN Cardinality(Positions(s, x)) - 1
                       ELSE Cardinality(Positions(s, x))
  BY <1>4, FS_RemoveElement
<1>7. 1 \in Positions(s, x) <=> Head(s) = x
  BY <1>1 DEF Positions
<1>8. Cardinality(T) \in Nat
  BY <1>3, PositionsFinite
<1> QED BY <1>4, <1>5, <1>6, <1>7, <1>8

(* What the queue q still has to be handled: ActiveChanged(false) leads to  *)
(* one Lock signal, so it counts twice.                                     *)
Load(q) == Len(q) + Cardinality(Positions(q, "Inactive"))

LEMMA LoadIsNat == ASSUME NEW q \in Seq(Signals) PROVE Load(q) \in Nat
<1>1. Cardinality(Positions(q, "Inactive")) \in Nat
  BY PositionsFinite
<1> QED BY <1>1 DEF Load

LEMMA LoadOfAppend ==
    ASSUME NEW q \in Seq(Signals), NEW s \in Signals
    PROVE  Load(Append(q, s)) = Load(q) + (IF s = "Inactive" THEN 2 ELSE 1)
<1>1. Cardinality(Positions(q, "Inactive")) \in Nat
  BY PositionsFinite
<1>2. Cardinality(Positions(Append(q, s), "Inactive"))
        = Cardinality(Positions(q, "Inactive")) + (IF s = "Inactive" THEN 1 ELSE 0)
  BY PositionsAppend
<1>3. Len(Append(q, s)) = Len(q) + 1 /\ Len(q) \in Nat
  OBVIOUS
<1> QED BY <1>1, <1>2, <1>3 DEF Load

LEMMA LoadOfTail ==
    ASSUME NEW q \in Seq(Signals), q # <<>>
    PROVE  Load(q) = Load(Tail(q)) + (IF Head(q) = "Inactive" THEN 2 ELSE 1)
<1>1. Tail(q) \in Seq(Signals) /\ Len(q) = Len(Tail(q)) + 1 /\ Len(Tail(q)) \in Nat
  OBVIOUS
<1>2. Cardinality(Positions(Tail(q), "Inactive")) \in Nat
  BY <1>1, PositionsFinite
<1>3. Cardinality(Positions(q, "Inactive"))
        = Cardinality(Positions(Tail(q), "Inactive")) + (IF Head(q) = "Inactive" THEN 1 ELSE 0)
  BY PositionsTail
<1> QED BY <1>1, <1>2, <1>3 DEF Load

Handling == HandleLock \/ HandleUnlock \/ HandleInactive \/ HandleActive
Outside  == RequestLock \/ LogindSignal \/ SwitchSeat

LoadShrinks ==
    /\ Handling => Load(signals') < Load(signals)
    /\ Load(signals') > Load(signals) => Outside

LEMMA HandlingShrinks == ASSUME TypeOK, Handling PROVE Load(signals') < Load(signals)
<1>1. signals # <<>> /\ signals \in Seq(Signals) /\ Tail(signals) \in Seq(Signals)
  <2>1. signals # <<>>
    BY DEF Handling, HandleLock, HandleUnlock, HandleInactive, HandleActive, Dispatch
  <2>2. signals \in Seq(Signals)
    BY DEF TypeOK
  <2> QED BY <2>1, <2>2
<1>2. Load(signals) = Load(Tail(signals)) + (IF Head(signals) = "Inactive" THEN 2 ELSE 1)
  BY <1>1, LoadOfTail
<1>3. Load(Tail(signals)) \in Nat
  BY <1>1, LoadIsNat
<1>4. CASE signals' = Tail(signals)
  BY <1>2, <1>3, <1>4
<1>5. CASE HandleInactive /\ signals' = Append(Tail(signals), "Lock")
  <2>1. Head(signals) = "Inactive" /\ "Lock" \in Signals
    BY <1>5 DEF HandleInactive, Dispatch, Signals
  <2>2. Load(Append(Tail(signals), "Lock")) = Load(Tail(signals)) + 1
    BY <1>1, <2>1, LoadOfAppend
  <2> QED BY <1>2, <1>3, <1>5, <2>1, <2>2
<1> QED BY <1>4, <1>5 DEF Handling, HandleLock, HandleUnlock, HandleInactive, HandleActive

LEMMA LoadStep == ASSUME TypeOK, TypeOK', [Next]_vars PROVE LoadShrinks
<1>1. Load(signals) \in Nat /\ Load(signals') \in Nat
  BY LoadIsNat DEF TypeOK
<1>2. CASE Handling
  BY <1>1, <1>2, HandlingShrinks DEF LoadShrinks
<1>3. CASE Outside /\ ~Handling
  BY <1>3 DEF LoadShrinks
<1>4. CASE signals' = signals /\ ~Handling
  BY <1>1, <1>4 DEF LoadShrinks
<1>5. Handling \/ Outside \/ signals' = signals
  BY DEF Handling, Outside, Next, Manager, Front, vars, managerVars, KillFront, FinishUnlock,
     SetLocked, ShowFinished, FrontStarts, FrontShows, FrontReports, FrontDies, FrontGone,
     FrontUnlocks, FrontCrashes, Sleep
<1> QED BY <1>2, <1>3, <1>4, <1>5

(* The event loop cannot keep itself busy: each signal it handles leaves    *)
(* less to do, although losing the seat asks for another signal, and only   *)
(* clients, logind and the seat bring more (the comment at lines 1047-1048  *)
(* is about the loop that RequestLock on Wayland would close).  This is     *)
(* what SignalsDrain rests on.                                              *)
THEOREM NoSignalLoop == Spec => [][LoadShrinks]_vars
<1>1. SLInv /\ SLInv' /\ [Next]_vars => LoadShrinks
  BY LoadStep DEF SLInv
<1> QED BY <1>1, SLInvariance, PTL DEF Spec
=============================================================================
