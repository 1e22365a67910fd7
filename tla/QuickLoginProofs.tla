---------------------------- MODULE QuickLoginProofs ----------------------------
(***************************************************************************)
(* Proofs about QuickLogin, for any bounds.  The steps of the session      *)
(* manager and of dde-lock keep the types by ScreenLockProofs; the steps   *)
(* of dde-quick-login are left.                                            *)
(*                                                                         *)
(* TimeoutMeansNeverLocked is not inductive alone: that the timer is still *)
(* running must already mean that no lock has been seen.  LockUnderWay is  *)
(* kept by the steps of both parts; GuardInv says what keeps a session     *)
(* without a password from staying open, and LossIsHeard that a crash of   *)
(* dde-lock is on its way to the program until it is acted upon.           *)
(***************************************************************************)
EXTENDS QuickLogin, ScreenLockProofs

(* The timer and the lock exclude each other. *)
TimerMeansNeverLocked == timer => ~wasLocked /\ ~ready

NotStarted == ql = "off" => ~timer /\ ~wasLocked /\ ~ready

QLInv == QLTypeOK /\ TimerMeansNeverLocked /\ NotStarted /\ TimeoutMeansNeverLocked
-----------------------------------------------------------------------------
LEMMA QLInitInv == ASSUME QLInit PROVE QLInv
<1>1. TypeOK
  BY SLInit DEF QLInit, SLInv
<1> QED BY <1>1 DEF QLInit, QLInv, QLTypeOK, TimerMeansNeverLocked, NotStarted,
        TimeoutMeansNeverLocked

(* The message that is received goes, the others stay. *)
LEMMA Received ==
    ASSUME TypeOK, NEW e, Receive(e) PROVE Tail(inbox) \in Seq(Events)
<1>1. inbox \in Seq(Events) /\ inbox # <<>>
  BY DEF TypeOK, Receive
<1> QED BY <1>1

(* Each step of dde-quick-login keeps the types of what it shares with the  *)
(* session manager and with dde-lock.                                       *)
LEMMA SharedTypes ==
    ASSUME TypeOK, QLStart \/ QLStep \/ QLTimeout \/ TriggerLogout PROVE TypeOK'
<1> USE DEF TypeOK, seatVars, history
<1>1. CASE QLStart
  BY <1>1 DEF QLStart, managerVars, frontVars
<1>2. CASE QLLocked
  BY <1>2, Received DEF QLLocked, managerVars, frontVars
<1>3. CASE QLUnlocked
  <2>1. inbox' \in Seq(Events)
    <3>1. Tail(inbox) \in Seq(Events)
      BY <1>3, Received DEF QLUnlocked
    <3>2. CASE inbox' = Tail(inbox)
      BY <3>1, <3>2
    <3>3. CASE inbox' = <<>>
      <4>1. <<>> \in Seq(Events)
        OBVIOUS
      <4> QED BY <3>3, <4>1
    <3> QED BY <1>3, <3>2, <3>3 DEF QLUnlocked
  <2>2. front' \in {"absent", "running", "dying"} /\ subscribed' \in BOOLEAN
    BY <1>3 DEF QLUnlocked
  <2> QED BY <1>3, <2>1, <2>2 DEF QLUnlocked, managerVars
<1>4. CASE QLFrontGone
  BY <1>4, Received DEF QLFrontGone, managerVars, frontVars
<1>5. CASE QLTimeout
  BY <1>5 DEF QLTimeout, vars
<1>6. CASE TriggerLogout
  BY <1>6 DEF TriggerLogout, frontVars
<1> QED BY <1>1, <1>2, <1>3, <1>4, <1>5, <1>6 DEF QLStep

(* What they do to the process's own state. *)
LEMMA OwnState ==
    ASSUME QLInv, QLStart \/ QLStep \/ QLTimeout \/ TriggerLogout, TypeOK'
    PROVE  QLInv'
<1> USE DEF QLInv, QLTypeOK, TimerMeansNeverLocked, NotStarted, TimeoutMeansNeverLocked
<1>1. CASE QLStart
  BY <1>1 DEF QLStart
<1>2. CASE QLLocked
  BY <1>2 DEF QLLocked, Receive
<1>3. CASE QLUnlocked
  <2>1. ql = "waiting" /\ UNCHANGED <<ready, loggedOut>>
    BY <1>3 DEF QLUnlocked, Receive
  <2>2. CASE wasLocked' = FALSE /\ ql' = "exited" /\ timer' = FALSE
    BY <2>1, <2>2
  <2>3. CASE UNCHANGED <<wasLocked, ql, timer>>
    BY <2>1, <2>3
  <2> QED BY <1>3, <2>2, <2>3 DEF QLUnlocked
<1>4. CASE QLFrontGone
  BY <1>4 DEF QLFrontGone, Receive
<1>5. CASE QLTimeout
  BY <1>5 DEF QLTimeout
<1>6. CASE TriggerLogout
  BY <1>6 DEF TriggerLogout
<1> QED BY <1>1, <1>2, <1>3, <1>4, <1>5, <1>6 DEF QLStep

(* A step of either part keeps both invariants: that of ScreenLock goes     *)
(* along because its own step lemma asks for it.                            *)
LEMMA QLStepInv ==
    ASSUME QLInv /\ InCallIsCleared, [QLNext]_allVars
    PROVE  QLInv' /\ InCallIsCleared'
<1>1. CASE Next /\ UNCHANGED qlVars
  <2>1. SLInv'
    BY <1>1, SLStep DEF SLInv, QLInv, QLTypeOK
  <2> QED BY <1>1, <2>1 DEF SLInv, QLInv, QLTypeOK, TimerMeansNeverLocked, NotStarted,
          TimeoutMeansNeverLocked, qlVars
<1>2. CASE QLStart \/ QLStep \/ QLTimeout \/ TriggerLogout
  <2>1. QLInv'
    BY <1>2, SharedTypes, OwnState DEF QLInv, QLTypeOK
  <2>2. UNCHANGED <<inCall, waiting>>
    BY <1>2 DEF QLStart, QLStep, QLLocked, QLUnlocked, QLFrontGone, QLTimeout, TriggerLogout,
       managerVars, vars
  <2> QED BY <2>1, <2>2 DEF InCallIsCleared, Unanswered
<1>3. CASE UNCHANGED allVars
  <2>1. UNCHANGED vars /\ UNCHANGED qlVars
    BY <1>3 DEF allVars
  <2>2. SLInv'
    BY <2>1, SLStep DEF SLInv, QLInv, QLTypeOK
  <2> QED BY <2>1, <2>2 DEF SLInv, QLInv, QLTypeOK, TimerMeansNeverLocked, NotStarted,
          TimeoutMeansNeverLocked, qlVars
<1> QED BY <1>1, <1>2, <1>3 DEF QLNext
-----------------------------------------------------------------------------
LEMMA QLInvariance == QLSpec => [](QLInv /\ InCallIsCleared)
<1>1. QLInit => QLInv /\ InCallIsCleared
  BY QLInitInv, SLInit DEF QLInit, SLInv
<1>2. QLInv /\ InCallIsCleared /\ [QLNext]_allVars => (QLInv /\ InCallIsCleared)'
  BY QLStepInv
<1> QED BY <1>1, <1>2, PTL DEF QLSpec

(* Types of the composition, for any bounds. *)
THEOREM CompositionTypeCorrect == QLSpec => []QLTypeOK
<1>1. QLInv => QLTypeOK
  BY DEF QLInv
<1> QED BY <1>1, QLInvariance, PTL

(* No timeout logs out a session that dde-quick-login has seen locked, in   *)
(* whatever order locks, unlocks, seat switches and crashes come            *)
(* (onTimeout, onLockStatusChanged).                                        *)
THEOREM TimeoutNeverHitsLocked == QLSpec => []TimeoutMeansNeverLocked
<1>1. QLInv => TimeoutMeansNeverLocked
  BY DEF QLInv
<1> QED BY <1>1, QLInvariance, PTL
-----------------------------------------------------------------------------
(* The lock that ScreenLock promises is not lost either when               *)
(* dde-quick-login starts and ends dde-lock and logs the session out.       *)
LEMMA LockInvQLStep == ASSUME LockInv, QLTypeOK, [QLNext]_allVars PROVE LockInv'
<1>1. CASE [Next]_vars
  BY <1>1, LockInvStep
<1>2. CASE QLStart \/ QLStep \/ QLTimeout \/ TriggerLogout
  <2>1. SLInv'
    <3>1. TypeOK'
      BY <1>2, SharedTypes DEF QLTypeOK
    <3>2. UNCHANGED <<inCall, waiting>>
      BY <1>2 DEF QLStart, QLStep, QLLocked, QLUnlocked, QLFrontGone, QLTimeout, TriggerLogout,
         managerVars, vars
    <3> QED BY <3>1, <3>2 DEF LockInv, SLInv, InCallIsCleared, Unanswered
  <2>2. UNCHANGED <<signals, display, active, locked, inCall, shown, reported, reports, mustLock,
                    calm>>
    BY <1>2 DEF QLStart, QLStep, QLLocked, QLUnlocked, QLFrontGone, QLTimeout, TriggerLogout,
       seatVars, managerVars, frontVars, history, vars
  <2>3. manager' = manager \/ manager' = "dead"
    BY <1>2 DEF QLStart, QLStep, QLLocked, QLUnlocked, QLFrontGone, QLTimeout, TriggerLogout,
       managerVars, vars
  <2>4. shows' = shows \/ (display = "x11" /\ shows' = shows + 1)
    BY <1>2 DEF QLStart, QLStep, QLLocked, QLUnlocked, QLFrontGone, QLTimeout, TriggerLogout, vars
  <2>5. front' = front \/ (front = "absent" /\ front' = "running")
    BY <1>2 DEF QLStart, QLStep, QLLocked, QLUnlocked, QLFrontGone, QLTimeout, TriggerLogout,
       frontVars, vars
  <2>6. NoFront' /\ OnWayland'
    BY <2>2, <2>4, <2>5 DEF LockInv, NoFront, OnWayland
  <2>7. (Certain => Intact)'
    BY <2>2, <2>3, <2>4, <2>5 DEF LockInv, SLInv, TypeOK, Certain, Intact, Shows
  <2>8. (mustLock => Sent)'
    BY <2>2, <2>4 DEF LockInv, SLInv, TypeOK, Sent, Shows, LockPending
  <2> QED BY <2>1, <2>6, <2>7, <2>8 DEF LockInv
<1>3. [Next]_vars \/ QLStart \/ QLStep \/ QLTimeout \/ TriggerLogout
  BY DEF QLNext, allVars
<1> QED BY <1>1, <1>2, <1>3

(* With dde-quick-login beside it, a session that lost the seat awake and   *)
(* at rest still ends up locked: starting dde-lock for the quick login, and *)
(* starting it once more after the first unlock, take no lock away.         *)
THEOREM LockIsNeverLostInQuickLogin == QLSpec => []LockUnderWay
<1>1. QLInit => LockInv
  BY LockInvInit DEF QLInit
<1>2. LockInv /\ QLTypeOK /\ QLTypeOK' /\ [QLNext]_allVars => LockInv'
  BY LockInvQLStep
<1>3. LockInv => LockUnderWay
  BY DEF LockInv, SLInv, TypeOK, Certain, Intact, Sent, Shows, Covered, LockUnderWay
<1>4. QLSpec => []LockInv
  BY <1>1, <1>2, CompositionTypeCorrect, PTL DEF QLSpec
<1> QED BY <1>3, <1>4, PTL
-----------------------------------------------------------------------------
(* A quick login that is held back.                                         *)

LossPending == \E i \in 1..Len(inbox) : inbox[i] = "frontGone"

(* It follows the session's events, on X11. *)
Following == ql = "waiting" => subscribed /\ display = "x11"

(* Something will get it on: the timer, unless the targets may go on        *)
(* already; and dde-lock is there or on its way, or its loss is reported.   *)
HeldBackIsGuarded ==
    ql = "waiting" =>
        /\ timer \/ ready
        /\ front # "absent" \/ shows > 0 \/ LossPending

GuardInv == QLTypeOK /\ Following /\ HeldBackIsGuarded

(* A loss of dde-lock that is reported stays in the queue until the process *)
(* has acted on it, or on something else.                                   *)
LossIsHeard == LossPending /\ ql = "waiting" => LossPending' \/ ql' # "waiting"

LEMMA LossAppend ==
    ASSUME TypeOK, NEW e \in Events, Emit(e)
    PROVE  (LossPending => LossPending') /\ (e = "frontGone" /\ subscribed => LossPending')
<1>1. inbox \in Seq(Events)
  BY DEF TypeOK
<1>2. CASE subscribed
  <2>1. inbox' = Append(inbox, e)
    BY <1>2 DEF Emit
  <2>2. Len(inbox') = Len(inbox) + 1 /\ Len(inbox) \in Nat /\ inbox'[Len(inbox) + 1] = e
    BY <1>1, <2>1
  <2>3. \A i \in 1..Len(inbox) : inbox'[i] = inbox[i]
    BY <1>1, <2>1
  <2>4. ASSUME LossPending PROVE LossPending'
    <3>1. PICK i \in 1..Len(inbox) : inbox[i] = "frontGone"
      BY <2>4 DEF LossPending
    <3>2. i \in 1..Len(inbox') /\ inbox'[i] = "frontGone"
      BY <2>2, <2>3, <3>1
    <3> QED BY <3>2 DEF LossPending
  <2>5. ASSUME e = "frontGone" PROVE LossPending'
    <3>1. Len(inbox) + 1 \in 1..Len(inbox') /\ inbox'[Len(inbox) + 1] = "frontGone"
      BY <2>2, <2>5
    <3> QED BY <3>1 DEF LossPending
  <2> QED BY <2>4, <2>5
<1>3. CASE ~subscribed
  BY <1>3 DEF Emit, LossPending
<1> QED BY <1>2, <1>3

LEMMA LossTail ==
    ASSUME TypeOK, NEW e, e # "frontGone", Receive(e), inbox' = Tail(inbox), LossPending
    PROVE  LossPending'
<1>1. inbox \in Seq(Events) /\ inbox # <<>>
  BY DEF TypeOK, Receive
<1>2. Head(inbox) = inbox[1]
  BY <1>1
<1>3. inbox[1] # "frontGone"
  BY <1>2 DEF Receive
<1>4. PICK i \in 1..Len(inbox) : inbox[i] = "frontGone"
  BY DEF LossPending
<1>5. i # 1 /\ i - 1 \in 1..(Len(inbox) - 1)
  BY <1>1, <1>3, <1>4
<1>6. Len(inbox') = Len(inbox) - 1 /\ inbox'[i - 1] = inbox[i]
  BY <1>1, <1>5
<1> QED BY <1>4, <1>5, <1>6 DEF LossPending

(* What the session manager and dde-lock do to a quick login that waits.    *)
LEMMA SharedStep ==
    ASSUME TypeOK, [Next]_vars
    PROVE  /\ UNCHANGED <<subscribed, display>>
           /\ LossPending => LossPending'
           /\ front' # "absent" \/ front = "absent" \/ (subscribed => LossPending')
           /\ shows' > 0 \/ shows' = 0
           /\ shows > 0 => shows' > 0 \/ front' # "absent"
<1>1. UNCHANGED <<subscribed, display>>
  BY DEF Next, vars, seatVars, Manager, HandleLock, HandleUnlock, KillFront, FinishUnlock,
     HandleInactive, HandleActive, SetLocked, RequestLock, ShowFinished, Front, FrontStarts,
     FrontShows, FrontReports, FrontDies, FrontUnlocks, FrontCrashes, FrontGone, LogindSignal,
     SwitchSeat, Sleep
<1>2. /\ shows' = shows \/ (\E c \in Callers : CallShow(c)) \/ FrontShows
  BY DEF Next, vars, seatVars, Manager, HandleLock, HandleUnlock, KillFront, FinishUnlock,
     HandleInactive, HandleActive, SetLocked, RequestLock, ShowFinished, Front, FrontStarts,
     FrontReports, FrontDies, FrontUnlocks, FrontCrashes, FrontGone, LogindSignal,
     SwitchSeat, Sleep, Callers
<1>3. shows \in Nat
  BY DEF TypeOK
<1>4. (shows' > 0 \/ shows' = 0) /\ (shows > 0 => shows' > 0 \/ front' # "absent")
  BY <1>2, <1>3 DEF CallShow, FrontShows
<1>5. CASE FrontGone
  BY <1>1, <1>4, <1>5, LossAppend DEF FrontGone, Events
<1>6. CASE ~FrontGone
  <2>1. front' = front \/ front' # "absent"
    BY <1>6 DEF Next, vars, seatVars, frontVars, Manager, HandleLock, HandleUnlock, KillFront,
       FinishUnlock, HandleInactive, HandleActive, SetLocked, RequestLock, ShowFinished, Front,
       FrontStarts, FrontShows, FrontReports, FrontDies, FrontUnlocks, FrontCrashes, LogindSignal,
       SwitchSeat, Sleep
  <2>2. inbox' = inbox \/ \E e \in Events : Emit(e)
    BY <1>6 DEF Next, vars, seatVars, Manager, HandleLock, HandleUnlock, KillFront, FinishUnlock,
       HandleInactive, HandleActive, SetLocked, RequestLock, ShowFinished, Front, FrontStarts,
       FrontShows, FrontReports, FrontDies, FrontUnlocks, FrontCrashes, LogindSignal,
       SwitchSeat, Sleep, EmitLocked, Events
  <2>3. LossPending => LossPending'
    BY <2>2, LossAppend DEF LossPending
  <2> QED BY <1>1, <1>4, <2>1, <2>3
<1> QED BY <1>5, <1>6

LEMMA GuardStep ==
    ASSUME GuardInv, QLTypeOK', [QLNext]_allVars PROVE GuardInv' /\ LossIsHeard
<1> USE DEF GuardInv, Following, HeldBackIsGuarded, LossIsHeard
<1>1. TypeOK
  BY DEF QLTypeOK
<1>2. CASE [Next]_vars /\ UNCHANGED qlVars
  BY <1>1, <1>2, SharedStep DEF qlVars
<1>3. CASE QLStart
  <2>1. shows' > 0
    BY <1>1, <1>3 DEF QLStart, TypeOK
  <2> QED BY <1>3, <2>1 DEF QLStart, seatVars
<1>4. CASE QLLocked
  <2>1. LossPending => LossPending'
    BY <1>1, <1>4, LossTail DEF QLLocked
  <2> QED BY <1>4, <2>1 DEF QLLocked, Receive, seatVars, frontVars
<1>5. CASE QLUnlocked
  <2>1. CASE ql' = "exited"
    BY <2>1
  <2>2. CASE inbox' = Tail(inbox) /\ UNCHANGED <<wasLocked, ql, timer, subscribed, front>>
    <3>1. LossPending => LossPending'
      BY <1>1, <1>5, <2>2, LossTail DEF QLUnlocked
    <3> QED BY <1>5, <2>2, <3>1 DEF QLUnlocked, Receive, seatVars
  <2> QED BY <1>5, <2>1, <2>2 DEF QLUnlocked
<1>6. CASE QLFrontGone \/ QLTimeout
  BY <1>6 DEF QLFrontGone, QLTimeout
<1>7. CASE TriggerLogout
  BY <1>7 DEF TriggerLogout
<1>8. ([Next]_vars /\ UNCHANGED qlVars) \/ QLStart \/ QLStep \/ QLTimeout \/ TriggerLogout
  BY DEF QLNext, allVars
<1> QED BY <1>2, <1>3, <1>4, <1>5, <1>6, <1>7, <1>8 DEF QLStep

LEMMA GuardHolds == QLSpec => []GuardInv
<1>1. QLInit => GuardInv
  BY QLInitInv DEF QLInit, QLInv, GuardInv, Following, HeldBackIsGuarded
<1>2. GuardInv /\ QLTypeOK' /\ [QLNext]_allVars => GuardInv'
  BY GuardStep
<1> QED BY <1>1, <1>2, CompositionTypeCorrect, PTL DEF QLSpec

(* A quick login is never held back with nothing that would end it: the     *)
(* timer runs until READY=1 has been sent, and dde-lock is there, is being  *)
(* started, or its loss is on the way to serviceUnregistered.               *)
THEOREM NeverHeldUnguarded == QLSpec => []HeldBackIsGuarded
<1>1. GuardInv => HeldBackIsGuarded
  BY DEF GuardInv
<1> QED BY <1>1, GuardHolds, PTL

(* No event of the session makes dde-quick-login pass over the loss of      *)
(* dde-lock: it stays due until the process logs out or has ended           *)
(* (serviceUnregistered, onLockStatusChanged).                              *)
THEOREM CrashIsNeverPassedOver == QLSpec => [][LossIsHeard]_allVars
<1>1. GuardInv /\ QLTypeOK' /\ [QLNext]_allVars => [LossIsHeard]_allVars
  BY GuardStep
<1> QED BY <1>1, GuardHolds, CompositionTypeCorrect, PTL DEF QLSpec
=============================================================================
