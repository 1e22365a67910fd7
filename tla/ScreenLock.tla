------------------------------ MODULE ScreenLock ------------------------------
(***************************************************************************)
(* The lock state of one session (src/src/dde-session/impl/                *)
(* sessionmanager.cpp): m_locked and m_inCallRequestLock of the session    *)
(* manager, driven by logind's Lock, Unlock and ActiveChanged signals, by  *)
(* clients of SessionManager1, and by the lock screen dde-lock, which owns *)
(* org.deepin.dde.LockFront1.  On X11 the session manager shows dde-lock   *)
(* with an asynchronous call and learns the outcome from SetLocked; on     *)
(* Wayland treeland locks on the same logind signal and only the state is  *)
(* mirrored.                                                               *)
(*                                                                         *)
(* dde-lock, logind and the seat are modelled from how this code uses them.*)
(***************************************************************************)
EXTENDS Naturals, Sequences

CONSTANTS
    Displays,     \* which of {"x11", "wayland"} are looked at
    MaxLogind,    \* bound: Lock and Unlock calls on logind by others
    MaxSwitch,    \* bound: how often the session loses or gains the seat
    MaxRequest,   \* bound: RequestLock calls by clients
    MaxUnlock,    \* bound: passwords typed into the lock screen
    MaxSleep,     \* bound: suspends
    MaxCrash      \* bound: crashes of dde-lock

ASSUME DisplaysAssumption == Displays \subseteq {"x11", "wayland"}
ASSUME BoundsAssumption   ==
    /\ MaxLogind \in Nat /\ MaxSwitch \in Nat /\ MaxRequest \in Nat
    /\ MaxUnlock \in Nat /\ MaxSleep \in Nat /\ MaxCrash \in Nat

Bounds  == {"logind", "switch", "request", "unlock", "sleep", "crash"}
Signals == {"Lock", "Unlock", "Active", "Inactive"}
Callers == {"handler", "client"}
Events  == {"locked", "unlocked", "frontGone"}

VARIABLES
    display,     \* Utils::IS_WAYLAND_DISPLAY
    active,      \* logind: the session owns the seat
    preparing,   \* logind: between PrepareForSleep(true) and (false)
    signals,     \* logind signals the session manager has not dispatched
    manager,     \* the session manager: "idle", inside handleLoginSessionUnlocked, "dead"
    locked,      \* m_locked
    inCall,      \* m_inCallRequestLock
    waiting,     \* per caller of RequestLock: Show calls without an answer
    shows,       \* Show calls that have not reached dde-lock
    front,       \* the dde-lock process
    shown,       \* dde-lock covers the screen
    reported,    \* the last value dde-lock passed to SetLocked
    reports,     \* SetLocked calls the session manager has not dispatched
    subscribed,  \* another process (QuickLogin) receives the events below
    inbox,       \* LockedChanged and NameOwnerChanged(LockFront1) in bus order
    mustLock,    \* history: the seat was lost awake, nobody has unlocked since
    calm,        \* history: nothing was under way when the seat was lost
    left         \* how much of each bound is left

seatVars    == <<display, active, preparing>>
managerVars == <<manager, locked, inCall, waiting>>
frontVars   == <<front, shown, reported>>
vars == <<display, active, preparing, signals, manager, locked, inCall, waiting, shows,
          front, shown, reported, reports, subscribed, inbox, mustLock, calm, left>>
history == <<mustLock, calm>>

TypeOK ==
    /\ display \in {"x11", "wayland"} /\ active \in BOOLEAN /\ preparing \in BOOLEAN
    /\ signals \in Seq(Signals)
    /\ manager \in {"idle", "killing", "emitting", "dead"}
    /\ locked \in BOOLEAN /\ inCall \in BOOLEAN
    /\ waiting \in [Callers -> Nat] /\ shows \in Nat
    /\ front \in {"absent", "running", "dying"}
    /\ shown \in BOOLEAN /\ reported \in BOOLEAN /\ reports \in Seq(BOOLEAN)
    /\ subscribed \in BOOLEAN /\ inbox \in Seq(Events)
    /\ mustLock \in BOOLEAN /\ calm \in BOOLEAN /\ left \in [Bounds -> Nat]

Init ==
    /\ display \in Displays /\ active = TRUE /\ preparing = FALSE /\ signals = <<>>
    /\ manager = "idle" /\ locked = FALSE /\ inCall = FALSE
    /\ waiting = [c \in Callers |-> 0] /\ shows = 0
    /\ front \in {"absent", "running"} /\ shown = FALSE /\ reported = FALSE /\ reports = <<>>
    /\ subscribed = FALSE /\ inbox = <<>> /\ mustLock = FALSE /\ calm = FALSE
    /\ left = [b \in Bounds |-> CASE b = "logind"  -> MaxLogind
                                  [] b = "switch"  -> MaxSwitch
                                  [] b = "request" -> MaxRequest
                                  [] b = "unlock"  -> MaxUnlock
                                  [] b = "sleep"   -> MaxSleep
                                  [] OTHER         -> MaxCrash]

Spend(bound) == left[bound] > 0 /\ left' = [left EXCEPT ![bound] = @ - 1]
Emit(event)  == inbox' = IF subscribed THEN Append(inbox, event) ELSE inbox
Unanswered   == \E c \in Callers : waiting[c] > 0
EmitLocked(b) == Emit(IF b THEN "locked" ELSE "unlocked")
-----------------------------------------------------------------------------
(* The session manager's event loop.  Signals of logind and calls of        *)
(* clients come over different buses, so only each kind is in order.        *)

Dispatch(signal) ==
    /\ manager = "idle" /\ signals # <<>> /\ Head(signals) = signal

(* asyncCall("Show") with a watcher for the answer. *)
CallShow(caller) ==
    /\ waiting' = [waiting EXCEPT ![caller] = @ + 1]
    /\ shows' = shows + 1

(* RequestLock, called by a client: on Wayland logind is asked to lock and  *)
(* emits its Lock signal, on X11 dde-lock is asked to show itself.          *)
RequestLock ==
    /\ manager = "idle" /\ Spend("request")
    /\ \/ /\ display = "wayland"
          /\ signals' = Append(signals, "Lock") /\ inCall' = FALSE
          /\ UNCHANGED <<waiting, shows>>
       \/ display = "x11" /\ CallShow("client") /\ UNCHANGED <<signals, inCall>>
    /\ UNCHANGED <<seatVars, manager, locked, frontVars, reports, subscribed, inbox, history>>

(* Mutant: the flag is only reset when Show succeeded, which it may not. *)
ShowFinishedKeepsFlag(caller) ==
    /\ manager = "idle" /\ waiting[caller] > 0
    /\ waiting' = [waiting EXCEPT ![caller] = @ - 1]
    /\ inCall' \in {FALSE, inCall}
    /\ UNCHANGED <<seatVars, signals, manager, locked, shows, frontVars, reports,
                   subscribed, inbox, history, left>>

(* Mutant: the watcher fires although nothing was called. *)
ShowFinishedUnasked(caller) ==
    /\ manager = "idle"
    /\ waiting' = [waiting EXCEPT ![caller] = @ - 1]
    /\ inCall' = FALSE
    /\ UNCHANGED <<seatVars, signals, manager, locked, shows, frontVars, reports,
                   subscribed, inbox, history, left>>

(* The watcher's slot: an answer, an error or the call's timeout. *)
ShowFinished(caller) ==
    /\ manager = "idle" /\ waiting[caller] > 0
    /\ waiting' = [waiting EXCEPT ![caller] = @ - 1]
    /\ inCall' = FALSE
    /\ UNCHANGED <<seatVars, signals, manager, locked, shows, frontVars, reports,
                   subscribed, inbox, history, left>>

(* Mutant: on Wayland, too, the handler calls RequestLock. *)
HandleLockRequests ==
    /\ Dispatch("Lock")
    /\ \/ /\ locked \/ (display = "x11" /\ inCall)
          /\ signals' = Tail(signals) /\ UNCHANGED <<inCall, waiting, shows>>
       \/ /\ ~locked /\ display = "wayland"
          /\ signals' = Append(Tail(signals), "Lock") /\ inCall' = FALSE
          /\ UNCHANGED <<waiting, shows>>
       \/ /\ ~locked /\ display = "x11" /\ ~inCall
          /\ signals' = Tail(signals) /\ inCall' = TRUE /\ CallShow("handler")
    /\ UNCHANGED <<locked, inbox, seatVars, manager, frontVars, reports, subscribed, history,
                   left>>

(* handleLoginSessionLocked. *)
HandleLock ==
    /\ Dispatch("Lock") /\ signals' = Tail(signals)
    /\ \/ /\ locked \/ (display = "x11" /\ inCall)
          /\ UNCHANGED <<locked, inCall, waiting, shows, inbox>>
       \/ /\ ~locked /\ display = "wayland"
          /\ locked' = TRUE /\ EmitLocked(TRUE)
          /\ UNCHANGED <<inCall, waiting, shows>>
       \/ /\ ~locked /\ display = "x11" /\ ~inCall
          /\ inCall' = TRUE /\ CallShow("handler")
          /\ UNCHANGED <<locked, inbox>>
    /\ UNCHANGED <<seatVars, manager, frontVars, reports, subscribed, history, left>>

(* handleLoginSessionUnlocked up to the question who owns LockFront1.  For  *)
(* an active session the Unlock signal makes dde-lock hide.                 *)
HandleUnlock ==
    /\ Dispatch("Unlock") /\ signals' = Tail(signals)
    /\ \/ /\ display = "wayland"
          /\ locked' = FALSE /\ EmitLocked(FALSE) /\ UNCHANGED <<manager, shown>>
       \/ /\ display = "x11" /\ active
          /\ shown' = FALSE /\ UNCHANGED <<manager, locked, inbox>>
       \/ /\ display = "x11" /\ ~active
          /\ manager' = "killing" /\ UNCHANGED <<locked, shown, inbox>>
    /\ mustLock' = FALSE /\ calm' = FALSE
    /\ UNCHANGED <<seatVars, inCall, waiting, shows, front, reported, reports, subscribed, left>>

(* GetNameOwner, GetConnectionUnixProcessID, kill.  Without an owner the    *)
(* handler returns if the error is already there when isError() is asked,   *)
(* which does not wait; otherwise value() of the failed reply converts to   *)
(* pid 0, and "kill 0" ends the process group of the session manager.       *)
KillFront ==
    /\ manager = "killing"
    /\ \/ front # "absent" /\ front' = "dying" /\ manager' = "emitting"
       \/ front = "absent" /\ manager' \in {"idle", "dead"} /\ UNCHANGED front
    /\ UNCHANGED <<seatVars, signals, locked, inCall, waiting, shows, shown, reported, reports,
                   subscribed, inbox, history, left>>

(* Unlock is emitted, m_locked reset and LockedChanged(false) sent. *)
FinishUnlock ==
    /\ manager = "emitting" /\ manager' = "idle"
    /\ locked' = FALSE /\ EmitLocked(FALSE)
    /\ shown' = FALSE
    /\ UNCHANGED <<seatVars, signals, inCall, waiting, shows, front, reported, reports,
                   subscribed, history, left>>

(* SetLocked: the caller's process must still be there and be dde-lock.     *)
SetLocked ==
    /\ manager = "idle" /\ reports # <<>> /\ reports' = Tail(reports)
    /\ \/ /\ front # "absent" /\ locked' = Head(reports) /\ EmitLocked(Head(reports))
       \/ front = "absent" /\ UNCHANGED <<locked, inbox>>
    /\ UNCHANGED <<seatVars, signals, manager, inCall, waiting, shows, frontVars, subscribed,
                   history, left>>

(* ActiveChanged(false): ask logind to lock unless the machine is going to  *)
(* sleep at the time of asking.  ActiveChanged(true) concerns PowerMode.    *)
HandleInactive ==
    /\ Dispatch("Inactive")
    /\ \/ ~preparing /\ signals' = Append(Tail(signals), "Lock") /\ mustLock' = calm
       \/ preparing /\ signals' = Tail(signals) /\ UNCHANGED mustLock
    /\ UNCHANGED <<calm, seatVars, managerVars, shows, frontVars, reports, subscribed, inbox, left>>

HandleActive ==
    /\ Dispatch("Active") /\ signals' = Tail(signals)
    /\ UNCHANGED <<seatVars, managerVars, shows, frontVars, reports, subscribed, inbox,
                   history, left>>
-----------------------------------------------------------------------------
(* dde-lock, started by the bus for a Show call; external. *)

FrontStarts ==
    /\ display = "x11" /\ front = "absent" /\ shows > 0
    /\ front' = "running" /\ reported' = FALSE
    /\ UNCHANGED <<seatVars, signals, managerVars, shows, shown, reports, subscribed, inbox,
                   history, left>>

FrontShows ==
    /\ front = "running" /\ shows > 0
    /\ shows' = 0 /\ shown' = TRUE
    /\ UNCHANGED <<seatVars, signals, managerVars, front, reported, reports, subscribed, inbox,
                   history, left>>

FrontReports ==
    /\ front \in {"running", "dying"} /\ reported # shown
    /\ reported' = shown /\ reports' = Append(reports, shown)
    /\ UNCHANGED <<seatVars, signals, managerVars, shows, front, shown, subscribed, inbox,
                   history, left>>

(* The user types the password. *)
FrontUnlocks ==
    /\ active /\ front = "running" /\ shown /\ Spend("unlock")
    /\ shown' = FALSE /\ mustLock' = FALSE
    /\ UNCHANGED <<calm, seatVars, signals, managerVars, shows, front, reported, reports, subscribed,
                   inbox>>

FrontGone ==
    /\ front' = "absent" /\ shown' = FALSE /\ reported' = FALSE /\ Emit("frontGone")
    /\ UNCHANGED <<seatVars, signals, managerVars, shows, reports, subscribed>>

FrontDies == front = "dying" /\ FrontGone /\ UNCHANGED <<history, left>>

FrontCrashes ==
    /\ front = "running" /\ Spend("crash")
    /\ FrontGone /\ mustLock' = FALSE /\ calm' = FALSE
-----------------------------------------------------------------------------
(* logind and the seat; external. *)

LogindSignal ==
    /\ Spend("logind")
    /\ \E s \in {"Lock", "Unlock"} : signals' = Append(signals, s)
    /\ UNCHANGED <<seatVars, managerVars, shows, frontVars, reports, subscribed, inbox, history>>

AtRest ==
    /\ manager = "idle" /\ signals = <<>> /\ reports = <<>> /\ ~Unanswered
    /\ front # "dying" /\ reported = shown /\ (display = "x11" => locked = shown)

SwitchSeat ==
    /\ Spend("switch")
    /\ active' = ~active
    /\ signals' = Append(signals, IF active THEN "Inactive" ELSE "Active")
    /\ calm' = (active /\ AtRest)
    /\ UNCHANGED <<display, preparing, managerVars, shows, frontVars, reports, subscribed, inbox,
                   mustLock>>

Sleep ==
    /\ \/ ~preparing /\ Spend("sleep") /\ preparing' = TRUE
       \/ preparing /\ preparing' = FALSE /\ UNCHANGED left
    /\ UNCHANGED <<display, active, signals, managerVars, shows, frontVars, reports, subscribed,
                   inbox, history>>

Manager ==
    \/ HandleLock \/ HandleUnlock \/ KillFront \/ FinishUnlock \/ HandleInactive \/ HandleActive
Front == FrontStarts \/ FrontShows \/ FrontReports \/ FrontDies

Next ==
    \/ Manager \/ SetLocked \/ RequestLock
    \/ \E c \in Callers : ShowFinished(c)
    \/ Front \/ FrontUnlocks \/ FrontCrashes
    \/ LogindSignal \/ SwitchSeat \/ Sleep

Spec == Init /\ [][Next]_vars

(* The event loop drains its queues, D-Bus answers or times out, dde-lock   *)
(* does what it was asked; people and logind may do nothing.                *)
Fairness ==
    /\ WF_vars(Manager) /\ WF_vars(SetLocked)
    /\ \A c \in Callers : WF_vars(ShowFinished(c))
    /\ WF_vars(FrontStarts) /\ WF_vars(FrontShows) /\ WF_vars(FrontReports) /\ WF_vars(FrontDies)

FairSpec == Spec /\ Fairness
-----------------------------------------------------------------------------
(* A set m_inCallRequestLock has a Show call under way whose end will clear *)
(* it; otherwise every later Lock signal would be dropped for ever          *)
(* (handleLoginSessionLocked, line 1056).                                   *)
InCallIsCleared == inCall => Unanswered

(* A session that lost the seat while the machine was awake ends up locked  *)
(* and covered, unless somebody unlocked it meanwhile or dde-lock crashed.  *)
(* That holds if nothing was under way at that moment: with an unlock not   *)
(* yet reported, or a Show not yet answered, the Lock handler returns early *)
(* on a stale m_locked or m_inCallRequestLock.                              *)
Covered == locked /\ (display = "x11" => shown)
LeavingLocks == mustLock ~> (Covered \/ ~mustLock \/ manager = "dead")

(* At no moment of this is the lock lost: the session is covered, or the    *)
(* Lock signal, the call of Show or the answer of dde-lock is still on its  *)
(* way.  The early returns of handleLoginSessionLocked (lines 1051-1059)    *)
(* never drop the one Lock signal that counts.                              *)
LockPending == \E i \in 1..Len(signals) : signals[i] = "Lock"
LockUnderWay ==
    mustLock =>
        \/ Covered \/ LockPending
        \/ display = "x11" /\ (shows > 0 \/ (shown /\ (~reported \/ reports # <<>>)))

(* The session manager comes to rest: on Wayland it must not answer a Lock  *)
(* signal with a call that makes logind send the next one (comment at lines *)
(* 1047-1048).                                                              *)
SignalsDrain == []<>(signals = <<>> \/ manager = "dead")
=============================================================================
