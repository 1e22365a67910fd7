------------------------------ MODULE QuickLogin ------------------------------
(***************************************************************************)
(* ScreenLock composed with dde-quick-login (src/tools/dde-quick-login):   *)
(* after a login without a password the desktop is held back until the     *)
(* session is locked, and the session is logged out when that fails.       *)
(*                                                                         *)
(* dde-quick-login knows the session only through two kinds of bus         *)
(* messages, LockedChanged of SessionManager1 and the loss of the name     *)
(* LockFront1, which reach it in the order the bus saw them.               *)
(***************************************************************************)
EXTENDS ScreenLock

VARIABLES
    ql,         \* dde-quick-login; "timedOut" and "frontGone": in triggerLogout
    timer,      \* m_timeoutTimer is running
    wasLocked,  \* m_wasLocked
    ready,      \* READY=1 was sent: the session's targets may go on
    loggedOut   \* SessionManager1.RequestLogout was carried out

qlVars  == <<ql, timer, wasLocked, ready, loggedOut>>
allVars == <<vars, qlVars>>

QLTypeOK ==
    /\ TypeOK
    /\ ql \in {"off", "waiting", "timedOut", "frontGone", "exited"}
    /\ timer \in BOOLEAN /\ wasLocked \in BOOLEAN
    /\ ready \in BOOLEAN /\ loggedOut \in BOOLEAN

QLInit ==
    /\ Init
    /\ ql = "off" /\ timer = FALSE /\ wasLocked = FALSE /\ ready = FALSE /\ loggedOut = FALSE
-----------------------------------------------------------------------------
(* Mutant: the timer is left to whoever calls start(). *)
QLStartNoTimer ==
    /\ ql = "off" /\ display = "x11" /\ manager # "dead"
    /\ ql' = "waiting" /\ subscribed' = TRUE /\ shows' = shows + 1
    /\ UNCHANGED <<timer, wasLocked, ready, loggedOut, seatVars, signals, managerVars, frontVars,
                   reports, inbox, history, left>>

(* Constructor and start(): follow LockedChanged, start the timer, run      *)
(* "dde-lock -lq", which locks, and watch its name, whether a dde-lock is   *)
(* there already or not.  The unit exists for X11 only.                     *)
QLStart ==
    /\ ql = "off" /\ display = "x11" /\ manager # "dead"
    /\ ql' = "waiting" /\ timer' = TRUE
    /\ subscribed' = TRUE /\ shows' = shows + 1
    /\ UNCHANGED <<wasLocked, ready, loggedOut, seatVars, signals, managerVars, frontVars, reports,
                   inbox, history, left>>

Receive(event) ==
    /\ ql = "waiting" /\ inbox # <<>> /\ Head(inbox) = event

(* Mutant: the lock does not stop the timer. *)
QLLockedKeepsTimer ==
    /\ Receive("locked") /\ inbox' = Tail(inbox)
    /\ wasLocked' = TRUE /\ ready' = TRUE
    /\ UNCHANGED <<ql, timer, loggedOut, seatVars, signals, managerVars, shows, frontVars, reports,
                   subscribed, history, left>>

(* onLockStatusChanged(true). *)
QLLocked ==
    /\ Receive("locked") /\ inbox' = Tail(inbox)
    /\ wasLocked' = TRUE /\ timer' = FALSE /\ ready' = TRUE
    /\ UNCHANGED <<ql, loggedOut, seatVars, signals, managerVars, shows, frontVars, reports,
                   subscribed, history, left>>

(* onLockStatusChanged(false): the first one after a lock ends the process, *)
(* and OnSuccess= of its unit starts dde-lock.service.                      *)
QLUnlocked ==
    /\ Receive("unlocked")
    /\ \/ /\ wasLocked /\ wasLocked' = FALSE /\ ql' = "exited" /\ timer' = FALSE
          /\ subscribed' = FALSE /\ inbox' = <<>>
          /\ front' = IF front = "absent" THEN "running" ELSE front
       \/ /\ ~wasLocked /\ inbox' = Tail(inbox)
          /\ UNCHANGED <<wasLocked, ql, timer, subscribed, front>>
    /\ UNCHANGED <<ready, loggedOut, seatVars, signals, managerVars, shows, shown, reported, reports,
                   history, left>>

(* Mutant: once the lock was seen, the end of dde-lock no longer counts. *)
QLFrontGoneIgnored ==
    /\ Receive("frontGone") /\ inbox' = Tail(inbox)
    /\ ql' = IF wasLocked THEN ql ELSE "frontGone"
    /\ UNCHANGED <<timer, wasLocked, ready, loggedOut, seatVars, signals, managerVars, shows,
                   frontVars, reports, subscribed, history, left>>

(* serviceUnregistered for LockFront1. *)
QLFrontGone ==
    /\ Receive("frontGone") /\ inbox' = Tail(inbox)
    /\ ql' = "frontGone"
    /\ UNCHANGED <<timer, wasLocked, ready, loggedOut, seatVars, signals, managerVars, shows,
                   frontVars, reports, subscribed, history, left>>

QLTimeout ==
    /\ ql = "waiting" /\ timer
    /\ timer' = FALSE /\ ql' = "timedOut"
    /\ UNCHANGED <<wasLocked, ready, loggedOut, vars>>

(* triggerLogout is a blocking call of RequestLogout; SessionLifecycle      *)
(* models what it starts, here the session manager is gone afterwards.      *)
TriggerLogout ==
    /\ ql \in {"timedOut", "frontGone"} /\ manager = "idle"
    /\ loggedOut' = TRUE /\ manager' = "dead"
    /\ UNCHANGED <<ql, timer, wasLocked, ready, seatVars, signals, locked, inCall, waiting, shows,
                   frontVars, reports, subscribed, inbox, history, left>>

QLStep == QLLocked \/ QLUnlocked \/ QLFrontGone

QLNext ==
    \/ Next /\ UNCHANGED qlVars
    \/ QLStart \/ QLStep \/ QLTimeout \/ TriggerLogout

QLSpec == QLInit /\ [][QLNext]_allVars

QLFairness ==
    /\ WF_allVars(Manager /\ UNCHANGED qlVars)
    /\ WF_allVars(SetLocked /\ UNCHANGED qlVars)
    /\ \A c \in Callers : WF_allVars(ShowFinished(c) /\ UNCHANGED qlVars)
    /\ WF_allVars(Front /\ UNCHANGED qlVars)
    /\ WF_allVars(QLStep) /\ WF_allVars(QLTimeout) /\ WF_allVars(TriggerLogout)

QLFairSpec == QLSpec /\ QLFairness
-----------------------------------------------------------------------------
(* A quick login never stays open: the desktop is held back until the       *)
(* session is locked, or the session is logged out.                         *)
QuickLoginLocksOrLogsOut == (ql = "waiting") ~> (ready \/ loggedOut \/ manager = "dead")

(* Until the password has been typed the lock screen may not go away: a     *)
(* crash of dde-lock ends the session, unless it was unlocked before.       *)
CrashLogsOut ==
    (ql = "waiting" /\ \E i \in 1..Len(inbox) : inbox[i] = "frontGone")
        ~> (loggedOut \/ ql = "exited" \/ manager = "dead")

(* Whatever is under way, no timeout logs out a session that this process   *)
(* has seen locked and let go on: the timer and the lock exclude each other *)
(* (onTimeout, onLockStatusChanged).                                        *)
TimeoutMeansNeverLocked == ql = "timedOut" => ~wasLocked /\ ~ready

(* Comment at lines 1084-1086 of sessionmanager.cpp: killing the lock       *)
(* screen of an inactive session that logind unlocks makes no obvious       *)
(* problem; in particular a quick login that was locked and is then         *)
(* unlocked is not logged out for it.  (Checked without crashes.)           *)
UnlockKeepsSession == ~(loggedOut /\ ql = "frontGone" /\ wasLocked)
=============================================================================
