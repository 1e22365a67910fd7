------------------------------ MODULE PowerMode ------------------------------
(***************************************************************************)
(* The power mode of the machine, shared by the session managers of all    *)
(* logged-in users (src/src/dde-session/impl/sessionmanager.cpp).          *)
(*                                                                         *)
(* org.deepin.dde.Power1 keeps one user-chosen Mode and one applied        *)
(* TlpMode.  A request to sleep or to power off writes TlpMode :=          *)
(* performance first; after the wake-up the session manager of the active  *)
(* session puts it back with recoverySystemPowerMode, which makes up to    *)
(* six separate blocking D-Bus calls.  Every call is one step here: other  *)
(* sessions, logind, the user and the power daemon act in between, while   *)
(* the signals for the blocked session wait in its event queue.            *)
(***************************************************************************)
EXTENDS Naturals, Sequences

CONSTANTS
    Sessions,        \* graphical sessions, one session manager each
    NoSession,       \* nobody is active on the seat (the greeter is)
    OtherModes,      \* the values of Mode the code does not name
    NoSuspendFile,   \* /etc/deepin/no_suspend exists
    MaxSwitch,       \* bound: how often the seat changes hands
    MaxRequest,      \* bound: sleep and power-off requests
    MaxUser,         \* bound: changes of Mode by the user
    MaxFault         \* bound: D-Bus calls that fail or time out

Performance == "performance"
PowerSave   == "powersave"
LowBattery  == "lowBattery"

ASSUME SessionsAssumption == NoSession \notin Sessions
ASSUME ModesAssumption    == {Performance, PowerSave, LowBattery} \cap OtherModes = {}
ASSUME BoundsAssumption   ==
    /\ NoSuspendFile \in BOOLEAN
    /\ MaxSwitch \in Nat /\ MaxRequest \in Nat /\ MaxUser \in Nat /\ MaxFault \in Nat

Modes    == OtherModes \cup {Performance, PowerSave}
TlpModes == Modes \cup {LowBattery}
Bounds   == {"switch", "request", "user", "fault"}
Signals  == {"start", "wake", "active", "inactive"}
PCs      == {"idle", "getTlp", "getMode", "battery", "recheck", "restore",
             "reqSleep", "reqOff", "callSleep", "callOff", "exited"}
Faults   == {"getFailed", "setFailed", "late", "refused", "stale", "poweroff"}

VARIABLES
    active,      \* logind: the session that owns the seat
    asked,       \* logind: a Suspend or Hibernate call is on its way
    preparing,   \* logind: between PrepareForSleep(true) and (false)
    mode, tlp,   \* Power1: the Mode and TlpMode properties
    lowCharge,   \* Power1: HasBattery and BatteryCapacity <= 20
    late,        \* Power1: values of SetTlpMode calls whose caller gave up
    queue,       \* per session: signals its event loop has not dispatched
    pc,          \* per session: the D-Bus call its main thread makes next
    seenTlp,     \* per session: local tlpMode of recoverySystemPowerMode
    target,      \* per session: local mode of recoverySystemPowerMode
    faults,      \* history: what went wrong since the last chance to restore
    left         \* how much of each bound is left

envVars  == <<active, asked, preparing>>
busVars  == <<mode, tlp, lowCharge, late>>
sessVars == <<queue, pc, seenTlp, target>>
vars     == <<active, asked, preparing, mode, tlp, lowCharge, late,
              queue, pc, seenTlp, target, faults, left>>

(* The mode recoverySystemPowerMode aims for. *)
Effective(m) == IF m = PowerSave /\ lowCharge THEN LowBattery ELSE m

(* What the code accepts as restored: it compares TlpMode with Mode before *)
(* and after it looks at the battery, and returns when either matches.     *)
Fits(t, m)  == t \in {m, Effective(m)}
Restored    == Fits(tlp, mode)

Spend(bound) == left[bound] > 0 /\ left' = [left EXCEPT ![bound] = @ - 1]
Goto(s, l)   == pc' = [pc EXCEPT ![s] = l]

(* A return of recoverySystemPowerMode; its locals cease to exist. *)
Return(s) ==
    /\ Goto(s, "idle")
    /\ seenTlp' = [seenTlp EXCEPT ![s] = Performance]
    /\ target'  = [target EXCEPT ![s] = Performance]

TypeOK ==
    /\ active \in Sessions \cup {NoSession}
    /\ asked \in BOOLEAN /\ preparing \in BOOLEAN /\ lowCharge \in BOOLEAN
    /\ mode \in Modes /\ tlp \in TlpModes /\ late \in SUBSET TlpModes
    /\ queue \in [Sessions -> Seq(Signals)]
    /\ pc \in [Sessions -> PCs]
    /\ seenTlp \in [Sessions -> TlpModes] /\ target \in [Sessions -> TlpModes]
    /\ faults \in SUBSET Faults
    /\ left \in [Bounds -> Nat]

(* init() queues one recovery with QTimer::singleShot(0).  TlpMode may be  *)
(* anything a previous boot or session left behind.                        *)
Init ==
    /\ active \in Sessions \cup {NoSession}
    /\ asked = FALSE /\ preparing = FALSE
    /\ mode \in Modes /\ tlp \in TlpModes /\ lowCharge \in BOOLEAN /\ late = {}
    /\ queue = [s \in Sessions |-> <<"start">>]
    /\ pc = [s \in Sessions |-> "idle"]
    /\ seenTlp = [s \in Sessions |-> Performance]
    /\ target  = [s \in Sessions |-> Performance]
    /\ faults = {}
    /\ left = [b \in Bounds |-> CASE b = "switch"  -> MaxSwitch
                                  [] b = "request" -> MaxRequest
                                  [] b = "user"    -> MaxUser
                                  [] OTHER         -> MaxFault]
-----------------------------------------------------------------------------
(* The event loop of session s. *)

(* Mutant: becoming active does not recover what was missed. *)
DispatchRecoveryOnWakeOnly(s) ==
    /\ pc[s] = "idle" /\ queue[s] # <<>> /\ Head(queue[s]) \in {"start", "wake", "active"}
    /\ queue' = [queue EXCEPT ![s] = Tail(@)]
    /\ Goto(s, IF active = s /\ Head(queue[s]) # "active" THEN "getTlp" ELSE "idle")
    /\ UNCHANGED <<envVars, busVars, seenTlp, target, faults, left>>

(* PrepareForSleep(false), ActiveChanged(true) and the timer of init(): run *)
(* recoverySystemPowerMode, whose first call asks logind who is active.     *)
DispatchRecovery(s) ==
    /\ pc[s] = "idle" /\ queue[s] # <<>> /\ Head(queue[s]) \in {"start", "wake", "active"}
    /\ queue' = [queue EXCEPT ![s] = Tail(@)]
    /\ Goto(s, IF active = s THEN "getTlp" ELSE "idle")
    /\ UNCHANGED <<envVars, busVars, seenTlp, target, faults, left>>

(* Mutant: the blocking calls of a recovery run a nested event loop. *)
DispatchInactiveNested(s) ==
    /\ pc[s] \notin {"callOff", "exited"} /\ queue[s] # <<>> /\ Head(queue[s]) = "inactive"
    /\ queue' = [queue EXCEPT ![s] = Tail(@)]
    /\ UNCHANGED <<envVars, busVars, pc, seenTlp, target, faults, left>>

(* ActiveChanged(false) asks logind to lock the session unless the machine  *)
(* goes to sleep; no power state changes (ScreenLock models the lock).      *)
DispatchInactive(s) ==
    /\ pc[s] = "idle" /\ queue[s] # <<>> /\ Head(queue[s]) = "inactive"
    /\ queue' = [queue EXCEPT ![s] = Tail(@)]
    /\ UNCHANGED <<envVars, busVars, pc, seenTlp, target, faults, left>>

(* Get TlpMode. *)
GetTlpMode(s) ==
    /\ pc[s] = "getTlp" /\ Goto(s, "getMode")
    /\ seenTlp' = [seenTlp EXCEPT ![s] = tlp]
    /\ UNCHANGED <<envVars, busVars, queue, target, faults, left>>

(* Get Mode, and the first comparison. *)
GetMode(s) ==
    /\ pc[s] = "getMode"
    /\ \/ mode = seenTlp[s] /\ Return(s)
       \/ /\ mode # seenTlp[s]
          /\ Goto(s, IF mode = PowerSave THEN "battery" ELSE "recheck")
          /\ target' = [target EXCEPT ![s] = mode] /\ UNCHANGED seenTlp
    /\ UNCHANGED <<envVars, busVars, queue, faults, left>>

(* Mutant: a failed read is not an early return. *)
GetFailsGoesOn(s) ==
    /\ pc[s] \in {"getTlp", "getMode"} /\ Goto(s, "recheck")
    /\ target' = [target EXCEPT ![s] = ""]
    /\ Spend("fault") /\ faults' = faults \cup {"getFailed"}
    /\ UNCHANGED <<envVars, busVars, queue, seenTlp>>

(* Either of the two reads fails: give up, wait for the next occasion. *)
GetFails(s) ==
    /\ pc[s] \in {"getTlp", "getMode"} /\ Return(s)
    /\ Spend("fault") /\ faults' = faults \cup {"getFailed"}
    /\ UNCHANGED <<envVars, busVars, queue>>

(* Get HasBattery and Get BatteryCapacity: a low charge replaces powersave  *)
(* by lowBattery, an error of either read keeps powersave.                  *)
GetBattery(s) ==
    /\ pc[s] = "battery"
    /\ \/ lowCharge /\ seenTlp[s] = LowBattery /\ Return(s) /\ UNCHANGED left
       \/ /\ lowCharge /\ seenTlp[s] # LowBattery /\ Goto(s, "recheck")
          /\ target' = [target EXCEPT ![s] = LowBattery] /\ UNCHANGED <<seenTlp, left>>
       \/ ~lowCharge /\ Goto(s, "recheck") /\ UNCHANGED <<seenTlp, target, left>>
       \/ Spend("fault") /\ Goto(s, "recheck") /\ UNCHANGED <<seenTlp, target>>
    /\ UNCHANGED <<envVars, busVars, queue, faults>>

(* "The session may have become inactive while the properties were read." *)
Recheck(s) ==
    /\ pc[s] = "recheck"
    /\ \/ active = s /\ Goto(s, "restore") /\ UNCHANGED <<seenTlp, target>>
       \/ active # s /\ Return(s)
    /\ UNCHANGED <<envVars, busVars, queue, faults, left>>
-----------------------------------------------------------------------------
(* setTlpMode: a call with a timeout of 3 s.  It is applied, or fails, or   *)
(* times out and the daemon still applies it later.                         *)
SetTlpMode(value) ==
    \/ tlp' = value /\ UNCHANGED <<mode, lowCharge, late, left>>
    \/ Spend("fault") /\ UNCHANGED busVars
    \/ Spend("fault") /\ late' = late \cup {value} /\ UNCHANGED <<mode, tlp, lowCharge>>

LateApply ==
    /\ \E value \in late : tlp' = value /\ late' = late \ {value}
    /\ faults' = faults \cup {"late"}
    /\ UNCHANGED <<envVars, mode, lowCharge, sessVars, left>>

(* Mutant: the mode that was read from TlpMode is written back to it. *)
RestoreWhatWasSeen(s) ==
    /\ pc[s] = "restore" /\ Return(s)
    /\ SetTlpMode(seenTlp[s])
    /\ faults' = IF left' # left THEN faults \cup {"setFailed"}
                 ELSE IF Fits(target[s], mode) THEN {} ELSE faults \cup {"stale"}
    /\ UNCHANGED <<envVars, queue>>

(* The last step of recoverySystemPowerMode.  A value that no longer fits   *)
(* Mode, because the user changed it meanwhile, is recorded as stale.       *)
Restore(s) ==
    /\ pc[s] = "restore" /\ Return(s)
    /\ SetTlpMode(target[s])
    /\ faults' = IF left' # left THEN faults \cup {"setFailed"}
                 ELSE IF Fits(target[s], mode) THEN {} ELSE faults \cup {"stale"}
    /\ UNCHANGED <<envVars, queue>>

(* RequestSuspend, RequestHibernate, RequestShutdown and RequestReboot      *)
(* start with setTlpMode(performance).                                      *)
Request(s, label) ==
    /\ pc[s] = "idle" /\ Goto(s, label) /\ Spend("request")
    /\ UNCHANGED <<envVars, busVars, queue, seenTlp, target, faults>>

RequestSuspend(s)   == ~NoSuspendFile /\ Request(s, "reqSleep")
RequestHibernate(s) == Request(s, "reqSleep")
RequestPowerOff(s)  == Request(s, "reqOff")

SetPerformance(s) ==
    /\ pc[s] \in {"reqSleep", "reqOff"}
    /\ Goto(s, IF pc[s] = "reqSleep" THEN "callSleep" ELSE "callOff")
    /\ SetTlpMode(Performance)
    /\ UNCHANGED <<envVars, queue, seenTlp, target, faults>>

(* The Suspend or Hibernate call is sent; nobody waits for its answer. *)
CallSleep(s) ==
    /\ pc[s] = "callSleep" /\ Goto(s, "idle")
    /\ asked' = TRUE
    /\ UNCHANGED <<active, preparing, busVars, queue, seenTlp, target, faults, left>>

(* The PowerOff or Reboot call is sent and the service quits.  If the       *)
(* machine stays up, performance stays until another session is activated.  *)
CallPowerOff(s) ==
    /\ pc[s] = "callOff" /\ Goto(s, "exited")
    /\ faults' = faults \cup {"poweroff"}
    /\ UNCHANGED <<envVars, busVars, queue, seenTlp, target, left>>
-----------------------------------------------------------------------------
(* logind, the user and the seat: not under src/, modelled from use. *)

(* The seat is handed to x: ActiveChanged goes to both sessions. *)
SwitchTo(x) ==
    /\ x # active /\ Spend("switch")
    /\ active' = x
    /\ queue' = [s \in Sessions |-> CASE s = active -> Append(queue[s], "inactive")
                                      [] s = x      -> Append(queue[s], "active")
                                      [] OTHER      -> queue[s]]
    /\ faults' = {}
    /\ UNCHANGED <<asked, preparing, busVars, pc, seenTlp, target>>

(* logind refuses the call, or starts to sleep with PrepareForSleep(true). *)
LogindRefuses ==
    /\ asked /\ asked' = FALSE
    /\ faults' = faults \cup {"refused"}
    /\ UNCHANGED <<active, preparing, busVars, sessVars, left>>

LogindSleeps ==
    /\ asked /\ ~preparing
    /\ asked' = FALSE /\ preparing' = TRUE
    /\ UNCHANGED <<active, busVars, sessVars, faults, left>>

(* PrepareForSleep(false) reaches every session. *)
Wake ==
    /\ preparing /\ preparing' = FALSE
    /\ queue' = [s \in Sessions |-> Append(queue[s], "wake")]
    /\ faults' = {}
    /\ UNCHANGED <<active, asked, busVars, pc, seenTlp, target, left>>

(* The user picks a mode; the daemon applies it at once. *)
UserSetsMode ==
    /\ Spend("user")
    /\ \E m \in Modes \ {mode} :
          /\ mode' = m
          /\ tlp' \in {m, Effective(m)}
    /\ faults' = {}
    /\ UNCHANGED <<envVars, lowCharge, late, sessVars>>

SessionStep(s) ==
    \/ DispatchRecovery(s) \/ DispatchInactive(s)
    \/ GetTlpMode(s) \/ GetMode(s) \/ GetFails(s) \/ GetBattery(s) \/ Recheck(s) \/ Restore(s)
    \/ SetPerformance(s) \/ CallSleep(s) \/ CallPowerOff(s)

SessionRequest(s) == RequestSuspend(s) \/ RequestHibernate(s) \/ RequestPowerOff(s)

Next ==
    \/ \E s \in Sessions : SessionStep(s) \/ SessionRequest(s)
    \/ \E x \in Sessions \cup {NoSession} : SwitchTo(x)
    \/ LogindRefuses \/ LogindSleeps \/ Wake \/ UserSetsMode \/ LateApply

Spec == Init /\ [][Next]_vars

(* An event loop that has work does it, and logind answers what it was      *)
(* asked; nobody has to press a key, wake the machine or change the mode.   *)
Fairness ==
    /\ \A s \in Sessions : WF_vars(SessionStep(s))
    /\ WF_vars(LogindRefuses \/ LogindSleeps)

FairSpec == Spec /\ Fairness
-----------------------------------------------------------------------------
Queued(s, signals) == \E i \in 1..Len(queue[s]) : queue[s][i] \in signals

(* A recovery of s that has not missed anything: it is still to read what   *)
(* counts, or what it has read is still true.                               *)
RecoveryComing(s) ==
    \/ Queued(s, {"start", "wake", "active"})
    \/ pc[s] = "getTlp"
    \/ pc[s] = "getMode" /\ seenTlp[s] = tlp
    \/ pc[s] \in {"battery", "recheck", "restore"} /\ seenTlp[s] = tlp /\ Fits(target[s], mode)

(* A sleep or power-off request is on its way through some session or       *)
(* through logind; its wake-up will reach every session.                    *)
RequestUnderWay ==
    \/ asked \/ preparing
    \/ \E s \in Sessions : pc[s] \in {"callSleep", "callOff"}

(* Whenever TlpMode is not what the user's Mode calls for, the active       *)
(* session is about to restore it, or a request that needs performance is   *)
(* under way, or a call has failed since the last wake-up, activation or    *)
(* restore.  No wake-up is lost to the early returns for inactive sessions  *)
(* (lines 875 and 927), whatever the order of switches, signals and reads.  *)
NoLostRecovery ==
    \A s \in Sessions :
        (active = s /\ pc[s] # "exited" /\ faults = {} /\ ~RequestUnderWay)
            => Restored \/ RecoveryComing(s)

(* A session that is about to write TlpMode although it lost the seat has   *)
(* not been able to know: its ActiveChanged(false) still waits behind the   *)
(* recovery.  That rests on the calls of recoverySystemPowerMode blocking   *)
(* without an event loop: no handler runs between lines 875 and 929.        *)
WriterUnawareOfSwitch ==
    \A s \in Sessions : pc[s] = "restore" => active = s \/ Queued(s, {"inactive"})

(* The active session never keeps a wrong mode for ever: either restored    *)
(* again and again, or excused by a failed call, a request or its own end.  *)
EventuallyRestored ==
    []<>(\/ Restored \/ faults # {} \/ RequestUnderWay
         \/ active = NoSession \/ (active \in Sessions /\ pc[active] = "exited"))
=============================================================================
