-------------------------------- MODULE Logins --------------------------------
(***************************************************************************)
(* The logins of one user, one after the other, over a user manager that   *)
(* outlives them: what a login leaves behind in systemd's environment, its *)
(* masks and its jobs, and what the next one makes of it                   *)
(* (environmentsmanager.cpp, 00deepin-dde-env, the ExecStopPost lines of   *)
(* dde-session-manager.service, prepareLogout and init of SessionManager,  *)
(* the quick-login and version-checker units).                             *)
(*                                                                         *)
(* The leader leaves as soon as Session1 is gone, while ExecStopPost still *)
(* runs: a quick user logs in again before the clean-up is over.           *)
(***************************************************************************)
EXTENDS Naturals, FiniteSets

CONSTANTS
    Kinds,       \* the kinds of login: records of a session type and a quick flag
    Faults,      \* which of the failures happen
    MaxFaults,   \* bound: different failures in one run
    MaxLogins,   \* bound: logins
    MaxVersion   \* bound: versions of the system

AllKinds  == [type : {"x11", "wayland"}, quick : BOOLEAN]
AllFaults == {"unsetFails", "setFails", "unmaskFails", "stopPostFails", "readOnly",
              "leaderKilled", "abandoned"}
Helpers   == {"at-spi", "obex"}

ASSUME KindsAssumption  == Kinds \subseteq AllKinds
ASSUME FaultsAssumption == Faults \subseteq AllFaults
ASSUME BoundAssumption  ==
    MaxFaults \in Nat /\ MaxLogins \in Nat \ {0} /\ MaxVersion \in Nat \ {0}

VARIABLES
    logins,    \* logins so far
    leader,    \* the leader of the newest login
    login,     \* kind of the newest login
    map,       \* its EnvironmentsManager::m_envMap
    senv,      \* environment of the user manager, which its units inherit
    service,   \* dde-session-manager.service
    serving,   \* kind of the login that started it
    stopPost,  \* ExecStopPost lines still to be run
    jobs,      \* the irreversible stop jobs of the shutdown target are queued
    masked,    \* helper services masked for the runtime of the user manager
    unmaskMissed, \* helpers that the service did not manage to unmask
    seen,      \* environment in which dde-session-pre.target was reached
    checker,   \* dde-version-checker.service has been looked at
    monitor,   \* dde-quick-login@x11.service runs
    checks,    \* version checkers that this session has run
    os,        \* version of the system
    recorded,  \* version in dde-welcome.conf, 0 if there is none
    welcomes,  \* how often this version has been welcomed
    used       \* failures and overlaps that have happened

loginVars   == <<logins, leader, login, map>>
unitVars    == <<seen, checker, monitor>>
versionVars == <<checks, os, recorded, welcomes>>
helperVars  == <<masked, unmaskMissed>>
vars == <<loginVars, senv, service, serving, stopPost, jobs, helperVars, unitVars, versionVars, used>>

(* Each name stands for those that are treated alike: WAYLAND_DISPLAY with  *)
(* QT_WAYLAND_SHELL_INTEGRATION, the session type with QT_QPA_PLATFORM, the *)
(* desktop with DISPLAY.                                                    *)
Names  == {"WAYLAND_DISPLAY", "XDG_SESSION_TYPE", "XDG_CURRENT_DESKTOP", "DDE_QUICKLOGIN"}
Values == {"unset", "set", "x11", "wayland"}
Empty  == [v \in Names |-> "unset"]

LTypeOK ==
    /\ logins \in 0..MaxLogins /\ login \in AllKinds /\ serving \in AllKinds
    /\ leader \in {"none", "clear", "set", "start", "wait"}
    /\ map \in [Names -> Values] /\ senv \in [Names -> Values] /\ seen \in [Names -> Values]
    /\ service \in {"off", "queued", "running", "logout"} /\ stopPost \in 0..3
    /\ jobs \in BOOLEAN /\ checker \in BOOLEAN /\ monitor \in BOOLEAN
    /\ masked \subseteq Helpers /\ unmaskMissed \subseteq Helpers
    /\ checks \in Nat /\ welcomes \in Nat /\ os \in 1..MaxVersion /\ recorded \in 0..MaxVersion
    /\ used \subseteq Faults \cup {"alive", "overlap"}

LInit ==
    /\ logins = 0 /\ leader = "none" /\ login \in Kinds /\ serving = login
    /\ map = Empty /\ senv = Empty /\ seen = Empty
    /\ service = "off" /\ stopPost = 0 /\ jobs = FALSE
    /\ masked = {} /\ unmaskMissed = {}
    /\ checker = FALSE /\ monitor = FALSE /\ checks = 0 /\ welcomes = 0
    /\ os = 1 /\ recorded \in 0..1 /\ used = {}

Override(env, new) == [v \in Names |-> IF new[v] = "unset" THEN env[v] ELSE new[v]]
MayFail(fault) ==
    /\ fault \in Faults /\ used' = used \cup {fault}
    /\ Cardinality((used \cap Faults) \ {fault}) < MaxFaults
-----------------------------------------------------------------------------
(* The leader. *)

(* What the display manager gives to the process. *)
Given(k) ==
    [Empty EXCEPT !["XDG_SESSION_TYPE"] = k.type,
                  !["WAYLAND_DISPLAY"] = IF k.type = "wayland" THEN "set" ELSE "unset",
                  !["DDE_QUICKLOGIN"] = IF k.quick THEN "set" ELSE "unset"]

(* Mutant: nothing is excluded from the import. *)
ProcessEnvAll(k) == IF k.type = "x11" THEN Override(Given(k), senv) ELSE Given(k)

(* On X11 the shell script 00deepin-dde-env exports all that the user       *)
(* manager has, except for what EXCLUDED_ENV names.                         *)
ProcessEnv(k) ==
    IF k.type = "x11"
    THEN Override(Given(k), [senv EXCEPT !["XDG_SESSION_TYPE"] = "unset"])
    ELSE Given(k)

(* EnvironmentsManager: all of the process, and what it adds of its own. *)
Snapshot(k) == [ProcessEnv(k) EXCEPT !["XDG_CURRENT_DESKTOP"] = "set"]

(* A login begins, maybe before the clean-up of the last one is over, or,   *)
(* if its leader was killed, while its service is still there.              *)
Login ==
    /\ leader = "none" /\ logins < MaxLogins
    /\ \E k \in Kinds : login' = k /\ map' = Snapshot(k)
    /\ logins' = logins + 1 /\ leader' = "clear"
    /\ used' = used \cup (IF service # "off" THEN {"alive"} ELSE {})
                     \cup (IF stopPost # 0 \/ jobs THEN {"overlap"} ELSE {})
    /\ UNCHANGED <<senv, service, serving, stopPost, jobs, helperVars, unitVars, versionVars>>

(* Mutant: D-Bus, which knows only empty values, is left to tell systemd. *)
UnsetEnvEmpty ==
    /\ leader = "clear" /\ leader' = "set"
    /\ senv' = IF login.type = "x11" THEN [senv EXCEPT !["WAYLAND_DISPLAY"] = ""] ELSE senv
    /\ UNCHANGED <<logins, login, map, service, serving, stopPost, jobs, helperVars, unitVars,
                   versionVars, used>>

(* unsetEnv: on X11 the variable is taken out of D-Bus, then, unless that   *)
(* failed, out of systemd.                                                  *)
UnsetEnv ==
    /\ leader = "clear" /\ leader' = "set"
    /\ \/ /\ login.type = "x11" /\ senv' = [senv EXCEPT !["WAYLAND_DISPLAY"] = "unset"]
          /\ UNCHANGED used
       \/ login.type = "x11" /\ MayFail("unsetFails") /\ UNCHANGED senv
       \/ login.type # "x11" /\ UNCHANGED <<senv, used>>
    /\ UNCHANGED <<logins, login, map, service, serving, stopPost, jobs, helperVars, unitVars,
                   versionVars>>

(* SetEnvironment with the whole map, which then goes; an error is only     *)
(* logged.                                                                  *)
SetEnvironment ==
    /\ leader = "set" /\ leader' = "start" /\ map' = Empty
    /\ \/ senv' = Override(senv, map) /\ UNCHANGED used
       \/ MayFail("setFails") /\ UNCHANGED senv
    /\ UNCHANGED <<logins, login, service, serving, stopPost, jobs, helperVars, unitVars,
                   versionVars>>

(* The leader is killed.  Between SetEnvironment and StartUnit it leaves an *)
(* environment that no service will clean up.                               *)
LeaderKilled ==
    /\ leader # "none" /\ leader' = "none" /\ map' = Empty
    /\ MayFail(IF leader = "start" THEN "abandoned" ELSE "leaderKilled")
    /\ UNCHANGED <<logins, login, senv, service, serving, stopPost, jobs, helperVars, unitVars,
                   versionVars>>

(* StartUnit(dde-session.target): refused while irreversible jobs want it   *)
(* stopped, without effect while it is active.  The result is not looked at *)
(* and the leader waits for the loss of Session1.                           *)
StartTarget ==
    /\ leader = "start" /\ leader' = "wait"
    /\ \/ ~jobs /\ service = "off" /\ stopPost = 0 /\ service' = "queued" /\ serving' = login
       \/ (jobs \/ service # "off" \/ stopPost # 0) /\ UNCHANGED <<service, serving>>
    /\ UNCHANGED <<logins, login, map, senv, stopPost, jobs, helperVars, unitVars, versionVars, used>>
-----------------------------------------------------------------------------
(* The service and the units of its session. *)

(* Mutant: the helpers are started, but not unmasked. *)
ServiceInitStarts ==
    /\ service = "queued" /\ service' = "running" /\ unmaskMissed' = {} /\ checks' = 0
    /\ UNCHANGED <<loginVars, senv, serving, stopPost, jobs, masked, unitVars, os, recorded,
                   welcomes, used>>

(* SessionManager::init: UNMASK and START of each helper; a failed UNMASK   *)
(* returns before START.                                                    *)
ServiceInit ==
    /\ service = "queued" /\ service' = "running"
    /\ \/ masked' = {} /\ unmaskMissed' = {} /\ UNCHANGED used
       \/ /\ \E h \in SUBSET Helpers : unmaskMissed' = h /\ masked' = masked \cap h
          /\ MayFail("unmaskFails")
    /\ checks' = 0
    /\ UNCHANGED <<loginVars, senv, serving, stopPost, jobs, unitVars, os, recorded, welcomes>>

(* dde-session-pre.target: dde-quick-login@x11 starts under its conditions. *)
ReachPre ==
    /\ service \in {"running", "logout"} /\ seen = Empty
    /\ seen' = senv
    /\ monitor' = (senv["DDE_QUICKLOGIN"] = "set" /\ senv["XDG_SESSION_TYPE"] = "x11")
    /\ UNCHANGED <<loginVars, senv, service, serving, stopPost, jobs, helperVars, checker,
                   versionVars, used>>

(* dde-version-checker: the welcome is opened if the recorded version is    *)
(* another one, and the new version is recorded, if that can be done.       *)
RunChecker ==
    LET changed == recorded # 0 /\ recorded # os IN
    /\ checks' = checks + 1
    /\ welcomes' = IF changed THEN welcomes + 1 ELSE welcomes
    /\ \/ recorded' = (IF changed THEN os ELSE recorded) /\ UNCHANGED used
       \/ MayFail("readOnly") /\ UNCHANGED recorded
    /\ UNCHANGED os

(* Mutant: the unit has no ExecCondition. *)
ReachCoreAnyMode ==
    /\ service \in {"running", "logout"} /\ seen # Empty /\ ~checker
    /\ checker' = TRUE /\ RunChecker
    /\ UNCHANGED <<loginVars, senv, service, serving, stopPost, jobs, helperVars, seen, monitor>>

(* dde-session-core.target: the version checker, unless in quick mode. *)
ReachCore ==
    /\ service \in {"running", "logout"} /\ seen # Empty /\ ~checker
    /\ checker' = TRUE
    /\ \/ senv["DDE_QUICKLOGIN"] # "set" /\ RunChecker
       \/ senv["DDE_QUICKLOGIN"] = "set" /\ UNCHANGED <<versionVars, used>>
    /\ UNCHANGED <<loginVars, senv, service, serving, stopPost, jobs, helperVars, seen, monitor>>

(* dde-quick-login ends, unlocked or stopped with its target: OnSuccess     *)
(* starts the other version checker, in quick mode only.                    *)
MonitorEnds ==
    /\ monitor /\ monitor' = FALSE
    /\ \/ senv["DDE_QUICKLOGIN"] = "set" /\ RunChecker
       \/ senv["DDE_QUICKLOGIN"] # "set" /\ UNCHANGED <<versionVars, used>>
    /\ UNCHANGED <<loginVars, senv, service, serving, stopPost, jobs, helperVars, seen, checker>>

(* RequestLogout: prepareLogout masks the helpers one after the other, each *)
(* failure costs one mask; then doLogout starts the shutdown target.        *)
RequestLogout ==
    /\ service = "running" /\ service' = "logout"
    /\ \E h \in SUBSET Helpers : masked' = masked \cup h
    /\ UNCHANGED <<loginVars, senv, serving, stopPost, jobs, unmaskMissed, unitVars, versionVars, used>>

(* The service ends, by the stop jobs of the shutdown target or without: a  *)
(* leader that watches Session1 leaves, systemd goes on with ExecStopPost.  *)
ServiceEnds ==
    /\ service # "off" /\ service' = "off"
    /\ stopPost' = 3 /\ jobs' \in BOOLEAN
    /\ seen' = Empty /\ checker' = FALSE
    /\ leader' = IF leader = "wait" THEN "none" ELSE leader
    /\ UNCHANGED <<logins, login, map, senv, serving, helperVars, monitor, versionVars, used>>
-----------------------------------------------------------------------------
(* systemd. *)

(* dde-session-ctl --shutdown: the stop jobs wait for the whole clean-up. *)
StopPostShutdown ==
    /\ stopPost = 3 /\ stopPost' = 2 /\ jobs' = TRUE
    /\ UNCHANGED <<loginVars, senv, service, serving, helperVars, unitVars, versionVars, used>>

(* unset-environment of XDG_CURRENT_DESKTOP (and DISPLAY), then of          *)
(* DDE_QUICKLOGIN; a failure is ignored.                                    *)
StopPostUnset ==
    /\ stopPost \in {1, 2} /\ stopPost' = stopPost - 1
    /\ \/ /\ senv' = [senv EXCEPT ![IF stopPost = 2 THEN "XDG_CURRENT_DESKTOP"
                                    ELSE "DDE_QUICKLOGIN"] = "unset"]
          /\ UNCHANGED used
       \/ MayFail("stopPostFails") /\ UNCHANGED senv
    /\ UNCHANGED <<loginVars, service, serving, jobs, helperVars, unitVars, versionVars>>

(* Everything is stopped: the shutdown target is reached. *)
JobsEnd ==
    /\ jobs /\ service = "off" /\ stopPost = 0 /\ ~monitor
    /\ jobs' = FALSE
    /\ UNCHANGED <<loginVars, senv, service, serving, stopPost, helperVars, unitVars, versionVars, used>>

(* Between two logins the user manager may stop, with all it knew. *)
ManagerStops ==
    /\ leader = "none" /\ service = "off" /\ stopPost = 0 /\ ~jobs /\ senv # Empty
    /\ senv' = Empty /\ masked' = {}
    /\ UNCHANGED <<loginVars, service, serving, stopPost, jobs, unmaskMissed, unitVars, versionVars,
                   used>>

Upgrade ==
    /\ os < MaxVersion /\ os' = os + 1 /\ welcomes' = 0
    /\ UNCHANGED <<loginVars, senv, service, serving, stopPost, jobs, helperVars, unitVars,
                   checks, recorded, used>>

LNext ==
    \/ Login \/ UnsetEnv \/ SetEnvironment \/ StartTarget \/ LeaderKilled
    \/ ServiceInit \/ ReachPre \/ ReachCore \/ MonitorEnds \/ RequestLogout \/ ServiceEnds
    \/ StopPostShutdown \/ StopPostUnset \/ JobsEnd \/ ManagerStops \/ Upgrade

LSpec == LInit /\ [][LNext]_vars
-----------------------------------------------------------------------------
(* The units of a session find the environment of their own login.  The     *)
(* platform is right whatever the previous clean-up still does; that it is  *)
(* a desktop, and a quick login or not, needs a clean-up that was over      *)
(* before the login began.                                                  *)
UnitsSeeOwnLogin ==
    (seen # Empty /\ {"setFails", "alive"} \cap used = {})
        => /\ seen["XDG_SESSION_TYPE"] = serving.type
           /\ {"overlap", "abandoned", "stopPostFails"} \cap used = {}
                  => /\ seen["XDG_CURRENT_DESKTOP"] = "set"
                     /\ (seen["DDE_QUICKLOGIN"] = "set" <=> serving.quick)

(* Two units run the version checker, each under a condition it reads at a  *)
(* time of its own: a session runs one of them at most, and a version is    *)
(* welcomed once, as long as it can be recorded.                            *)
CheckedOnce ==
    /\ checks <= 1
    /\ "readOnly" \notin used => welcomes <= 1

(* The masks of a logout do not reach the next session. *)
HelpersUnmasked == service = "running" => masked \subseteq unmaskMissed

(* environmentsmanager.cpp, lines 30-31: a login on X11 after one on Wayland *)
(* clears the Wayland variables, which applications take as a sign of       *)
(* Wayland.                                                                 *)
X11HasNoWayland ==
    (login.type = "x11" /\ leader \in {"start", "wait"} /\ used = {})
        => senv["WAYLAND_DISPLAY"] = "unset"
=============================================================================
