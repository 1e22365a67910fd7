----------------------------- MODULE LoginsProofs -----------------------------
(***************************************************************************)
(* Proofs about Logins, for any kinds of login, any failures, any number   *)
(* of logins and of versions.                                              *)
(*                                                                         *)
(* The invariant follows the environment from the map of the leader into   *)
(* the user manager and from there into the units.  Flow holds of every    *)
(* login, Platform as long as each login could set its environment and     *)
(* found no session of the last one, Tidy as long as nothing was left      *)
(* behind either.  Checks counts the version checkers of a session.        *)
(***************************************************************************)
EXTENDS Logins, TLAPS

Flow ==
    /\ service # "off" => stopPost = 0 /\ ~jobs
    /\ service \in {"off", "queued"} => seen = Empty /\ ~checker
    /\ seen = Empty => ~checker
    /\ map["DDE_QUICKLOGIN"] \in {"unset", "set"}
    /\ senv["DDE_QUICKLOGIN"] \in {"unset", "set"}
    /\ leader \in {"clear", "set"} => /\ map["XDG_SESSION_TYPE"] = login.type
                                     /\ map["XDG_CURRENT_DESKTOP"] = "set"

Faithful ==
    /\ leader = "start" => senv["XDG_SESSION_TYPE"] = login.type
    /\ service # "off" => /\ senv["XDG_SESSION_TYPE"] = serving.type
                         /\ leader \in {"wait", "none"}
    /\ seen # Empty => seen["XDG_SESSION_TYPE"] = serving.type

Platform == {"setFails", "alive"} \cap used = {} => Faithful

Tidy ==
    /\ leader \in {"clear", "set", "start"} => service = "off" /\ stopPost = 0 /\ ~jobs
    /\ leader \in {"clear", "set"} => /\ senv["DDE_QUICKLOGIN"] = "unset"
                                     /\ (map["DDE_QUICKLOGIN"] = "set" <=> login.quick)
    /\ leader = "start" => /\ senv["XDG_CURRENT_DESKTOP"] = "set"
                          /\ (senv["DDE_QUICKLOGIN"] = "set" <=> login.quick)
    /\ leader = "wait" => service # "off"
    /\ service # "off" => /\ senv["XDG_CURRENT_DESKTOP"] = "set"
                         /\ (senv["DDE_QUICKLOGIN"] = "set" <=> serving.quick)
    /\ leader = "none" /\ service = "off" /\ stopPost = 0 => senv["DDE_QUICKLOGIN"] = "unset"
    /\ seen # Empty => /\ seen["XDG_CURRENT_DESKTOP"] = "set"
                      /\ (seen["DDE_QUICKLOGIN"] = "set" <=> serving.quick)

Left == {"setFails", "alive", "overlap", "abandoned", "stopPostFails"}
NothingLeft == Left \cap used = {} => Tidy

Checks ==
    /\ checks \in 0..1
    /\ monitor => checks = 0 /\ (service # "off" \/ stopPost = 3 \/ jobs)
    /\ monitor /\ service # "off" => seen["DDE_QUICKLOGIN"] = "set"
    /\ service # "off" /\ seen["DDE_QUICKLOGIN"] = "set" => senv["DDE_QUICKLOGIN"] = "set"
    /\ service = "queued" => ~monitor
    /\ service \in {"running", "logout"} /\ seen = Empty => checks = 0 /\ ~monitor
    /\ service # "off" /\ seen # Empty /\ ~checker /\ checks = 1 => seen["DDE_QUICKLOGIN"] = "set"

Welcomes ==
    "readOnly" \notin used => welcomes \in 0..1 /\ (welcomes = 1 => recorded = os)

Inv == LTypeOK /\ Flow /\ Platform /\ NothingLeft /\ Checks /\ Welcomes /\ HelpersUnmasked
-----------------------------------------------------------------------------
LEMMA EnvValues ==
    /\ Empty \in [Names -> Values] /\ \A v \in Names : Empty[v] = "unset"
    /\ "unset" \in Values /\ "DDE_QUICKLOGIN" \in Names /\ "XDG_SESSION_TYPE" \in Names
    /\ "XDG_CURRENT_DESKTOP" \in Names /\ "WAYLAND_DISPLAY" \in Names
BY DEF Empty, Names, Values

LEMMA OverrideValue ==
    ASSUME NEW env \in [Names -> Values], NEW new \in [Names -> Values]
    PROVE  /\ Override(env, new) \in [Names -> Values]
           /\ \A v \in Names : Override(env, new)[v] = IF new[v] = "unset" THEN env[v] ELSE new[v]
BY DEF Override

(* What a login's process starts with. *)
LEMMA SnapshotValue ==
    ASSUME NEW k \in AllKinds, senv \in [Names -> Values]
    PROVE  /\ Snapshot(k) \in [Names -> Values]
           /\ Snapshot(k)["XDG_SESSION_TYPE"] = k.type
           /\ Snapshot(k)["XDG_CURRENT_DESKTOP"] = "set"
           /\ senv["DDE_QUICKLOGIN"] \in {"unset", "set"}
                  => Snapshot(k)["DDE_QUICKLOGIN"] \in {"unset", "set"}
           /\ senv["DDE_QUICKLOGIN"] = "unset"
                  => (Snapshot(k)["DDE_QUICKLOGIN"] = "set" <=> k.quick)
<1>1. k.type \in {"x11", "wayland"} /\ k.quick \in BOOLEAN
  BY DEF AllKinds
<1>2. /\ Given(k) \in [Names -> Values] /\ Given(k)["XDG_SESSION_TYPE"] = k.type
      /\ Given(k)["DDE_QUICKLOGIN"] = IF k.quick THEN "set" ELSE "unset"
  BY <1>1 DEF Given, Empty, Names, Values
<1> DEFINE import == [senv EXCEPT !["XDG_SESSION_TYPE"] = "unset"]
<1>3. /\ import \in [Names -> Values] /\ import["XDG_SESSION_TYPE"] = "unset"
      /\ import["DDE_QUICKLOGIN"] = senv["DDE_QUICKLOGIN"]
  BY DEF Names, Values
<1> HIDE DEF import
<1>4. /\ ProcessEnv(k) \in [Names -> Values] /\ ProcessEnv(k)["XDG_SESSION_TYPE"] = k.type
      /\ ProcessEnv(k)["DDE_QUICKLOGIN"] \in {Given(k)["DDE_QUICKLOGIN"], senv["DDE_QUICKLOGIN"]}
      /\ senv["DDE_QUICKLOGIN"] = "unset"
             => ProcessEnv(k)["DDE_QUICKLOGIN"] = Given(k)["DDE_QUICKLOGIN"]
  <2>1. CASE k.type = "x11"
    <3>1. ProcessEnv(k) = Override(Given(k), import)
      BY <2>1 DEF ProcessEnv, import
    <3> QED  BY <3>1, <1>2, <1>3, OverrideValue DEF Names
  <2>2. CASE k.type # "x11"
    BY <2>2, <1>2 DEF ProcessEnv
  <2> QED  BY <2>1, <2>2
<1> QED  BY <1>1, <1>2, <1>4 DEF Snapshot, Names, Values

LEMMA CheckerTypes ==
    ASSUME LTypeOK, RunChecker \/ UNCHANGED <<versionVars, used>>
    PROVE  /\ checks' \in Nat /\ welcomes' \in Nat /\ os' \in 1..MaxVersion
           /\ recorded' \in 0..MaxVersion /\ used' \subseteq Faults \cup {"alive", "overlap"}
<1> USE BoundAssumption DEF LTypeOK
<1>1. CASE RunChecker
  BY <1>1 DEF RunChecker, MayFail
<1>2. CASE UNCHANGED <<versionVars, used>>
  BY <1>2 DEF versionVars
<1> QED  BY <1>1, <1>2

(* Every step keeps the types. *)
LEMMA TypeStep ==
    ASSUME LTypeOK, [LNext]_vars
    PROVE  LTypeOK'
<1> USE EnvValues, BoundAssumption
<1>1. CASE Login
  <2>1. PICK k \in Kinds : login' = k /\ map' = Snapshot(k)
    BY <1>1 DEF Login
  <2>2. k \in AllKinds
    BY KindsAssumption
  <2> QED
    BY <1>1, <2>1, <2>2, SnapshotValue DEF Login, helperVars, versionVars, unitVars,
       LTypeOK
<1>2. CASE UnsetEnv
  BY <1>2 DEF UnsetEnv, helperVars, versionVars, unitVars, MayFail, LTypeOK
<1>3. CASE SetEnvironment
  BY <1>3, OverrideValue DEF SetEnvironment, helperVars, versionVars, unitVars, MayFail, LTypeOK
<1>4. CASE LeaderKilled
  BY <1>4 DEF LeaderKilled, helperVars, versionVars, unitVars, MayFail, LTypeOK
<1>5. CASE StartTarget
  BY <1>5 DEF StartTarget, helperVars, versionVars, unitVars, LTypeOK
<1>6. CASE ServiceInit
  BY <1>6 DEF ServiceInit, unitVars, loginVars, MayFail, LTypeOK
<1>7. CASE ReachPre
  BY <1>7 DEF ReachPre, helperVars, versionVars, loginVars, LTypeOK
<1>8. CASE ReachCore
  BY <1>8, CheckerTypes DEF ReachCore, helperVars, loginVars, LTypeOK
<1>9. CASE MonitorEnds
  BY <1>9, CheckerTypes DEF MonitorEnds, helperVars, loginVars, LTypeOK
<1>10. CASE RequestLogout
  BY <1>10 DEF RequestLogout, versionVars, unitVars, loginVars, LTypeOK
<1>11. CASE ServiceEnds
  <2>1. leader' \in {"none", "clear", "set", "start", "wait"} /\ jobs' \in BOOLEAN
    BY <1>11 DEF ServiceEnds, LTypeOK
  <2>2. /\ service' = "off" /\ stopPost' = 3 /\ seen' = Empty /\ checker' = FALSE
        /\ UNCHANGED <<logins, login, map, senv, serving, masked, unmaskMissed, monitor,
                       checks, os, recorded, welcomes, used>>
    BY <1>11 DEF ServiceEnds, helperVars, versionVars
  <2>3. seen' \in [Names -> Values] /\ checker' \in BOOLEAN
    BY <2>2
  <2>4. stopPost' \in 0..3 /\ service' \in {"off", "queued", "running", "logout"}
    BY <2>2
  <2>5. UNCHANGED <<logins, login, map, senv, serving, masked, unmaskMissed, monitor,
                    checks, os, recorded, welcomes, used>>
    BY <2>2
  <2> QED  BY <2>1, <2>3, <2>4, <2>5 DEF LTypeOK
<1>12. CASE StopPostShutdown
  BY <1>12 DEF StopPostShutdown, helperVars, versionVars, unitVars, loginVars, LTypeOK
<1>13. CASE StopPostUnset
  BY <1>13 DEF StopPostUnset, helperVars, versionVars, unitVars, loginVars, MayFail,
     LTypeOK
<1>14. CASE JobsEnd
  BY <1>14 DEF JobsEnd, helperVars, versionVars, unitVars, loginVars, LTypeOK
<1>15. CASE ManagerStops
  BY <1>15 DEF ManagerStops, versionVars, unitVars, loginVars, LTypeOK
<1>16. CASE Upgrade
  BY <1>16 DEF Upgrade, helperVars, unitVars, loginVars, LTypeOK
<1>17. CASE UNCHANGED vars
  BY <1>17 DEF vars, loginVars, unitVars, versionVars, helperVars, LTypeOK
<1> QED
  BY <1>1, <1>2, <1>3, <1>4, <1>5, <1>6, <1>7, <1>8, <1>9, <1>10, <1>11, <1>12, <1>13, <1>14,
     <1>15, <1>16, <1>17 DEF LNext

(* Every step keeps the flow of the environment. *)
LEMMA FlowStep ==
    ASSUME LTypeOK, Flow, [LNext]_vars
    PROVE  Flow'
<1> USE EnvValues, BoundAssumption
<1>1. CASE Login
  <2>1. PICK k \in Kinds : login' = k /\ map' = Snapshot(k)
    BY <1>1 DEF Login
  <2>2. k \in AllKinds
    BY KindsAssumption
  <2> QED
    BY <1>1, <2>1, <2>2, SnapshotValue DEF Login, helperVars, versionVars, unitVars,
       LTypeOK, Flow
<1>2. CASE UnsetEnv
  BY <1>2 DEF UnsetEnv, helperVars, versionVars, unitVars, MayFail, LTypeOK, Flow
<1>3. CASE SetEnvironment
  BY <1>3, OverrideValue
     DEF SetEnvironment, helperVars, versionVars, unitVars, MayFail, LTypeOK, Flow
<1>4. CASE LeaderKilled
  BY <1>4 DEF LeaderKilled, helperVars, versionVars, unitVars, MayFail, LTypeOK, Flow
<1>5. CASE StartTarget
  BY <1>5 DEF StartTarget, helperVars, versionVars, unitVars, LTypeOK, Flow
<1>6. CASE ServiceInit
  BY <1>6 DEF ServiceInit, unitVars, loginVars, MayFail, LTypeOK, Flow
<1>7. CASE ReachPre
  BY <1>7 DEF ReachPre, helperVars, versionVars, loginVars, LTypeOK, Flow
<1>8. CASE ReachCore
  BY <1>8 DEF ReachCore, helperVars, versionVars, loginVars, RunChecker, MayFail,
     LTypeOK, Flow
<1>9. CASE MonitorEnds
  BY <1>9 DEF MonitorEnds, helperVars, versionVars, loginVars, RunChecker, MayFail,
     LTypeOK, Flow
<1>10. CASE RequestLogout
  BY <1>10 DEF RequestLogout, versionVars, unitVars, loginVars, LTypeOK, Flow
<1>11. CASE ServiceEnds
  BY <1>11 DEF ServiceEnds, helperVars, versionVars, LTypeOK, Flow
<1>12. CASE StopPostShutdown
  BY <1>12 DEF StopPostShutdown, helperVars, versionVars, unitVars, loginVars, LTypeOK,
     Flow
<1>13. CASE StopPostUnset
  BY <1>13 DEF StopPostUnset, helperVars, versionVars, unitVars, loginVars, MayFail,
     LTypeOK, Flow
<1>14. CASE JobsEnd
  BY <1>14 DEF JobsEnd, helperVars, versionVars, unitVars, loginVars, LTypeOK, Flow
<1>15. CASE ManagerStops
  BY <1>15 DEF ManagerStops, versionVars, unitVars, loginVars, LTypeOK, Flow
<1>16. CASE Upgrade
  BY <1>16 DEF Upgrade, helperVars, unitVars, loginVars, LTypeOK, Flow
<1>17. CASE UNCHANGED vars
  BY <1>17 DEF vars, loginVars, unitVars, versionVars, helperVars, LTypeOK, Flow
<1> QED
  BY <1>1, <1>2, <1>3, <1>4, <1>5, <1>6, <1>7, <1>8, <1>9, <1>10, <1>11, <1>12, <1>13, <1>14,
     <1>15, <1>16, <1>17 DEF LNext

(* Failures and overlaps are remembered. *)
LEMMA UsedGrows == [LNext]_vars => used \subseteq used'
BY DEF LNext, vars, MayFail, RunChecker, loginVars, unitVars, versionVars, helperVars,
   Login, UnsetEnv, SetEnvironment, LeaderKilled, StartTarget, ServiceInit, ReachPre,
   ReachCore, MonitorEnds, RequestLogout, ServiceEnds, StopPostShutdown, StopPostUnset,
   JobsEnd, ManagerStops, Upgrade

(* Every step keeps the session type on its way. *)
LEMMA PlatformStep ==
    ASSUME LTypeOK, Flow, Platform, [LNext]_vars
    PROVE  Platform'
<1> SUFFICES ASSUME {"setFails", "alive"} \cap used' = {} PROVE Faithful'
  BY DEF Platform
<1>0. Faithful /\ "setFails" \notin used' /\ "alive" \notin used'
  BY UsedGrows DEF Platform
<1> USE EnvValues, BoundAssumption
<1>1. CASE Login
  <2>1. PICK k \in Kinds : login' = k /\ map' = Snapshot(k)
    BY <1>1 DEF Login
  <2>2. k \in AllKinds
    BY KindsAssumption
  <2> QED
    BY <1>0, <1>1, <2>1, <2>2, SnapshotValue DEF Login, helperVars, versionVars,
       unitVars, LTypeOK, Flow, Faithful
<1>2. CASE UnsetEnv
  BY <1>0, <1>2 DEF UnsetEnv, helperVars, versionVars, unitVars, MayFail, LTypeOK, Flow,
     Faithful
<1>3. CASE SetEnvironment
  <2>1. /\ leader = "set" /\ leader' = "start" /\ senv' = Override(senv, map)
        /\ UNCHANGED <<login, service, serving, seen>>
    BY <1>0, <1>3 DEF SetEnvironment, MayFail, unitVars
  <2>2. senv'["XDG_SESSION_TYPE"] = login.type
    <3>1. map["XDG_SESSION_TYPE"] = login.type /\ login.type # "unset"
      BY <2>1 DEF Flow, LTypeOK, AllKinds
    <3> QED  BY <2>1, <3>1, OverrideValue DEF LTypeOK
  <2>3. service = "off"
    BY <1>0, <2>1 DEF Faithful
  <2> QED  BY <1>0, <2>1, <2>2, <2>3 DEF Faithful
<1>4. CASE LeaderKilled
  BY <1>0, <1>4 DEF LeaderKilled, helperVars, versionVars, unitVars, MayFail, LTypeOK,
     Flow, Faithful
<1>5. CASE StartTarget
  BY <1>0, <1>5 DEF StartTarget, helperVars, versionVars, unitVars, LTypeOK, Flow,
     Faithful
<1>6. CASE ServiceInit
  BY <1>0, <1>6 DEF ServiceInit, unitVars, loginVars, MayFail, LTypeOK, Flow, Faithful
<1>7. CASE ReachPre
  BY <1>0, <1>7 DEF ReachPre, helperVars, versionVars, loginVars, LTypeOK, Flow,
     Faithful
<1>8. CASE ReachCore
  BY <1>0, <1>8 DEF ReachCore, helperVars, versionVars, loginVars, RunChecker, MayFail,
     LTypeOK, Flow, Faithful
<1>9. CASE MonitorEnds
  BY <1>0, <1>9 DEF MonitorEnds, helperVars, versionVars, loginVars, RunChecker,
     MayFail, LTypeOK, Flow, Faithful
<1>10. CASE RequestLogout
  BY <1>0, <1>10 DEF RequestLogout, versionVars, unitVars, loginVars, LTypeOK, Flow,
     Faithful
<1>11. CASE ServiceEnds
  BY <1>0, <1>11 DEF ServiceEnds, helperVars, versionVars, LTypeOK, Flow, Faithful
<1>12. CASE StopPostShutdown
  BY <1>0, <1>12 DEF StopPostShutdown, helperVars, versionVars, unitVars, loginVars,
     LTypeOK, Flow, Faithful
<1>13. CASE StopPostUnset
  BY <1>0, <1>13 DEF StopPostUnset, helperVars, versionVars, unitVars, loginVars,
     MayFail, LTypeOK, Flow, Faithful
<1>14. CASE JobsEnd
  BY <1>0, <1>14 DEF JobsEnd, helperVars, versionVars, unitVars, loginVars, LTypeOK,
     Flow, Faithful
<1>15. CASE ManagerStops
  BY <1>0, <1>15 DEF ManagerStops, versionVars, unitVars, loginVars, LTypeOK, Flow,
     Faithful
<1>16. CASE Upgrade
  BY <1>0, <1>16 DEF Upgrade, helperVars, unitVars, loginVars, LTypeOK, Flow, Faithful
<1>17. CASE UNCHANGED vars
  BY <1>0, <1>17 DEF vars, loginVars, unitVars, versionVars, helperVars, LTypeOK, Flow, Faithful
<1> QED
  BY <1>1, <1>2, <1>3, <1>4, <1>5, <1>6, <1>7, <1>8, <1>9, <1>10, <1>11, <1>12, <1>13, <1>14,
     <1>15, <1>16, <1>17 DEF LNext

(* Every step keeps a tidy user manager tidy. *)
LEMMA TidyStep ==
    ASSUME LTypeOK, Flow, NothingLeft, [LNext]_vars
    PROVE  NothingLeft'
<1> SUFFICES ASSUME Left \cap used' = {} PROVE Tidy'
  BY DEF NothingLeft
<1>0. /\ Tidy /\ "setFails" \notin used' /\ "alive" \notin used' /\ "overlap" \notin used'
      /\ "abandoned" \notin used' /\ "stopPostFails" \notin used'
  BY UsedGrows DEF NothingLeft, Left
<1> USE EnvValues, BoundAssumption
<1>1. CASE Login
  <2>1. PICK k \in Kinds : login' = k /\ map' = Snapshot(k)
    BY <1>1 DEF Login
  <2>2. k \in AllKinds
    BY KindsAssumption
  <2> QED
    BY <1>0, <1>1, <2>1, <2>2, SnapshotValue DEF Login, helperVars, versionVars,
       unitVars, LTypeOK, Flow, Tidy
<1>2. CASE UnsetEnv
  BY <1>0, <1>2 DEF UnsetEnv, helperVars, versionVars, unitVars, MayFail, LTypeOK, Flow,
     Tidy
<1>3. CASE SetEnvironment
  <2>1. /\ leader = "set" /\ leader' = "start" /\ senv' = Override(senv, map)
        /\ UNCHANGED <<login, service, serving, stopPost, jobs, seen>>
    BY <1>0, <1>3 DEF SetEnvironment, MayFail, unitVars
  <2>2. \A v \in Names : senv'[v] = IF map[v] = "unset" THEN senv[v] ELSE map[v]
    BY <2>1, OverrideValue DEF LTypeOK
  <2>3. senv'["XDG_CURRENT_DESKTOP"] = "set" /\ (senv'["DDE_QUICKLOGIN"] = "set" <=> login.quick)
    BY <1>0, <2>1, <2>2 DEF Flow, Tidy
  <2> QED  BY <1>0, <2>1, <2>3 DEF Tidy
<1>4. CASE LeaderKilled
  <2>1. leader # "start" /\ leader' = "none"
    BY <1>0, <1>4 DEF LeaderKilled, MayFail
  <2>2. UNCHANGED <<login, senv, service, serving, stopPost, jobs, seen>>
    BY <1>4 DEF LeaderKilled, unitVars
  <2> QED  BY <1>0, <2>1, <2>2 DEF LTypeOK, Tidy
<1>5. CASE StartTarget
  BY <1>0, <1>5 DEF StartTarget, helperVars, versionVars, unitVars, LTypeOK, Flow, Tidy
<1>6. CASE ServiceInit
  BY <1>0, <1>6 DEF ServiceInit, unitVars, loginVars, MayFail, LTypeOK, Flow, Tidy
<1>7. CASE ReachPre
  BY <1>0, <1>7 DEF ReachPre, helperVars, versionVars, loginVars, LTypeOK, Flow, Tidy
<1>8. CASE ReachCore
  BY <1>0, <1>8 DEF ReachCore, helperVars, versionVars, loginVars, RunChecker, MayFail,
     LTypeOK, Flow, Tidy
<1>9. CASE MonitorEnds
  BY <1>0, <1>9 DEF MonitorEnds, helperVars, versionVars, loginVars, RunChecker,
     MayFail, LTypeOK, Flow, Tidy
<1>10. CASE RequestLogout
  BY <1>0, <1>10 DEF RequestLogout, versionVars, unitVars, loginVars, LTypeOK, Flow,
     Tidy
<1>11. CASE ServiceEnds
  BY <1>0, <1>11 DEF ServiceEnds, helperVars, versionVars, LTypeOK, Flow, Tidy
<1>12. CASE StopPostShutdown
  BY <1>0, <1>12 DEF StopPostShutdown, helperVars, versionVars, unitVars, loginVars,
     LTypeOK, Flow, Tidy
<1>13. CASE StopPostUnset
  BY <1>0, <1>13 DEF StopPostUnset, helperVars, versionVars, unitVars, loginVars,
     MayFail, LTypeOK, Flow, Tidy
<1>14. CASE JobsEnd
  BY <1>0, <1>14 DEF JobsEnd, helperVars, versionVars, unitVars, loginVars, LTypeOK,
     Flow, Tidy
<1>15. CASE ManagerStops
  BY <1>0, <1>15 DEF ManagerStops, versionVars, unitVars, loginVars, LTypeOK, Flow, Tidy
<1>16. CASE Upgrade
  BY <1>0, <1>16 DEF Upgrade, helperVars, unitVars, loginVars, LTypeOK, Flow, Tidy
<1>17. CASE UNCHANGED vars
  BY <1>0, <1>17 DEF vars, loginVars, unitVars, versionVars, helperVars, LTypeOK, Flow, Tidy
<1> QED
  BY <1>1, <1>2, <1>3, <1>4, <1>5, <1>6, <1>7, <1>8, <1>9, <1>10, <1>11, <1>12, <1>13, <1>14,
     <1>15, <1>16, <1>17 DEF LNext

(* Every step keeps the count of the version checkers. *)
LEMMA ChecksStep ==
    ASSUME LTypeOK, Flow, Checks, [LNext]_vars
    PROVE  Checks'
<1> USE EnvValues, BoundAssumption
<1>1. CASE Login
  <2>1. PICK k \in Kinds : login' = k /\ map' = Snapshot(k)
    BY <1>1 DEF Login
  <2>2. k \in AllKinds
    BY KindsAssumption
  <2> QED
    BY <1>1, <2>1, <2>2, SnapshotValue DEF Login, helperVars, versionVars, unitVars,
       LTypeOK, Flow, Checks
<1>2. CASE UnsetEnv
  BY <1>2 DEF UnsetEnv, helperVars, versionVars, unitVars, MayFail, LTypeOK, Flow,
     Checks
<1>3. CASE SetEnvironment
  BY <1>3, OverrideValue
     DEF SetEnvironment, helperVars, versionVars, unitVars, MayFail, LTypeOK, Flow,
     Checks
<1>4. CASE LeaderKilled
  BY <1>4 DEF LeaderKilled, helperVars, versionVars, unitVars, MayFail, LTypeOK, Flow,
     Checks
<1>5. CASE StartTarget
  BY <1>5 DEF StartTarget, helperVars, versionVars, unitVars, LTypeOK, Flow, Checks
<1>6. CASE ServiceInit
  BY <1>6 DEF ServiceInit, unitVars, loginVars, MayFail, LTypeOK, Flow, Checks
<1>7. CASE ReachPre
  BY <1>7 DEF ReachPre, helperVars, versionVars, loginVars, LTypeOK, Flow, Checks
<1>8. CASE ReachCore
  BY <1>8 DEF ReachCore, helperVars, versionVars, loginVars, RunChecker, MayFail,
     LTypeOK, Flow, Checks
<1>9. CASE MonitorEnds
  BY <1>9 DEF MonitorEnds, helperVars, versionVars, loginVars, RunChecker, MayFail,
     LTypeOK, Flow, Checks
<1>10. CASE RequestLogout
  BY <1>10 DEF RequestLogout, versionVars, unitVars, loginVars, LTypeOK, Flow, Checks
<1>11. CASE ServiceEnds
  BY <1>11 DEF ServiceEnds, helperVars, versionVars, LTypeOK, Flow, Checks
<1>12. CASE StopPostShutdown
  BY <1>12 DEF StopPostShutdown, helperVars, versionVars, unitVars, loginVars, LTypeOK,
     Flow, Checks
<1>13. CASE StopPostUnset
  BY <1>13 DEF StopPostUnset, helperVars, versionVars, unitVars, loginVars, MayFail,
     LTypeOK, Flow, Checks
<1>14. CASE JobsEnd
  BY <1>14 DEF JobsEnd, helperVars, versionVars, unitVars, loginVars, LTypeOK, Flow,
     Checks
<1>15. CASE ManagerStops
  BY <1>15 DEF ManagerStops, versionVars, unitVars, loginVars, LTypeOK, Flow, Checks
<1>16. CASE Upgrade
  BY <1>16 DEF Upgrade, helperVars, unitVars, loginVars, LTypeOK, Flow, Checks
<1>17. CASE UNCHANGED vars
  BY <1>17 DEF vars, loginVars, unitVars, versionVars, helperVars, LTypeOK, Flow, Checks
<1> QED
  BY <1>1, <1>2, <1>3, <1>4, <1>5, <1>6, <1>7, <1>8, <1>9, <1>10, <1>11, <1>12, <1>13, <1>14,
     <1>15, <1>16, <1>17 DEF LNext

(* Every step keeps the count of the welcomes. *)
LEMMA WelcomesStep ==
    ASSUME LTypeOK, Welcomes, [LNext]_vars
    PROVE  Welcomes'
<1> USE EnvValues, BoundAssumption
<1>1. CASE Login
  <2>1. PICK k \in Kinds : login' = k /\ map' = Snapshot(k)
    BY <1>1 DEF Login
  <2>2. k \in AllKinds
    BY KindsAssumption
  <2> QED
    BY <1>1, <2>1, <2>2, SnapshotValue DEF Login, helperVars, versionVars, unitVars,
       LTypeOK, Welcomes
<1>2. CASE UnsetEnv
  BY <1>2 DEF UnsetEnv, helperVars, versionVars, unitVars, MayFail, LTypeOK, Welcomes
<1>3. CASE SetEnvironment
  BY <1>3, OverrideValue
     DEF SetEnvironment, helperVars, versionVars, unitVars, MayFail, LTypeOK,
     Welcomes
<1>4. CASE LeaderKilled
  BY <1>4 DEF LeaderKilled, helperVars, versionVars, unitVars, MayFail, LTypeOK,
     Welcomes
<1>5. CASE StartTarget
  BY <1>5 DEF StartTarget, helperVars, versionVars, unitVars, LTypeOK, Welcomes
<1>6. CASE ServiceInit
  BY <1>6 DEF ServiceInit, unitVars, loginVars, MayFail, LTypeOK, Welcomes
<1>7. CASE ReachPre
  BY <1>7 DEF ReachPre, helperVars, versionVars, loginVars, LTypeOK, Welcomes
<1>8. CASE ReachCore
  BY <1>8 DEF ReachCore, helperVars, versionVars, loginVars, RunChecker, MayFail,
     LTypeOK, Welcomes
<1>9. CASE MonitorEnds
  BY <1>9 DEF MonitorEnds, helperVars, versionVars, loginVars, RunChecker, MayFail,
     LTypeOK, Welcomes
<1>10. CASE RequestLogout
  BY <1>10 DEF RequestLogout, versionVars, unitVars, loginVars, LTypeOK, Welcomes
<1>11. CASE ServiceEnds
  BY <1>11 DEF ServiceEnds, helperVars, versionVars, LTypeOK, Welcomes
<1>12. CASE StopPostShutdown
  BY <1>12 DEF StopPostShutdown, helperVars, versionVars, unitVars, loginVars, LTypeOK,
     Welcomes
<1>13. CASE StopPostUnset
  BY <1>13 DEF StopPostUnset, helperVars, versionVars, unitVars, loginVars, MayFail,
     LTypeOK, Welcomes
<1>14. CASE JobsEnd
  BY <1>14 DEF JobsEnd, helperVars, versionVars, unitVars, loginVars, LTypeOK, Welcomes
<1>15. CASE ManagerStops
  BY <1>15 DEF ManagerStops, versionVars, unitVars, loginVars, LTypeOK, Welcomes
<1>16. CASE Upgrade
  BY <1>16 DEF Upgrade, helperVars, unitVars, loginVars, LTypeOK, Welcomes
<1>17. CASE UNCHANGED vars
  BY <1>17 DEF vars, loginVars, unitVars, versionVars, helperVars, LTypeOK, Welcomes
<1> QED
  BY <1>1, <1>2, <1>3, <1>4, <1>5, <1>6, <1>7, <1>8, <1>9, <1>10, <1>11, <1>12, <1>13, <1>14,
     <1>15, <1>16, <1>17 DEF LNext

(* Every step keeps the masks away from a running session. *)
LEMMA HelpersStep ==
    ASSUME LTypeOK, HelpersUnmasked, [LNext]_vars
    PROVE  HelpersUnmasked'
<1> USE EnvValues, BoundAssumption
<1>1. CASE Login
  <2>1. PICK k \in Kinds : login' = k /\ map' = Snapshot(k)
    BY <1>1 DEF Login
  <2>2. k \in AllKinds
    BY KindsAssumption
  <2> QED
    BY <1>1, <2>1, <2>2, SnapshotValue DEF Login, helperVars, versionVars, unitVars,
       LTypeOK, HelpersUnmasked
<1>2. CASE UnsetEnv
  BY <1>2 DEF UnsetEnv, helperVars, versionVars, unitVars, MayFail, LTypeOK,
     HelpersUnmasked
<1>3. CASE SetEnvironment
  BY <1>3, OverrideValue
     DEF SetEnvironment, helperVars, versionVars, unitVars, MayFail, LTypeOK,
     HelpersUnmasked
<1>4. CASE LeaderKilled
  BY <1>4 DEF LeaderKilled, helperVars, versionVars, unitVars, MayFail, LTypeOK,
     HelpersUnmasked
<1>5. CASE StartTarget
  BY <1>5 DEF StartTarget, helperVars, versionVars, unitVars, LTypeOK, HelpersUnmasked
<1>6. CASE ServiceInit
  BY <1>6 DEF ServiceInit, unitVars, loginVars, MayFail, LTypeOK, HelpersUnmasked
<1>7. CASE ReachPre
  BY <1>7 DEF ReachPre, helperVars, versionVars, loginVars, LTypeOK, HelpersUnmasked
<1>8. CASE ReachCore
  BY <1>8 DEF ReachCore, helperVars, versionVars, loginVars, RunChecker, MayFail,
     LTypeOK, HelpersUnmasked
<1>9. CASE MonitorEnds
  BY <1>9 DEF MonitorEnds, helperVars, versionVars, loginVars, RunChecker, MayFail,
     LTypeOK, HelpersUnmasked
<1>10. CASE RequestLogout
  BY <1>10 DEF RequestLogout, versionVars, unitVars, loginVars, LTypeOK, HelpersUnmasked
<1>11. CASE ServiceEnds
  BY <1>11 DEF ServiceEnds, helperVars, versionVars, LTypeOK, HelpersUnmasked
<1>12. CASE StopPostShutdown
  BY <1>12 DEF StopPostShutdown, helperVars, versionVars, unitVars, loginVars, LTypeOK,
     HelpersUnmasked
<1>13. CASE StopPostUnset
  BY <1>13 DEF StopPostUnset, helperVars, versionVars, unitVars, loginVars, MayFail,
     LTypeOK, HelpersUnmasked
<1>14. CASE JobsEnd
  BY <1>14 DEF JobsEnd, helperVars, versionVars, unitVars, loginVars, LTypeOK,
     HelpersUnmasked
<1>15. CASE ManagerStops
  BY <1>15 DEF ManagerStops, versionVars, unitVars, loginVars, LTypeOK, HelpersUnmasked
<1>16. CASE Upgrade
  BY <1>16 DEF Upgrade, helperVars, unitVars, loginVars, LTypeOK, HelpersUnmasked
<1>17. CASE UNCHANGED vars
  BY <1>17 DEF vars, loginVars, unitVars, versionVars, helperVars, LTypeOK, HelpersUnmasked
<1> QED
  BY <1>1, <1>2, <1>3, <1>4, <1>5, <1>6, <1>7, <1>8, <1>9, <1>10, <1>11, <1>12, <1>13, <1>14,
     <1>15, <1>16, <1>17 DEF LNext

LEMMA InitInv == LInit => Inv
<1>1. ASSUME LInit PROVE LTypeOK
  <2>1. login \in AllKinds /\ serving \in AllKinds
    BY <1>1, KindsAssumption DEF LInit
  <2>2. /\ logins \in 0..MaxLogins /\ os \in 1..MaxVersion /\ recorded \in 0..MaxVersion
        /\ stopPost \in 0..3 /\ checks \in Nat /\ welcomes \in Nat
    BY <1>1, BoundAssumption DEF LInit
  <2>3. map \in [Names -> Values] /\ senv \in [Names -> Values] /\ seen \in [Names -> Values]
    BY <1>1, EnvValues DEF LInit
  <2>4. jobs \in BOOLEAN /\ checker \in BOOLEAN /\ monitor \in BOOLEAN
    BY <1>1 DEF LInit
  <2> QED  BY <1>1, <2>1, <2>2, <2>3, <2>4 DEF LInit, LTypeOK
<1>2. LInit => Flow /\ Faithful /\ Tidy
  BY EnvValues DEF LInit, Flow, Faithful, Tidy
<1>3. LInit => Checks /\ Welcomes /\ HelpersUnmasked
  BY EnvValues DEF LInit, Checks, Welcomes, HelpersUnmasked
<1> QED  BY <1>1, <1>2, <1>3 DEF Inv, Platform, NothingLeft

LEMMA NextInv == Inv /\ [LNext]_vars => Inv'
<1> SUFFICES ASSUME Inv, [LNext]_vars PROVE Inv'
  OBVIOUS
<1>1. /\ LTypeOK /\ Flow /\ Platform /\ NothingLeft /\ Checks /\ Welcomes /\ HelpersUnmasked
  BY DEF Inv
<1>2. LTypeOK' /\ Flow' /\ Platform'
  BY <1>1, TypeStep, FlowStep, PlatformStep
<1>3. NothingLeft' /\ Checks'
  BY <1>1, TidyStep, ChecksStep
<1>4. Welcomes' /\ HelpersUnmasked'
  BY <1>1, WelcomesStep, HelpersStep
<1> QED  BY <1>2, <1>3, <1>4 DEF Inv

(* The invariant holds of every reachable state. *)
THEOREM Invariance == LSpec => []Inv
BY InitInv, NextInv, PTL DEF LSpec
-----------------------------------------------------------------------------
(* The types of the logins, for any failures and bounds. *)
THEOREM TypeCorrect == LSpec => []LTypeOK
<1>1. Inv => LTypeOK
  BY DEF Inv
<1> QED  BY <1>1, Invariance, PTL

(* However many logins of whatever kinds follow each other, the units of a  *)
(* session find the environment of the login that started it.               *)
THEOREM OwnEnvironment == LSpec => []UnitsSeeOwnLogin
<1>1. Inv => UnitsSeeOwnLogin
  <2> SUFFICES ASSUME Inv, seen # Empty, {"setFails", "alive"} \cap used = {}
               PROVE  /\ seen["XDG_SESSION_TYPE"] = serving.type
                      /\ {"overlap", "abandoned", "stopPostFails"} \cap used = {}
                             => /\ seen["XDG_CURRENT_DESKTOP"] = "set"
                                /\ (seen["DDE_QUICKLOGIN"] = "set" <=> serving.quick)
    BY DEF UnitsSeeOwnLogin
  <2>1. seen["XDG_SESSION_TYPE"] = serving.type
    BY DEF Inv, Platform, Faithful
  <2>2. ASSUME {"overlap", "abandoned", "stopPostFails"} \cap used = {}
        PROVE  /\ seen["XDG_CURRENT_DESKTOP"] = "set"
               /\ (seen["DDE_QUICKLOGIN"] = "set" <=> serving.quick)
    BY <2>2 DEF Inv, NothingLeft, Left, Tidy
  <2> QED  BY <2>1, <2>2
<1> QED  BY <1>1, Invariance, PTL

(* The two units of the version checker never both run it in one session,   *)
(* although each reads the quick flag at a time of its own.                 *)
THEOREM OneChecker == LSpec => []CheckedOnce
<1>1. Inv => CheckedOnce
  BY DEF Inv, Checks, Welcomes, CheckedOnce
<1> QED  BY <1>1, Invariance, PTL

(* No sequence of logouts, crashes and logins hands a mask on. *)
THEOREM MasksEnd == LSpec => []HelpersUnmasked
<1>1. Inv => HelpersUnmasked
  BY DEF Inv
<1> QED  BY <1>1, Invariance, PTL
=============================================================================
