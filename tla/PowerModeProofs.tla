--------------------------- MODULE PowerModeProofs ---------------------------
(***************************************************************************)
(* For any number of sessions, any modes and any bounds: the types, no     *)
(* lost recovery, the size of the window for a write by a session that is  *)
(* not active any more, and a measure that the calls of a session lower.   *)
(***************************************************************************)
EXTENDS PowerMode, TLAPS

(* The queue of a session keeps a signal when another one is appended ...  *)
LEMMA AppendKeeps ==
    ASSUME NEW q \in Seq(Signals), NEW e \in Signals, NEW S
    PROVE  /\ Append(q, e) \in Seq(Signals)
           /\ (\E i \in 1..Len(q) : q[i] \in S)
                => \E i \in 1..Len(Append(q, e)) : Append(q, e)[i] \in S
           /\ e \in S => \E i \in 1..Len(Append(q, e)) : Append(q, e)[i] \in S
<1>1. Append(q, e) \in Seq(Signals) /\ Len(Append(q, e)) = Len(q) + 1 /\ Len(q) \in Nat
  OBVIOUS
<1>2. \A i \in 1..Len(q) : Append(q, e)[i] = q[i] /\ i \in 1..Len(Append(q, e))
  BY <1>1
<1>3. Append(q, e)[Len(q) + 1] = e /\ Len(q) + 1 \in 1..Len(Append(q, e))
  BY <1>1
<1> QED  BY <1>1, <1>2, <1>3

(* ... and when an event of another kind is dispatched from its head.      *)
LEMMA TailKeeps ==
    ASSUME NEW q \in Seq(Signals), q # <<>>, NEW S
    PROVE  /\ Tail(q) \in Seq(Signals)
           /\ Head(q) \in Signals
           /\ (Head(q) \notin S /\ \E i \in 1..Len(q) : q[i] \in S)
                => \E i \in 1..Len(Tail(q)) : Tail(q)[i] \in S
<1>1. /\ Tail(q) \in Seq(Signals) /\ Head(q) = q[1]
      /\ Len(Tail(q)) = Len(q) - 1 /\ Len(q) \in Nat \ {0}
  OBVIOUS
<1>2. \A i \in 1..Len(q) : i # 1 => Tail(q)[i - 1] = q[i] /\ i - 1 \in 1..Len(Tail(q))
  BY <1>1
<1>3. Head(q) \in Signals
  OBVIOUS
<1> QED  BY <1>1, <1>2, <1>3

(* A low charge turns powersave into lowBattery and leaves all else alone. *)
LEMMA EffectiveMode ==
    ASSUME NEW m \in Modes
    PROVE  /\ Effective(m) \in TlpModes
           /\ Fits(m, m) /\ Fits(Effective(m), m)
           /\ (Fits(PowerSave, m) /\ lowCharge) => Fits(LowBattery, m)
BY ModesAssumption DEF Effective, Fits, Modes, TlpModes, PowerSave, LowBattery, Performance

-----------------------------------------------------------------------------
(* What TypeOK lacks: a session reads the battery only for powersave. *)
BatteryOnlyForPowerSave == \A s \in Sessions : pc[s] = "battery" => target[s] = PowerSave

IInv == TypeOK /\ NoLostRecovery /\ WriterUnawareOfSwitch /\ BatteryOnlyForPowerSave

LEMMA InitIInv == Init => IInv
<1> SUFFICES ASSUME Init PROVE IInv
  OBVIOUS
<1>1. TypeOK
  <2>1. <<"start">> \in Seq(Signals)
    BY DEF Signals
  <2>2. left \in [Bounds -> Nat]
    BY BoundsAssumption DEF Init
  <2>3. Performance \in TlpModes
    BY DEF Modes, TlpModes
  <2> QED  BY <2>1, <2>2, <2>3 DEF Init, TypeOK, PCs
<1>2. NoLostRecovery
  <2>1. ASSUME NEW s \in Sessions PROVE Queued(s, {"start", "wake", "active"})
    <3>1. queue[s] = <<"start">>
      BY DEF Init
    <3>2. Len(<<"start">>) = 1 /\ <<"start">>[1] = "start"
      OBVIOUS
    <3> QED  BY <3>1, <3>2 DEF Queued
  <2> QED  BY <2>1 DEF NoLostRecovery, RecoveryComing
<1>3. WriterUnawareOfSwitch /\ BatteryOnlyForPowerSave
  BY DEF Init, WriterUnawareOfSwitch, BatteryOnlyForPowerSave
<1> QED  BY <1>1, <1>2, <1>3 DEF IInv

(* A spent bound stays a natural number.                                   *)
LEMMA SpendType ==
    ASSUME NEW b \in Bounds, left \in [Bounds -> Nat], Spend(b)
    PROVE  left' \in [Bounds -> Nat] /\ left' # left
BY DEF Spend

(* A return leaves the locals typed. *)
LEMMA ReturnType ==
    ASSUME TypeOK, NEW s \in Sessions, Return(s)
    PROVE  /\ pc' \in [Sessions -> PCs]
           /\ seenTlp' \in [Sessions -> TlpModes]
           /\ target' \in [Sessions -> TlpModes]
BY DEF TypeOK, Return, Goto, PCs, TlpModes, Modes

(* Whatever becomes of a SetTlpMode call. *)
LEMMA SetTlpType ==
    ASSUME TypeOK, NEW v \in TlpModes, SetTlpMode(v)
    PROVE  /\ mode' = mode /\ lowCharge' = lowCharge
           /\ tlp' \in {tlp, v} /\ late' \in SUBSET TlpModes
           /\ left' \in [Bounds -> Nat]
           /\ left' = left => tlp' = v
<1>1. "fault" \in Bounds /\ left \in [Bounds -> Nat] /\ late \in SUBSET TlpModes
  BY DEF TypeOK, Bounds
<1>2. CASE tlp' = v /\ UNCHANGED <<mode, lowCharge, late, left>>
  BY <1>1, <1>2
<1>3. CASE Spend("fault") /\ UNCHANGED busVars
  BY <1>1, <1>3, SpendType DEF busVars
<1>4. CASE Spend("fault") /\ late' = late \cup {v} /\ UNCHANGED <<mode, tlp, lowCharge>>
  BY <1>1, <1>4, SpendType
<1> QED  BY <1>2, <1>3, <1>4 DEF SetTlpMode

LEMMA TypeStep == TypeOK /\ [Next]_vars => TypeOK'
<1> SUFFICES ASSUME TypeOK, [Next]_vars PROVE TypeOK'
  OBVIOUS
<1> USE DEF TypeOK, Goto, envVars, busVars, sessVars, PCs
<1>a. Performance \in TlpModes /\ LowBattery \in TlpModes /\ Modes \subseteq TlpModes
  BY DEF Modes, TlpModes
<1>b. {"switch", "request", "user", "fault"} \subseteq Bounds
  BY DEF Bounds
<1>c. {"getFailed", "setFailed", "late", "refused", "stale", "poweroff"} \subseteq Faults
  BY DEF Faults
<1>1. ASSUME NEW s \in Sessions, DispatchRecovery(s) PROVE TypeOK'
  BY <1>1, TailKeeps DEF DispatchRecovery
<1>2. ASSUME NEW s \in Sessions, DispatchInactive(s) PROVE TypeOK'
  BY <1>2, TailKeeps DEF DispatchInactive
<1>3. ASSUME NEW s \in Sessions, GetTlpMode(s) PROVE TypeOK'
  BY <1>3 DEF GetTlpMode
<1>4. ASSUME NEW s \in Sessions, GetMode(s) PROVE TypeOK'
  <2>1. CASE Return(s)
    BY <1>4, <2>1, ReturnType DEF GetMode
  <2>2. CASE ~Return(s)
    BY <1>4, <1>a, <2>2 DEF GetMode
  <2> QED  BY <2>1, <2>2
<1>5. ASSUME NEW s \in Sessions, GetFails(s) PROVE TypeOK'
  <2>1. left' \in [Bounds -> Nat]
    BY <1>5, <1>b, SpendType DEF GetFails
  <2> QED  BY <1>5, <1>c, <2>1, ReturnType DEF GetFails
<1>6. ASSUME NEW s \in Sessions, GetBattery(s) PROVE TypeOK'
  <2>1. CASE Return(s) /\ UNCHANGED left
    BY <1>6, <2>1, ReturnType DEF GetBattery
  <2>2. CASE Goto(s, "recheck") /\ UNCHANGED left
    BY <1>6, <1>a, <2>2, ReturnType DEF GetBattery
  <2>3. CASE Spend("fault") /\ Goto(s, "recheck")
    <3>1. left' \in [Bounds -> Nat]
      BY <1>b, <2>3, SpendType
    <3> QED  BY <1>6, <1>a, <2>3, <3>1, ReturnType DEF GetBattery
  <2> QED  BY <1>6, <2>1, <2>2, <2>3 DEF GetBattery
<1>7. ASSUME NEW s \in Sessions, Recheck(s) PROVE TypeOK'
  <2>1. CASE Return(s)
    BY <1>7, <2>1, ReturnType DEF Recheck
  <2>2. CASE ~Return(s)
    BY <1>7, <2>2 DEF Recheck
  <2> QED  BY <2>1, <2>2
<1>8. ASSUME NEW s \in Sessions, Restore(s) PROVE TypeOK'
  <2>1. target[s] \in TlpModes /\ SetTlpMode(target[s])
    BY <1>8 DEF Restore
  <2> QED  BY <1>8, <1>c, <2>1, SetTlpType, ReturnType DEF Restore
<1>9. ASSUME NEW s \in Sessions, SetPerformance(s) PROVE TypeOK'
  BY <1>9, <1>a, SetTlpType DEF SetPerformance
<1>10. ASSUME NEW s \in Sessions, CallSleep(s) \/ CallPowerOff(s) PROVE TypeOK'
  BY <1>10, <1>c DEF CallSleep, CallPowerOff
<1>11. ASSUME NEW s \in Sessions, SessionRequest(s) PROVE TypeOK'
  <2>1. Spend("request") /\ left' \in [Bounds -> Nat]
    BY <1>11, <1>b, SpendType
       DEF SessionRequest, RequestSuspend, RequestHibernate, RequestPowerOff, Request
  <2> QED
    BY <1>11, <2>1
       DEF SessionRequest, RequestSuspend, RequestHibernate, RequestPowerOff, Request
<1>12. ASSUME NEW x \in Sessions \cup {NoSession}, SwitchTo(x) PROVE TypeOK'
  <2>1. queue' \in [Sessions -> Seq(Signals)]
    BY <1>12, AppendKeeps DEF SwitchTo, Signals
  <2>2. left' \in [Bounds -> Nat]
    BY <1>12, <1>b, SpendType DEF SwitchTo
  <2> QED  BY <1>12, <2>1, <2>2 DEF SwitchTo
<1>13. ASSUME Wake PROVE TypeOK'
  <2>1. queue' \in [Sessions -> Seq(Signals)]
    BY <1>13, AppendKeeps DEF Wake, Signals
  <2> QED  BY <1>13, <2>1 DEF Wake
<1>14. ASSUME LogindRefuses \/ LogindSleeps PROVE TypeOK'
  BY <1>14, <1>c DEF LogindRefuses, LogindSleeps
<1>15. ASSUME UserSetsMode PROVE TypeOK'
  <2>1. left' \in [Bounds -> Nat]
    BY <1>15, <1>b, SpendType DEF UserSetsMode
  <2>2. mode' \in Modes /\ tlp' \in TlpModes
    BY <1>15, <1>a, EffectiveMode DEF UserSetsMode
  <2> QED  BY <1>15, <2>1, <2>2 DEF UserSetsMode
<1>16. ASSUME LateApply PROVE TypeOK'
  BY <1>16, <1>c DEF LateApply
<1>17. CASE UNCHANGED vars
  BY <1>17 DEF vars
<1> QED
  BY <1>1, <1>2, <1>3, <1>4, <1>5, <1>6, <1>7, <1>8, <1>9, <1>10, <1>11, <1>12, <1>13,
     <1>14, <1>15, <1>16, <1>17 DEF Next, SessionStep

(* The program counter and the locals of a session change only in its own  *)
(* steps; a step of another session leaves its view of the world intact.   *)
LEMMA WriterStep == IInv /\ [Next]_vars => WriterUnawareOfSwitch'
<1> SUFFICES ASSUME IInv, [Next]_vars, NEW r \in Sessions, pc'[r] = "restore"
             PROVE  active' = r \/ Queued(r, {"inactive"})'
  BY DEF WriterUnawareOfSwitch
<1> USE DEF IInv, TypeOK, WriterUnawareOfSwitch, Queued, Goto, Return, envVars, busVars, sessVars
<1>1. ASSUME NEW s \in Sessions, DispatchRecovery(s) \/ DispatchInactive(s)
      PROVE  active' = r \/ Queued(r, {"inactive"})'
  BY <1>1 DEF DispatchRecovery, DispatchInactive
<1>2. ASSUME NEW s \in Sessions,
             GetTlpMode(s) \/ GetMode(s) \/ GetFails(s) \/ GetBattery(s) \/ Recheck(s) \/ Restore(s)
      PROVE  active' = r \/ Queued(r, {"inactive"})'
  BY <1>2 DEF GetTlpMode, GetMode, GetFails, GetBattery, Recheck, Restore
<1>3. ASSUME NEW s \in Sessions,
             SetPerformance(s) \/ CallSleep(s) \/ CallPowerOff(s) \/ SessionRequest(s)
      PROVE  active' = r \/ Queued(r, {"inactive"})'
  BY <1>3 DEF SetPerformance, CallSleep, CallPowerOff,
              SessionRequest, RequestSuspend, RequestHibernate, RequestPowerOff, Request
<1>4. ASSUME NEW x \in Sessions \cup {NoSession}, SwitchTo(x)
      PROVE  active' = r \/ Queued(r, {"inactive"})'
  <2>1. CASE active = r
    <3>1. queue'[r] = Append(queue[r], "inactive")
      BY <1>4, <2>1 DEF SwitchTo
    <3> QED  BY <3>1, AppendKeeps DEF Signals
  <2>2. CASE active # r
    <3>1. Queued(r, {"inactive"})
      BY <1>4, <2>2 DEF SwitchTo
    <3>2. queue'[r] = queue[r] \/ queue'[r] = Append(queue[r], "active")
      BY <1>4, <2>2 DEF SwitchTo
    <3> QED  BY <3>1, <3>2, AppendKeeps DEF Signals
  <2> QED  BY <2>1, <2>2
<1>5. ASSUME Wake PROVE active' = r \/ Queued(r, {"inactive"})'
  <2>1. queue'[r] = Append(queue[r], "wake") /\ pc[r] = "restore" /\ active' = active
    BY <1>5 DEF Wake
  <2> QED  BY <2>1, AppendKeeps DEF Signals
<1>6. ASSUME LogindRefuses \/ LogindSleeps \/ UserSetsMode \/ LateApply \/ UNCHANGED vars
      PROVE  active' = r \/ Queued(r, {"inactive"})'
  BY <1>6 DEF LogindRefuses, LogindSleeps, UserSetsMode, LateApply, vars
<1> QED  BY <1>1, <1>2, <1>3, <1>4, <1>5, <1>6 DEF Next, SessionStep

LEMMA BatteryStep == IInv /\ [Next]_vars => BatteryOnlyForPowerSave'
<1> SUFFICES ASSUME IInv, [Next]_vars, NEW r \in Sessions, pc'[r] = "battery"
             PROVE  target'[r] = PowerSave
  BY DEF BatteryOnlyForPowerSave
<1> USE DEF IInv, TypeOK, BatteryOnlyForPowerSave, Goto, Return, envVars, busVars, sessVars
<1>1. ASSUME NEW s \in Sessions, SessionStep(s) PROVE target'[r] = PowerSave
  BY <1>1 DEF SessionStep, DispatchRecovery, DispatchInactive, GetTlpMode, GetMode, GetFails,
              GetBattery, Recheck, Restore, SetPerformance, CallSleep, CallPowerOff
<1>2. ASSUME NEW s \in Sessions, SessionRequest(s) PROVE target'[r] = PowerSave
  BY <1>2 DEF SessionRequest, RequestSuspend, RequestHibernate, RequestPowerOff, Request
<1>3. ASSUME NEW x \in Sessions \cup {NoSession}, SwitchTo(x) PROVE target'[r] = PowerSave
  BY <1>3 DEF SwitchTo
<1>4. ASSUME Wake \/ LogindRefuses \/ LogindSleeps \/ UserSetsMode \/ LateApply \/ UNCHANGED vars
      PROVE  target'[r] = PowerSave
  BY <1>4 DEF Wake, LogindRefuses, LogindSleeps, UserSetsMode, LateApply, vars
<1> QED  BY <1>1, <1>2, <1>3, <1>4 DEF Next

(* What NoLostRecovery asks of session r. *)
Covered(r) ==
    (active = r /\ pc[r] # "exited" /\ faults = {} /\ ~RequestUnderWay)
        => Restored \/ RecoveryComing(r)

LEMMA OwnStep ==
    ASSUME IInv, NEW r \in Sessions, SessionStep(r)
    PROVE  Covered(r)'
<1> USE DEF IInv, TypeOK, NoLostRecovery, Covered, Restored, Goto, envVars, busVars, sessVars
<1>m. mode \in Modes /\ Fits(mode, mode) /\ Fits(Effective(mode), mode)
  BY EffectiveMode
<1>1. CASE DispatchRecovery(r)
  BY <1>1 DEF DispatchRecovery, RecoveryComing
<1>2. CASE DispatchInactive(r)
  <2>1. Queued(r, {"start", "wake", "active"}) => Queued(r, {"start", "wake", "active"})'
    BY <1>2, TailKeeps DEF DispatchInactive, Queued
  <2> QED  BY <1>2, <2>1 DEF DispatchInactive, RecoveryComing, RequestUnderWay, Fits, Effective
<1>3. CASE GetTlpMode(r)
  BY <1>3 DEF GetTlpMode, RecoveryComing, RequestUnderWay, Fits, Effective, Queued
<1>4. CASE GetMode(r)
  BY <1>4, <1>m DEF GetMode, Return, RecoveryComing, RequestUnderWay, Fits, Effective, Queued
<1>5. CASE GetFails(r)
  BY <1>5 DEF GetFails
<1>6. CASE GetBattery(r)
  <2>1. pc[r] = "battery" /\ target[r] = PowerSave
    BY <1>6 DEF GetBattery, BatteryOnlyForPowerSave
  <2> QED
    BY <1>6, <1>m, <2>1, EffectiveMode
    DEF GetBattery, Return, RecoveryComing, RequestUnderWay, Fits, Effective, Queued
<1>7. CASE Recheck(r)
  BY <1>7 DEF Recheck, Return, RecoveryComing, RequestUnderWay, Fits, Effective, Queued
<1>8. CASE Restore(r)
  <2>1. target[r] \in TlpModes /\ SetTlpMode(target[r])
    BY <1>8 DEF Restore
  <2>2. CASE left' = left /\ Fits(target[r], mode)
    BY <1>8, <2>1, <2>2, SetTlpType DEF Restore, Fits, Effective
  <2>3. CASE ~(left' = left /\ Fits(target[r], mode))
    BY <1>8, <2>3 DEF Restore
  <2> QED  BY <2>2, <2>3
<1>9. CASE SetPerformance(r)
  BY <1>9 DEF SetPerformance, RequestUnderWay
<1>10. CASE CallSleep(r) \/ CallPowerOff(r)
  BY <1>10 DEF CallSleep, CallPowerOff, RequestUnderWay
<1> QED
  BY <1>1, <1>2, <1>3, <1>4, <1>5, <1>6, <1>7, <1>8, <1>9, <1>10 DEF SessionStep

(* A step of another session: the only ones that matter to r write TlpMode. *)
LEMMA ForeignStep ==
    ASSUME IInv, NEW r \in Sessions, NEW s \in Sessions, s # r, SessionStep(s)
    PROVE  Covered(r)'
<1> USE DEF IInv, TypeOK, NoLostRecovery, Covered, Restored, Goto, envVars, busVars, sessVars
<1>1. CASE Restore(s)
  <2>1. target[s] \in TlpModes /\ SetTlpMode(target[s])
    BY <1>1 DEF Restore
  <2>2. CASE left' = left /\ Fits(target[s], mode)
    BY <1>1, <2>1, <2>2, SetTlpType DEF Restore, Fits, Effective
  <2>3. CASE ~(left' = left /\ Fits(target[s], mode))
    BY <1>1, <2>3 DEF Restore
  <2> QED  BY <2>2, <2>3
<1>2. CASE SetPerformance(s)
  <2>1. pc'[s] \in {"callSleep", "callOff"}
    BY <1>2 DEF SetPerformance
  <2> QED  BY <2>1 DEF RequestUnderWay
<1>3. CASE CallSleep(s) \/ CallPowerOff(s)
  BY <1>3 DEF CallSleep, CallPowerOff, RequestUnderWay
<1>4. CASE GetFails(s)
  BY <1>4 DEF GetFails
<1>5. ASSUME \/ DispatchRecovery(s) \/ DispatchInactive(s) \/ GetTlpMode(s) \/ GetMode(s)
             \/ GetBattery(s) \/ Recheck(s)
      PROVE  Covered(r)'
  <2>1. /\ UNCHANGED <<active, asked, preparing, mode, tlp, lowCharge, faults>>
        /\ pc'[r] = pc[r] /\ queue'[r] = queue[r]
        /\ seenTlp'[r] = seenTlp[r] /\ target'[r] = target[r]
    BY <1>5
       DEF DispatchRecovery, DispatchInactive, GetTlpMode, GetMode, GetBattery, Recheck, Return
  <2>2. pc[s] \notin {"callSleep", "callOff"}
    BY <1>5 DEF DispatchRecovery, DispatchInactive, GetTlpMode, GetMode, GetBattery, Recheck
  <2>3. \A q \in Sessions \ {s} : pc'[q] = pc[q]
    BY <1>5
       DEF DispatchRecovery, DispatchInactive, GetTlpMode, GetMode, GetBattery, Recheck, Return
  <2>4. RequestUnderWay => RequestUnderWay'
    BY <2>1, <2>2, <2>3 DEF RequestUnderWay
  <2> QED  BY <2>1, <2>4 DEF RecoveryComing, Queued, Fits, Effective
<1> QED  BY <1>1, <1>2, <1>3, <1>4, <1>5 DEF SessionStep

(* Everything that is not a step of a session manager. *)
LEMMA OutsideStep ==
    ASSUME IInv, NEW r \in Sessions,
           \/ \E s \in Sessions : SessionRequest(s)
           \/ \E x \in Sessions \cup {NoSession} : SwitchTo(x)
           \/ LogindRefuses \/ LogindSleeps \/ Wake \/ UserSetsMode \/ LateApply
           \/ UNCHANGED vars
    PROVE  Covered(r)'
<1> USE DEF IInv, TypeOK, NoLostRecovery, Covered, Restored, envVars, busVars, sessVars
<1>1. ASSUME NEW s \in Sessions, SessionRequest(s) PROVE Covered(r)'
  <2>1. /\ pc[s] = "idle" /\ \E l \in {"reqSleep", "reqOff"} : pc' = [pc EXCEPT ![s] = l]
        /\ UNCHANGED <<active, asked, preparing, mode, tlp, lowCharge, queue, seenTlp, target, faults>>
    BY <1>1 DEF SessionRequest, RequestSuspend, RequestHibernate, RequestPowerOff, Request, Goto
  <2>2. RequestUnderWay => RequestUnderWay'
    BY <2>1 DEF RequestUnderWay
  <2> QED  BY <2>1, <2>2 DEF RecoveryComing, Queued, Fits, Effective
<1>2. ASSUME NEW x \in Sessions \cup {NoSession}, SwitchTo(x) PROVE Covered(r)'
  <2>1. CASE r = x
    <3>1. queue'[r] = Append(queue[r], "active")
      BY <1>2, <2>1 DEF SwitchTo
    <3> QED  BY <3>1, AppendKeeps DEF RecoveryComing, Queued, Signals
  <2>2. CASE r # x
    BY <1>2, <2>2 DEF SwitchTo
  <2> QED  BY <2>1, <2>2
<1>3. CASE Wake
  <2>1. queue'[r] = Append(queue[r], "wake")
    BY <1>3 DEF Wake
  <2> QED  BY <2>1, AppendKeeps DEF RecoveryComing, Queued, Signals
<1>4. CASE LogindRefuses
  BY <1>4 DEF LogindRefuses
<1>5. CASE LogindSleeps
  BY <1>5 DEF LogindSleeps, RequestUnderWay
<1>6. CASE UserSetsMode
  BY <1>6 DEF UserSetsMode, Fits, Effective
<1>7. CASE LateApply
  BY <1>7 DEF LateApply
<1>8. CASE UNCHANGED vars
  BY <1>8 DEF vars, RequestUnderWay, RecoveryComing, Queued, Fits, Effective
<1> QED
  BY <1>1, <1>2, <1>3, <1>4, <1>5, <1>6, <1>7, <1>8

LEMMA NextIInv == IInv /\ [Next]_vars => IInv'
<1> SUFFICES ASSUME IInv, [Next]_vars PROVE IInv'
  OBVIOUS
<1>1. TypeOK'
  BY TypeStep DEF IInv
<1>2. ASSUME NEW r \in Sessions PROVE Covered(r)'
  <2>1. CASE \E s \in Sessions : SessionStep(s)
    BY <2>1, OwnStep, ForeignStep
  <2>2. CASE ~ \E s \in Sessions : SessionStep(s)
    BY <2>2, OutsideStep DEF Next
  <2> QED  BY <2>1, <2>2
<1>3. NoLostRecovery'
  BY <1>2 DEF NoLostRecovery, Covered
<1> QED  BY <1>1, <1>3, WriterStep, BatteryStep DEF IInv
-----------------------------------------------------------------------------
LEMMA Invariance == Spec => []IInv
<1> QED  BY InitIInv, NextIInv, PTL DEF Spec

(* Every variable keeps its type, whatever the number of sessions: queues   *)
(* hold known signals and every session manager is at a known call.         *)
THEOREM TypeCorrect == Spec => []TypeOK
<1>1. IInv => TypeOK
  BY DEF IInv
<1> QED  BY <1>1, Invariance, PTL

(* No wake-up or activation is lost between the early returns of            *)
(* recoverySystemPowerMode: a wrong TlpMode is about to be restored by the  *)
(* active session, or is explained by a request under way or a failed call. *)
THEOREM RecoveryNeverLost == Spec => []NoLostRecovery
<1>1. IInv => NoLostRecovery
  BY DEF IInv
<1> QED  BY <1>1, Invariance, PTL

(* A session that writes TlpMode without owning the seat has its            *)
(* ActiveChanged(false) still undelivered.                                  *)
THEOREM ForeignWriterUnaware == Spec => []WriterUnawareOfSwitch
<1>1. IInv => WriterUnawareOfSwitch
  BY DEF IInv
<1> QED  BY <1>1, Invariance, PTL
-----------------------------------------------------------------------------
(* What EventuallyRestored rests on, apart from fairness: every stretch of  *)
(* blocking calls ends, and only an occasion outside begins another one.    *)

(* How many calls of its handler or its request a session has left. *)
Calls(l) == CASE l = "getTlp" -> 5 [] l = "getMode" -> 4 [] l = "battery" -> 3
              [] l = "recheck" -> 2 [] l = "restore" -> 1
              [] l \in {"reqSleep", "reqOff"} -> 2 [] l \in {"callSleep", "callOff"} -> 1
              [] OTHER -> 0

(* A session dispatches a signal or has fewer calls left, whatever else     *)
(* happens on the bus; otherwise it was idle and was asked for something,   *)
(* or the seat changed hands, or the machine woke up.                       *)
LessToDo(s) ==
    \/ Len(queue'[s]) < Len(queue[s])
    \/ queue'[s] = queue[s] /\ Calls(pc'[s]) < Calls(pc[s])

WorkShrinks ==
    \A s \in Sessions :
        \/ queue'[s] = queue[s] /\ pc'[s] = pc[s]
        \/ LessToDo(s)
        \/ pc[s] = "idle" /\ left'["request"] < left["request"]
        \/ pc'[s] = pc[s] /\ (active' # active \/ (preparing /\ ~preparing'))

LEMMA SpendLess ==
    ASSUME TypeOK, NEW b \in Bounds, Spend(b) PROVE left'[b] < left[b]
  BY DEF TypeOK, Spend

LEMMA OwnWork ==
    ASSUME TypeOK, NEW s \in Sessions, SessionStep(s) PROVE LessToDo(s)
<1> USE DEF TypeOK, LessToDo, Goto, Return, Calls
<1>1. CASE DispatchRecovery(s) \/ DispatchInactive(s)
  <2>1. queue[s] # <<>> /\ queue'[s] = Tail(queue[s]) /\ queue[s] \in Seq(Signals)
    BY <1>1 DEF DispatchRecovery, DispatchInactive
  <2>2. Len(Tail(queue[s])) < Len(queue[s])
    BY <2>1
  <2> QED  BY <2>1, <2>2
<1>2. CASE GetTlpMode(s) \/ GetMode(s)
  BY <1>2 DEF GetTlpMode, GetMode
<1>3. CASE GetFails(s)
  BY <1>3 DEF GetFails
<1>4. CASE GetBattery(s) \/ Recheck(s)
  BY <1>4 DEF GetBattery, Recheck
<1>5. CASE Restore(s)
  BY <1>5 DEF Restore
<1>6. CASE SetPerformance(s)
  BY <1>6 DEF SetPerformance
<1>7. CASE CallSleep(s) \/ CallPowerOff(s)
  BY <1>7 DEF CallSleep, CallPowerOff
<1> QED
  BY <1>1, <1>2, <1>3, <1>4, <1>5, <1>6, <1>7 DEF SessionStep

LEMMA OthersWork ==
    ASSUME TypeOK, NEW r \in Sessions, NEW s \in Sessions, s # r, SessionStep(r)
    PROVE  queue'[s] = queue[s] /\ pc'[s] = pc[s]
<1> USE DEF TypeOK, Goto, Return
<1>1. CASE DispatchRecovery(r) \/ DispatchInactive(r)
  BY <1>1 DEF DispatchRecovery, DispatchInactive
<1>2. CASE GetTlpMode(r) \/ GetMode(r) \/ GetFails(r)
  BY <1>2 DEF GetTlpMode, GetMode, GetFails
<1>3. CASE GetBattery(r) \/ Recheck(r) \/ Restore(r)
  BY <1>3 DEF GetBattery, Recheck, Restore
<1>4. CASE SetPerformance(r) \/ CallSleep(r) \/ CallPowerOff(r)
  BY <1>4 DEF SetPerformance, CallSleep, CallPowerOff
<1> QED  BY <1>1, <1>2, <1>3, <1>4 DEF SessionStep

LEMMA WorkStep == ASSUME TypeOK, [Next]_vars PROVE WorkShrinks
<1> USE DEF WorkShrinks
<1>1. ASSUME NEW r \in Sessions, SessionStep(r) PROVE WorkShrinks
  BY <1>1, OwnWork, OthersWork
<1>2. ASSUME NEW r \in Sessions, SessionRequest(r) PROVE WorkShrinks
  <2>1. pc[r] = "idle" /\ Spend("request") /\ queue' = queue
    BY <1>2 DEF SessionRequest, RequestSuspend, RequestHibernate, RequestPowerOff, Request
  <2>2. left'["request"] < left["request"]
    BY <2>1, SpendLess DEF Bounds
  <2>3. \A s \in Sessions : s # r => pc'[s] = pc[s]
    BY <1>2 DEF SessionRequest, RequestSuspend, RequestHibernate, RequestPowerOff, Request,
       Goto, TypeOK
  <2> QED  BY <2>1, <2>2, <2>3
<1>3. ASSUME NEW x \in Sessions \cup {NoSession}, SwitchTo(x) PROVE WorkShrinks
  BY <1>3 DEF SwitchTo
<1>4. CASE Wake
  BY <1>4 DEF Wake
<1>5. CASE LogindRefuses \/ LogindSleeps \/ UserSetsMode \/ LateApply \/ UNCHANGED vars
  BY <1>5 DEF LogindRefuses, LogindSleeps, UserSetsMode, LateApply, sessVars, vars
<1> QED  BY <1>1, <1>2, <1>3, <1>4, <1>5 DEF Next

(* No user, daemon or other session keeps a session manager inside          *)
(* recoverySystemPowerMode or a request: each of their calls leaves fewer   *)
(* to make, and more work comes only from a request of an idle session, a   *)
(* change of the seat, or a wake-up (lines 872-930).                        *)
THEOREM RecoveryEnds == Spec => [][WorkShrinks]_vars
<1>1. TypeOK /\ [Next]_vars => [WorkShrinks]_vars
  BY WorkStep
<1> QED  BY <1>1, TypeCorrect, PTL DEF Spec
=============================================================================
