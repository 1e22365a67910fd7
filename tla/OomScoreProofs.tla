---------------------------- MODULE OomScoreProofs ----------------------------
(***************************************************************************)
(* Theorems about OomScore, for any units, any list of services and any    *)
(* bounds: types, adjusted services have the target score, the program     *)
(* ends when all services are adjusted, and no start of a service is lost  *)
(* outside the three gaps.  For what Terminates needs besides fairness: the  *)
(* timer runs while the program waits, and a measure ends every handler.   *)
(***************************************************************************)
EXTENDS OomScore, FiniteSetTheorems, TLAPS

(* The elements of a sequence: a new one at the end ... *)
LEMMA AppendElements ==
    ASSUME NEW S, NEW q \in Seq(S), NEW e \in S
    PROVE  Append(q, e) \in Seq(S) /\ ToSet(Append(q, e)) = ToSet(q) \cup {e}
<1>1. /\ Append(q, e) \in Seq(S) /\ Len(Append(q, e)) = Len(q) + 1 /\ Len(q) \in Nat
      /\ \A i \in 1..Len(q) : Append(q, e)[i] = q[i]
      /\ Append(q, e)[Len(q) + 1] = e
  OBVIOUS
<1>2. DOMAIN q = 1..Len(q) /\ DOMAIN Append(q, e) = 1..(Len(q) + 1)
  BY <1>1
<1>3. 1..(Len(q) + 1) = 1..Len(q) \cup {Len(q) + 1}
  BY <1>1
<1> QED  BY <1>1, <1>2, <1>3 DEF ToSet

(* ... and one taken from its head. *)
LEMMA TailElements ==
    ASSUME NEW S, NEW q \in Seq(S), q # <<>>
    PROVE  /\ Tail(q) \in Seq(S) /\ Head(q) \in S
           /\ ToSet(q) = {Head(q)} \cup ToSet(Tail(q))
<1>1. /\ Tail(q) \in Seq(S) /\ Head(q) = q[1] /\ Head(q) \in S
      /\ Len(q) \in Nat \ {0} /\ Len(Tail(q)) = Len(q) - 1
      /\ \A i \in 1..Len(Tail(q)) : Tail(q)[i] = q[i + 1]
  OBVIOUS
<1>2. DOMAIN q = 1..Len(q) /\ DOMAIN Tail(q) = 1..(Len(q) - 1)
  BY <1>1
<1>3. \A x \in ToSet(q) : x = Head(q) \/ x \in ToSet(Tail(q))
  <2> SUFFICES ASSUME NEW i \in 1..Len(q), i # 1 PROVE q[i] \in ToSet(Tail(q))
    BY <1>1, <1>2 DEF ToSet
  <2>1. i - 1 \in 1..(Len(q) - 1) /\ Tail(q)[i - 1] = q[i]
    BY <1>1
  <2> QED  BY <2>1, <1>2 DEF ToSet
<1>4. \A x \in ToSet(Tail(q)) : x \in ToSet(q)
  <2> SUFFICES ASSUME NEW i \in 1..(Len(q) - 1) PROVE Tail(q)[i] \in ToSet(q)
    BY <1>2 DEF ToSet
  <2>1. i + 1 \in 1..Len(q) /\ Tail(q)[i] = q[i + 1]
    BY <1>1
  <2> QED  BY <2>1, <1>2 DEF ToSet
<1>5. Head(q) \in ToSet(q)
  BY <1>1, <1>2 DEF ToSet
<1> QED  BY <1>1, <1>3, <1>4, <1>5

LEMMA ElementsOf ==
    ASSUME NEW S, NEW q \in Seq(S)
    PROVE  ToSet(q) \subseteq S /\ q \in Seq(ToSet(q)) /\ (q = <<>> => ToSet(q) = {})
  BY DEF ToSet

(* A list names no more services than it is long. *)
LEMMA ListLength ==
    ASSUME NEW S, NEW q \in Seq(S)
    PROVE  IsFiniteSet(ToSet(q)) /\ Cardinality(ToSet(q)) <= Len(q)
<1>1. q \in Surjection(1..Len(q), ToSet(q))
  BY DEF Surjection, ToSet
<1>2. Len(q) \in Nat /\ IsFiniteSet(1..Len(q)) /\ Cardinality(1..Len(q)) = Len(q)
  <2>1. Len(q) \in Nat
    OBVIOUS
  <2> QED  BY <2>1, FS_Interval
<1> QED  BY <1>1, <1>2, FS_Surjection

(* Adjusted services that are as many as the list is long are all of them. *)
LEMMA DoneMeansAll ==
    ASSUME NEW S, NEW q \in Seq(S), NEW T \in SUBSET ToSet(q), Cardinality(T) = Len(q)
    PROVE  T = ToSet(q)
<1>1. IsFiniteSet(ToSet(q)) /\ Cardinality(ToSet(q)) <= Len(q)
  BY ListLength
<1>2. Cardinality(T) <= Cardinality(ToSet(q)) /\ (Cardinality(ToSet(q)) = Cardinality(T) => ToSet(q) = T)
  BY <1>1, FS_Subset
<1>3. Cardinality(ToSet(q)) \in Nat /\ Cardinality(T) \in Nat
  BY <1>1, FS_CardinalityType, FS_Subset
<1> QED  BY <1>1, <1>2, <1>3
-----------------------------------------------------------------------------
(* A new process has a number that nobody had. *)
LEMMA NewPidIsNew == ASSUME TypeOK, Pids # born PROVE NewPid \in Pids /\ NewPid \notin born
<1>1. \E p \in Pids : p \notin born
  BY DEF TypeOK
<1> QED  BY <1>1 DEF NewPid

LEMMA HappensType ==
    ASSUME TypeOK, NEW event \in {"load", "exit", "fault"}, Happens(event)
    PROVE  left' \in [{"load", "exit", "fault"} -> Nat]
  BY DEF TypeOK, Happens

LEMMA SignalTypes ==
    ASSUME NEW s \in Units
    PROVE  /\ NewUnit(s) \in Signals
           /\ \A now \in BOOLEAN : Changed(s, now) \in Signals
  BY DEF NewUnit, Changed, Signals

LEMMA SendType ==
    ASSUME TypeOK, NEW e \in Signals, Send(e)
    PROVE  queue' \in Seq(Signals) /\ ToSet(queue') = ToSet(queue) \cup {e}
  BY AppendElements DEF TypeOK, Send

LEMMA ShortSequences == ASSUME NEW S, NEW x \in S PROVE <<>> \in Seq(S) /\ <<x>> \in Seq(S)
  OBVIOUS

LEMMA InitTypes == ASSUME Init PROVE TypeOK
<1>1. watched \in Seq(Units) /\ <<>> \in Seq(Watched) /\ <<>> \in Seq(Signals)
  BY WatchAssumption DEF Init
<1>2. left \in [{"load", "exit", "fault"} -> Nat]
  BY BoundAssumption DEF Init
<1> QED  BY <1>1, <1>2 DEF Init, TypeOK, Places

LEMMA TypeStep == ASSUME TypeOK, [Next]_vars PROVE TypeOK'
<1> USE DEF TypeOK, own, systemd, history
<1>0. Watched \subseteq Units /\ watched \in Seq(Watched)
  BY ElementsOf DEF Watched
<1>1. CASE UNCHANGED vars
  BY <1>1 DEF vars, Watched
<1>2. watched' = watched /\ Watched' = Watched
  <2>1. ASSUME NEW s \in Units, Systemd(s) PROVE watched' = watched
    BY <2>1 DEF Systemd, Loads, Unloads, Starts, Activates, Forks, Exits
  <2>2. watched' = watched
    BY <1>1, <2>1 DEF Next, NoBus, Adjuster, ExitTimeout, Start, List, Adjust, Mark, EndHandler,
       UnitNew, ReadState, Watch, PropertiesChanged, vars
  <2> QED  BY <2>2 DEF Watched
<1>3. ASSUME todo # <<>>
      PROVE Tail(todo) \in Seq(Watched) /\ InHand \in Watched /\ InHand \in Units
  BY <1>0, <1>3, TailElements DEF InHand
<1>4. ASSUME queue # <<>> PROVE Tail(queue) \in Seq(Signals) /\ Head(queue) \in Signals
  BY <1>4, TailElements
<1>5. CASE NoBus
  BY <1>2, <1>5, HappensType DEF NoBus, Places
<1>6. CASE Start
  BY <1>0, <1>2, <1>6 DEF Start, Places
<1>7. CASE List
  <2>1. pids' \subseteq Pids
    BY <1>3, <1>7 DEF List
  <2>2. left' \in [{"load", "exit", "fault"} -> Nat] /\ gaps' \subseteq Units /\ looked' \subseteq Units
    BY <1>3, <1>7, HappensType DEF List, Fails, LeftUndone
  <2>3. todo' \in Seq(Watched) /\ (pc' = "adjust" => todo' # <<>>) /\ pc' \in {"list", "adjust"}
    BY <1>3, <1>7 DEF List, Fails
  <2>4. late' \subseteq born /\ allAdjusted' \in BOOLEAN
    BY <1>7 DEF List
  <2> QED  BY <1>2, <1>7, <2>1, <2>2, <2>3, <2>4 DEF List, Places
<1>8. CASE Adjust
  <2>1. todo # <<>> /\ pids' \subseteq Pids
    BY <1>8 DEF Adjust
  <2>2. left' \in [{"load", "exit", "fault"} -> Nat] /\ gaps' \subseteq Units /\ looked' \subseteq Units
    BY <1>3, <1>8, <2>1, HappensType DEF Adjust, Fails, LeftUndone
  <2>3. low' \subseteq born /\ late' \subseteq born /\ allAdjusted' \in BOOLEAN
    BY <1>3, <1>8, <2>1 DEF Adjust, Written
  <2> QED  BY <1>2, <1>8, <2>1, <2>2, <2>3 DEF Adjust
<1>9. CASE Mark
  <2>1. todo # <<>>
    BY <1>9 DEF Mark
  <2>2. adjusted' \subseteq Watched /\ quit' \in BOOLEAN /\ timer' \in BOOLEAN
    BY <1>3, <1>9, <2>1 DEF Mark
  <2> QED  BY <1>2, <1>3, <1>9, <2>1, <2>2 DEF Mark, Places
<1>10. CASE EndHandler
  BY <1>2, <1>10 DEF EndHandler, Places
<1>11. CASE UnitNew
  <2>1. queue # <<>> /\ queue' = Tail(queue)
    BY <1>11 DEF UnitNew, Receive
  <2>2. todo' \in Seq(Watched) /\ (pc' \in {"read", "watch", "adjust"} => todo' # <<>>) /\ pc' \in Places
    <3>1. CASE Head(queue).unit \in Watched
      <4>1. pc' = "read" /\ todo' = <<Head(queue).unit>>
        BY <1>11, <3>1 DEF UnitNew
      <4>2. todo' \in Seq(Watched)
        BY <3>1, <4>1, ShortSequences
      <4> QED  BY <4>1, <4>2 DEF Places
    <3>2. CASE Head(queue).unit \notin Watched
      BY <1>11, <3>2 DEF UnitNew, Receive, Places
    <3> QED  BY <3>1, <3>2
  <2> QED  BY <1>2, <1>4, <1>11, <2>1, <2>2 DEF UnitNew
<1>12. CASE ReadState
  <2>1. left' \in [{"load", "exit", "fault"} -> Nat] /\ gaps' \subseteq Units
       /\ looked' \subseteq Units /\ skipped' \subseteq Units
    BY <1>3, <1>12, HappensType DEF ReadState, Fails, LeftUndone
  <2>2. todo' \in Seq(Watched) /\ (pc' \in {"read", "watch", "adjust"} => todo' # <<>>) /\ pc' \in Places
    <3>1. CASE pc' = "idle" /\ todo' = <<>>
      BY <3>1 DEF Places
    <3>2. CASE pc' \in {"list", "watch"} /\ todo' = todo
      BY <1>12, <3>2 DEF ReadState, Places
    <3> QED  BY <1>12, <3>1, <3>2 DEF ReadState
  <2> QED  BY <1>2, <1>12, <2>1, <2>2 DEF ReadState
<1>13. CASE Watch
  <2>1. todo # <<>> /\ matched' \subseteq Watched /\ todo' = <<>> /\ pc' = "idle"
    BY <1>3, <1>13 DEF Watch
  <2> QED  BY <1>2, <1>13, <2>1 DEF Watch, Places
<1>14. CASE PropertiesChanged
  <2>1. queue # <<>> /\ queue' = Tail(queue)
    BY <1>14 DEF PropertiesChanged, Receive
  <2>2. todo' \in Seq(Watched) /\ pc' \in {"idle", "list"}
    BY <1>0, <1>14 DEF PropertiesChanged, Receive
  <2> QED  BY <1>2, <1>4, <1>14, <2>1, <2>2 DEF PropertiesChanged, Places
<1>15. CASE ExitTimeout
  BY <1>2, <1>15 DEF ExitTimeout, Places
<1>16. ASSUME NEW s \in Units, Loads(s) PROVE TypeOK'
  <2>1. queue' \in Seq(Signals)
    <3>1. ASSUME Send(NewUnit(s)) PROVE queue' \in Seq(Signals)
      BY <3>1, SendType, SignalTypes
    <3> QED  BY <1>16, <3>1 DEF Loads
  <2>2. left' \in [{"load", "exit", "fault"} -> Nat]
    BY <1>16, HappensType DEF Loads
  <2> QED  BY <1>2, <1>16, <2>1, <2>2 DEF Loads
<1>17. ASSUME NEW s \in Units, Unloads(s) PROVE TypeOK'
  BY <1>2, <1>17, HappensType DEF Unloads
<1>18. ASSUME NEW s \in Units, Starts(s) PROVE TypeOK'
  BY <1>2, <1>18, NewPidIsNew DEF Starts
<1>19. ASSUME NEW s \in Units, Activates(s) PROVE TypeOK'
  <2>1. queue' \in Seq(Signals)
    <3>1. ASSUME Send(Changed(s, TRUE)) PROVE queue' \in Seq(Signals)
      BY <3>1, SendType, SignalTypes
    <3> QED  BY <1>19, <3>1 DEF Activates
  <2> QED  BY <1>2, <1>19, <2>1 DEF Activates
<1>20. ASSUME NEW s \in Units, Forks(s) PROVE TypeOK'
  BY <1>2, <1>20, NewPidIsNew DEF Forks
<1>21. ASSUME NEW s \in Units, Exits(s) PROVE TypeOK'
  <2>1. queue' \in Seq(Signals)
    <3>1. ASSUME Send(Changed(s, FALSE)) PROVE queue' \in Seq(Signals)
      BY <3>1, SendType, SignalTypes
    <3> QED  BY <1>21, <3>1 DEF Exits
  <2>2. left' \in [{"load", "exit", "fault"} -> Nat]
    BY <1>21, HappensType DEF Exits
  <2> QED  BY <1>2, <1>21, <2>1, <2>2 DEF Exits
<1> QED
  BY <1>1, <1>5, <1>6, <1>7, <1>8, <1>9, <1>10, <1>11, <1>12, <1>13, <1>14, <1>15, <1>16, <1>17,
     <1>18, <1>19, <1>20, <1>21 DEF Next, Adjuster, Systemd

(* The types of the model, for any units, lists and bounds. *)
THEOREM TypeCorrect == Spec => []TypeOK
<1>1. Init => TypeOK
  BY InitTypes
<1>2. TypeOK /\ [Next]_vars => TypeOK'
  BY TypeStep
<1> QED  BY <1>1, <1>2, PTL DEF Spec
-----------------------------------------------------------------------------
(* AdjustedHaveTarget while a service is in hand: the processes that have   *)
(* been passed have the target score, or a failure is noted.  And no two    *)
(* services share a process.                                                *)
Passed ==
    pc = "adjust" /\ allAdjusted => \A p \in procs[InHand] : p \in low \cup late \cup pids

Separate == \A s, t \in Units : s # t => procs[s] \cap procs[t] = {}

TargetInv == Passed /\ Separate /\ AdjustedHaveTarget

LEMMA TargetStep == ASSUME TypeOK, TargetInv, [Next]_vars PROVE TargetInv'
<1> USE DEF own, systemd, history, TargetInv
<1>0. adjusted \subseteq Units /\ (todo # <<>> => InHand \in Units) /\ procs \in [Units -> SUBSET born]
  BY ElementsOf, TailElements DEF TypeOK, Watched, InHand
<1>1. CASE UNCHANGED vars
  BY <1>1 DEF vars, Passed, Separate, AdjustedHaveTarget, InHand
<1>2. CASE UNCHANGED <<adjusted, procs, low, late>> /\ pc # "adjust" /\ pc' # "adjust"
  BY <1>2 DEF Passed, Separate, AdjustedHaveTarget
<1>3. CASE List
  <2>1. CASE pc' # "adjust"
    BY <1>2, <1>3, <2>1 DEF List
  <2>2. CASE /\ procs[InHand] # {} /\ pc' = "adjust" /\ pids' = procs[InHand] /\ allAdjusted' = TRUE
             /\ late' = late \ procs[InHand] /\ todo' = todo
    <3>1. todo # <<>> /\ adjusted' = adjusted /\ procs' = procs /\ low' = low /\ InHand' = InHand
      BY <1>3, <2>2 DEF List, InHand
    <3>2. Passed' /\ Separate'
      BY <2>2, <3>1 DEF Passed, Separate
    <3>3. AdjustedHaveTarget'
      <4> SUFFICES ASSUME NEW s \in adjusted, NEW p \in procs[s]
                   PROVE  p \in low \cup late' \/ (s = InHand /\ p \in pids')
        BY <2>2, <3>1 DEF AdjustedHaveTarget
      <4>1. p \in low \cup late
        BY <1>3 DEF AdjustedHaveTarget, List
      <4>2. s # InHand => p \notin procs[InHand]
        BY <1>0, <3>1 DEF Separate
      <4> QED  BY <2>2, <4>1, <4>2
    <3> QED  BY <3>2, <3>3
  <2> QED  BY <1>3, <2>1, <2>2 DEF List
<1>4. CASE Adjust
  <2>1. PICK p \in pids :
          /\ pids' = pids \ {p}
          /\ \/ /\ p \in procs[InHand] /\ low' = low \cup {p}
                /\ UNCHANGED <<allAdjusted, late>>
             \/ /\ p \in procs[InHand] \ low /\ allAdjusted' = FALSE
                /\ late' = IF InHand \in adjusted THEN late \cup {p} ELSE late
                /\ UNCHANGED low
             \/ /\ p \notin procs[InHand] /\ allAdjusted' = FALSE
                /\ UNCHANGED <<low, late>>
    BY <1>4 DEF Adjust, Written, Fails
  <2>2. /\ pc = "adjust" /\ pc' = "adjust" /\ InHand' = InHand /\ adjusted' = adjusted
        /\ procs' = procs
    BY <1>4 DEF Adjust, InHand
  <2>3. Passed' /\ Separate'
    BY <2>1, <2>2 DEF Passed, Separate
  <2>4. AdjustedHaveTarget'
    BY <2>1, <2>2 DEF AdjustedHaveTarget
  <2> QED  BY <2>3, <2>4
<1>5. CASE Mark
  <2>1. /\ pc = "adjust" /\ pids = {} /\ pc' = "list" /\ procs' = procs /\ low' = low /\ late' = late
        /\ (adjusted' = adjusted \/ (allAdjusted /\ adjusted' = adjusted \cup {InHand}))
    BY <1>5 DEF Mark
  <2>2. Passed' /\ Separate'
    BY <2>1 DEF Passed, Separate
  <2>3. AdjustedHaveTarget'
    BY <2>1 DEF AdjustedHaveTarget, Passed
  <2> QED  BY <2>2, <2>3
<1>6. CASE \/ NoBus \/ Start \/ EndHandler \/ UnitNew \/ ReadState \/ Watch \/ PropertiesChanged
           \/ ExitTimeout
  BY <1>2, <1>6
     DEF NoBus, Start, EndHandler, UnitNew, Receive, ReadState, Watch, PropertiesChanged,
     ExitTimeout
<1>7. ASSUME NEW s \in Units, Systemd(s) PROVE TargetInv'
  <2>1. pc' = pc /\ adjusted' = adjusted /\ InHand' = InHand /\ allAdjusted' = allAdjusted /\ pids' = pids
    BY <1>7 DEF Systemd, Loads, Unloads, Starts, Activates, Forks, Exits, InHand
  <2>2. CASE UNCHANGED <<procs, low, late>>
    BY <2>1, <2>2 DEF Passed, Separate, AdjustedHaveTarget
  <2>3. CASE Pids # born /\ procs' = [procs EXCEPT ![s] = {NewPid}]
             /\ late' = late \cup {NewPid} /\ low' = low
    BY <1>0, <2>1, <2>3, NewPidIsNew DEF Passed, Separate, AdjustedHaveTarget, TypeOK
  <2>4. CASE /\ Pids # born /\ procs' = [procs EXCEPT ![s] = @ \cup {NewPid}]
             /\ \/ low' = low \cup {NewPid} /\ late' = late
                \/ late' = late \cup {NewPid} /\ low' = low
    BY <1>0, <2>1, <2>4, NewPidIsNew DEF Passed, Separate, AdjustedHaveTarget, TypeOK
  <2>5. CASE (\E p \in procs[s] : procs' = [procs EXCEPT ![s] = @ \ {p}]) /\ UNCHANGED <<low, late>>
    BY <1>0, <2>1, <2>5 DEF Passed, Separate, AdjustedHaveTarget, TypeOK
  <2> QED
    BY <1>7, <2>2, <2>3, <2>4, <2>5 DEF Systemd, Loads, Unloads, Starts, Activates, Forks, Exits
<1> QED
  BY <1>1, <1>3, <1>4, <1>5, <1>6, <1>7 DEF Next, Adjuster

(* For any units and processes: an adjusted service has no process that was *)
(* there when it was looked at and is without the target score.             *)
THEOREM AdjustedServicesHaveTarget == Spec => []AdjustedHaveTarget
<1>1. Init => TypeOK /\ TargetInv
  BY InitTypes DEF Init, TargetInv, Passed, Separate, AdjustedHaveTarget
<1>2. TypeOK /\ TargetInv /\ [Next]_vars => (TypeOK /\ TargetInv)'
  BY TypeStep, TargetStep
<1>3. TargetInv => AdjustedHaveTarget
  BY DEF TargetInv
<1> QED  BY <1>1, <1>2, <1>3, PTL DEF Spec
-----------------------------------------------------------------------------
(* EndsWhenAdjusted: the end is requested when the count is reached and not *)
(* later, and whoever waits has seen that it was not.                       *)
EndsInv ==
    /\ pc = "init" => ~subscribed /\ ~quit
    /\ quit /\ subscribed => Watched \subseteq adjusted
    /\ timer => ~Done(adjusted)
    /\ pc \in {"idle", "read", "watch"} => timer

LEMMA EndsStep == ASSUME TypeOK, EndsInv, [Next]_vars PROVE EndsInv'
<1> USE DEF own, systemd, history, EndsInv
<1>0. /\ watched \in Seq(Watched) /\ watched \in Seq(Units) /\ adjusted \subseteq Watched
      /\ (todo # <<>> => InHand \in Watched)
  BY ElementsOf, TailElements DEF TypeOK, Watched, InHand
<1>1. ASSUME watched' = watched, adjusted' = adjusted
      PROVE Watched' = Watched /\ (Done(adjusted)' <=> Done(adjusted))
  BY <1>1 DEF Watched, Done
<1>2. CASE UNCHANGED own
  BY <1>1, <1>2
<1>3. CASE NoBus
  BY <1>1, <1>3 DEF NoBus
<1>4. CASE Start \/ List \/ Adjust
  <2>1. /\ watched' = watched /\ adjusted' = adjusted /\ quit' = quit /\ timer' = timer
        /\ pc' \in {"list", "adjust"}
    BY <1>4 DEF Start, List, Adjust
  <2>2. subscribed' = subscribed \/ ~quit
    BY <1>4 DEF Start, List, Adjust
  <2>3. pc \in {"idle", "read", "watch"} => timer
    OBVIOUS
  <2> QED  BY <1>1, <2>1, <2>2, <2>3
<1>5. CASE Mark
  <2>1. /\ pc = "adjust" /\ pc' = "list" /\ watched' = watched /\ subscribed' = subscribed
        /\ Watched' = Watched
    BY <1>5 DEF Mark, Watched
  <2>2. CASE UNCHANGED <<adjusted, quit, timer>>
    BY <1>1, <2>1, <2>2
  <2>3. CASE /\ adjusted' = adjusted \cup {InHand}
             /\ quit' = (quit \/ Done(adjusted')) /\ timer' = (timer /\ ~Done(adjusted'))
    <3>1. adjusted' \subseteq Watched
      BY <1>0, <2>1, <2>3 DEF TypeOK
    <3>2. Done(adjusted') => adjusted' = Watched
      BY <1>0, <3>1, DoneMeansAll DEF Done, Watched
    <3>3. Done(adjusted)' <=> Done(adjusted')
      BY <2>1 DEF Done
    <3>4. quit' /\ subscribed' => Watched' \subseteq adjusted'
      BY <2>1, <2>3, <3>2
    <3>5. timer' => ~Done(adjusted)'
      BY <2>3, <3>3
    <3> QED  BY <2>1, <3>4, <3>5
  <2> QED  BY <1>5, <2>2, <2>3 DEF Mark
<1>6. CASE EndHandler
  <2>1. Done(adjusted) => adjusted = Watched
    BY <1>0, DoneMeansAll DEF Done, Watched
  <2> QED  BY <1>1, <1>6, <2>1 DEF EndHandler, InStart
<1>7. CASE UnitNew \/ ReadState \/ Watch \/ PropertiesChanged \/ ExitTimeout
  BY <1>1, <1>7 DEF UnitNew, Receive, ReadState, Watch, PropertiesChanged, ExitTimeout
<1>8. ASSUME NEW s \in Units, Systemd(s) PROVE UNCHANGED own
  BY <1>8 DEF Systemd, Loads, Unloads, Starts, Activates, Forks, Exits
<1> QED
  BY <1>2, <1>3, <1>4, <1>5, <1>6, <1>7, <1>8 DEF Next, Adjuster, vars

(* For any list of services: an end before the timeout means that every     *)
(* service is adjusted, and a program that waits while they all are has a   *)
(* service twice in its list.                                               *)
THEOREM EndsOnlyWhenAdjusted == Spec => []EndsWhenAdjusted
<1>1. Init => TypeOK /\ EndsInv
  BY InitTypes DEF Init, EndsInv
<1>2. TypeOK /\ EndsInv /\ [Next]_vars => (TypeOK /\ EndsInv)'
  BY TypeStep, EndsStep
<1>3. TypeOK /\ EndsInv => EndsWhenAdjusted
  <2> SUFFICES ASSUME TypeOK, EndsInv, pc = "idle", Watched \subseteq adjusted
               PROVE  Cardinality(Watched) # Len(watched)
    BY DEF EndsInv, EndsWhenAdjusted
  <2>1. adjusted = Watched
    BY DEF TypeOK
  <2> QED  BY <2>1 DEF EndsInv, Done
<1> QED  BY <1>1, <1>2, <1>3, PTL DEF Spec
-----------------------------------------------------------------------------
(* NoneForgotten between two states of rest.  Every loaded service has a    *)
(* match, is about to get one, or is known to have none; and an active one  *)
(* that is not adjusted in its present life has a look at it coming.        *)
Coming(s) ==
    \/ s \in (adjusted \cap looked) \cup gaps
    \/ NewUnit(s) \in ToSet(queue)
    \/ pc = "adjust" /\ s = InHand /\ allAdjusted /\ s \in looked

Heard(s) ==
    \/ s \in old \cup skipped \cup matched
    \/ NewUnit(s) \in ToSet(queue)
    \/ pc \in {"read", "watch"} /\ s = InHand

Pending(s) ==
    \/ Coming(s)
    \/ \E t \in Units : Changed(t, TRUE) \in ToSet(queue)
    \/ Ahead(s)

NoneLost ==
    Running /\ subscribed => \A s \in Watched :
        /\ unit[s] # "unloaded" => Heard(s)
        /\ unit[s] = "active" => Pending(s)

ServicesHaveProcesses ==
    \A s \in Units : procs[s] # {} <=> unit[s] \in {"activating", "active"}

SubscribedAtStart == Running => (subscribed <=> pc # "init")

ForgetInv == ServicesHaveProcesses /\ SubscribedAtStart /\ NoneLost

LEMMA ProcessesStep == ASSUME TypeOK, ForgetInv, [Next]_vars PROVE ServicesHaveProcesses'
<1> USE DEF own, systemd, history, ForgetInv, ServicesHaveProcesses
<1>0. /\ procs \in [Units -> SUBSET born]
      /\ unit \in [Units -> {"unloaded", "inactive", "activating", "active"}]
  BY DEF TypeOK
<1>1. CASE UNCHANGED <<unit, procs>>
  BY <1>1
<1>2. CASE NoBus \/ Adjuster \/ ExitTimeout \/ UNCHANGED vars
  BY <1>1, <1>2 DEF NoBus, Adjuster, Start, List, Adjust, Mark, EndHandler, UnitNew, Receive,
     ReadState, Watch, PropertiesChanged, ExitTimeout, vars
<1>3. ASSUME NEW s \in Units, Systemd(s) PROVE ServicesHaveProcesses'
  <2>1. CASE Loads(s) \/ Unloads(s)
    BY <1>0, <2>1 DEF Loads, Unloads
  <2>2. CASE Starts(s) \/ Activates(s)
    BY <1>0, <2>2 DEF Starts, Activates
  <2>3. CASE Forks(s)
    BY <1>0, <2>3 DEF Forks
  <2>4. CASE Exits(s)
    BY <1>0, <2>4 DEF Exits
  <2> QED  BY <1>3, <2>1, <2>2, <2>3, <2>4 DEF Systemd
<1> QED  BY <1>2, <1>3 DEF Next

LEMMA SubscribedStep == ASSUME TypeOK, ForgetInv, [Next]_vars PROVE SubscribedAtStart'
<1> USE DEF own, systemd, history, ForgetInv, SubscribedAtStart, Running
<1>1. CASE NoBus \/ Adjuster \/ ExitTimeout \/ UNCHANGED vars
  BY <1>1 DEF NoBus, Adjuster, Start, List, Adjust, Mark, EndHandler, UnitNew, Receive,
     ReadState, Watch, PropertiesChanged, ExitTimeout, vars
<1>2. ASSUME NEW s \in Units, Systemd(s) PROVE SubscribedAtStart'
  BY <1>2 DEF Systemd, Loads, Unloads, Starts, Activates, Forks, Exits
<1> QED  BY <1>1, <1>2 DEF Next

(* Steps of the program: what a handler drops, it has marked, noted or      *)
(* passed on.                                                               *)
LEMMA NoneLostInAdjuster == ASSUME TypeOK, ForgetInv, Adjuster PROVE NoneLost'
<1> USE DEF own, systemd, history, ForgetInv
<1>0. /\ unit' = unit
      /\ Watched' = Watched /\ Watched \subseteq Units
  BY ElementsOf DEF Adjuster, Start, List, Adjust, Mark, EndHandler, UnitNew, Receive,
     ReadState, Watch, PropertiesChanged, TypeOK, Watched
<1>1. \A s \in Units : (NewUnit(s))' = NewUnit(s) /\ \A b \in BOOLEAN : (Changed(s, b))' = Changed(s, b)
  BY DEF NewUnit, Changed
<1>2. ASSUME todo # <<>>
      PROVE InHand \in Watched /\ ToSet(todo) = {InHand} \cup ToSet(Tail(todo))
  BY <1>2, TailElements DEF TypeOK, InHand
<1>3. ASSUME pc # "init"
      PROVE Running /\ subscribed
  BY <1>3
     DEF SubscribedAtStart, Running, Adjuster, Start, List, Adjust, Mark, EndHandler, UnitNew,
     Receive, ReadState, Watch, PropertiesChanged
<1> SUFFICES ASSUME Running', NEW s \in Watched
             PROVE  /\ unit[s] # "unloaded" => Heard(s)'
                    /\ unit[s] = "active" => Pending(s)'
  BY <1>0 DEF NoneLost
<1>4. ASSUME pc # "init"
      PROVE (unit[s] # "unloaded" => Heard(s)) /\ (unit[s] = "active" => Pending(s))
  BY <1>3, <1>4 DEF NoneLost
<1>5. CASE Start
  <2>1. unit[s] # "unloaded" => s \in old'
    BY <1>0, <1>5 DEF Start
  <2>2. pc' = "list" /\ s \in ToSet(todo')
    BY <1>5 DEF Start, Watched
  <2> QED  BY <2>1, <2>2 DEF Heard, Pending, Ahead
<1>6. CASE List
  <2>1. /\ pc = "list" /\ todo # <<>> /\ queue' = queue /\ adjusted' = adjusted
        /\ old' = old /\ skipped' = skipped /\ matched' = matched
    BY <1>6 DEF List
  <2>2. Heard(s) => Heard(s)'
    BY <1>1, <2>1 DEF Heard
  <2>3. CASE s # InHand
    <3>1. (s \in gaps <=> s \in gaps') /\ (s \in looked <=> s \in looked')
      BY <1>6, <2>3 DEF List, Fails, LeftUndone
    <3>2. Coming(s) => Coming(s)'
      BY <1>1, <2>1, <3>1 DEF Coming
    <3>3. Ahead(s) => Ahead(s)'
      BY <1>2, <1>6, <2>1, <2>3 DEF Ahead, List, InHand
    <3>4. Pending(s) => Pending(s)'
      BY <1>1, <2>1, <3>2, <3>3 DEF Pending
    <3> QED  BY <1>4, <2>1, <2>2, <3>4
  <2>4. CASE s = InHand /\ procs[InHand] = {}
    BY <1>0, <1>4, <2>1, <2>2, <2>4 DEF ServicesHaveProcesses
  <2>5. CASE s = InHand /\ pc' = "adjust" /\ allAdjusted' = TRUE /\ todo' = todo
             /\ looked' = looked \cup {InHand}
    BY <1>4, <2>1, <2>2, <2>5 DEF Pending, Coming, InHand
  <2>6. CASE s = InHand /\ Fails
    <3>1. unit[s] = "active" => s \in gaps'
      BY <2>6 DEF Fails, LeftUndone
    <3> QED  BY <1>4, <2>1, <2>2, <3>1 DEF Pending, Coming
  <2> QED  BY <1>6, <2>3, <2>4, <2>5, <2>6 DEF List
<1>7. CASE Adjust
  <2>1. /\ pc = "adjust" /\ pc' = "adjust" /\ todo' = todo /\ InHand' = InHand
        /\ queue' = queue /\ adjusted' = adjusted /\ old' = old /\ skipped' = skipped
        /\ matched' = matched
    BY <1>7 DEF Adjust, InHand
  <2>2. (UNCHANGED <<allAdjusted, looked, gaps>>) \/ LeftUndone
    BY <1>7 DEF Adjust, Fails
  <2>3. Heard(s) => Heard(s)'
    BY <1>1, <2>1 DEF Heard
  <2>4. CASE UNCHANGED <<allAdjusted, looked, gaps>>
    <3>1. Coming(s) => Coming(s)'
      BY <1>1, <2>1, <2>4 DEF Coming
    <3>2. Pending(s) => Pending(s)'
      BY <1>1, <2>1, <3>1 DEF Pending, Ahead
    <3> QED  BY <1>4, <2>1, <2>3, <3>2
  <2>5. CASE LeftUndone /\ s # InHand
    <3>1. (s \in gaps <=> s \in gaps') /\ (s \in looked <=> s \in looked')
      BY <2>5 DEF LeftUndone
    <3>2. Coming(s) => Coming(s)'
      BY <1>1, <2>1, <2>5, <3>1 DEF Coming
    <3>3. Pending(s) => Pending(s)'
      BY <1>1, <2>1, <3>2 DEF Pending, Ahead
    <3> QED  BY <1>4, <2>1, <2>3, <3>3
  <2>6. CASE LeftUndone /\ s = InHand
    <3>1. unit[s] = "active" => s \in gaps'
      BY <2>6 DEF LeftUndone
    <3> QED  BY <1>4, <2>1, <2>3, <3>1 DEF Pending, Coming
  <2> QED  BY <2>2, <2>4, <2>5, <2>6
<1>8. CASE Mark
  <2>1. /\ pc = "adjust" /\ pc' = "list" /\ todo' = Tail(todo) /\ queue' = queue
        /\ gaps' = gaps /\ looked' = looked /\ old' = old /\ skipped' = skipped
        /\ matched' = matched
        /\ adjusted \subseteq adjusted' /\ (allAdjusted => InHand \in adjusted')
    BY <1>8 DEF Mark
  <2>2. Coming(s) => Coming(s)'
    BY <1>1, <2>1 DEF Coming
  <2>3. Heard(s) => Heard(s)'
    BY <1>1, <2>1 DEF Heard
  <2>4. Pending(s) => Pending(s)'
    BY <1>1, <2>1, <2>2 DEF Pending, Ahead
  <2> QED  BY <1>4, <2>1, <2>3, <2>4
<1>9. CASE EndHandler
  <2>1. /\ pc = "list" /\ todo = <<>> /\ queue' = queue /\ adjusted' = adjusted
        /\ gaps' = gaps /\ looked' = looked /\ old' = old /\ skipped' = skipped
        /\ matched' = matched
    BY <1>9 DEF EndHandler
  <2>2. ToSet(todo) = {}
    BY <2>1, ElementsOf DEF TypeOK
  <2>3. Coming(s) => Coming(s)'
    BY <1>1, <2>1 DEF Coming
  <2>4. Heard(s) => Heard(s)'
    BY <1>1, <2>1 DEF Heard
  <2>5. Pending(s) => Pending(s)'
    BY <1>1, <2>1, <2>2, <2>3 DEF Pending, Ahead
  <2> QED  BY <1>4, <2>1, <2>4, <2>5
<1>10. CASE UnitNew
  <2>1. /\ pc = "idle" /\ adjusted' = adjusted /\ gaps' = gaps /\ looked' = looked
        /\ old' = old /\ skipped' = skipped /\ matched' = matched
        /\ ToSet(queue) = {Head(queue)} \cup ToSet(queue') /\ Head(queue).kind = "new"
        /\ Head(queue) \in Signals
    BY <1>10, TailElements DEF UnitNew, Receive, TypeOK
  <2>2. \A t \in Units : Head(queue) # Changed(t, TRUE)
    BY <2>1 DEF Changed
  <2>3. CASE Head(queue) = NewUnit(s)
    <3>1. pc' = "read" /\ todo' = <<s>>
      BY <1>10, <2>3 DEF UnitNew, NewUnit
    <3>2. InHand' = s
      BY <3>1 DEF InHand
    <3> QED  BY <3>1, <3>2 DEF Heard, Pending, Ahead
  <2>4. CASE Head(queue) # NewUnit(s)
    <3>1. Coming(s) => Coming(s)'
      BY <1>1, <2>1, <2>4, <1>0 DEF Coming
    <3>2. (Heard(s) => Heard(s)') /\ (Pending(s) => Pending(s)')
      BY <1>1, <2>1, <2>2, <2>4, <3>1 DEF Heard, Pending, Ahead
    <3> QED  BY <1>4, <2>1, <3>2
  <2> QED  BY <2>3, <2>4
<1>11. CASE ReadState
  <2>1. /\ pc = "read" /\ queue' = queue /\ adjusted' = adjusted /\ old' = old
        /\ matched' = matched /\ skipped \subseteq skipped' /\ todo # <<>>
    BY <1>11 DEF ReadState, TypeOK
  <2>2. CASE s # InHand
    <3>1. (s \in gaps <=> s \in gaps') /\ (s \in looked <=> s \in looked')
      BY <1>11, <2>2 DEF ReadState, Fails, LeftUndone
    <3>2. Coming(s) => Coming(s)'
      BY <1>1, <2>1, <3>1 DEF Coming
    <3>3. (Heard(s) => Heard(s)') /\ (Pending(s) => Pending(s)')
      BY <1>1, <2>1, <2>2, <3>2 DEF Heard, Pending, Ahead
    <3> QED  BY <1>4, <2>1, <3>3
  <2>3. CASE s = InHand
    <3>1. Heard(s)'
      <4>1. (pc' = "watch" /\ todo' = todo) \/ s \in skipped'
        BY <1>11, <2>3 DEF ReadState
      <4> QED  BY <2>3, <4>1 DEF Heard, InHand
    <3>2. CASE Fails
      <4>1. unit[s] = "active" => s \in gaps'
        BY <2>3, <3>2 DEF Fails, LeftUndone
      <4> QED  BY <3>1, <4>1 DEF Pending, Coming
    <3>3. CASE unit[InHand] = "active" /\ pc' = "list" /\ todo' = todo
      <4>1. s \in ToSet(todo')
        BY <1>2, <2>1, <2>3, <3>3
      <4> QED  BY <3>1, <3>3, <4>1 DEF Pending, Ahead
    <3>4. CASE unit[InHand] # "active"
      BY <2>3, <3>1, <3>4
    <3> QED  BY <1>11, <3>2, <3>3, <3>4 DEF ReadState
  <2> QED  BY <2>2, <2>3
<1>12. CASE Watch
  <2>1. /\ pc = "watch" /\ pc' = "idle" /\ queue' = queue /\ adjusted' = adjusted /\ old' = old
        /\ gaps' = gaps /\ looked' = looked /\ skipped' = skipped
        /\ matched' = matched \cup {InHand}
    BY <1>12 DEF Watch
  <2>2. Coming(s) => Coming(s)'
    BY <1>1, <2>1 DEF Coming
  <2>3. (Heard(s) => Heard(s)') /\ (Pending(s) => Pending(s)')
    BY <1>1, <2>1, <2>2 DEF Heard, Pending, Ahead
  <2> QED  BY <1>4, <2>1, <2>3
<1>13. CASE PropertiesChanged
  <2>1. /\ pc = "idle" /\ adjusted' = adjusted /\ gaps' = gaps /\ looked' = looked
        /\ old' = old /\ skipped' = skipped /\ matched' = matched
        /\ ToSet(queue) = {Head(queue)} \cup ToSet(queue') /\ Head(queue).kind = "changed"
    BY <1>13, TailElements DEF PropertiesChanged, Receive, TypeOK
  <2>2. Coming(s) => Coming(s)'
    BY <1>1, <2>1 DEF Coming, NewUnit
  <2>3. Heard(s) => Heard(s)'
    BY <1>1, <2>1 DEF Heard, NewUnit
  <2>4. CASE Head(queue).active
    <3>1. pc' = "list" /\ s \in ToSet(todo')
      BY <1>13, <2>4 DEF PropertiesChanged, Watched
    <3> QED  BY <1>4, <2>1, <2>3, <3>1 DEF Pending, Ahead
  <2>5. CASE ~Head(queue).active
    <3>1. \A t \in Units : Head(queue) # Changed(t, TRUE)
      BY <2>5 DEF Changed
    <3>2. Pending(s) => Pending(s)'
      BY <1>1, <2>1, <2>2, <3>1 DEF Pending, Ahead
    <3> QED  BY <1>4, <2>1, <2>3, <3>2
  <2> QED  BY <2>4, <2>5
<1> QED
  BY <1>5, <1>6, <1>7, <1>8, <1>9, <1>10, <1>11, <1>12, <1>13 DEF Adjuster
(* Steps of systemd: a start is announced, expected, or falls into a gap. *)
LEMMA NoneLostInSystemd ==
    ASSUME TypeOK, ForgetInv, NEW u \in Units, Systemd(u) PROVE NoneLost'
<1> USE DEF own, systemd, history, ForgetInv
<1>0. /\ pc' = pc /\ todo' = todo /\ InHand' = InHand /\ allAdjusted' = allAdjusted
      /\ adjusted' = adjusted /\ matched' = matched /\ subscribed' = subscribed
      /\ watched' = watched /\ Watched' = Watched /\ Watched \subseteq Units
  BY ElementsOf
     DEF Systemd, Loads, Unloads, Starts, Activates, Forks, Exits, InHand, Watched, TypeOK
<1>1. \A s \in Units : (NewUnit(s))' = NewUnit(s) /\ \A b \in BOOLEAN : (Changed(s, b))' = Changed(s, b)
  BY DEF NewUnit, Changed
<1>2. unit \in [Units -> {"unloaded", "inactive", "activating", "active"}]
  BY DEF TypeOK
<1>3. ToSet(queue) \subseteq ToSet(queue')
  <2>1. ASSUME NEW e \in Signals, Send(e) PROVE ToSet(queue) \subseteq ToSet(queue')
    BY <2>1, SendType
  <2>2. CASE queue' = queue
    BY <2>2
  <2> QED
    BY <2>1, <2>2, SignalTypes DEF Systemd, Loads, Unloads, Starts, Activates, Forks, Exits
<1> SUFFICES ASSUME Running, subscribed, NEW s \in Watched
             PROVE  /\ unit'[s] # "unloaded" => Heard(s)'
                    /\ unit'[s] = "active" => Pending(s)'
  BY <1>0 DEF NoneLost, Running
<1>4. (unit[s] # "unloaded" => Heard(s)) /\ (unit[s] = "active" => Pending(s)) /\ s \in Units
  BY <1>0 DEF NoneLost
<1>5. Ahead(s) => Ahead(s)'
  BY <1>0 DEF Ahead
<1>6. ASSUME s \in gaps => s \in gaps', s \in looked => s \in looked'
      PROVE  Pending(s) => Pending(s)'
  <2>1. Coming(s) => Coming(s)'
    BY <1>0, <1>1, <1>3, <1>4, <1>6 DEF Coming
  <2> QED  BY <1>1, <1>3, <1>5, <2>1 DEF Pending
<1>7. ASSUME s \in old => s \in old', s \in skipped => s \in skipped'
      PROVE  Heard(s) => Heard(s)'
  BY <1>0, <1>1, <1>3, <1>4, <1>7 DEF Heard
<1>8. CASE s # u
  <2>1. unit'[s] = unit[s]
    BY <1>2, <1>4, <1>8 DEF Systemd, Loads, Unloads, Starts, Activates, Forks, Exits
  <2>2. (s \in old => s \in old') /\ (s \in skipped => s \in skipped')
    BY <1>8 DEF Systemd, Loads, Unloads, Starts, Activates, Forks, Exits
  <2>3. (s \in gaps => s \in gaps') /\ (s \in looked => s \in looked')
    BY <1>8 DEF Systemd, Loads, Unloads, Starts, Activates, Forks, Exits
  <2> QED  BY <1>4, <1>6, <1>7, <2>1, <2>2, <2>3
<1>9. ASSUME UNCHANGED <<old, skipped>>, unit[s] # "unloaded" PROVE Heard(s)'
  BY <1>4, <1>7, <1>9
<1>10. CASE s = u /\ Loads(u)
  <2>1. unit'[s] = "inactive"
    BY <1>2, <1>4, <1>10 DEF Loads
  <2>2. NewUnit(s) \in ToSet(queue')
    <3>1. Send(NewUnit(s))
      BY <1>10 DEF Loads
    <3> QED  BY <1>4, <3>1, SendType, SignalTypes
  <2> QED  BY <1>1, <1>4, <2>1, <2>2 DEF Heard
<1>11. CASE s = u /\ Unloads(u)
  BY <1>2, <1>4, <1>11 DEF Unloads
<1>12. CASE s = u /\ Starts(u)
  <2>1. unit[s] = "inactive" /\ unit'[s] = "activating" /\ UNCHANGED <<old, skipped>>
    BY <1>2, <1>4, <1>12 DEF Starts
  <2> QED  BY <1>9, <2>1
<1>13. CASE s = u /\ Activates(u)
  <2>1. unit[s] = "activating" /\ UNCHANGED <<old, skipped, looked>>
    BY <1>13 DEF Activates
  <2>2. Heard(s) /\ Heard(s)'
    BY <1>4, <1>9, <2>1
  <2>3. CASE s \in matched
    <3>1. Send(Changed(s, TRUE))
      BY <1>13, <2>3 DEF Activates
    <3>2. Changed(s, TRUE) \in ToSet(queue')
      BY <1>4, <3>1, SendType, SignalTypes
    <3> QED  BY <1>1, <1>4, <2>2, <3>2 DEF Pending
  <2>4. CASE s \notin matched /\ Missed(s)
    <3>1. s \in gaps'
      BY <1>13, <2>4 DEF Activates
    <3> QED  BY <2>2, <3>1 DEF Pending, Coming
  <2>5. CASE s \notin matched /\ ~Missed(s)
    <3>1. Ahead(s) \/ NewUnit(s) \in ToSet(queue)
      BY <2>2, <2>5 DEF Heard, Missed, Ahead
    <3>2. NewUnit(s) \in ToSet(queue) => NewUnit(s)' \in ToSet(queue')
      BY <1>1, <1>3, <1>4
    <3> QED  BY <1>5, <2>2, <3>1, <3>2 DEF Pending, Coming
  <2> QED  BY <2>3, <2>4, <2>5
<1>14. CASE s = u /\ Forks(u)
  <2>1. UNCHANGED <<unit, old, skipped, looked, gaps>>
    BY <1>14 DEF Forks
  <2> QED  BY <1>4, <1>6, <1>7, <2>1
<1>15. CASE s = u /\ Exits(u)
  <2>1. UNCHANGED <<old, skipped>>
    BY <1>15 DEF Exits
  <2>2. CASE UNCHANGED <<unit, looked, gaps>>
    BY <1>4, <1>6, <1>7, <2>1, <2>2
  <2>3. CASE unit' = [unit EXCEPT ![u] = "inactive"]
    <3>1. unit'[s] = "inactive" /\ unit[s] # "unloaded"
      BY <1>2, <1>4, <1>15, <2>3 DEF Exits, ServicesHaveProcesses
    <3> QED  BY <1>9, <2>1, <3>1
  <2> QED  BY <1>15, <2>2, <2>3 DEF Exits
<1> QED
  BY <1>8, <1>10, <1>11, <1>12, <1>13, <1>14, <1>15 DEF Systemd

(* For any units, lists and bounds: at rest, every active service of the    *)
(* list was looked at and adjusted since its last start, unless nobody      *)
(* announced that start (loaded before the subscription, found active or    *)
(* unreadable at UnitNew, or in the middle of onUnitNew) or the last look   *)
(* at it failed.                                                            *)
THEOREM NoServiceForgotten == Spec => []NoneForgotten
<1>1. Init => TypeOK /\ ForgetInv
  <2> SUFFICES ASSUME Init PROVE ForgetInv
    BY InitTypes
  <2>1. ServicesHaveProcesses
    BY DEF Init, ServicesHaveProcesses
  <2> QED  BY <2>1 DEF Init, ForgetInv, SubscribedAtStart, NoneLost, Running
<1>2. TypeOK /\ ForgetInv /\ [Next]_vars => (TypeOK /\ ForgetInv)'
  <2> SUFFICES ASSUME TypeOK, ForgetInv, [Next]_vars PROVE NoneLost'
    BY TypeStep, ProcessesStep, SubscribedStep DEF ForgetInv
  <2>1. CASE UNCHANGED vars
    BY <2>1
       DEF vars, own, systemd, history, ForgetInv, NoneLost, Running, Watched, Heard, Pending,
       Coming, Ahead, InHand, NewUnit, Changed
  <2>2. CASE NoBus \/ ExitTimeout
    BY <2>2 DEF NoBus, ExitTimeout, NoneLost, Running
  <2> QED  BY <2>1, <2>2, NoneLostInAdjuster, NoneLostInSystemd DEF Next
<1>3. TypeOK /\ ForgetInv => NoneForgotten
  <2> SUFFICES ASSUME TypeOK, ForgetInv, pc = "idle", queue = <<>>,
                      NEW s \in Watched, unit[s] = "active"
               PROVE  s \in (adjusted \cap looked) \cup gaps
    BY DEF NoneForgotten
  <2>1. ToSet(queue) = {}
    BY ElementsOf DEF TypeOK
  <2>2. Pending(s)
    BY DEF ForgetInv, NoneLost, SubscribedAtStart, Running
  <2> QED  BY <2>1, <2>2 DEF Pending, Coming, Ahead
<1> QED  BY <1>1, <1>2, <1>3, PTL DEF Spec
-----------------------------------------------------------------------------
(* What Terminates rests on: every handler ends, and a program that waits   *)
(* has its timer running.                                                   *)

(* Only an end stops the timer, and nothing waits after that. *)
WaitsWithTimer == pc = "idle" => timer /\ ~quit

TimerInv ==
    /\ timer => ~quit
    /\ pc \in {"idle", "read", "watch"} => timer
    /\ pc = "init" => ~timer /\ ~quit

InHandler == pc \in {"read", "watch", "list", "adjust"}

Stage == CASE pc = "read" -> 2 [] pc \in {"watch", "list"} -> 1 [] OTHER -> 0

(* Each step of a handler ends it, or leaves fewer services, or as many and *)
(* an earlier stage, or the same and fewer processes to write.              *)
ShorterHandler ==
    \/ pc' \in {"idle", "exited"}
    \/ Len(todo') < Len(todo)
    \/ Len(todo') = Len(todo) /\ Stage' < Stage
    \/ Len(todo') = Len(todo) /\ Stage' = Stage /\ Cardinality(pids') < Cardinality(pids)

(* Meanwhile systemd and the services, whatever they do, add nothing to it. *)
HandlerShrinks ==
    InHandler => ShorterHandler \/ UNCHANGED <<pc, todo, pids>>

FinitePids == IsFiniteSet(born) /\ pids \subseteq born

LEMMA TimerStep == ASSUME TypeOK, TimerInv, [Next]_vars PROVE TimerInv'
<1> USE DEF own, TimerInv
<1>1. CASE UNCHANGED own
  BY <1>1
<1>2. CASE NoBus
  BY <1>2 DEF NoBus
<1>3. CASE Start \/ List \/ Adjust
  BY <1>3 DEF Start, List, Adjust
<1>4. CASE Mark
  BY <1>4 DEF Mark, TypeOK
<1>5. CASE EndHandler
  BY <1>5 DEF EndHandler, InStart
<1>6. CASE UnitNew \/ ReadState \/ Watch \/ PropertiesChanged \/ ExitTimeout
  BY <1>6 DEF UnitNew, Receive, ReadState, Watch, PropertiesChanged, ExitTimeout
<1>7. ASSUME NEW s \in Units, Systemd(s) PROVE UNCHANGED own
  BY <1>7 DEF Systemd, Loads, Unloads, Starts, Activates, Forks, Exits
<1> QED
  BY <1>1, <1>2, <1>3, <1>4, <1>5, <1>6, <1>7 DEF Next, Adjuster, vars

(* There are only as many processes as have been born. *)
LEMMA FiniteStep == ASSUME TypeOK, FinitePids, [Next]_vars PROVE FinitePids'
<1> USE DEF own, systemd, history, FinitePids
<1>1. ASSUME NEW s \in Units, Systemd(s) PROVE FinitePids'
  <2>1. born' = born \/ born' = born \cup {NewPid}
    BY <1>1 DEF Systemd, Loads, Unloads, Starts, Activates, Forks, Exits
  <2>2. pids' = pids
    BY <1>1 DEF Systemd, Loads, Unloads, Starts, Activates, Forks, Exits
  <2>3. IsFiniteSet(born \cup {NewPid})
    BY FS_AddElement
  <2> QED BY <2>1, <2>2, <2>3
<1>2. CASE List
  <2>1. pids' = pids \/ (todo # <<>> /\ pids' = procs[InHand])
    BY <1>2 DEF List
  <2>2. todo # <<>> => InHand \in Units
    BY TailElements, ElementsOf DEF TypeOK, Watched, InHand
  <2>3. pids' \subseteq born
    BY <2>1, <2>2 DEF TypeOK
  <2> QED BY <1>2, <2>3 DEF List
<1>3. CASE Adjust
  BY <1>3 DEF Adjust
<1>4. CASE NoBus \/ Start \/ Mark \/ EndHandler \/ UnitNew \/ ReadState \/ Watch
           \/ PropertiesChanged \/ ExitTimeout \/ UNCHANGED vars
  BY <1>4 DEF NoBus, Start, Mark, EndHandler, UnitNew, ReadState, Watch, PropertiesChanged,
     ExitTimeout, vars
<1> QED BY <1>1, <1>2, <1>3, <1>4 DEF Next, Adjuster

LEMMA HandlerStep ==
    ASSUME TypeOK, FinitePids, [Next]_vars PROVE HandlerShrinks
<1> USE DEF HandlerShrinks, InHandler, ShorterHandler, Stage
<1>1. todo # <<>> => Len(todo) \in Nat /\ Len(Tail(todo)) < Len(todo)
  BY DEF TypeOK
<1>2. CASE List
  <2>1. CASE todo' = Tail(todo)
    BY <1>1, <1>2, <2>1 DEF List
  <2>2. CASE pc = "list" /\ pc' = "adjust" /\ todo' = todo
    BY <2>2
  <2> QED BY <1>2, <2>1, <2>2 DEF List
<1>3. CASE Adjust
  <2>1. PICK p \in pids : pids' = pids \ {p}
    BY <1>3 DEF Adjust
  <2>2. IsFiniteSet(pids)
    BY FS_Subset DEF FinitePids
  <2>3. Cardinality(pids') = Cardinality(pids) - 1 /\ Cardinality(pids) \in Nat
    BY <2>1, <2>2, FS_RemoveElement, FS_CardinalityType
  <2>4. Cardinality(pids') < Cardinality(pids)
    BY <2>3
  <2>5. todo' = todo /\ pc' = pc
    BY <1>3 DEF Adjust
  <2> QED BY <2>4, <2>5
<1>4. CASE Mark
  <2>1. todo # <<>> /\ todo' = Tail(todo)
    BY <1>4 DEF Mark, TypeOK
  <2> QED BY <1>1, <2>1
<1>5. CASE EndHandler \/ Watch
  BY <1>5 DEF EndHandler, Watch
<1>6. CASE ReadState
  BY <1>6 DEF ReadState
<1>7. CASE NoBus \/ Start \/ UnitNew \/ PropertiesChanged \/ ExitTimeout
  BY <1>7 DEF NoBus, Start, UnitNew, PropertiesChanged, Receive, ExitTimeout
<1>8. ASSUME NEW s \in Units, Systemd(s) PROVE UNCHANGED <<pc, todo, pids>>
  BY <1>8 DEF Systemd, Loads, Unloads, Starts, Activates, Forks, Exits, own
<1>9. CASE UNCHANGED vars
  BY <1>9 DEF vars, own
<1> QED BY <1>2, <1>3, <1>4, <1>5, <1>6, <1>7, <1>8, <1>9 DEF Next, Adjuster

(* Whenever the program waits for signals, its timer runs: no path through  *)
(* start(), the handlers and the count of adjusted services leads back to   *)
(* the event loop with the timer stopped (lines 76-84, 326-341).            *)
THEOREM NeverWaitsWithoutTimer == Spec => []WaitsWithTimer
<1>1. Init => TypeOK /\ TimerInv
  BY InitTypes DEF Init, TimerInv
<1>2. TypeOK /\ TimerInv /\ [Next]_vars => (TypeOK /\ TimerInv)'
  BY TypeStep, TimerStep
<1>3. TimerInv => WaitsWithTimer
  BY DEF TimerInv, WaitsWithTimer
<1> QED BY <1>1, <1>2, <1>3, PTL DEF Spec

(* Every handler gets to its end, for any list and any number of processes, *)
(* although services start, fork and die meanwhile: what it has to look at  *)
(* is fixed when it begins, and getServiceProcesses fixes it again.         *)
THEOREM HandlersEnd == Spec => [][HandlerShrinks]_vars
<1>1. Init => TypeOK /\ FinitePids
  <2>1. IsFiniteSet({})
    BY FS_EmptySet
  <2> QED BY <2>1, InitTypes DEF Init, FinitePids
<1>2. TypeOK /\ FinitePids /\ [Next]_vars => (TypeOK /\ FinitePids)'
  BY TypeStep, FiniteStep
<1>3. TypeOK /\ FinitePids /\ [Next]_vars => [HandlerShrinks]_vars
  BY HandlerStep
<1> QED BY <1>1, <1>2, <1>3, PTL DEF Spec
=============================================================================
