------------------------------- MODULE OomScore -------------------------------
(***************************************************************************)
(* dde-oom-score-adj (src/tools/dde-oom-score-adj): it sets oom_score_adj  *)
(* of the processes of a few systemd services once they are active, and    *)
(* ends when all services are done or after three minutes.                 *)
(*                                                                         *)
(* One thread.  It waits in blocking calls to systemd; the signals that    *)
(* arrive meanwhile are queued, and systemd, which goes on, sends signals  *)
(* only for the matches that exist when something happens.                 *)
(***************************************************************************)
EXTENDS Naturals, Sequences, FiniteSets, SequencesExt

CONSTANTS
    Units,        \* systemd units
    WatchLists,   \* the lists monitorServices may hold
    Pids,         \* process numbers, each used once
    MaxLoad,      \* bound: how often units are loaded or unloaded
    MaxExit,      \* bound: how many processes end
    MaxFault      \* bound: how many calls and writes fail

ASSUME WatchAssumption == WatchLists \subseteq Seq(Units)
ASSUME BoundAssumption == MaxLoad \in Nat /\ MaxExit \in Nat /\ MaxFault \in Nat

VARIABLES
    watched,     \* m_watchedServices
    adjusted,    \* m_adjustedServices
    subscribed,  \* the match for UnitNew exists
    matched,     \* units with a match for their PropertiesChanged
    timer,       \* m_exitTimer is running
    quit,        \* handleExit was emitted; the loop ends with the present handler
    pc,          \* what the handler does next, "idle" in the event loop
    todo,        \* services the handler still has to look at, the first one in hand
    pids,        \* processes of the one in hand that are still to be written
    allAdjusted, \* the local of that name in checkAndAdjustService
    queue,       \* signals that have arrived
    unit,        \* state of every unit
    procs,       \* processes of every unit
    low,         \* processes with the target score
    born,        \* process numbers used up
    left,        \* how often the bounded events may still happen
    old,         \* history: units loaded since before the subscription
    skipped,     \* history: units without a match since the look at their state
    looked,      \* history: services looked at in their present life, without failure
    gaps,        \* history: active services whose start was missed or look failed
    late         \* history: processes younger than the last look at their service

own     == <<watched, adjusted, subscribed, matched, timer, quit, pc, todo, pids, allAdjusted>>
systemd == <<unit, procs, low, born>>
history == <<old, skipped, looked, gaps, late>>
vars    == <<own, queue, systemd, left, history>>

Watched == ToSet(watched)
Done(services) == Cardinality(services) = Len(watched)
InHand  == Head(todo)

NewUnit(s)      == [kind |-> "new", unit |-> s, active |-> FALSE]
Changed(s, now) == [kind |-> "changed", unit |-> s, active |-> now]
Signals == [kind : {"new", "changed"}, unit : Units, active : BOOLEAN]

Places == {"init", "idle", "read", "watch", "list", "adjust", "exited"}

TypeOK ==
    /\ watched \in Seq(Units) /\ adjusted \subseteq Watched
    /\ subscribed \in BOOLEAN /\ matched \subseteq Watched
    /\ timer \in BOOLEAN /\ quit \in BOOLEAN /\ allAdjusted \in BOOLEAN
    /\ pc \in Places
    /\ todo \in Seq(Watched) /\ (pc \in {"read", "watch", "adjust"} => todo # <<>>)
    /\ pids \subseteq Pids /\ queue \in Seq(Signals)
    /\ unit \in [Units -> {"unloaded", "inactive", "activating", "active"}]
    /\ procs \in [Units -> SUBSET born]
    /\ low \subseteq born /\ born \subseteq Pids
    /\ left \in [{"load", "exit", "fault"} -> Nat]
    /\ old \subseteq Units /\ skipped \subseteq Units /\ looked \subseteq Units
    /\ gaps \subseteq Units /\ late \subseteq born

(* The program is started while any of the units may be loaded or running. *)
Init ==
    /\ watched \in WatchLists
    /\ adjusted = {} /\ subscribed = FALSE /\ matched = {} /\ timer = FALSE /\ quit = FALSE
    /\ pc = "init" /\ todo = <<>> /\ pids = {} /\ allAdjusted = TRUE /\ queue = <<>>
    /\ unit \in [Units -> {"unloaded", "inactive"}] /\ procs = [s \in Units |-> {}]
    /\ low = {} /\ born = {}
    /\ left = [load |-> MaxLoad, exit |-> MaxExit, fault |-> MaxFault]
    /\ old = {} /\ skipped = {} /\ looked = {} /\ gaps = {} /\ late = {}

Happens(event) == left[event] > 0 /\ left' = [left EXCEPT ![event] = @ - 1]
Send(signal)   == queue' = Append(queue, signal)

(* The service in hand is left for another signal; if it is active already, *)
(* there may be none.                                                       *)
LeftUndone ==
    /\ gaps' = IF unit[InHand] = "active" THEN gaps \cup {InHand} ELSE gaps
    /\ looked' = looked \ {InHand}

(* A failed call or write. *)
Fails == Happens("fault") /\ LeftUndone
-----------------------------------------------------------------------------
(* start() and checkAndAdjustService. *)

(* start() without a connection to the session bus. *)
NoBus ==
    /\ pc = "init" /\ pc' = "exited" /\ quit' = TRUE /\ Happens("fault")
    /\ UNCHANGED <<watched, adjusted, subscribed, matched, timer, todo, pids, allAdjusted, queue,
                   systemd, history>>

(* subscribeToSystemd, then checkExistingServices for every service. *)
Start ==
    /\ pc = "init" /\ pc' = "list" /\ todo' = watched
    /\ subscribed' = TRUE /\ old' = {s \in Units : unit[s] # "unloaded"}
    /\ UNCHANGED <<watched, adjusted, matched, timer, quit, pids, allAdjusted, queue, systemd, left,
                   skipped, looked, gaps, late>>

(* getServiceProcesses: GetUnit, unless m_servicePathMap has the path, and  *)
(* GetProcesses.  A unit that is not loaded has no processes either.        *)
List ==
    /\ pc = "list" /\ todo # <<>>
    /\ \/ /\ procs[InHand] = {} /\ todo' = Tail(todo)
          /\ UNCHANGED <<pc, pids, allAdjusted, left, looked, gaps, late>>
       \/ /\ procs[InHand] # {} /\ pc' = "adjust" /\ pids' = procs[InHand] /\ allAdjusted' = TRUE
          /\ looked' = looked \cup {InHand} /\ gaps' = gaps \ {InHand}
          /\ late' = late \ procs[InHand]
          /\ UNCHANGED <<todo, left>>
       \/ /\ Fails /\ todo' = Tail(todo)
          /\ UNCHANGED <<pc, pids, allAdjusted, late>>
    /\ UNCHANGED <<watched, adjusted, subscribed, matched, timer, quit, queue, systemd, old, skipped>>

(* adjustOomScore writes the score and reads it back. *)
Written(p) == p \in procs[InHand] /\ low' = low \cup {p}

(* One process: nothing to do, adjustOomScore, or its failure, because the  *)
(* write is refused or because the process has ended since List.            *)
Adjust ==
    /\ pc = "adjust"
    /\ \E p \in pids :
          /\ pids' = pids \ {p}
          /\ \/ /\ Written(p)
                /\ UNCHANGED <<allAdjusted, left, looked, gaps, late>>
             \/ /\ p \in procs[InHand] \ low /\ Fails /\ allAdjusted' = FALSE
                /\ late' = IF InHand \in adjusted THEN late \cup {p} ELSE late
                /\ UNCHANGED low
             \/ /\ p \notin procs[InHand] /\ allAdjusted' = FALSE /\ LeftUndone
                /\ UNCHANGED <<low, left, late>>
    /\ UNCHANGED <<watched, adjusted, subscribed, matched, timer, quit, pc, todo, queue, unit, procs,
                   born, old, skipped>>

(* Mutant: the failures are not looked at. *)
MarkAnyway ==
    /\ pc = "adjust" /\ pids = {} /\ pc' = "list" /\ todo' = Tail(todo)
    /\ adjusted' = adjusted \cup {InHand}
    /\ quit' = (quit \/ Done(adjusted')) /\ timer' = (timer /\ ~Done(adjusted'))
    /\ UNCHANGED <<watched, subscribed, matched, pids, allAdjusted, queue, systemd, left, history>>

(* Mutant: the services are counted before this one is added. *)
MarkCountsBefore ==
    /\ pc = "adjust" /\ pids = {} /\ pc' = "list" /\ todo' = Tail(todo)
    /\ adjusted' = IF allAdjusted THEN adjusted \cup {InHand} ELSE adjusted
    /\ quit' = (quit \/ (allAdjusted /\ Done(adjusted)))
    /\ timer' = (timer /\ ~(allAdjusted /\ Done(adjusted)))
    /\ UNCHANGED <<watched, subscribed, matched, pids, allAdjusted, queue, systemd, left, history>>

(* The end of checkAndAdjustService, and checkIfAllServicesAdjusted. *)
Mark ==
    /\ pc = "adjust" /\ pids = {} /\ pc' = "list" /\ todo' = Tail(todo)
    /\ \/ /\ allAdjusted /\ adjusted' = adjusted \cup {InHand}
          /\ quit' = (quit \/ Done(adjusted')) /\ timer' = (timer /\ ~Done(adjusted'))
       \/ ~allAdjusted /\ UNCHANGED <<adjusted, quit, timer>>
    /\ UNCHANGED <<watched, subscribed, matched, pids, allAdjusted, queue, systemd, left, history>>

(* The timer is started at the end of start() and stopped only by an end. *)
InStart == ~timer /\ ~quit

(* Mutant: start() does not start the timer. *)
EndHandlerNoTimer ==
    /\ pc = "list" /\ todo = <<>>
    /\ \/ (quit \/ Done(adjusted)) /\ quit' = TRUE /\ pc' = "exited"
       \/ ~(quit \/ Done(adjusted)) /\ pc' = "idle" /\ UNCHANGED quit
    /\ UNCHANGED <<watched, adjusted, subscribed, matched, timer, todo, pids, allAdjusted, queue,
                   systemd, left, history>>

(* The handler returns.  start() counts the services once more, which ends  *)
(* the program when there is nothing to watch, and starts the timer.        *)
EndHandler ==
    /\ pc = "list" /\ todo = <<>>
    /\ \/ quit /\ pc' = "exited" /\ UNCHANGED <<quit, timer>>
       \/ InStart /\ Done(adjusted) /\ quit' = TRUE /\ pc' = "exited" /\ UNCHANGED timer
       \/ InStart /\ ~Done(adjusted) /\ timer' = TRUE /\ pc' = "idle" /\ UNCHANGED quit
       \/ timer /\ pc' = "idle" /\ UNCHANGED <<quit, timer>>
    /\ UNCHANGED <<watched, adjusted, subscribed, matched, todo, pids, allAdjusted, queue, systemd,
                   left, history>>
-----------------------------------------------------------------------------
(* The event loop: signals in the order of their arrival, or the timer. *)

Receive(kind) ==
    /\ pc = "idle" /\ queue # <<>> /\ Head(queue).kind = kind /\ queue' = Tail(queue)

(* Mutant: every new unit is taken for one of the services. *)
UnitNewUnfiltered ==
    /\ Receive("new") /\ pc' = "read" /\ todo' = <<Head(queue).unit>>
    /\ UNCHANGED <<watched, adjusted, subscribed, matched, timer, quit, pids, allAdjusted, systemd,
                   left, history>>

(* onUnitNew until its call to systemd. *)
UnitNew ==
    /\ Receive("new")
    /\ \/ Head(queue).unit \in Watched /\ pc' = "read" /\ todo' = <<Head(queue).unit>>
       \/ Head(queue).unit \notin Watched /\ UNCHANGED <<pc, todo>>
    /\ UNCHANGED <<watched, adjusted, subscribed, matched, timer, quit, pids, allAdjusted, systemd,
                   left, history>>

(* The answer: active, not active, or an invalid interface.  A property     *)
(* that cannot be read is an empty string and thus not "active".  A unit    *)
(* that is active, and one that cannot be asked, gets no match.             *)
ReadState ==
    /\ pc = "read"
    /\ \/ /\ unit[InHand] = "active" /\ pc' = "list" /\ skipped' = skipped \cup {InHand}
          /\ UNCHANGED <<todo, left, looked, gaps>>
       \/ /\ unit[InHand] # "active" /\ pc' = "watch"
          /\ UNCHANGED <<todo, left, skipped, looked, gaps>>
       \/ Fails /\ pc' = "watch" /\ UNCHANGED <<todo, skipped>>
       \/ Fails /\ pc' = "idle" /\ todo' = <<>> /\ skipped' = skipped \cup {InHand}
    /\ UNCHANGED <<watched, adjusted, subscribed, matched, timer, quit, pids, allAdjusted, queue,
                   systemd, old, late>>

(* Mutant: the match is made for the services that are active already. *)
WatchForgotten ==
    /\ pc = "watch" /\ pc' = "idle" /\ todo' = <<>>
    /\ UNCHANGED <<watched, adjusted, subscribed, matched, timer, quit, pids, allAdjusted, queue,
                   systemd, left, history>>

(* The rest of onUnitNew for a unit that was not active when it was asked. *)
Watch ==
    /\ pc = "watch" /\ pc' = "idle" /\ todo' = <<>>
    /\ matched' = matched \cup {InHand}
    /\ UNCHANGED <<watched, adjusted, subscribed, timer, quit, pids, allAdjusted, queue, systemd,
                   left, history>>

(* onPropertiesChanged: the signal does not say which unit it is about, so  *)
(* that a service that became active has all services looked at.            *)
PropertiesChanged ==
    /\ Receive("changed")
    /\ \/ Head(queue).active /\ pc' = "list" /\ todo' = watched
       \/ ~Head(queue).active /\ UNCHANGED <<pc, todo>>
    /\ UNCHANGED <<watched, adjusted, subscribed, matched, timer, quit, pids, allAdjusted, systemd,
                   left, history>>

(* onExitTimeout. *)
ExitTimeout ==
    /\ pc = "idle" /\ timer /\ timer' = FALSE /\ pc' = "exited"
    /\ UNCHANGED <<watched, adjusted, subscribed, matched, quit, todo, pids, allAdjusted, queue,
                   systemd, left, history>>

Adjuster ==
    \/ Start \/ List \/ Adjust \/ Mark \/ EndHandler
    \/ UnitNew \/ ReadState \/ Watch \/ PropertiesChanged
-----------------------------------------------------------------------------
(* systemd and the services, as long as the program runs. *)

Running == pc # "exited"

NewPid == CHOOSE p \in Pids : p \notin born

(* The handler will look for the processes of s, or ask for its state. *)
Ahead(s) ==
    \/ pc = "read" /\ s = InHand
    \/ pc = "list" /\ s \in ToSet(todo)
    \/ pc = "adjust" /\ s \in ToSet(Tail(todo))

Loads(s) ==
    /\ Running /\ unit[s] = "unloaded" /\ Happens("load")
    /\ unit' = [unit EXCEPT ![s] = "inactive"]
    /\ IF subscribed THEN Send(NewUnit(s)) ELSE UNCHANGED queue
    /\ UNCHANGED <<own, procs, low, born, history>>

Unloads(s) ==
    /\ Running /\ unit[s] = "inactive" /\ Happens("load")
    /\ unit' = [unit EXCEPT ![s] = "unloaded"]
    /\ old' = old \ {s} /\ skipped' = skipped \ {s}
    /\ UNCHANGED <<own, queue, procs, low, born, looked, gaps, late>>

(* The first process of a service; in the next step it is active. *)
Starts(s) ==
    /\ Running /\ unit[s] = "inactive" /\ unit' = [unit EXCEPT ![s] = "activating"]
    /\ Pids # born /\ procs' = [procs EXCEPT ![s] = {NewPid}]
    /\ born' = born \cup {NewPid} /\ late' = late \cup {NewPid}
    /\ UNCHANGED <<own, queue, low, left, old, skipped, looked, gaps>>

(* The three gaps of the program.  A unit that was loaded before it         *)
(* subscribed has no match, a unit that onUnitNew found active never gets   *)
(* one, for its next start, and one that was asked for its state has none   *)
(* yet.                                                                     *)
Missed(s) ==
    \/ s \in old \cup skipped /\ ~Ahead(s)
    \/ pc = "watch" /\ s = InHand

Activates(s) ==
    /\ Running /\ unit[s] = "activating" /\ unit' = [unit EXCEPT ![s] = "active"]
    /\ \/ s \in matched /\ Send(Changed(s, TRUE)) /\ UNCHANGED gaps
       \/ s \notin matched /\ UNCHANGED queue /\ gaps' = IF Missed(s) THEN gaps \cup {s} ELSE gaps
    /\ UNCHANGED <<own, procs, low, born, left, old, skipped, looked, late>>

(* A child inherits the score of its parent. *)
Forks(s) ==
    /\ Running /\ unit[s] \in {"activating", "active"} /\ Pids # born
    /\ procs' = [procs EXCEPT ![s] = @ \cup {NewPid}] /\ born' = born \cup {NewPid}
    /\ \E p \in procs[s] :
          \/ p \in low /\ low' = low \cup {NewPid} /\ UNCHANGED late
          \/ p \notin low /\ late' = late \cup {NewPid} /\ UNCHANGED low
    /\ UNCHANGED <<own, queue, unit, left, old, skipped, looked, gaps>>

(* The end of the last process is the end of the service, until systemd     *)
(* starts it again.                                                         *)
Exits(s) ==
    /\ Running /\ Happens("exit")
    /\ \E p \in procs[s] :
          /\ procs' = [procs EXCEPT ![s] = @ \ {p}]
          /\ \/ /\ procs[s] = {p} /\ unit' = [unit EXCEPT ![s] = "inactive"]
                /\ IF s \in matched THEN Send(Changed(s, FALSE)) ELSE UNCHANGED queue
                /\ looked' = looked \ {s} /\ gaps' = gaps \ {s}
             \/ procs[s] # {p} /\ UNCHANGED <<unit, queue, looked, gaps>>
    /\ UNCHANGED <<own, low, born, old, skipped, late>>

Systemd(s) == Loads(s) \/ Unloads(s) \/ Starts(s) \/ Activates(s) \/ Forks(s) \/ Exits(s)

Next == NoBus \/ Adjuster \/ ExitTimeout \/ \E s \in Units : Systemd(s)

Spec == Init /\ [][Next]_vars

(* The event loop goes on, calls return, and a timer that stays due is      *)
(* served between two signals.                                              *)
Fairness == WF_vars(Adjuster) /\ SF_vars(ExitTimeout)

FairSpec == Spec /\ Fairness
-----------------------------------------------------------------------------
(* When the program waits and has nothing left to read, every service that  *)
(* is active has been looked at and adjusted since its last start, unless   *)
(* nobody announced that start: the unit was loaded before the program      *)
(* subscribed (line 97), found active by onUnitNew in an earlier life       *)
(* (lines 126-128), could not be asked, or was being asked (lines           *)
(* 124-131).  Only these starts, calls that fail and processes that end     *)
(* under the hands of the program leave a service out; signals that come    *)
(* while a handler waits, restarts of a watched unit and reloads do not.    *)
NoneForgotten ==
    pc = "idle" /\ queue = <<>> =>
        \A s \in Watched : unit[s] = "active" => s \in (adjusted \cap looked) \cup gaps

(* An adjusted service has no process without the target score, other than  *)
(* one born after the service was looked at, or refused when it was adjusted *)
(* already: lines 177-203 let no listed process through.                    *)
AdjustedHaveTarget ==
    \A s \in adjusted : \A p \in procs[s] :
        p \in low \cup late \/ (pc = "adjust" /\ s = InHand /\ p \in pids)

(* The program ends before its time only when every service is adjusted,    *)
(* and does not wait when they are: lines 76 and 328 compare numbers, which *)
(* is the same unless a service is listed twice.                            *)
EndsWhenAdjusted ==
    /\ pc = "exited" /\ subscribed /\ quit => Watched \subseteq adjusted
    /\ pc = "idle" /\ Watched \subseteq adjusted => Cardinality(Watched) # Len(watched)

(* After three minutes at the latest the program is gone (line 84). *)
Terminates == <>(pc = "exited")

(* oomscoreadjuster.h, line 18: it listens for the start of services and    *)
(* adjusts their score.                                                     *)
StartedAreAdjusted ==
    pc = "idle" /\ queue = <<>> /\ left["fault"] = MaxFault /\ left["exit"] = MaxExit =>
        \A s \in Watched : unit[s] = "active" => s \in adjusted
=============================================================================
