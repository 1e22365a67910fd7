--------------------------- MODULE SessionLifecycle ---------------------------
(***************************************************************************)
(* The two dde-session processes of a login and what ties them together    *)
(* (src/src/dde-session/main.cpp, src/src/utils/fifo.cpp).                 *)
(*                                                                         *)
(* The leader, started by the display manager, starts dde-session.target   *)
(* and sleeps until org.deepin.dde.Session1 loses its owner.  The service, *)
(* started by systemd, owns Session1 and sleeps until it is told to quit,  *)
(* is stopped, or reads end-of-file from the FIFO that only the leader     *)
(* holds open for writing.  Both open the FIFO from a thread of the global *)
(* QThreadPool, and ~QCoreApplication waits for that pool: a process whose *)
(* event loop has ended is gone only when its pool threads are.            *)
(***************************************************************************)
EXTENDS Naturals, Sequences

CONSTANTS
    Requests,     \* which of the ways to end the session somebody uses
    Failures,     \* which of the failures happen
    PoolSize,     \* QThreadPool::maxThreadCount, the number of CPUs
    ChooserHangs  \* in a virtual machine the user may leave dde-wm-chooser open

AllRequests == {"RequestLogout", "Session1Logout", "RequestPowerOff", "ShutdownByHand"}
AllFailures == {"startFails", "handshake", "fifoError", "leaderKilled", "serviceKilled",
                "xDies", "ddeAmFails"}

ASSUME RequestsAssumption == Requests \subseteq AllRequests
ASSUME FailuresAssumption == Failures \subseteq AllFailures
ASSUME PoolAssumption     == PoolSize \in Nat \ {0} /\ ChooserHangs \in BOOLEAN

VARIABLES
    leader,     \* main thread of the leader
    watching,   \* the QDBusServiceWatcher on Session1 exists
    vanished,   \* its serviceUnregistered signal is queued
    writer,     \* pool thread of the leader: OpenWrite, Write
    service,    \* main thread of the service
    owned,      \* the service owns org.deepin.dde.Session1
    others,     \* pool thread of the service: OthersManager().init()
    reader,     \* pool thread of the service: OpenRead, Read, Read, ...
    posted,     \* queued invocations for the service's event loop
    pidKnown,   \* Session::m_sessionPid has been set
    buffer,     \* the FIFO holds the leader's pid
    unit,       \* dde-session-manager.service as systemd sees it
    ctl,        \* dde-session-ctl --shutdown, started by dde-am, is on its way
    powerOff,   \* logind was asked to power off or reboot
    shutdown,   \* dde-session-shutdown.target has been started
    exitTask,   \* dde-session-exit-task.service
    used        \* requests and failures that have happened

leaderVars  == <<leader, watching, writer>>
serviceVars == <<service, owned, others, reader, posted, pidKnown>>
powerVars   == <<ctl, powerOff>>
systemdVars == <<unit, shutdown, exitTask, powerVars>>
vars == <<leader, watching, vanished, writer, service, owned, others, reader,
          posted, pidKnown, buffer, unit, ctl, powerOff, shutdown, exitTask, used>>

Flags ==
    /\ watching \in BOOLEAN /\ vanished \in BOOLEAN /\ owned \in BOOLEAN
    /\ pidKnown \in BOOLEAN /\ buffer \in BOOLEAN
    /\ ctl \in BOOLEAN /\ powerOff \in BOOLEAN /\ shutdown \in BOOLEAN

Places ==
    /\ leader \in {"start", "unwatched", "loop", "drain", "gone"}
    /\ writer \in {"none", "spawned", "opening", "opened", "done", "failed"}
    /\ service \in {"off", "handshake", "init", "loop", "logout", "prepare", "powerOff",
                    "drain", "dead"}
    /\ others \in {"none", "running", "done"}
    /\ reader \in {"none", "queued", "opening", "reading", "ended", "done"}
    /\ unit \in {"inactive", "queued", "running", "stopPost", "stopped"}
    /\ exitTask \in {"none", "waiting", "dbusStopped"}

TypeOK ==
    /\ Flags /\ Places
    /\ posted \in Seq({"pid", "quit"})
    /\ used \subseteq Requests \cup Failures

Init ==
    /\ leader = "start" /\ watching = FALSE /\ vanished = FALSE /\ writer = "none"
    /\ service = "off" /\ owned = FALSE /\ others = "none" /\ reader = "none"
    /\ posted = <<>> /\ pidKnown = FALSE /\ buffer = FALSE
    /\ unit = "inactive" /\ ctl = FALSE /\ powerOff = FALSE /\ shutdown = FALSE /\ exitTask = "none"
    /\ used = {}

ServiceAlive == service \notin {"off", "dead"}
HoldsWriteEnd == leader # "gone" /\ writer \in {"opened", "done"}
HoldsReadEnd  == reader = "reading"
Use(what, set) == what \in set \ used /\ used' = used \cup {what}
-----------------------------------------------------------------------------
(* The leader. *)

(* StartUnit("dde-session.target") waits for the reply, not for the job,    *)
(* and its result is not looked at.                                         *)
LeaderStartsTarget ==
    /\ leader = "start" /\ leader' = "unwatched"
    /\ \/ unit' = "queued" /\ UNCHANGED used
       \/ Use("startFails", Failures) /\ UNCHANGED unit
    /\ UNCHANGED <<watching, vanished, writer, serviceVars, buffer, shutdown, exitTask, powerVars>>

(* Watch Session1, start the FIFO thread, enter the event loop. *)
LeaderWatches ==
    /\ leader = "unwatched" /\ leader' = "loop"
    /\ watching' = TRUE /\ writer' = "spawned"
    /\ UNCHANGED <<vanished, serviceVars, buffer, systemdVars, used>>

(* OpenWrite: open(O_WRONLY) blocks until a reader opens, and releases one. *)
OpenWrite ==
    /\ leader # "gone" /\ writer = "spawned"
    /\ \/ /\ writer' = IF reader \in {"opening", "reading"} THEN "opened" ELSE "opening"
          /\ reader' = IF reader = "opening" THEN "reading" ELSE reader
          /\ UNCHANGED used
       \/ writer' = "failed" /\ Use("fifoError", Failures) /\ UNCHANGED reader
    /\ UNCHANGED <<leader, watching, vanished, service, owned, others, posted, pidKnown,
                   buffer, systemdVars>>

(* Write the pid, whatever comes of it: the descriptor stays open until the *)
(* leader is gone.  When the reader has gone, libdbus has set SIGPIPE to be *)
(* ignored (the bus was used before the thread started), and nobody looks   *)
(* at the EPIPE.                                                            *)
Write ==
    /\ leader # "gone" /\ writer = "opened" /\ writer' = "done"
    /\ buffer' = HoldsReadEnd
    /\ UNCHANGED <<leader, watching, vanished, serviceVars, systemdVars, used>>

(* Mutant: the exit task is started but the event loop goes on. *)
LeaderSeesExitAndStays ==
    /\ leader = "loop" /\ vanished
    /\ vanished' = FALSE /\ exitTask' = "waiting"
    /\ UNCHANGED <<leader, watching, writer, serviceVars, buffer, unit, shutdown, powerVars, used>>

(* serviceUnregistered: start the exit task and quit the event loop. *)
LeaderSeesExit ==
    /\ leader = "loop" /\ vanished
    /\ leader' = "drain" /\ vanished' = FALSE /\ exitTask' = "waiting"
    /\ UNCHANGED <<watching, writer, serviceVars, buffer, unit, shutdown, powerVars, used>>

(* ~QCoreApplication has waited for the FIFO thread. *)
LeaderExits ==
    /\ leader = "drain" /\ writer \in {"done", "failed"}
    /\ leader' = "gone"
    /\ UNCHANGED <<watching, vanished, writer, serviceVars, buffer, systemdVars, used>>
-----------------------------------------------------------------------------
(* The service. *)

(* The process ends, by itself or by a signal: the bus drops the name, the  *)
(* kernel closes the FIFO, systemd goes on with ExecStopPost.               *)
ProcessEnds ==
    /\ service' = "dead" /\ owned' = FALSE
    /\ vanished' = (vanished \/ (owned /\ watching /\ leader = "loop"))
    /\ others' = "none" /\ reader' = "none" /\ posted' = <<>> /\ buffer' = FALSE
    /\ unit' = "stopPost"
    /\ UNCHANGED pidKnown

(* Security loader handshake, then Session1 is registered.  A failed        *)
(* handshake ends the process before it owned the name.                     *)
ServiceRegisters ==
    /\ service = "handshake"
    /\ \/ /\ service' = "init" /\ owned' = TRUE
          /\ UNCHANGED <<vanished, others, reader, posted, pidKnown, buffer, unit, used>>
       \/ Use("handshake", Failures) /\ ProcessEnds
    /\ UNCHANGED <<leaderVars, shutdown, exitTask, powerVars>>

(* SessionManager and WMSwitcher are set up, both pool tasks are started,   *)
(* the event loop is entered.                                               *)
ServiceInit ==
    /\ service = "init" /\ service' = "loop"
    /\ others' = "running" /\ reader' = "queued"
    /\ UNCHANGED <<owned, posted, pidKnown, leaderVars, vanished, buffer, systemdVars, used>>

OthersInit ==
    /\ others = "running" /\ others' = "done"
    /\ UNCHANGED <<service, owned, reader, posted, pidKnown, leaderVars, vanished, buffer,
                   systemdVars, used>>

(* OpenRead: the pool runs it when a thread is free; open(O_RDONLY) blocks  *)
(* until a writer opens, and releases one.  On an error Read returns -1 and *)
(* the loop ends at once.                                                   *)
OpenRead ==
    /\ reader = "queued" /\ (PoolSize > 1 \/ others = "done")
    /\ \/ /\ reader' = IF HoldsWriteEnd \/ (leader # "gone" /\ writer = "opening")
                       THEN "reading" ELSE "opening"
          /\ writer' = IF leader # "gone" /\ writer = "opening" THEN "opened" ELSE writer
          /\ UNCHANGED used
       \/ reader' = "ended" /\ Use("fifoError", Failures) /\ UNCHANGED writer
    /\ UNCHANGED <<leader, watching, vanished, service, owned, others, posted, pidKnown,
                   buffer, systemdVars>>

(* Mutant: one read only, as if the pid and the end of the file came as one. *)
ReadOnce ==
    /\ reader = "reading"
    /\ \/ /\ buffer /\ buffer' = FALSE /\ posted' = Append(posted, "pid") /\ reader' = "ended"
       \/ /\ ~buffer /\ ~HoldsWriteEnd /\ reader' = "ended" /\ UNCHANGED <<buffer, posted>>
    /\ UNCHANGED <<leaderVars, vanished, service, owned, others, pidKnown, systemdVars, used>>

(* Mutant: what was read is handed on although the read returned 0. *)
ReadHandsOnNothing ==
    /\ reader = "reading"
    /\ \/ /\ buffer /\ buffer' = FALSE /\ posted' = Append(posted, "pid") /\ UNCHANGED reader
       \/ /\ ~buffer /\ ~HoldsWriteEnd /\ reader' = "ended" /\ posted' = Append(posted, "")
          /\ UNCHANGED buffer
    /\ UNCHANGED <<leaderVars, vanished, service, owned, others, pidKnown, systemdVars, used>>

(* Read returns the pid, or 0 when the last writer has closed. *)
Read ==
    /\ reader = "reading"
    /\ \/ /\ buffer /\ buffer' = FALSE /\ posted' = Append(posted, "pid") /\ UNCHANGED reader
       \/ /\ ~buffer /\ ~HoldsWriteEnd /\ reader' = "ended" /\ UNCHANGED <<buffer, posted>>
    /\ UNCHANGED <<leaderVars, vanished, service, owned, others, pidKnown, systemdVars, used>>

(* Mutant: the quit overtakes the invocations that are already queued. *)
PostQuitFirst ==
    /\ reader = "ended" /\ reader' = "done" /\ posted' = <<"quit">> \o posted
    /\ UNCHANGED <<leaderVars, vanished, service, owned, others, pidKnown, buffer,
                   systemdVars, used>>

(* Mutant: the thread ends without asking the application to quit. *)
PostNothing ==
    /\ reader = "ended" /\ reader' = "done"
    /\ UNCHANGED <<leaderVars, vanished, service, owned, others, posted, pidKnown, buffer,
                   systemdVars, used>>

PostQuit ==
    /\ reader = "ended" /\ reader' = "done" /\ posted' = Append(posted, "quit")
    /\ UNCHANGED <<leaderVars, vanished, service, owned, others, pidKnown, buffer,
                   systemdVars, used>>

(* setSessionPid and setSessionPath, or QCoreApplication::quit. *)
ServiceEvent ==
    /\ service = "loop" /\ posted # <<>>
    /\ posted' = Tail(posted)
    /\ \/ Head(posted) = "pid" /\ pidKnown' = TRUE /\ UNCHANGED service
       \/ Head(posted) = "quit" /\ service' = "drain" /\ UNCHANGED pidKnown
    /\ UNCHANGED <<leaderVars, vanished, owned, others, reader, buffer, systemdVars, used>>

(* Session1.Logout: quit the event loop, nothing else. *)
Session1Logout ==
    /\ service = "loop" /\ Use("Session1Logout", Requests)
    /\ service' = "drain"
    /\ UNCHANGED <<leaderVars, vanished, owned, others, reader, posted, pidKnown, buffer,
                   systemdVars>>

(* SessionManager1.RequestLogout: prepareLogout runs commands and waits for *)
(* them, then doLogout starts the shutdown target.                          *)
RequestLogout ==
    /\ service = "loop" /\ Use("RequestLogout", Requests)
    /\ service' = "logout"
    /\ UNCHANGED <<leaderVars, vanished, owned, others, reader, posted, pidKnown, buffer,
                   systemdVars>>

DoLogout ==
    /\ service = "logout" /\ service' = "loop" /\ shutdown' = TRUE
    /\ UNCHANGED <<leaderVars, vanished, owned, others, reader, posted, pidKnown, buffer,
                   unit, exitTask, powerVars, used>>

(* SessionManager1.RequestShutdown and RequestReboot: sounds and services   *)
(* are prepared, dde-am is told to run dde-session-ctl --shutdown, then     *)
(* PowerOff or Reboot is sent and the event loop quits, whatever came of    *)
(* either.  dde-session-ctl is another process: what it starts may stop     *)
(* this one before PowerOff is sent.                                        *)
RequestPowerOff ==
    /\ service = "loop" /\ Use("RequestPowerOff", Requests)
    /\ service' = "prepare"
    /\ UNCHANGED <<leaderVars, vanished, owned, others, reader, posted, pidKnown, buffer,
                   systemdVars>>

(* Mutant: without dde-am the preparation fails and the request is dropped. *)
PrepareShutdownOrStay ==
    /\ service = "prepare"
    /\ \/ ctl' = TRUE /\ service' = "powerOff" /\ UNCHANGED used
       \/ service' = "loop" /\ Use("ddeAmFails", Failures) /\ UNCHANGED ctl
    /\ UNCHANGED <<leaderVars, vanished, owned, others, reader, posted, pidKnown, buffer,
                   unit, shutdown, exitTask, powerOff>>

PrepareShutdown ==
    /\ service = "prepare" /\ service' = "powerOff"
    /\ \/ ctl' = TRUE /\ UNCHANGED used
       \/ Use("ddeAmFails", Failures) /\ UNCHANGED ctl
    /\ UNCHANGED <<leaderVars, vanished, owned, others, reader, posted, pidKnown, buffer,
                   unit, shutdown, exitTask, powerOff>>

CtlShutdown ==
    /\ ctl /\ ctl' = FALSE /\ shutdown' = TRUE
    /\ UNCHANGED <<leaderVars, vanished, serviceVars, buffer, unit, exitTask, powerOff, used>>

PowerOff ==
    /\ service = "powerOff" /\ service' = "drain" /\ powerOff' = TRUE
    /\ UNCHANGED <<leaderVars, vanished, owned, others, reader, posted, pidKnown, buffer,
                   unit, shutdown, exitTask, ctl, used>>

(* watchXConnection: the X server closed the connection. *)
XConnectionCloses ==
    /\ service = "loop" /\ Use("xDies", Failures)
    /\ shutdown' = TRUE
    /\ UNCHANGED <<leaderVars, vanished, serviceVars, buffer, unit, exitTask, powerVars>>

(* Mutant: the process ends with its event loop, whatever its threads do. *)
ServiceExitsAtOnce ==
    /\ service = "drain"
    /\ ProcessEnds
    /\ UNCHANGED <<leaderVars, shutdown, exitTask, powerVars, used>>

(* ~QCoreApplication has waited for both pool threads. *)
ServiceExits ==
    /\ service = "drain" /\ others = "done" /\ reader = "done"
    /\ ProcessEnds
    /\ UNCHANGED <<leaderVars, shutdown, exitTask, powerVars, used>>
-----------------------------------------------------------------------------
(* systemd, its units, and the processes that may be killed. *)

SystemdStartsService ==
    /\ unit = "queued"
    /\ \/ ~shutdown /\ unit' = "running" /\ service' = "handshake"
       \/ shutdown /\ unit' = "stopped" /\ UNCHANGED service
    /\ UNCHANGED <<leaderVars, vanished, owned, others, reader, posted, pidKnown, buffer,
                   shutdown, exitTask, powerVars, used>>

(* The shutdown target conflicts with the service: SIGTERM, which the       *)
(* service does not handle.                                                 *)
SystemdStopsService ==
    /\ shutdown /\ ServiceAlive
    /\ ProcessEnds
    /\ UNCHANGED <<leaderVars, shutdown, exitTask, powerVars, used>>

(* Mutant: the clean-up is left to ExecStop, which a crash skips. *)
ExecStopNotAfterCrash ==
    /\ unit = "stopPost" /\ unit' = "stopped"
    /\ shutdown' = (shutdown \/ "serviceKilled" \notin used)
    /\ UNCHANGED <<leaderVars, vanished, serviceVars, buffer, exitTask, powerVars, used>>

(* Mutant: Restart=on-failure instead of the clean-up. *)
ExecStopPostRestarts ==
    /\ unit = "stopPost" /\ unit' = "queued"
    /\ UNCHANGED <<leaderVars, vanished, serviceVars, buffer, shutdown, exitTask, powerVars, used>>

(* ExecStopPost=dde-session-ctl --shutdown, after every kind of exit. *)
ExecStopPost ==
    /\ unit = "stopPost" /\ unit' = "stopped" /\ shutdown' = TRUE
    /\ UNCHANGED <<leaderVars, vanished, serviceVars, buffer, exitTask, powerVars, used>>

(* dde-session-shutdown.service, or dde-session-ctl --shutdown, started by  *)
(* hand: the entry from outside that docs/design.md:30 names.               *)
ShutdownByHand ==
    /\ Use("ShutdownByHand", Requests)
    /\ shutdown' = TRUE
    /\ UNCHANGED <<leaderVars, vanished, serviceVars, buffer, unit, exitTask, powerVars>>

(* dde-session-ctl --session-exit stops dbus.service after one second. *)
SessionExit ==
    /\ exitTask = "waiting" /\ exitTask' = "dbusStopped"
    /\ UNCHANGED <<leaderVars, vanished, serviceVars, buffer, unit, shutdown, powerVars, used>>

LeaderKilled ==
    /\ leader # "gone" /\ Use("leaderKilled", Failures)
    /\ leader' = "gone"
    /\ UNCHANGED <<watching, vanished, writer, serviceVars, buffer, systemdVars>>

ServiceKilled ==
    /\ ServiceAlive /\ Use("serviceKilled", Failures)
    /\ ProcessEnds
    /\ UNCHANGED <<leaderVars, shutdown, exitTask, powerVars>>

Leader  == LeaderStartsTarget \/ LeaderWatches \/ LeaderSeesExit \/ LeaderExits
Writer  == OpenWrite \/ Write
Service == ServiceRegisters \/ ServiceInit \/ ServiceEvent \/ DoLogout
           \/ PrepareShutdown \/ PowerOff \/ ServiceExits
Reader  == OpenRead \/ Read \/ PostQuit
Systemd == SystemdStartsService \/ SystemdStopsService \/ ExecStopPost \/ SessionExit \/ CtlShutdown

Next ==
    \/ Leader \/ Writer \/ Service \/ Reader \/ OthersInit \/ Systemd
    \/ Session1Logout \/ RequestLogout \/ RequestPowerOff \/ XConnectionCloses
    \/ ShutdownByHand \/ LeaderKilled \/ ServiceKilled

Spec == Init /\ [][Next]_vars

(* Threads that can run do run and systemd works off its queue.  Nobody has *)
(* to log out, and the window-manager chooser may stay open.                *)
Fairness ==
    /\ WF_vars(Leader) /\ WF_vars(Writer) /\ WF_vars(Service) /\ WF_vars(Reader)
    /\ WF_vars(SystemdStartsService) /\ WF_vars(SystemdStopsService)
    /\ WF_vars(ExecStopPost) /\ WF_vars(SessionExit) /\ WF_vars(CtlShutdown)
    /\ (~ChooserHangs => WF_vars(OthersInit))

FairSpec == Spec /\ Fairness
-----------------------------------------------------------------------------
(* The user bus is stopped only when the session service has ended: the     *)
(* exit task follows the disappearance of Session1, never overtakes it      *)
(* (dde-session-ctl, FIXME at line 52: stopping dbus crashes what is left). *)
BusOutlivesService ==
    exitTask # "none" => service = "dead" /\ ~owned

(* The FIFO is the leader's pulse: its reader ends the session only when    *)
(* the leader has gone, or when the FIFO could not be opened.               *)
ReaderEndsOnlyWithLeader ==
    reader \in {"ended", "done"} => leader = "gone" \/ "fifoError" \in used

(* A pid that was written reaches Session before the quit that the end of  *)
(* the FIFO brings: the queued invocations keep the order of the reads.     *)
PidBeforeQuit ==
    \A i \in 1..Len(posted) :
        (posted[i] = "quit" /\ writer = "done")
            => pidKnown \/ \E j \in 1..(i - 1) : posted[j] = "pid"

(* Whatever ends the service, its session units are stopped afterwards      *)
(* (docs/design.md:32, ExecStopPost also runs after a crash).               *)
CleanupFollows == service = "dead" ~> shutdown

(* The service does not outlive the leader once the FIFO has connected them, *)
(* although nothing tells it that the leader has gone but the end of the    *)
(* FIFO, read by a thread that may have to wait for another one.            *)
Connected == reader \in {"reading", "ended", "done"}
ServiceFollowsLeader ==
    (leader = "gone" /\ Connected /\ (ChooserHangs => others = "done")) ~> service = "dead"

(* Nobody who asked for a shutdown or a reboot finds himself back at the    *)
(* desktop, even if dde-am cannot be run: either logind has been asked, or  *)
(* the session is gone (lines 951-977; which of the two is a race).         *)
PowerOffEndsSession == ("RequestPowerOff" \in used) ~> (powerOff \/ service = "dead")

(* A logout returns the seat: once the shutdown target is started while the *)
(* leader can see Session1 go, the leader exits, provided its FIFO thread   *)
(* has been let through open(O_WRONLY).                                     *)
LogoutReturnsSeat ==
    (/\ shutdown /\ watching /\ (owned \/ vanished)
     /\ writer \in {"opened", "done", "failed"})
    ~> leader = "gone"

(* The two processes, the FIFO and the units keep what SessionSpec promises *)
(* of a session (docs/design.md:22-37): the service is the session, the     *)
(* leader holds the seat.                                                   *)
SessionOf == IF service = "off" THEN "absent" ELSE IF service = "dead" THEN "closed" ELSE "open"
SeatOf == IF leader # "gone" THEN "held" ELSE IF exitTask # "none" THEN "returned" ELSE "lost"
BusOf  == IF exitTask = "dbusStopped" THEN "down" ELSE "up"
Abstract == INSTANCE SessionSpec WITH
    session <- SessionOf, seat <- SeatOf, bus <- BusOf, ending <- shutdown
KeepsPromise == Abstract!Promise

(* After Session1.Logout, or a power-off that logind refuses, the service   *)
(* waits for its FIFO reader, the reader for the leader, and the leader for *)
(* the end of the service.  Once this has closed, no step of theirs, of the *)
(* units or of a client of the session leads out of it: somebody outside    *)
(* has to kill one of the two, or to start the shutdown target by hand      *)
(* (~QCoreApplication, Fifo::Read, serviceUnregistered, docs/design.md:30). *)
CircularWait ==
    /\ service = "drain" /\ owned /\ reader = "reading" /\ ~buffer
    /\ leader = "loop" /\ writer = "done" /\ ~vanished
    /\ ~shutdown /\ ~ctl
FromOutside == LeaderKilled \/ ServiceKilled \/ ShutdownByHand
OnlyOutsideBreaksIt == [][CircularWait => CircularWait' \/ FromOutside]_vars

(* docs/design.md:26-28 and 36-37: dde-session-ctl --logout calls Session1  *)
(* Logout; the manager exits, ExecStopPost cleans up, the entry process     *)
(* sees Session1 disappear and gives control back to LightDM.               *)
LogoutEndsSession == ("Session1Logout" \in used) ~> (leader = "gone" /\ shutdown)
=============================================================================
