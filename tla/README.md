# Formal model of dde-session

TLA+ modules, TLC configurations and TLAPS proofs for dde-session, the session
manager of the Deepin desktop: the process that a display manager starts at
login, the service that owns the session on D-Bus, and the small programs
around them. Paths below are relative to the repository, so that
`src/dde-session/main.cpp` is the C++ main file.

## 1. Inventory

| | Component | State it keeps | Operations | What is hard |
|---|---|---|---|---|
| A | Session life cycle: `src/dde-session/main.cpp`, `src/utils/fifo.cpp`, `impl/session.cpp`, `src/dde-session-ctl/main.cpp`, `systemd/*.service.in` | two processes, each with a main thread and pool threads; the FIFO; the owner of `org.deepin.dde.Session1`; units | login, logout, shutdown, reboot, X connection lost, process killed | three processes that wait for each other; blocking `open`, `~QCoreApplication` waiting for the thread pool; systemd cleaning up |
| B | Power mode: `recoverySystemPowerMode`, `setTlpMode`, `Request*` in `impl/sessionmanager.cpp` | none of its own: `Mode` and `TlpMode` of Power1, who is active according to logind | PrepareForSleep, ActiveChanged, start, RequestSuspend/Hibernate/Shutdown/Reboot | several session managers write one system-wide property with six separate calls, while the seat changes hands |
| C | Screen lock: `RequestLock`, `SetLocked`, `handleLoginSession*` | `m_locked`, `m_inCallRequestLock` | Lock and Unlock of logind, ActiveChanged(false), SetLocked of dde-lock | an asynchronous call whose end resets a flag, state that lags behind the lock screen, killing dde-lock |
| D | Quick login: `tools/dde-quick-login` | timer, `m_wasLocked` | LockedChanged, loss of LockFront1, timeout | messages of two senders in bus order; a timer against a late message |
| E | Inhibitors: `Inhibit`, `Uninhibit`, `IsInhibited` | `m_inhibitorMap`, static counter, exported objects | calls of applications | 32-bit counter that wraps around, clients that die or whose call times out |
| F | Security loader handshake: `securityloaderhelper.cpp` | two pipes, a deadline | request, response | EINTR, partial writes, closing every descriptor once |
| G | OOM score adjuster: `tools/dde-oom-score-adj` | adjusted services, paths, timer | UnitNew, PropertiesChanged, timeout | check-then-subscribe, units that get no match, restarts, processes that come and go |
| H | Environment: `environmentsmanager.cpp`, `misc/Xsession.d/00deepin-dde-env`, `ExecStopPost` lines of `dde-session-manager.service` | map of variables; the environment of the user manager, which outlives the session | init; import, unset, set at a login; unset at its end | the map is older than the unsetting of variables; the next login overtakes the clean-up of the last one |
| I | One-shot tasks: `othersmanager.cpp` | none | launchWmChooser | may wait for the user in a pool thread |
| J | Logout and shutdown preparation | masks of services, for the life of the user manager | mask and stop services, run scripts, play sounds, start `dde-session-ctl` | every command is waited for without limit; a program started on the way ends its starter; the next session needs what was masked |
| K | systemd unit graph: `systemd/`, units of the tools | jobs, unit states | start, conflict, conditions, ExecStopPost | order of stopping; conditions read at different times; irreversible jobs refuse the next login |
| L | Version checker: `tools/dde-version-checker` | recorded version | run once in a session | two units, each under a condition, start it |
| M | Window-manager switcher, I/O-wait watcher, keyring and xsettings checkers, generated D-Bus code | none or unused | | |

How they interact. A contains the service process in which B, C and E run on
one main thread, so that their handlers never overlap; blocking D-Bus calls
suspend that thread without dispatching anything else. B shares Power1 and
logind with the session managers of other users. C hears logind over the system
bus and dde-lock over the session bus. D hears C. F runs before A registers
Session1; its failure ends the service. I occupies a thread of the pool that the
FIFO reader of A also needs.

What makes them correct, in one line each: (A) whatever ends a session ends all
of it, in an order in which nothing needs what is already gone; (B) performance,
set for a suspend, does not stay after it; (C) a session that is left is locked;
(D) a session without a password never stays open; (E) an inhibitor that an
application holds stays in force; (F) only a whole answer is believed, every
descriptor is closed once, and nobody waits for longer than allowed; (G) no
start of a service is missed, and the program ends; (H, J, K, L) the units of a
session find the environment of their own login, no mask of the last one, and
one version checker among them.

## 2. Plan

Order of work, the most important behaviour first:

1. `PowerMode`, with proofs; `SessionLifecycle`; `ScreenLock`; `QuickLogin`
   (which composes `ScreenLock` with the process that listens to it);
   `Inhibitors`, with proofs. **Done.**
2. `OomScore` (G): lost notifications; `SecurityLoader` (F): partial reads and
   writes, EINTR, deadline, closing of descriptors; both with proofs. **Done.**
3. `SessionSpec`, an abstract session that `SessionLifecycle` implements; the
   shutdown of `SessionLifecycle` step by step, with the `dde-session-ctl` it
   starts next to itself. **Done.**
4. `Logins` (H, L, and what J and K leave for the next session): several logins
   over one user manager. **Done.**
5. Proofs of every invariant the runs check, and of the refinement. **Done.**
6. `InhibitSpec`, an abstract registry that `Inhibitors` implements, with the
   proof; and what the liveness properties rest on apart from fairness, as
   invariants and measures: that nothing owed is dropped, and that nothing goes
   round. **Done.**
7. Left: an abstract lock that `ScreenLock` implements on Wayland; the
   environment of D-Bus activation, once it is settled what a dbus-daemon
   started by systemd forwards.

Modules are written to be proved about: constants with named assumptions, one
action per handler or blocking call, no RECURSIVE operator.

## 3. The modules

Every module names its bounds as constants beginning with `Max`. Definitions
whose comment begins with "Mutant" are not part of any specification: each is a
plausible mistake in the action it precedes, and shows that a property notices.

### PowerMode

One session manager per element of `Sessions`. `pc[s]` is the blocking D-Bus call
that the main thread of `s` makes next, so each of Get TlpMode, Get Mode, Get
HasBattery/BatteryCapacity, the second look at Active, and SetTlpMode is a step
of its own; `queue[s]` holds the logind signals that wait meanwhile.
`SetTlpMode` is applied, fails, or times out and is applied later (`late`,
`LateApply`). HasBattery and BatteryCapacity are one value, `lowCharge`, that
does not change; a failing read counts as a charged battery, as in the code.
`RequestShutdown` and `RequestReboot` set performance and end the service, all
in between being irrelevant to the mode. `faults` is a history variable: what
has gone wrong since the last wake-up, activation, change by the user, or restore.
The read of `active()` that begins a recovery is atomic with the dispatch.

### SessionLifecycle

`leader` and `writer` are the main and the pool thread of the first process,
`service`, `reader` and `others` those of the second one. `OpenWrite` and
`OpenRead` have the rendezvous of `open(2)` on a FIFO; `Write` without a reader
fails with EPIPE, which nobody looks at, and the leader goes on: libdbus has
SIGPIPE ignored since the first bus connection, made before the FIFO thread.
`Read` returns 0 only without a writer. `ProcessEnds` is what the
kernel, the bus and systemd do when the service is gone, in one step, because
none of the three can observe the others half-way. A process whose event loop
has ended is in state `drain` until its pool threads are done
(`LeaderExits`, `ServiceExits`). Preparation of a logout is one blocking step.
That of a shutdown is `PrepareShutdown`, which has dde-am start another process,
`dde-session-ctl --shutdown` (`ctl`, `CtlShutdown`), and then `PowerOff`, which
is sent whatever came of that; in between the shutdown target may already stop
the service. `ShutdownByHand` is the way into the
shutdown target from outside that `docs/design.md:30` names, by
`dde-session-shutdown.service` or `dde-session-ctl --shutdown`. `used` records
which requests and failures have happened, each at most once.

`SessionSpec` is what all this promises: a session opens at most once and not
after its end was decided, the seat is given back and the bus stopped only when
it has closed, or the seat is lost with its holder. `SessionLifecycle` maps the
service to the session, the leader to the seat, the exit task to the bus, the
shutdown target to the decision, and `KeepsPromise` is the abstract
specification under this mapping. The module has no counterpart in the source:
it is a property.

### ScreenLock and QuickLogin

`signals` are the logind signals in order; `reports` the SetLocked calls of
dde-lock; client calls and answers come over another bus and interleave freely.
`waiting` counts unanswered Show calls for each kind of caller, because any
answer resets `inCall`. `handleLoginSessionUnlocked` is split where it waits:
`HandleUnlock`, `KillFront` (with its two outcomes when nobody owns LockFront1:
return, or `kill 0`), `FinishUnlock`. dde-lock itself (`front`, `shown`,
`reported`) is external. `inbox` holds LockedChanged and the loss of LockFront1
in bus order when somebody listens; `QuickLogin` is that somebody and adds its
timer, flags and `RequestLogout`; its start runs `dde-lock -lq` whether a dde-lock
is there already or not. `QuickLogin` extends `ScreenLock` and lets
either take a step. `mustLock` and `calm` are history variables.

### Inhibitors

`m_inhibitorMap` is a set of records with different cookies, `exported` the
objects on the bus. Calls and answers are messages; a client may die with a call
or an answer under way. A living client may also give up waiting (`GiveUp`), because the
main thread is in a command that it waits for: the call is served all the same
(`awaited`), and its cookie ends in `unheard`, which nobody can give back.
`flags` is the set of its bits. The counter is taken
modulo `IndexSize`, 2^32 in the code. Clients give back only what they got.

`InhibitSpec` is what this promises: an inhibitor is granted under a name that
no other one in force has, stays in force while its owner counts on it, and goes
alone, from the map and from the bus at once; one that nobody counts on may go
or stay. Only an owner that still waits (`asking`) counts on what it is granted.
`Inhibitors` maps its map, its exported cookies, the calls awaited and, per
client, what it holds together with an answer still on the bus, and
`KeepsRegistry` is the abstract specification under this mapping. The grant is
the step of the session manager, before the client hears of it.

### OomScore

One action for each stretch of a handler between two calls to systemd or two
writes below `/proc`; `pc`, `todo` and `pids` say how far it is. A service is
looked at by `List` (GetUnit and GetProcesses), `Adjust` (one process) and
`Mark`, whoever asked for it: `start()`, `onUnitNew`, or `onPropertiesChanged`,
which looks at all of them because the signal does not name its unit.
Meanwhile systemd loads units, starts services, and sends a signal for each
match that exists at that moment (`subscribed`, `matched`). Five history variables
tell starts that must be noticed from those that cannot be. `old` holds the units
loaded before the subscription and `skipped` those that `onUnitNew` found active
or could not ask: neither has a match, so that their later starts, restarts
included, are not announced. `looked` holds the services looked at, without a
failure, in their present life, because `adjusted`, like the code's set, never
shrinks.
`gaps` holds the active services whose activation nobody announced, in one of
the gaps the code leaves, or at which the last look failed; a later look, or the
end of the service, takes them out. `late` holds the processes nobody has
listed yet.
Process numbers are not used again, the map of object paths is left out (a path
follows from the unit's name), and some other client is taken to have called
Subscribe of systemd, without which it sends none of these signals.

### SecurityLoader

Pipes, requests and answers have sizes, measured in pieces; an answer also has a
verdict. The steps of the program are the heads of the two loops, the return of
`poll`, `read`, `write`, and the ends of the functions; `Return` names why the
handshake is over and which descriptors that return and its callers close. Time
passes (`Tick`) only while `poll` waits. A signal makes `poll` start again with
the timeout that was computed before it (`Interrupted`); `lost` adds up how long
such calls had waited. The loader, which is another program, reads, answers,
writes and closes either end in any order or never. A `write` into a request
that the loader has closed is EPIPE, which fails the handshake, since SIGPIPE is
ignored, by libdbus since the system bus connection that `main` makes first, and
by systemd's default for services. `Deserved` says what an answer in time is
worth: its verdict, unless the loader closed the request before all of it was
sent. A fault is a system call
that fails with anything else than EINTR or EAGAIN. An interrupted `write` leads
back to the head of its loop, an interrupted `read` is repeated at once.
The request of today is shorter than a pipe; the model allows any size, as the
loop in `writeRequest` does. The comment of `parseSecurityLoaderFds`
(`securityloaderhelper.h:40`) says that `loaded` means success; the code sets it
when either argument was present, and its only caller and the test rely on that.

### Logins

The user manager lives on when a session ends, so that a login meets what the
one before has left: `senv`, its environment, `masked`, and `jobs`, the stop
jobs that refuse to be replaced. A name in `Names` stands for all variables that
are treated alike. `Login` is the start of the leader and the constructor of
EnvironmentsManager: on X11 the process has imported `senv` except for what
`EXCLUDED_ENV` names (`ProcessEnv`), and the map is a copy of that with a few
variables of its own (`Snapshot`). `UnsetEnv`, `SetEnvironment` and
`StartTarget` are the three blocking stretches of `main` that follow.
`ServiceEnds` lets the leader go at once while `StopPostShutdown` and
`StopPostUnset` are still to come, which is how the next login can overtake
them. The ways a service ends are those of `SessionLifecycle`, here one step.
`ReachPre`, `ReachCore` and `MonitorEnds` are the units whose conditions read
the environment. `used` notes failures and, as "overlap", "alive" and
"abandoned", the logins that began before the clean-up was over, while the old
service was still there, or whose leader died between setting the environment
and asking for a service that would clean it up.

The two variables of `unsetEnv` are unset in one step, as are the helpers of
`init` and `prepareLogout`: nobody reads them in between. The environment of
D-Bus activation, and the stop of the bus in the exit task, are left out; D-Bus
cannot remove a variable, only empty it.

## 4. What TLC checks

| Run | Configuration | Shows |
|---|---|---|
| `power_mode` | MCPowerMode | no interleaving of two sessions loses the mode of the user; a foreign writer cannot have known; the mode is restored again and again or excused |
| `lifecycle` | MCSessionLifecycle | order of the ends of processes, clean-up after each kind of end, the leader goes, a shutdown does not lead back to the desktop, only a kill, or a shutdown target started by hand, breaks the circular wait of Logout, all of it implements `SessionSpec` |
| `session1_logout` | MCSessionLogout | **violated**: Session1.Logout deadlocks service, FIFO reader and leader |
| `screen_lock` | MCScreenLock | a session that was left is locked or its lock is under way, and does get locked; signals drain |
| `quick_login` | MCQuickLogin | locked or logged out; a crash logs out; the timer is over once dde-quick-login has handled the lock (a LockedChanged(true) on its way can still be hit) |
| `quick_login_unlock` | MCQuickLoginKill | **violated**: unlocking an inactive quick login logs it out |
| `inhibitors` | MCInhibitors | held inhibitors stay, only clients that died or gave up a call leave one behind, all of it implements `InhibitSpec` |
| `oom_score` | MCOomScore | starts and restarts are missed only in three gaps, adjusted services have the score, the program ends when it should and always |
| `oom_score_started` | MCOomScoreStarted | **violated**: a unit loaded before the program subscribed starts unnoticed |
| `security_loader` | MCSecurityLoader | every return closes both pipes, the deadline holds but for signals, an acceptance was said in full, an answer in time counts unless the loader closed the request too early, the handshake ends |
| `logins` | MCLogins | units find the environment of their own login, no mask of the last one, at most one version checker |
| `logins_wayland` | MCLoginsWayland | **violated**: on X11 after Wayland, WAYLAND_DISPLAY is set again right after it was unset |

Bounds. *PowerMode*: two sessions suffice for every conflict about one seat; two
seat changes let a session lose the seat and get it back inside one recovery;
one request, one change by the user and one fault can each fall into any gap.
`OtherModes` is empty because performance and powersave already differ and take
the two paths of the code; the proofs need no such choice.
*SessionLifecycle* is finite by itself; the pool has one thread, the smallest
and most contended one, and four in the run about the deadlock, where contention
would be a distraction. *ScreenLock*: two seat changes let the session leave,
return and be unlocked, or leave twice through an open flag; one of each of the
others. *QuickLogin* drops client requests and suspends, which do not reach it.
*Inhibitors*: a counter of two values wraps around twice in four calls.
*OomScore*: two units, so that one is watched and the other not, one is in hand
while the other starts, or one stands in the list twice; three processes let a
service end and start again, or fork and die, while the other one starts; two
loads, one death and one fault can fall into any gap.
*SecurityLoader*: a request of twice the size of a pipe needs partial writes
and waits, and can run out of time at the head of the loop; answers shorter,
longer than a pipe, and longer than the limit; two signals stretch one wait
twice.
*Logins*: three logins, so that what one leaves can pass through a second one,
which does not clean it up, to a third; all four kinds of login; one failure of
any kind, while overlaps are not limited; two versions of the system. The
violated run needs two logins and no failure.

Fairness. `FairSpec` of each module assumes only that an event loop with work
does it, that blocked calls return (D-Bus answers, refuses or times out), that
systemd works off its queue and that dde-lock does what it was asked. No
fairness is assumed of users, of logind calls by others, of wake-ups, of crashes,
or, with `ChooserHangs`, of the dialog that OthersManager waits for, or of the
loader. In `OomScore` the timer has strong fairness: Qt serves a timer that is
due between two messages, so that a stream of signals does not starve it. Commands
run with `EXEC_COMMAND` are assumed to end, without which no logout ever does.

`CHECK_DEADLOCK FALSE` stands in every configuration: all of these systems may
come to rest, when the session is over or nobody asks for anything.

### The four violated properties

* `LogoutEndsSession`: `docs/design.md:26-28` and `36-37`. Found as a stuttering
  suffix: `service = "drain"`, `reader = "reading"`, `leader = "loop"`.
* `UnlockKeepsSession`: comment at `sessionmanager.cpp:1084-1086`. SIGTERM is
  sent before LockedChanged(false); if the bus sees the name go first,
  dde-quick-login requests a logout.
* `StartedAreAdjusted`: comment at `oomscoreadjuster.h:18`. UnitNew reports that
  a unit is loaded, not that it starts. There are three gaps: units loaded before
  the subscription (line 97); units found active, or not to be asked, at UnitNew,
  which get no match, so that a restart goes unnoticed (lines 126-128); and the
  time between ActiveState and the match (lines 124-131). `NoneForgotten` shows
  that, apart from failing calls and processes that end in the hands of the
  program, nothing else leaves an active service out.
* `X11HasNoWayland`: comment at `environmentsmanager.cpp:30-31`. The map was
  filled by the constructor, from a process environment into which
  `00deepin-dde-env` had imported the old variable; `init` unsets it and then
  sets the whole map.

Places where the code and what it says of itself differ and that need no run to
see: `IsInhibited` tests flags for equality, its comment
(`sessionmanager.cpp:356`) speaks of an intersection; a session that loses the
seat during the call at line 929 still writes the power mode, which line 874
excludes, and `WriterUnawareOfSwitch` says that it cannot have known;
m_inCallRequestLock is to keep the Lock handler from a second Show during the
first (line 1055), but the answer to a client's Show clears it too (line 446);
`OthersManager::inVM` is true when `systemd-detect-virt` fails;
the version checker records a version only when an older one was recorded, so
that a new user's first version never is (`dde-version-checker/main.cpp:29`);
`parseSecurityLoaderFds` (`securityloaderhelper.h:40`, see SecurityLoader).

## 5. What is proved

`PowerModeProofs`, for any number of sessions, any set of other modes and any
bounds, from the named assumptions on the constants (modes and sessions are
different things, bounds are natural numbers). The inductive invariant is
`TypeOK`, `NoLostRecovery`, `WriterUnawareOfSwitch` and `BatteryOnlyForPowerSave`:
only powersave leads to the battery reads, which is what makes replacing the
target by lowBattery legitimate. `NoLostRecovery` names, for each program
location, what the recovery has read and what is still true of it; a change of
the seat or a wake-up re-establishes it through the signal it queues, a change by
the user or a write of another session through `faults`. Theorems `TypeCorrect`,
`RecoveryNeverLost`, `ForeignWriterUnaware`. Lemmas: appending to a queue keeps
what is in it, dispatching another kind of signal too. `RecoveryEnds`: every
step of a session dispatches a signal or leaves it fewer calls to make, no other
session, user or daemon adds any, and only a request of an idle session, a change
of the seat or a wake-up brings more work.

`InhibitorsProofs`, for any clients, any bits and any size of the counter. The
invariant adds to the three properties that cookies are keys, that an answer on
the bus names a listed inhibitor of its receiver, and that an Uninhibit on the
bus names an inhibitor its sender no longer holds: without the last, the
inhibitor removed could be one that somebody counts on. `LeaksOnlyUnheard` says
whose entries nobody can remove: those of clients that died, and those made by a
call that the client had given up. Theorems `TypeCorrect`,
`HeldInhibitorsStay`, `NoOtherLeak`, `BusMatchesMap`, and `Refinement`: each
action is a step of `InhibitSpec` or leaves its variables alone. That cookies
are keys makes a removal take one name and one inhibitor; the clause about an
Uninhibit on the bus makes it one that nobody claims.

`OomScoreProofs`, for any units, any lists and any bounds. Three invariants:
for `AdjustedHaveTarget`, that every process passed so far in the service in
hand has the score or a failure is noted, and that services share no process;
for `EndsWhenAdjusted`, that the end was requested exactly when the count was
reached, together with the lemma that a subset of a list's elements with as
many members as the list is long is all of them; for `NoneForgotten`, that a
loaded service is matched, about to be announced or asked, or known to have no
match (`old` or `skipped`), and an active one that was not looked at in its
present life has a signal or a look coming. Theorems `TypeCorrect`, `AdjustedServicesHaveTarget`,
`EndsOnlyWhenAdjusted`, `NoServiceForgotten`. For termination: `NeverWaitsWithoutTimer`,
no path leads to the event loop with the exit timer stopped, and `HandlersEnd`,
each step of a handler leaves fewer services to look at, or an earlier stage of
the same one, or fewer processes of it, and nothing that systemd or the services
do changes that; it rests on the processes being finitely many.

`SecurityLoaderProofs`, for any sizes, any budget, any answers and any number of
signals and faults. The invariant says which descriptors are closed at each
place; that inside `poll` the present time and what is left of the timeout add
up to the budget, or exceed it by no more than `lost`; that what was heard, what
is in the pipe and what is to come make up the answer until the program stops;
and that no time passes once the loader has closed both ends. Theorems `TypeCorrect`,
`EveryReturnCloses`, `DeadlineHolds`, `AcceptedIsSaid`, `TimelyIsHeard` (unless
the loader closed the request before it was sent whole), and
`HandshakeAdvances`: a measure made of the pieces still to move, the signals left, the
place in the loops and then the timeout left, which every step of the program
lowers and no step of the loader raises.

`SessionLifecycleProofs`, for any requests, failures and pool size. `TypeOK`
already says which places of the processes go together (`Places`). The invariant
adds who holds which end of the FIFO when a thread is in it, what the queued
invocations say about the reads before them, and that the exit task has seen
Session1 go (`Order`, `Pipe`, `Queue`). Theorems `TypeCorrect`, `BusIsLast`, `PulseIsTrue`, `PidFirst`, and
`Refinement`: each action is a step of `SessionSpec` or leaves its variables
alone; the invariant is needed to see that the service starts only once and that
the leader which goes by itself leaves an exit task behind. A second invariant,
`Due`, says who still has to do what was promised: the clean-up after the end of
the service (`CleanupIsNeverSkipped`), the power-off after a request
(`PowerOffIsNeverDropped`), the quit after the end of the FIFO
(`QuitIsNeverLost`). `WaitIsFinal` is the reverse of the finding about Logout:
from the state in which service, FIFO thread and leader wait for each other,
every step but a kill of one of the two processes, or a shutdown target started
by hand, leaves them waiting.

`LoginsProofs`, for any kinds and any number of logins and failures. The
invariant follows one login from its map over the user manager's environment to
what its units saw (`Flow`, `Platform`), says that nothing is left when a login
begins that did not overlap (`NothingLeft`), counts version checkers against
the places that can still start one (`Checks`, `Welcomes`). Without
`NothingLeft`, which ties `DDE_QUICKLOGIN` to a session still to be cleaned up,
`UnitsSeeOwnLogin` is not inductive. Theorems `TypeCorrect`, `OwnEnvironment`,
`OneChecker`, `MasksEnd`.

`ScreenLockProofs`, for either display and any bounds: `InCallIsCleared` is
inductive with the types. `LockIsNeverLost` states `LockUnderWay`: a session that
was left at rest and awake is locked and covered, or the Lock signal, the handler
that consumes it, or its Show is still on the way. Its invariant, `LockInv`, adds
that without a dde-lock nothing is shown, that dde-lock is not used on Wayland,
and that a session of which a lock is certain is `Intact`: a flag that is set has a
Show under way, and `m_locked` and the reports that wait agree with what is shown.
`NoSignalLoop`: each handler lowers a measure of the queued signals, in which
ActiveChanged(false) counts for itself and for the Lock signal it asks for, and
only clients, logind and the seat raise it. `QuickLoginProofs` builds on its step lemma: steps of
`ScreenLock` keep its invariant, and only the steps of dde-quick-login are left.
`TimeoutMeansNeverLocked` needs that a running timer already means that no lock
was seen. The steps of dde-quick-login, which starts dde-lock, keep `LockInv` too
(`LockIsNeverLostInQuickLogin`). `GuardInv` shows that a login held back always has its
timer running and dde-lock there, on its way, or its loss reported
(`NeverHeldUnguarded`), and that a loss, once reported, stays due until the
program acts on it or has ended (`CrashIsNeverPassedOver`). Further theorems:
`TypeCorrect`, `FlagIsCleared`; `CompositionTypeCorrect`,
`TimeoutNeverHitsLocked`.

What the prover is not asked is fairness and ENABLED. The liveness properties
therefore stay with TLC, and the theorems state what they rest on: that what is
owed is not dropped (`RecoveryNeverLost`, `LockIsNeverLost`, `CrashIsNeverPassedOver`,
`CleanupIsNeverSkipped`, `PowerOffIsNeverDropped`, `QuitIsNeverLost`,
`NoServiceForgotten`, `NeverWaitsWithoutTimer`) and that nothing goes round
(`RecoveryEnds`, `NoSignalLoop`, `HandlersEnd`, `HandshakeAdvances`). What is left for TLC,
on small instances, is that a step is always there to take and is taken.

Three invariants are proved and no longer checked by a run, since the properties
that took their place say more: `InCallIsCleared` (now `LockUnderWay`),
`BusOutlivesService` (now `OnlyOutsideBreaksIt`; that the bus stops last is also in
`KeepsPromise`), `ExportedAreListed` (now `KeepsRegistry`, which contains it).

Only model-checked: everything temporal (`EventuallyRestored`, `CleanupFollows`,
`ServiceFollowsLeader`, `PowerOffEndsSession`, `LogoutReturnsSeat`,
`LeavingLocks`, `SignalsDrain`, `QuickLoginLocksOrLogsOut`, `CrashLogsOut`,
`Terminates` of `OomScore` and of `SecurityLoader`):
liveness under fairness is out of the reach of the proof system. Every invariant
that a passing run checks is proved.

## 6. Not modelled

By size, most of the sources are not the program's own logic. Of about 10500
lines of implementation, 6500 are the files below `toolGenerate/`, marshalling
code that is generated from the XML descriptions and that the CMake build
generates anew instead of compiling these copies; about 1000 are shell
scripts that analyse boot times. Of the remaining 4000, the modules model what
keeps state or waits for somebody.

* J: the sounds, `pkill`, the autostop scripts and dde-am are commands that are
  run and waited for; they change nothing the rest of the program reads. That
  they end is assumed, since `EXEC_COMMAND` sets no limit.
* K: units without conditions follow each other as systemd orders them.
* M: WMSwitcher keeps no state; IOWaitWatcher is compiled but never created; the
  keyring and xsettings checkers read a setting, start a program and exit. Of
  `OthersManager`, only that it occupies a thread of the pool.
* Capability queries (`CanSuspend` and the like) read other services; deprecated
  methods do nothing.
* The captured reference in `main.cpp:150`, used by the FIFO thread after `main`
  has left its block, is treated as harmless: the queued call goes to an event
  loop that no longer runs.

## 7. Running

    tlc -config MCPowerMode.cfg MCPowerMode        # and so on, table in section 4
    tlapm PowerModeProofs.tla
    tlapm InhibitorsProofs.tla
    tlapm OomScoreProofs.tla
    tlapm SecurityLoaderProofs.tla
    tlapm SessionLifecycleProofs.tla
    tlapm LoginsProofs.tla
    tlapm ScreenLockProofs.tla
    tlapm QuickLoginProofs.tla
