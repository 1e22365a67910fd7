---------------------------- MODULE SecurityLoader ----------------------------
(***************************************************************************)
(* The handshake of the session service with the loader that started it    *)
(* (src/src/dde-session/securityloaderhelper.cpp): a request over one      *)
(* pipe, an answer over another one, five seconds for both.                *)
(*                                                                         *)
(* Pipes hold pieces of data; what matters of them is how many there are.  *)
(* The program is single-threaded and its steps take no time; time passes  *)
(* in poll, as long as poll has nothing to report.                         *)
(***************************************************************************)
EXTENDS Naturals

CONSTANTS
    RequestSize,  \* pieces of the request
    PipeSize,     \* pieces a pipe can hold
    MaxResponse,  \* MaxResponseSize
    Budget,       \* HandshakeTimeoutMs
    Answers,      \* what the loader may say: a verdict and its size
    MaxSignals,   \* bound: signals that interrupt poll or write
    MaxFault      \* bound: system calls that fail

Verdicts == {"allow", "deny", "junk"}

ASSUME SizesAssumption ==
    /\ RequestSize \in Nat \ {0} /\ PipeSize \in Nat \ {0} /\ MaxResponse \in Nat
    /\ Budget \in Nat \ {0} /\ MaxSignals \in Nat /\ MaxFault \in Nat
    /\ Answers \subseteq [verdict : Verdicts, size : Nat \ {0}]

Ends  == {"request", "response"}
Never == [verdict |-> "junk", size |-> 0]

VARIABLES
    pc,        \* where the program is
    args,      \* what --fd1 and --fd2 are
    closes,    \* per descriptor: how often the program closed it
    written,   \* pieces of the request that were written
    heard,     \* size of response
    asked,     \* the timeout that poll was called with
    wait,      \* what is left of it
    result,    \* what authorizePowerCaller returned, and why
    requests,  \* pieces in the request pipe
    answers,   \* pieces in the response pipe
    loader,    \* the other side
    hungUp,    \* the pipes of which the loader has closed its end
    answer,    \* what it says, Never before it begins
    toSend,    \* pieces of it that are not yet in the pipe
    now,       \* timer->elapsed()
    left,      \* how many signals and faults may still come
    lost,      \* history: time waited in calls of poll that were interrupted
    endedAt    \* history: when the loader last closed an end

program == <<pc, args, closes, written, heard, asked, wait, result>>
other   == <<requests, answers, loader, hungUp, answer, toSend, endedAt>>
vars    == <<program, other, now, left, lost>>

TypeOK ==
    /\ pc \in {"start", "write", "writePoll", "read", "readPoll", "drain", "done"}
    /\ args \in {"none", "incomplete", "equal", "unusable", "pipes"}
    /\ closes \in [Ends -> Nat]
    /\ written \in 0 .. RequestSize /\ heard \in 0 .. MaxResponse
    /\ asked \in 0 .. Budget /\ wait \in 0 .. asked
    /\ result \in {"none", "direct", "accepted", "refused", "timeout", "failed"}
    /\ requests \in 0 .. PipeSize /\ answers \in 0 .. PipeSize
    /\ loader \in {"listens", "answers"} /\ hungUp \subseteq Ends
    /\ answer \in Answers \cup {Never} /\ toSend \in Nat
    /\ now \in Nat /\ lost \in Nat /\ endedAt \in Nat
    /\ left \in [{"signal", "fault"} -> Nat]

Init ==
    /\ pc = "start" /\ args \in {"none", "incomplete", "equal", "unusable", "pipes"}
    /\ closes = [e \in Ends |-> 0] /\ written = 0 /\ heard = 0 /\ asked = 0 /\ wait = 0
    /\ result = "none" /\ requests = 0 /\ answers = 0
    /\ loader = "listens" /\ hungUp = {} /\ answer = Never /\ toSend = 0 /\ now = 0
    /\ left = [signal |-> MaxSignals, fault |-> MaxFault]
    /\ lost = 0 /\ endedAt = 0

Happens(event) == left[event] > 0 /\ left' = [left EXCEPT ![event] = @ - 1]

Close(ends)         == closes' = [e \in Ends |-> IF e \in ends THEN closes[e] + 1 ELSE closes[e]]
Return(why, ends)   == pc' = "done" /\ result' = why /\ Close(ends)
-----------------------------------------------------------------------------
(* parseSecurityLoaderFds and authorizePowerCaller up to writeRequest.      *)
(* Descriptors that were not both given, or not both numbers above 2, are   *)
(* left alone; the same one for both is closed at once.  What cannot be     *)
(* used is no pipe, or has the wrong access mode; a fault is an fcntl that  *)
(* fails or a missing name on the system bus.                               *)
Begin ==
    /\ pc = "start"
    /\ \/ args = "none" /\ Return("direct", {}) /\ UNCHANGED left
       \/ args = "incomplete" /\ Return("failed", {}) /\ UNCHANGED left
       \/ args = "equal" /\ Return("failed", {"request"}) /\ UNCHANGED left
       \/ args = "unusable" /\ Return("failed", Ends) /\ UNCHANGED left
       \/ args = "pipes" /\ Happens("fault") /\ Return("failed", Ends)
       \/ args = "pipes" /\ pc' = "write" /\ UNCHANGED <<closes, result, left>>
    /\ UNCHANGED <<args, written, heard, asked, wait, other, now, lost>>

(* Mutant: every call of poll gets the whole time. *)
PollAnew(next) == pc' = next /\ asked' = Budget /\ wait' = Budget /\ UNCHANGED <<closes, result>>

(* The remaining time is computed once for each call of poll. *)
Poll(next) ==
    /\ pc' = next /\ asked' = Budget - now /\ wait' = Budget - now
    /\ UNCHANGED <<closes, result>>

(* Mutant: the caller leaves the response pipe open. *)
WriteLeavesResponse ==
    /\ pc = "write" /\ written < RequestSize
    /\ \/ now >= Budget /\ Return("timeout", {"request"}) /\ UNCHANGED <<asked, wait>>
       \/ now < Budget /\ Poll("writePoll")
    /\ UNCHANGED <<args, written, heard, other, now, left, lost>>

(* writeRequest, head of the loop; its caller closes the other descriptor. *)
Write ==
    /\ pc = "write" /\ written < RequestSize
    /\ \/ now >= Budget /\ Return("timeout", Ends) /\ UNCHANGED <<asked, wait>>
       \/ now < Budget /\ Poll("writePoll")
    /\ UNCHANGED <<args, written, heard, other, now, left, lost>>

(* The end of writeRequest: the loader sees the end of the request.  Of a   *)
(* close that fails, the descriptor is gone all the same.                   *)
WriteEnds ==
    /\ pc = "write" /\ written = RequestSize
    /\ \/ pc' = "read" /\ Close({"request"}) /\ UNCHANGED <<result, left>>
       \/ Happens("fault") /\ Return("failed", Ends)
    /\ UNCHANGED <<args, written, heard, asked, wait, other, now, lost>>

WriteReady == requests < PipeSize \/ "request" \in hungUp

(* poll reports room, and write takes some or all, or is interrupted.  When *)
(* the loader has closed its end, write fails with EPIPE: SIGPIPE is        *)
(* ignored, by libdbus since the system bus was used (main.cpp:123) and by  *)
(* the unit (IgnoreSIGPIPE).                                                *)
WriteSome ==
    /\ pc = "writePoll" /\ WriteReady
    /\ \/ /\ "request" \in hungUp /\ Return("failed", Ends)
          /\ UNCHANGED <<written, requests, left>>
       \/ /\ "request" \notin hungUp /\ pc' = "write"
          /\ \E n \in 1 .. (PipeSize - requests) :
                n <= RequestSize - written /\ written' = written + n /\ requests' = requests + n
          /\ UNCHANGED <<closes, result, left>>
       \/ /\ Happens("signal") /\ pc' = "write"
          /\ UNCHANGED <<closes, result, written, requests>>
       \/ /\ Happens("fault") /\ Return("failed", Ends)
          /\ UNCHANGED <<written, requests>>
    /\ UNCHANGED <<args, heard, asked, wait, answers, loader, hungUp, answer, toSend, endedAt, now,
                   lost>>

(* Mutant: the time is up one unit early. *)
ReadEarly ==
    /\ pc = "read"
    /\ \/ now + 1 >= Budget /\ Return("timeout", {"response"}) /\ UNCHANGED <<asked, wait>>
       \/ now + 1 < Budget /\ Poll("readPoll")
    /\ UNCHANGED <<args, written, heard, other, now, left, lost>>

(* readResponse, head of the outer loop. *)
Read ==
    /\ pc = "read"
    /\ \/ now >= Budget /\ Return("timeout", {"response"}) /\ UNCHANGED <<asked, wait>>
       \/ now < Budget /\ Poll("readPoll")
    /\ UNCHANGED <<args, written, heard, other, now, left, lost>>

ReadReady == answers > 0 \/ "response" \in hungUp

ReadBegins ==
    /\ pc = "readPoll" /\ ReadReady
    /\ \/ pc' = "drain" /\ UNCHANGED <<closes, result, left>>
       \/ Happens("fault") /\ Return("failed", {"response"})
    /\ UNCHANGED <<args, written, heard, asked, wait, other, now, lost>>

(* Mutant: no limit. *)
ReadSomeUnlimited ==
    /\ pc = "drain" /\ answers > 0
    /\ \E n \in 1 .. answers : answers' = answers - n /\ heard' = heard + n
    /\ UNCHANGED <<pc, args, closes, written, asked, wait, result, requests, loader, hungUp, answer,
                   toSend, endedAt, now, left, lost>>

(* readResponse, the inner loop: some pieces, until there are too many. *)
ReadSome ==
    /\ pc = "drain" /\ answers > 0
    /\ \E n \in 1 .. answers :
          /\ answers' = answers - n
          /\ \/ heard + n > MaxResponse /\ Return("failed", {"response"}) /\ UNCHANGED heard
             \/ heard + n <= MaxResponse /\ heard' = heard + n /\ UNCHANGED <<pc, closes, result>>
    /\ UNCHANGED <<args, written, asked, wait, requests, loader, hungUp, answer, toSend, endedAt,
                   now, left, lost>>

(* The answer as it was received: no proper part of an object is an object. *)
Verdict == IF heard = answer.size THEN answer.verdict ELSE "junk"

(* Mutant: nothing to read now is taken for the end. *)
ReadEndsEarly ==
    /\ pc = "drain" /\ answers = 0
    /\ Return(IF Verdict = "allow" THEN "accepted" ELSE "refused", {"response"})
    /\ UNCHANGED <<args, written, heard, asked, wait, other, now, left, lost>>

(* Nothing more: EAGAIN leads back to poll, the end of the pipe to the      *)
(* verdict, unless closing the pipe or a read fails.                        *)
ReadEnds ==
    /\ pc = "drain" /\ answers = 0
    /\ \/ "response" \notin hungUp /\ pc' = "read" /\ UNCHANGED <<closes, result, left>>
       \/ /\ "response" \in hungUp /\ UNCHANGED left
          /\ Return(IF Verdict = "allow" THEN "accepted" ELSE "refused", {"response"})
       \/ Happens("fault") /\ Return("failed", {"response"})
    /\ UNCHANGED <<args, written, heard, asked, wait, other, now, lost>>
-----------------------------------------------------------------------------
(* In poll. *)

Waits == (pc = "writePoll" /\ ~WriteReady) \/ (pc = "readPoll" /\ ~ReadReady)

(* Mutant: poll is called without a timeout. *)
PollForever == wait < 0 /\ UNCHANGED vars

PollTimeout ==
    /\ Waits /\ wait = 0
    /\ Return("timeout", IF pc = "writePoll" THEN Ends ELSE {"response"})
    /\ UNCHANGED <<args, written, heard, asked, wait, other, now, left, lost>>

(* EINTR: poll is called again with the time it had before. *)
Interrupted ==
    /\ Waits /\ Happens("signal")
    /\ wait' = asked /\ lost' = lost + (asked - wait)
    /\ UNCHANGED <<pc, args, closes, written, heard, asked, result, other, now>>

Tick ==
    /\ Waits /\ wait > 0 /\ now' = now + 1 /\ wait' = wait - 1
    /\ UNCHANGED <<pc, args, closes, written, heard, asked, result, other, left, lost>>
-----------------------------------------------------------------------------
(* The loader, which may take its time, answer before it has read all,      *)
(* close one end or both, early, late or never, or die.                     *)

LoaderReads ==
    /\ "request" \notin hungUp /\ requests > 0
    /\ \E n \in 1 .. requests : requests' = requests - n
    /\ UNCHANGED <<program, answers, loader, hungUp, answer, toSend, endedAt, now, left, lost>>

LoaderAnswers ==
    /\ "response" \notin hungUp /\ loader = "listens" /\ loader' = "answers"
    /\ \E a \in Answers : answer' = a /\ toSend' = a.size
    /\ UNCHANGED <<program, requests, answers, hungUp, endedAt, now, left, lost>>

(* When the program has closed its end, nothing more can be said. *)
LoaderWrites ==
    /\ "response" \notin hungUp /\ toSend > 0 /\ pc # "done"
    /\ \E n \in 1 .. (PipeSize - answers) :
          n <= toSend /\ answers' = answers + n /\ toSend' = toSend - n
    /\ UNCHANGED <<program, requests, loader, hungUp, answer, endedAt, now, left, lost>>

LoaderCloses ==
    /\ \E ends \in SUBSET Ends : ~(ends \subseteq hungUp) /\ hungUp' = hungUp \cup ends
    /\ endedAt' = now
    /\ UNCHANGED <<program, requests, answers, loader, answer, toSend, now, left, lost>>

Loader == LoaderReads \/ LoaderAnswers \/ LoaderWrites \/ LoaderCloses

Program ==
    \/ Begin \/ Write \/ WriteEnds \/ WriteSome \/ Read \/ ReadBegins \/ ReadSome \/ ReadEnds
    \/ PollTimeout \/ Tick

Next == Program \/ Interrupted \/ Loader

Spec == Init /\ [][Next]_vars

(* The program runs and time passes; nothing is assumed of the loader. *)
FairSpec == Spec /\ WF_vars(Program)
-----------------------------------------------------------------------------
(* No descriptor is closed twice, and whatever ends a handshake over two    *)
(* descriptors, both have been closed (the dozen returns of lines 77-293).  *)
ClosedOnce ==
    /\ \A e \in Ends : closes[e] <= 1
    /\ pc = "done" /\ args \in {"unusable", "pipes"} => \A e \in Ends : closes[e] = 1

(* The handshake is over within its time, except for the time that was      *)
(* waited in calls of poll that a signal interrupted (lines 99 and 151).    *)
DeadlineKept == now <= Budget + lost

(* Accepted means that the whole request was sent, and the answer was read  *)
(* up to its end and said so: no early, partial or oversized answer counts. *)
AcceptedWasSaid ==
    result = "accepted" =>
        /\ written = RequestSize /\ "response" \in hungUp /\ toSend = 0
        /\ answer.verdict = "allow" /\ heard = answer.size

(* What an answer given whole and in time is worth, when the loader has     *)
(* also closed its ends in time: no order of partial writes, reads, signals *)
(* and waits makes the program miss it, unless the loader closed the        *)
(* request before it could be sent whole, which fails (lines 106-125).      *)
Deserved ==
    IF written < RequestSize THEN "failed"
    ELSE IF answer.verdict = "allow" THEN "accepted" ELSE "refused"

AnswerInTimeCounts ==
    (/\ pc = "done" /\ args = "pipes" /\ left["fault"] = MaxFault
     /\ hungUp = Ends /\ endedAt < Budget /\ toSend = 0 /\ answer.size \in 1 .. MaxResponse)
    => result = Deserved

(* Whatever the loader does, the handshake ends (lines 89-94, 141-146).     *)
Terminates == <>(pc = "done")
=============================================================================
