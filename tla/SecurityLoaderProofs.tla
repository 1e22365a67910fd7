------------------------- MODULE SecurityLoaderProofs -------------------------
(***************************************************************************)
(* Theorems about SecurityLoader, for every size, time and loader: types,  *)
(* descriptors closed exactly once, the deadline, what an answer is worth, *)
(* and a measure that every step of the handshake lowers.                  *)
(***************************************************************************)
EXTENDS SecurityLoader, Integers, TLAPS

LEMMA HappensType ==
    ASSUME TypeOK, NEW event \in {"signal", "fault"}, Happens(event)
    PROVE  left' \in [{"signal", "fault"} -> Nat]
  BY DEF TypeOK, Happens

(* What a return leaves. *)
LEMMA ReturnType ==
    ASSUME TypeOK, NEW why \in {"direct", "accepted", "refused", "timeout", "failed"},
           NEW ends \in SUBSET Ends, Return(why, ends)
    PROVE  /\ pc' = "done" /\ result' = why /\ closes' \in [Ends -> Nat]
           /\ \A e \in Ends : closes'[e] = IF e \in ends THEN closes[e] + 1 ELSE closes[e]
  BY DEF TypeOK, Return, Close

LEMMA PollType ==
    ASSUME TypeOK, now < Budget, NEW next, Poll(next)
    PROVE  /\ pc' = next /\ UNCHANGED <<closes, result>>
           /\ asked' \in 0 .. Budget /\ wait' \in 0 .. asked' /\ now + wait' = Budget
  BY SizesAssumption DEF TypeOK, Poll

LEMMA InitTypes == ASSUME Init PROVE TypeOK
  BY SizesAssumption DEF Init, TypeOK, Never, Ends

LEMMA TypeStep == ASSUME TypeOK, [Next]_vars PROVE TypeOK'
<1> USE DEF program, other
<1>1. CASE UNCHANGED vars
  BY <1>1 DEF TypeOK, vars
<1>2. CASE Begin
  BY <1>2, HappensType, ReturnType DEF TypeOK, Begin, Ends
<1>3. CASE Write
  BY <1>3, ReturnType, PollType DEF TypeOK, Write, Ends
<1>4. CASE WriteEnds
  BY <1>4, HappensType, ReturnType DEF TypeOK, WriteEnds, Close, Ends
<1>5. CASE WriteSome
  BY <1>5, HappensType, ReturnType, SizesAssumption DEF TypeOK, WriteSome, Ends
<1>6. CASE Read
  BY <1>6, ReturnType, PollType DEF TypeOK, Read, Ends
<1>7. CASE ReadBegins
  BY <1>7, HappensType, ReturnType DEF TypeOK, ReadBegins, Ends
<1>8. CASE ReadSome
  BY <1>8, ReturnType, SizesAssumption DEF TypeOK, ReadSome, Ends
<1>9. CASE ReadEnds
  BY <1>9, HappensType, ReturnType DEF TypeOK, ReadEnds, Ends
<1>10. CASE PollTimeout
  BY <1>10, ReturnType DEF TypeOK, PollTimeout, Ends
<1>11. CASE Interrupted
  BY <1>11, HappensType, SizesAssumption DEF TypeOK, Interrupted
<1>12. CASE Tick
  BY <1>12, SizesAssumption DEF TypeOK, Tick
<1>13. CASE Loader
  BY <1>13, SizesAssumption
  DEF TypeOK, Loader, LoaderReads, LoaderAnswers, LoaderWrites, LoaderCloses
<1> QED
  BY <1>1, <1>2, <1>3, <1>4, <1>5, <1>6, <1>7, <1>8, <1>9, <1>10, <1>11, <1>12, <1>13
     DEF Next, Program

(* The variables keep their types. *)
THEOREM TypeCorrect == Spec => []TypeOK
  BY InitTypes, TypeStep, PTL DEF Spec
-----------------------------------------------------------------------------
(* Where the program is says which descriptors it has closed. *)
Closing ==
    /\ pc = "start" => result = "none" /\ \A e \in Ends : closes[e] = 0
    /\ pc \in {"write", "writePoll"} =>
          args = "pipes" /\ result = "none" /\ \A e \in Ends : closes[e] = 0
    /\ pc \in {"read", "readPoll", "drain"} =>
          args = "pipes" /\ result = "none" /\ closes["request"] = 1 /\ closes["response"] = 0

LEMMA ClosedOnceInit == ASSUME Init PROVE Closing /\ ClosedOnce
  BY DEF Init, Closing, ClosedOnce, Ends

LEMMA ClosedOnceStep ==
    ASSUME TypeOK, Closing, ClosedOnce, [Next]_vars
    PROVE  Closing' /\ ClosedOnce'
<1> USE DEF Closing, ClosedOnce, TypeOK, Ends, program, other
<1>1. CASE UNCHANGED vars
  BY <1>1 DEF vars
<1>2. CASE Begin
  BY <1>2, ReturnType DEF Begin
<1>3. CASE Write
  BY <1>3, ReturnType, PollType DEF Write
<1>4. CASE WriteEnds
  BY <1>4, ReturnType DEF WriteEnds, Close
<1>5. CASE WriteSome
  BY <1>5, ReturnType DEF WriteSome
<1>6. CASE Read
  BY <1>6, ReturnType, PollType DEF Read
<1>7. CASE ReadBegins
  BY <1>7, ReturnType DEF ReadBegins
<1>8. CASE ReadSome
  BY <1>8, ReturnType DEF ReadSome
<1>9. CASE ReadEnds
  BY <1>9, ReturnType DEF ReadEnds
<1>10. CASE PollTimeout
  BY <1>10, ReturnType DEF PollTimeout, Waits
<1>11. CASE Interrupted \/ Tick
  BY <1>11 DEF Interrupted, Tick
<1>12. CASE Loader
  BY <1>12 DEF Loader, LoaderReads, LoaderAnswers, LoaderWrites, LoaderCloses
<1> QED
  BY <1>1, <1>2, <1>3, <1>4, <1>5, <1>6, <1>7, <1>8, <1>9, <1>10, <1>11, <1>12 DEF Next, Program

(* No descriptor is closed twice, and none is left open by a handshake that *)
(* is over, whichever return of lines 77-293 ended it.                      *)
THEOREM EveryReturnCloses == Spec => []ClosedOnce
<1>1. Init => TypeOK /\ Closing /\ ClosedOnce
  BY InitTypes, ClosedOnceInit
<1>2. TypeOK /\ Closing /\ ClosedOnce /\ [Next]_vars => (TypeOK /\ Closing /\ ClosedOnce)'
  BY TypeStep, ClosedOnceStep
<1> QED  BY <1>1, <1>2, PTL DEF Spec
-----------------------------------------------------------------------------
(* In poll, what is left of its timeout ends at the deadline, moved on by   *)
(* what the interrupted calls had waited.                                   *)
Timing ==
    pc \in {"writePoll", "readPoll"} => now + wait <= Budget + lost /\ Budget <= now + wait

LEMMA TimingStep ==
    ASSUME TypeOK, TypeOK', Timing, DeadlineKept, [Next]_vars
    PROVE  Timing' /\ DeadlineKept'
<1> USE DEF Timing, DeadlineKept, program, other
<1>0. /\ {now, lost, asked, wait, Budget} \subseteq Nat /\ wait <= asked
      /\ {now', lost', asked', wait'} \subseteq Nat /\ wait' <= asked'
  BY SizesAssumption DEF TypeOK
<1>1. CASE Write \/ Read
  <2>1. UNCHANGED <<now, lost>> /\ (pc' = "done" \/ (now < Budget /\ wait' = Budget - now))
    BY <1>1 DEF Write, Read, Return, Poll
  <2> QED  BY <1>0, <2>1
<1>2. CASE Interrupted
  <2>1. /\ pc' = pc /\ now' = now /\ wait' = asked /\ lost' = lost + (asked - wait)
        /\ pc \in {"writePoll", "readPoll"}
    BY <1>2 DEF Interrupted, Waits
  <2> QED  BY <1>0, <2>1
<1>3. CASE Tick
  <2>1. /\ pc' = pc /\ now' = now + 1 /\ wait' = wait - 1 /\ lost' = lost /\ wait > 0
        /\ pc \in {"writePoll", "readPoll"}
    BY <1>3 DEF Tick, Waits
  <2> QED  BY <1>0, <2>1
<1>4. CASE Begin \/ WriteEnds \/ WriteSome \/ ReadBegins \/ ReadSome \/ ReadEnds \/ PollTimeout
  <2>1. UNCHANGED <<now, lost, wait>> /\ (pc' = pc \/ pc' \notin {"writePoll", "readPoll"})
    BY <1>4
    DEF Begin, WriteEnds, WriteSome, ReadBegins, ReadSome, ReadEnds, PollTimeout, Return
  <2> QED  BY <2>1
<1>5. CASE Loader \/ UNCHANGED vars
  <2>1. UNCHANGED <<now, lost, wait, pc>>
    BY <1>5 DEF Loader, LoaderReads, LoaderAnswers, LoaderWrites, LoaderCloses, vars
  <2> QED  BY <2>1
<1> QED  BY <1>1, <1>2, <1>3, <1>4, <1>5 DEF Next, Program

(* The handshake takes its time and no more, but for interrupted waits. *)
THEOREM DeadlineHolds == Spec => []DeadlineKept
<1>1. Init => TypeOK /\ Timing /\ DeadlineKept
  BY InitTypes, SizesAssumption DEF Init, Timing, DeadlineKept
<1>2. TypeOK /\ Timing /\ DeadlineKept /\ [Next]_vars => (TypeOK /\ Timing /\ DeadlineKept)'
  BY TypeStep, TimingStep
<1> QED  BY <1>1, <1>2, PTL DEF Spec
-----------------------------------------------------------------------------
(* Until the program stops, what it heard, what is in the pipe and what is  *)
(* still to come make up the answer; when the loader has closed both ends,  *)
(* nothing is waited for, and the time is still the same.                 *)
Hearing ==
    /\ pc # "done" => result = "none" /\ heard + answers + toSend = answer.size
    /\ pc \in {"read", "readPoll", "drain"} => written = RequestSize
    /\ pc = "writePoll" => written < RequestSize
    /\ loader = "listens" => answer = Never /\ toSend = 0 /\ answers = 0
    /\ hungUp = Ends => endedAt = now
    /\ left["fault"] <= MaxFault

(* Why the program returned what it did. *)
Reasons ==
    /\ pc = "done" => result # "none" /\ (result = "direct" => args = "none")
    /\ result = "timeout" => pc = "done" /\ now >= Budget
    /\ (result = "failed" /\ args = "pipes") =>
          \/ left["fault"] < MaxFault
          \/ written < RequestSize
          \/ loader # "listens" /\ answer.size > MaxResponse
    /\ result = "refused" =>
          pc = "done" /\ written = RequestSize /\ "response" \in hungUp /\ (toSend = 0 => answer.verdict # "allow")
    /\ result = "accepted" => pc = "done"

AnswerInv == Hearing /\ Reasons /\ AcceptedWasSaid

LEMMA AnswerInit == ASSUME Init PROVE AnswerInv
  BY SizesAssumption DEF Init, AnswerInv, Hearing, Reasons, AcceptedWasSaid, Never

(* The loader talks while the program listens, and then is not heard. *)
LEMMA LoaderStep ==
    ASSUME TypeOK, TypeOK', Closing, AnswerInv, Loader
    PROVE  AnswerInv'
<1> USE DEF AnswerInv, Hearing, Reasons, AcceptedWasSaid, Never, program, other
<1>1. CASE LoaderReads
  BY <1>1 DEF LoaderReads
<1>2. CASE LoaderAnswers
  <2>1. /\ answer = Never /\ toSend = 0 /\ answers = 0 /\ loader = "listens"
        /\ loader' = "answers" /\ "response" \notin hungUp /\ hungUp' = hungUp
        /\ answer' \in Answers /\ toSend' = answer'.size
        /\ answer'.size \in Nat /\ answers' = 0 /\ heard' = heard /\ heard \in Nat
        /\ UNCHANGED <<program, now, left, endedAt>>
    BY <1>2, SizesAssumption DEF LoaderAnswers, TypeOK
  <2> QED  BY <2>1
<1>3. CASE LoaderWrites
  <2>1. PICK n \in 1 .. (PipeSize - answers) :
           n <= toSend /\ answers' = answers + n /\ toSend' = toSend - n
    BY <1>3 DEF LoaderWrites
  <2>2. /\ pc # "done" /\ loader = "answers" /\ {heard, answers, toSend} \subseteq Nat
        /\ UNCHANGED <<program, loader, hungUp, answer, endedAt, now, left>>
    BY <1>3 DEF LoaderWrites, TypeOK
  <2> QED  BY <2>1, <2>2
<1>4. CASE LoaderCloses
  BY <1>4 DEF LoaderCloses
<1> QED  BY <1>1, <1>2, <1>3, <1>4 DEF Loader

Said == <<args, written, heard, answers, loader, hungUp, answer, toSend, endedAt, now>>

(* A fault is counted, *)
LEMMA FaultReturns ==
    ASSUME TypeOK, AnswerInv, Happens("fault"), NEW ends, Return("failed", ends),
           UNCHANGED <<heard, answers, loader, hungUp, answer, toSend, endedAt, now>>
    PROVE  AnswerInv'
<1>1. left["fault"] \in Nat /\ left["fault"] <= MaxFault /\ MaxFault \in Nat
      /\ left'["fault"] = left["fault"] - 1
  BY SizesAssumption DEF TypeOK, AnswerInv, Hearing, Happens
<1>2. pc' = "done" /\ result' = "failed"
  BY DEF Return
<1> QED  BY <1>1, <1>2 DEF AnswerInv, Hearing, Reasons, AcceptedWasSaid

(* the clock has run, *)
LEMMA TimeoutReturns ==
    ASSUME AnswerInv, now >= Budget, NEW ends, Return("timeout", ends), UNCHANGED <<Said, left>>
    PROVE  AnswerInv'
  BY DEF AnswerInv, Hearing, Reasons, AcceptedWasSaid, Return, Said

(* or the program goes on. *)
LEMMA GoesOn ==
    ASSUME AnswerInv, pc # "done", result' = result,
           pc' # "writePoll" \/ written' < RequestSize,
           \/ pc' \in {"write", "writePoll"}
           \/ (pc' \in {"read", "readPoll", "drain"} /\ written' = RequestSize),
           UNCHANGED <<args, heard, answers, loader, hungUp, answer, toSend, endedAt, now>>,
           left'["fault"] = left["fault"]
    PROVE  AnswerInv'
  BY DEF AnswerInv, Hearing, Reasons, AcceptedWasSaid

(* What the program returns is said by the answer, the clock or a fault. *)
LEMMA ProgramStep ==
    ASSUME TypeOK, TypeOK', Closing, Timing, AnswerInv, Program \/ Interrupted
    PROVE  AnswerInv'
<1> USE DEF AnswerInv, Hearing, Reasons, AcceptedWasSaid, program, other
<1>1. CASE Begin
  <2>1. CASE args = "pipes" /\ Happens("fault") /\ Return("failed", Ends)
    BY <1>1, <2>1, FaultReturns DEF Begin
  <2>2. CASE args = "pipes" /\ pc' = "write" /\ UNCHANGED <<closes, result, left>>
    BY <1>1, <2>2, GoesOn DEF Begin
  <2>3. CASE args # "pipes"
    <3>1. /\ pc' = "done" /\ result' \in {"direct", "failed"} /\ (result' = "direct" => args = "none")
          /\ UNCHANGED <<Said, left>>
      BY <1>1, <2>3 DEF Begin, Return, Said
    <3> QED  BY <2>3, <3>1 DEF Said
  <2> QED  BY <1>1, <2>1, <2>2, <2>3 DEF Begin
<1>2. CASE Write
  <2>1. UNCHANGED <<Said, left>> /\ pc = "write" /\ written < RequestSize
    BY <1>2 DEF Write, Said
  <2>2. CASE now >= Budget /\ Return("timeout", Ends)
    BY <2>1, <2>2, TimeoutReturns
  <2>3. CASE Poll("writePoll")
    BY <2>1, <2>3, GoesOn DEF Poll, Said
  <2> QED  BY <1>2, <2>2, <2>3 DEF Write
<1>3. CASE WriteEnds
  <2>1. UNCHANGED Said /\ pc = "write" /\ written = RequestSize
    BY <1>3 DEF WriteEnds, Said
  <2>2. CASE Happens("fault") /\ Return("failed", Ends)
    BY <2>1, <2>2, FaultReturns DEF Said
  <2>3. CASE pc' = "read" /\ Close({"request"}) /\ UNCHANGED <<result, left>>
    BY <2>1, <2>3, GoesOn DEF Said
  <2> QED  BY <1>3, <2>2, <2>3 DEF WriteEnds
<1>4. CASE WriteSome
  <2>1. UNCHANGED <<args, heard, answers, loader, hungUp, answer, toSend, endedAt, now>> /\ pc = "writePoll"
    BY <1>4 DEF WriteSome
  <2>2. CASE Happens("fault") /\ Return("failed", Ends)
    BY <2>1, <2>2, FaultReturns
  <2>3. CASE pc' = "write" /\ UNCHANGED <<result, left>>
    BY <2>1, <2>3, GoesOn
  <2>4. CASE pc' = "write" /\ UNCHANGED result /\ Happens("signal")
    <3>1. left'["fault"] = left["fault"]
      BY <2>4 DEF Happens, TypeOK
    <3> QED  BY <2>1, <2>4, <3>1, GoesOn
  <2>5. CASE Return("failed", Ends) /\ UNCHANGED <<written, left>>
    <3>1. pc' = "done" /\ result' = "failed" /\ written < RequestSize
      BY <2>1, <2>5 DEF Return
    <3> QED  BY <2>1, <2>5, <3>1
  <2> QED  BY <1>4, <2>2, <2>3, <2>4, <2>5 DEF WriteSome
<1>5. CASE Read
  <2>1. UNCHANGED <<Said, left>> /\ pc = "read"
    BY <1>5 DEF Read, Said
  <2>2. CASE now >= Budget /\ Return("timeout", {"response"})
    BY <2>1, <2>2, TimeoutReturns
  <2>3. CASE Poll("readPoll")
    BY <2>1, <2>3, GoesOn DEF Poll, Said
  <2> QED  BY <1>5, <2>2, <2>3 DEF Read
<1>6. CASE ReadBegins
  <2>1. UNCHANGED Said /\ pc = "readPoll"
    BY <1>6 DEF ReadBegins, Said
  <2>2. CASE Happens("fault") /\ Return("failed", {"response"})
    BY <2>1, <2>2, FaultReturns DEF Said
  <2>3. CASE pc' = "drain" /\ UNCHANGED <<closes, result, left>>
    BY <2>1, <2>3, GoesOn DEF Said
  <2> QED  BY <1>6, <2>2, <2>3 DEF ReadBegins
<1>7. CASE ReadSome
  <2>1. PICK n \in 1 .. answers :
           /\ answers' = answers - n
           /\ \/ heard + n > MaxResponse /\ Return("failed", {"response"}) /\ UNCHANGED heard
              \/ heard + n <= MaxResponse /\ heard' = heard + n /\ UNCHANGED <<pc, closes, result>>
    BY <1>7 DEF ReadSome
  <2>2. /\ {heard, answers, toSend, MaxResponse} \subseteq Nat /\ answers > 0 /\ pc = "drain"
        /\ UNCHANGED <<args, written, loader, hungUp, answer, toSend, endedAt, now, left>>
    BY <1>7, SizesAssumption DEF ReadSome, TypeOK
  <2>3. CASE heard + n > MaxResponse
    <3>1. pc' = "done" /\ result' = "failed" /\ heard + n <= answer.size
      BY <2>1, <2>2, <2>3 DEF Return
    <3>2. answer.size > MaxResponse /\ loader # "listens"
      BY <2>2, <2>3, <3>1
    <3> QED  BY <2>1, <2>2, <3>1, <3>2
  <2>4. CASE heard + n <= MaxResponse
    BY <2>1, <2>2, <2>4
  <2> QED  BY <2>1, <2>2, <2>3, <2>4
<1>8. CASE ReadEnds
  <2>1. /\ UNCHANGED Said /\ pc = "drain" /\ answers = 0 /\ {heard, toSend} \subseteq Nat
    BY <1>8 DEF ReadEnds, Said, TypeOK
  <2>2. CASE Happens("fault") /\ Return("failed", {"response"})
    BY <2>1, <2>2, FaultReturns DEF Said
  <2>3. CASE pc' = "read" /\ UNCHANGED <<closes, result, left>>
    BY <2>1, <2>3, GoesOn DEF Said
  <2>4. CASE /\ "response" \in hungUp /\ UNCHANGED left
             /\ Return(IF Verdict = "allow" THEN "accepted" ELSE "refused", {"response"})
    <3>1. /\ heard + toSend = answer.size /\ pc' = "done" /\ "response" \in hungUp'
          /\ UNCHANGED <<Said, left>>
      BY <2>1, <2>4 DEF Return, Said
    <3>2. CASE Verdict = "allow"
      <4>1. heard = answer.size /\ answer.verdict = "allow" /\ result' = "accepted"
        BY <2>4, <3>2 DEF Verdict, Return
      <4> QED  BY <2>1, <3>1, <4>1 DEF Said
    <3>3. CASE Verdict # "allow"
      <4>1. (heard = answer.size => answer.verdict # "allow") /\ result' = "refused"
        BY <2>4, <3>3 DEF Verdict, Return
      <4> QED  BY <2>1, <3>1, <4>1 DEF Said
    <3> QED  BY <3>2, <3>3
  <2> QED  BY <1>8, <2>2, <2>3, <2>4 DEF ReadEnds
<1>9. CASE PollTimeout
  <2>1. now >= Budget
    BY <1>9, SizesAssumption DEF PollTimeout, Waits, Timing, TypeOK
  <2>2. UNCHANGED <<Said, left>> /\ \E ends : Return("timeout", ends)
    BY <1>9 DEF PollTimeout, Said
  <2> QED  BY <2>1, <2>2, TimeoutReturns
<1>10. CASE Interrupted
  BY <1>10 DEF Interrupted, Happens, TypeOK
<1>11. CASE Tick
  <2>1. hungUp # Ends
    BY <1>11 DEF Tick, Waits, WriteReady, ReadReady, Ends
  <2>2. pc \in {"writePoll", "readPoll"} /\ pc' = pc /\ UNCHANGED <<args, written, heard, result, other, left>>
    BY <1>11 DEF Tick, Waits
  <2> QED  BY <2>1, <2>2
<1> QED
  BY <1>1, <1>2, <1>3, <1>4, <1>5, <1>6, <1>7, <1>8, <1>9, <1>10, <1>11 DEF Program

LEMMA AnswerStep ==
    ASSUME TypeOK, TypeOK', Closing, Timing, AnswerInv, [Next]_vars
    PROVE  AnswerInv'
<1>1. CASE UNCHANGED vars
  BY <1>1
  DEF vars, program, other, AnswerInv, Hearing, Reasons, AcceptedWasSaid
<1> QED  BY <1>1, LoaderStep, ProgramStep DEF Next

LEMMA TimelyAnswer == ASSUME TypeOK, AnswerInv PROVE AnswerInTimeCounts
  BY SizesAssumption
  DEF TypeOK, AnswerInv, Hearing, Reasons, AcceptedWasSaid, AnswerInTimeCounts, Deserved, Never

LEMMA AnswersHold == Spec => [](TypeOK /\ AnswerInv)
<1> DEFINE Inv == TypeOK /\ Closing /\ ClosedOnce /\ Timing /\ DeadlineKept /\ AnswerInv
<1>1. Init => Inv
  BY InitTypes, ClosedOnceInit, AnswerInit, SizesAssumption DEF Init, Timing, DeadlineKept
<1>2. Inv /\ [Next]_vars => Inv'
  BY TypeStep, ClosedOnceStep, TimingStep, AnswerStep
<1>3. Inv => TypeOK /\ AnswerInv
  OBVIOUS
<1> QED  BY <1>1, <1>2, <1>3, PTL DEF Spec

(* Only a request that was sent in full and an answer that was received in  *)
(* full and says so are taken for an acceptance.                            *)
THEOREM AcceptedIsSaid == Spec => []AcceptedWasSaid
<1>1. TypeOK /\ AnswerInv => AcceptedWasSaid
  BY DEF AnswerInv
<1> QED  BY <1>1, AnswersHold, PTL

(* An answer that is given in full and closed before the deadline decides   *)
(* the handshake, whatever the sizes of the pieces, the pipes and the       *)
(* waits, unless the loader did not let the request through.                *)
THEOREM TimelyIsHeard == Spec => []AnswerInTimeCounts
<1> QED  BY TimelyAnswer, AnswersHold, PTL
-----------------------------------------------------------------------------
(* How much is left to do: first what can only shrink, the pieces to send   *)
(* and to hear and the signals to come, each worth the four stages of one   *)
(* round of its loop, then the stage of the round.                          *)

Rank ==
    CASE pc = "done" -> 0
      [] pc = "drain"     -> IF ReadReady THEN 1 ELSE 4
      [] pc = "readPoll"  -> 2
      [] pc = "read"      -> 3
      [] pc = "writePoll" -> 5
      [] pc = "write"     -> 6
      [] OTHER            -> 7

Stages == Rank + 4 * ((RequestSize - written) + (MaxResponse - heard) + left["signal"])

(* Each step of the program leaves fewer stages, or as many and less time   *)
(* to wait, and the loader cannot undo that.                                *)
Advances ==
    /\ Program \/ Interrupted => Stages' < Stages \/ (Stages' = Stages /\ wait' < wait)
    /\ Loader => Stages' <= Stages /\ wait' = wait

LEMMA RankType == ASSUME TypeOK PROVE Rank \in 0 .. 7
  BY DEF TypeOK, Rank

LEMMA StagesType == ASSUME TypeOK PROVE Stages \in Nat
<1>1. left["signal"] \in Nat /\ RequestSize - written \in Nat /\ MaxResponse - heard \in Nat
  BY SizesAssumption DEF TypeOK
<1> QED BY <1>1, RankType DEF Stages

(* A signal is worth its stages, whichever call it interrupts; a fault is   *)
(* none.                                                                    *)
LEMMA SignalSpent ==
    ASSUME TypeOK, Happens("signal")
    PROVE  left["signal"] \in Nat /\ left'["signal"] = left["signal"] - 1
  BY DEF TypeOK, Happens

LEMMA FaultSpent ==
    ASSUME TypeOK, Happens("fault")
    PROVE  left["signal"] \in Nat /\ left'["signal"] = left["signal"]
  BY DEF TypeOK, Happens

(* A stage that ends with nothing gained elsewhere. *)
LEMMA Onwards ==
    ASSUME TypeOK, TypeOK', UNCHANGED <<written, heard>>,
           left'["signal"] = left["signal"]
    PROVE  /\ (Rank' < Rank) => (Stages' < Stages)
           /\ (Rank' <= Rank) => (Stages' <= Stages)
           /\ (Rank' = Rank) => (Stages' = Stages)
<1>1. left["signal"] \in Nat /\ written \in Int /\ heard \in Int
  BY SizesAssumption DEF TypeOK
<1>2. Rank \in Int /\ Rank' \in Int
  BY RankType DEF Rank
<1> QED BY <1>1, <1>2, SizesAssumption DEF Stages

(* Each step of the program. *)
LEMMA ProgramAdvances ==
    ASSUME TypeOK, TypeOK', Program \/ Interrupted
    PROVE  Stages' < Stages \/ (Stages' = Stages /\ wait' < wait)
<1> USE DEF Rank
<1>1. CASE Begin
  <2>1. Rank' < Rank /\ UNCHANGED <<written, heard>>
    BY <1>1 DEF Begin, Return
  <2>2. left'["signal"] = left["signal"]
    BY <1>1, FaultSpent DEF Begin
  <2> QED BY <2>1, <2>2, Onwards
<1>2. CASE Write
  BY <1>2, Onwards DEF Write, Return, Poll
<1>3. CASE WriteEnds
  <2>1. Rank' < Rank /\ UNCHANGED <<written, heard>>
    BY <1>3 DEF WriteEnds, Return
  <2>2. left'["signal"] = left["signal"]
    BY <1>3, FaultSpent DEF WriteEnds
  <2> QED BY <2>1, <2>2, Onwards
<1>4. CASE WriteSome
  <2>1. pc = "writePoll" /\ heard' = heard /\ heard \in Int /\ left["signal"] \in Nat
        /\ written \in Int /\ Rank = 5
    BY <1>4, SizesAssumption DEF WriteSome, TypeOK
  <2>2. CASE Return("failed", Ends) /\ UNCHANGED <<written, left>>
    <3>1. Rank' = 0
      BY <2>2 DEF Return
    <3> QED BY <2>1, <2>2, <3>1, Onwards
  <2>3. CASE pc' = "write" /\ (\E n \in 1 .. (PipeSize - requests) : written' = written + n)
             /\ UNCHANGED left
    <3>1. written' >= written + 1 /\ written' \in Int
      BY <2>1, <2>3, SizesAssumption DEF TypeOK
    <3>2. Rank' = 6
      BY <2>3
    <3> QED BY <2>1, <2>3, <3>1, <3>2, SizesAssumption DEF Stages
  <2>4. CASE Happens("signal") /\ pc' = "write" /\ written' = written
    <3>1. Rank' = 6
      BY <2>4
    <3> QED BY <2>1, <2>4, <3>1, SignalSpent, SizesAssumption DEF Stages
  <2>5. CASE Happens("fault") /\ Return("failed", Ends) /\ written' = written
    <3>1. Rank' = 0
      BY <2>5 DEF Return
    <3> QED BY <2>1, <2>5, <3>1, FaultSpent, Onwards
  <2> QED BY <1>4, <2>2, <2>3, <2>4, <2>5 DEF WriteSome
<1>5. CASE Read
  BY <1>5, Onwards DEF Read, Return, Poll
<1>6. CASE ReadBegins
  <2>1. Rank' < Rank /\ UNCHANGED <<written, heard>>
    BY <1>6 DEF ReadBegins, Return, ReadReady, other
  <2>2. left'["signal"] = left["signal"]
    BY <1>6, FaultSpent DEF ReadBegins
  <2> QED BY <2>1, <2>2, Onwards
<1>7. CASE ReadSome
  <2>1. Rank = 1 /\ written' = written /\ left' = left /\ written \in Int /\ heard \in Int
        /\ left["signal"] \in Nat
    BY <1>7, SizesAssumption DEF ReadSome, ReadReady, TypeOK
  <2>2. CASE pc' = "done" /\ heard' = heard
    BY <2>1, <2>2, Onwards
  <2>3. CASE \E n \in 1 .. answers : heard' = heard + n
    <3>1. heard' >= heard + 1 /\ heard' \in Int
      BY <2>1, <2>3 DEF TypeOK
    <3>2. Rank' \in 0 .. 4
      BY <1>7 DEF ReadSome, Return
    <3> QED BY <2>1, <3>1, <3>2, SizesAssumption DEF Stages
  <2> QED BY <1>7, <2>2, <2>3 DEF ReadSome, Return
<1>8. CASE ReadEnds
  <2>1. Rank' < Rank /\ UNCHANGED <<written, heard>>
    BY <1>8 DEF ReadEnds, Return, ReadReady, TypeOK
  <2>2. left'["signal"] = left["signal"]
    BY <1>8, FaultSpent DEF ReadEnds
  <2> QED BY <2>1, <2>2, Onwards
<1>9. CASE PollTimeout
  BY <1>9, Onwards DEF PollTimeout, Waits, Return
<1>10. CASE Interrupted
  <2>1. Rank' = Rank /\ UNCHANGED <<written, heard>> /\ written \in Int /\ heard \in Int
    BY <1>10, SizesAssumption DEF Interrupted, ReadReady, other, TypeOK
  <2>2. Rank \in Int
    BY RankType
  <2> QED BY <1>10, <2>1, <2>2, SignalSpent, SizesAssumption DEF Interrupted, Stages
<1>11. CASE Tick
  <2>1. Rank' = Rank
    BY <1>11 DEF Tick, ReadReady, other
  <2> QED BY <1>11, <2>1, Onwards DEF Tick, TypeOK
<1> QED BY <1>1, <1>2, <1>3, <1>4, <1>5, <1>6, <1>7, <1>8, <1>9, <1>10, <1>11 DEF Program

(* The loader only makes the pipe readable. *)
LEMMA LoaderAdvances ==
    ASSUME TypeOK, TypeOK', Loader PROVE Stages' <= Stages /\ wait' = wait
<1>1. UNCHANGED program /\ UNCHANGED left
  BY DEF Loader, LoaderReads, LoaderAnswers, LoaderWrites, LoaderCloses
<1>2. ReadReady => ReadReady'
  BY DEF Loader, LoaderReads, LoaderAnswers, LoaderWrites, LoaderCloses, ReadReady, TypeOK
<1>3. Rank' <= Rank
  BY <1>1, <1>2 DEF Rank, program
<1> QED BY <1>1, <1>3, Onwards DEF program

(* No loader and no signal keeps the handshake going round: for any sizes,  *)
(* times and pieces there is a measure that every step of the program       *)
(* decreases.  This is what Terminates rests on; that the program always    *)
(* has a step to take is left to the model checker.                         *)
THEOREM HandshakeAdvances == Spec => [][Advances]_vars
<1>1. TypeOK /\ TypeOK' /\ [Next]_vars => [Advances]_vars
  BY ProgramAdvances, LoaderAdvances DEF Next, Advances
<1> QED BY <1>1, TypeCorrect, PTL DEF Spec
=============================================================================
