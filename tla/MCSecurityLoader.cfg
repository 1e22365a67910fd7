SPECIFICATION FairSpec
CONSTANTS
    RequestSize = 4
    PipeSize = 2
    MaxResponse = 3
    Budget = 3
    Answers <- MCAnswers
    MaxSignals = 2
    MaxFault = 1
INVARIANTS TypeOK ClosedOnce DeadlineKept AcceptedWasSaid AnswerInTimeCounts
PROPERTIES Terminates
CHECK_DEADLOCK FALSE
