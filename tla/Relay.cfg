CONSTANTS FdMax = 6 RespMax = 1 DownMax = 1
SPECIFICATION Spec
CHECK_DEADLOCK FALSE
INVARIANTS LeaksArePaidFor AnswersReachTheTool
PROPERTIES KilledOnlyByStaleClose Reconnects TermEndsEth
