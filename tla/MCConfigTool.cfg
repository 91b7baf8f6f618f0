SPECIFICATION FairSpec
CONSTANTS v1 = v1  v2 = v2
          Value <- Typed
          Field = {"UV", "I_BAT"}
          Commands = 3  QueueLen = 1
          Pairs = {TRUE, FALSE}
          Priorities = {TRUE, FALSE}
INVARIANTS TypeOK ReportIsTrue OnePrinter LastValueWins
PROPERTY CommandAnswered
CHECK_DEADLOCK FALSE
