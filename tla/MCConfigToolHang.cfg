SPECIFICATION FairSpec
CONSTANTS v1 = v1  v2 = v2
          Value <- Typed
          Field = {"I_BAT"}
          Commands = 2  QueueLen = 2
          Pairs = {TRUE}
          Priorities = {FALSE}
PROPERTY EveryCommandAnswered
CHECK_DEADLOCK FALSE
