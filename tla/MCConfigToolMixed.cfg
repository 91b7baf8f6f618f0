SPECIFICATION Spec
CONSTANTS v1 = v1  v2 = v2
          Value <- Typed
          Field = {"UV", "I_BAT"}
          Commands = 2  QueueLen = 2
          Pairs = {TRUE}
          Priorities = {FALSE}
INVARIANT ToldFieldAlways
CHECK_DEADLOCK FALSE
