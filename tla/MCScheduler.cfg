SPECIFICATION Spec
CONSTANTS left = left  right = right  sync = sync  blink = blink  other = other
          Task <- Tasks  Indexed <- Blinking  Fn <- FnOf  None = None
          Slots = 2  Repeat = {1, 2}  Interval = {0, 1}
          MaxAge = 1  MaxCalls = 2
INVARIANT TableInv
PROPERTIES NeverEarly CalledAsAsked TaskCalled
