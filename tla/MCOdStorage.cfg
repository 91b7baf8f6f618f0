SPECIFICATION Spec
CONSTANTS d = d  v = v   Torn = torn
          Val <- Contents
          Default = d
INVARIANTS TypeOK IntactUnlessTroubled
PROPERTIES RestoreIsDone ParamSpec
