SPECIFICATION FairSpec
CONSTANTS r1 = r1  r2 = r2  r3 = r3  r4 = r4
          Request <- Tickets
          QueueLen = 2
INVARIANTS CoreInv AnsweredOnce OwnResult
PROPERTIES LineSpec TakenIsAnswered
