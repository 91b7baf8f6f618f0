SPECIFICATION LineFairSpec
CONSTANTS Size = 6
          Text <- AnyLength
INVARIANTS LineTypeOK TakenAsTyped
PROPERTY LineTaken
