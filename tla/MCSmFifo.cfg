CONSTANTS
    Length = 3
    Item = {a, b}
    NoItem = NoItem
    IndexMod = 4
    CountMod = 8
SPECIFICATION Spec
INVARIANT RingInv
PROPERTY QueueSpec
