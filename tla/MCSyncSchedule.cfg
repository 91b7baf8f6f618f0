SPECIFICATION Spec
CONSTANTS pmu = pmu  mc = mc  p = p  c = c  a = a  e = e
          Node <- Nodes  Producer = pmu  Tpdo <- Tpdos
          Owner <- OwnerOf  Kind <- KindOf  Slot <- SlotOf  Mask <- MaskOf
          Period = 4  MaxCounter = 2  MaxAux = 1  MaxIndex = 4  Delay = 1  Switches = 2
INVARIANT ScheduleInv
PROPERTIES TimetableSpec AllServed
