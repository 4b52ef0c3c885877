SPECIFICATION Spec
CONSTANTS
  K = 3
  Window = 4
  FecWindow = 1
  RekeyAfter = 9
INVARIANTS TypeOK NoDuplicate WindowExact OneLossRepaired
