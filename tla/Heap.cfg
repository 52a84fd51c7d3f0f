SPECIFICATION Spec
CONSTANTS
  Addresses = {a1, a2, a3, a4}
  None = None
  MaxEntries = 6
SYMMETRY Interchangeable
INVARIANTS TypeOK NoWildFree HeldAreLive NothingLeft
CHECK_DEADLOCK FALSE
