SPECIFICATION SpecWithEdits
CONSTANTS
  Fractional = {"f1", "f3"}
  Committing = {"c2", "d"}
  Uploads = {"u1"}
  Events = {"e1"}
  Whole <- MCWhole
  Rest <- MCRest
  Slot <- MCSlot
  Net = 2
  MaxAttempts = 2
PROPERTIES
  RecomputedSumWithinNet
CHECK_DEADLOCK FALSE
