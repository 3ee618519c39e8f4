SPECIFICATION SpecWithEdits
CONSTANTS
  Fractional = {"f1", "f3"}
  Committing = {}
  Uploads = {"u1"}
  Events = {}
  Whole <- MCWhole
  Rest <- MCRest
  Slot <- MCSlot
  Net = 2
  MaxAttempts = 2
INVARIANT NeverOverfunded
CHECK_DEADLOCK FALSE
