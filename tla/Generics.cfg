CONSTANTS
  Programs <- PassPrograms
  MaxFrames = 4
SPECIFICATION Spec
INVARIANTS LegalAccepted VersionsMatchUses OneVersionTyped 
CHECK_DEADLOCK FALSE
