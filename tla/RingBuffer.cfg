SPECIFICATION Spec
CONSTANTS
  Size = 4
  Lens <- MixedLens
  Aligns <- MixedAligns
INVARIANTS TypeOK ReadsWhatWasWritten SemaphoreIsBinary
PROPERTY Termination
