CONSTANTS
  Width = 3
  Slots = {0, 1, 2}
  Draws <- MCDraws
  Blits <- MCBlits
  MaxCommands = 3
  MaxFrames = 2
SPECIFICATION Spec
CHECK_DEADLOCK FALSE
INVARIANT
  MirrorTruthful
