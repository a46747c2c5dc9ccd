CONSTANTS
  Unit = 1000
  SampleRate = 100
  MaxDuration = 800
  LcgMul = 1229
  LcgAdd = 345
  LcgMod = 4096
  LcgLow = 16
  LcgRange = 128
  SessionSeed = 123
  Sine <- MCSine
  Slots = {0, 1}
  Recipes <- MCRecipes
  Effects <- MCEffects
  MaxSounds = 3
  NoSound = NoSound
SPECIFICATION Spec
\* The sounds are used up.
CHECK_DEADLOCK FALSE
INVARIANTS
  Repeatable
  NeverClips
