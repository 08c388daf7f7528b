CONSTANTS
  Main = Main
  Overlay = Overlay
  about1 = about1
  about2 = about2
  Abouts <- MCAbouts
  NoLayer = NoLayer
  Disturbances = {"reset", "late", "timeout"}
SPECIFICATION Spec
INVARIANTS StackIsRegistered OrderlyDrain MainTakesOverUnlessReset
PROPERTIES ResetCompletes ShutdownTearsDown
