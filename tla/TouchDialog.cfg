SPECIFICATION Spec
CONSTANTS
  W = 1200
  H = 1600
  MenuPage = 6
  MaxText = 2
  Cols = 1
  Slots = {1, 2}
  Points <- Fingers
  RawMax = 16384
  Dialogs <- Asked
  MaxQueue = 2
INVARIANTS
  TapTakesItsPress
  TapHitsWhatIsDrawn
