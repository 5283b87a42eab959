SPECIFICATION Spec
CONSTANTS
  Width = 300
  Pixels <- GesturePixels
  MaxMs = 600
INVARIANTS DragNeverClicks
CHECK_DEADLOCK FALSE
