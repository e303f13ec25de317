SPECIFICATION Spec
CONSTANTS
  Symbols = {"A", "B"}
  Manual = {"B"}
  MaxPositions = 1
  MaxHeld = 4
  MaxStops = 2
INVARIANT FileTracksVenues
INVARIANT BookIsCovered
INVARIANT NothingOverlooked
CHECK_DEADLOCK FALSE
