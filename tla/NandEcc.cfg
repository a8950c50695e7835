SPECIFICATION Spec
CONSTANTS
  Pattern <- MCPattern
  Places <- MCPlaces
  Together <- MCTogether
  MaxFlips = 2
INVARIANTS SingleErrorsCorrected NoMiscorrection
