SPECIFICATION Spec
CONSTANTS
  MaxMessages <- Three
  MaxSteps = 3
INVARIANT ClosesOnceNothingIsOwed
