SPECIFICATION Spec
CONSTANTS
  drafting = drafting
  triage = triage
  Names <- MCNames
  MaxCandidates = 3
  MaxLives = 2
SYMMETRY MCSymmetry
INVARIANTS
  TypeOK
  DangerCameUnchecked
PROPERTY
  RollbackRestoresOrRemoves
