SPECIFICATION Spec
CONSTANTS
  Keys <- StampsAndBelow
  Data = {d1, d2}
  NULL = NULL
  MaxLevel = 3
  MaxInserts = 4
SYMMETRY DataSymmetry
INVARIANTS TypeOK LevelsNest
PROPERTY IsTimeSeries
