SPECIFICATION Spec
CONSTANTS
  GroupSize = 2
  MaxGroupSize = 4
  MinLevelSize = 2
  MaxLevel = 3
  Docs = {d1, d2, d3}
  Values = {1, 2, 3, 4, 5, 6}
  MaxPerDoc = 2
  MaxBatch = 1
  UpdateRatio = 2
  DeleteRatio = 3
INVARIANTS
  LevelsSound
  FacetSearchExact
  FacetsShownExact
SYMMETRY Symmetry
