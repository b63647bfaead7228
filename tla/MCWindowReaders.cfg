CONSTANTS
  NULL = NULL
  Readers = {r1}
  Filters = {c, d}
  Names = {1, 2, 3}
  Limit = 1
  MaxRows = 3
SPECIFICATION Spec
INVARIANTS WalkExact HasMoreTruthful DirectoryComplete
