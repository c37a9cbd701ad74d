SPECIFICATION CatSpec
CONSTANTS
  Hash = {h1, h2}
  Source = {restore}
  MaxDraw = 0
  MaxId = 2
  Content = {c1}
  MaxCopy = 1
  MaxArtifact = 2
  MaxRow = 2
CHECK_DEADLOCK FALSE
CONSTRAINT Plain
SYMMETRY CatSymmetry
INVARIANTS IdsUnique RowsAgree MakersAgree RowIdsUnique
