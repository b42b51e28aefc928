CONSTANTS
  l1 = l1  l2 = l2  s1 = s1  s2 = s2
  Loaders = {l1, l2}
  Savers = {s1, s2}
  PathAt <- MCPathAt
  KeyAt <- MCKeyAt
  Doc <- MCDoc
  Configs <- MCConfigs
  Times = {1, 2}
  MaxWrites = 2
  MaxCrashes = 1
SPECIFICATION Spec
SYMMETRY Symmetry
INVARIANT CatalogInv
INVARIANT TornOnlyByOverlap
INVARIANT HitIsTheFile
CHECK_DEADLOCK FALSE
