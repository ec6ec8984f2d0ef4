CONSTANTS
  r1 = r1
  r2 = r2
  a1 = a1
  a2 = a2
  good = good
  low = low
  blank = blank
  broken = broken
  huge = huge
  odd = odd
  None = None
  Requests = {r1, r2}
  Apps = {a1, a2}
  Images <- AllImages
  Ending <- MCEnding
  Faces <- MCFaces
  Cascade <- MCCascade
  Quality <- MCQuality
  Score <- MCScore
  Similarity <- MCSimilarity
  Pictures <- MCPictures
  ModelSets <- MCModelSets
  Bars = {500, 700}
  InProduction = TRUE
  Limit = 3
  Window = 2
  MaxKey = 2
  MayFail <- OneFault
SPECIFICATION MCSpec
SYMMETRY Perms
CHECK_DEADLOCK FALSE
INVARIANTS RateKept CallersKept ComparisonsCorrect
