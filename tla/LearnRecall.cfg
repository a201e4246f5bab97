SPECIFICATION Spec
CONSTANTS
  p1 = p1
  p2 = p2
  Procs <- MCProcs
  Stop <- MCStop
  QueryStop <- MCQueryStop
  Numbers <- MCNumbers
  Pieces <- MCPieces
  Synonyms <- MCSynonyms
  Within <- MCWithin
  LikeMatches <- MCLikeMatches
  LikeBegins <- MCLikeBegins
  Questions <- MCQuestions
  Teaches <- MCTeaches
  Seeds <- MCSeeds
  NewLookups <- MCNewLookups
  NewPatterns <- MCNewPatterns
  Catalog <- MCCatalog
  MaxOps <- MCMaxOps
  Limit = 1
  Cap = 1
  MaxEvents = 2
  MaxCommands = 4
SYMMETRY MCSymmetry
INVARIANT ReuseIsOfTheRow
PROPERTIES VerbatimRecall ExactMeansSameEntity RefreshHeals
CHECK_DEADLOCK FALSE
