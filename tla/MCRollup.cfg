CONSTANTS
  PerHour = 2
  Width = 3
  SeriesStep = 3
  SeriesSpan = 8
  Scopes <- MCScopes
  MinTot = 1
  Sigmas = 1
  Span = 2
  Before = 1
  RegimeMin = 1
  MinPoints = 2
  K = 2
  L = 1
  Scrap = 3
  Jump = 3
  Prices = {1, 2}
  Day = 4
  MaxPoints = 3
  MaxTail = 3
  MaxUncovered = 3
  Healthy <- MCHealthy
SPECIFICATION Spec
CHECK_DEADLOCK FALSE
INVARIANTS TypeInvariant AnswerBracketed ServedVerdict OneHourOneVerdict
