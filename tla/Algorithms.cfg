SPECIFICATION Spec
CHECK_DEADLOCK FALSE
CONSTANTS
  MILLION = 4
  CENT = 3
  BYTES_PER_SEC = 3
  MAX_SECONDS = 4
  NEWLINE = {"NL"}
  MaxPrice = 3
  MaxCount = 5
INVARIANTS
  MessagesSurvive
  RateIsTheCards
  EstimateCoversActual
  ChargeIsTight
  ErrorsBlameTheRightSide
  QuoteSurvives
  StreamIsUncut
  CardinalityBounded
  RollupsAddUp
