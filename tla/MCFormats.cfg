CONSTANTS
  Earlier = {4}
  MaxTests = 2
  MaxNots = 1
  Lefts = {"local", "sum", "method", "field"}
  Nil = Nil
  Modulus = 64
  NameOrder <- MCNameOrder
  Orders <- MCOrders
  Sources <- MCSources
  GraphOf <- MCGraphOf
  Capitals = {"T"}
  Names = {"a", "b", "T"}
  Numbers = {"1"}
  Seeds <- Small
  Larger <- Grown
  Alphabets <- Short
  MaxLength = 5
  MaxLayers = 3
SPECIFICATION MCSpec
INVARIANT NothingDropped
INVARIANT ReadsBack
INVARIANT DecodesAsMeant
INVARIANT RoundTrip
INVARIANT TornFileRefused
