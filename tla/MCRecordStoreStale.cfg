CONSTANTS
  Data <- Lookalike
  Null = Null
  Limit = 6
  Handles = 1
  MaxAdds = 2
SPECIFICATION Spec
INVARIANTS
  LookupStrict
CHECK_DEADLOCK FALSE
