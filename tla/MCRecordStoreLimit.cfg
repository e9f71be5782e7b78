CONSTANTS
  Data <- Contents
  Null = Null
  Limit = 5
  Handles = 1
  MaxAdds = 3
SPECIFICATION Spec
INVARIANTS
  WithinLimit
