CONSTANTS
  Data <- Contents
  Null = Null
  Limit = 4
  Handles = 2
  MaxAdds = 2
SPECIFICATION MidwaySpec
INVARIANTS
  IdsUnique
