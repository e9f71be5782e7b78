CONSTANTS
  Data <- Contents
  Null = Null
  Limit = 4
  Handles = 1
  MaxAdds = 2
SPECIFICATION Spec
INVARIANTS
  EnumeratesOnly
