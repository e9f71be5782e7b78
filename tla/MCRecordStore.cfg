CONSTANTS
  Data <- Lookalike
  Null = Null
  Limit = 5
  Handles = 1
  MaxAdds = 2
SPECIFICATION Spec
CONSTRAINT NotMisled
INVARIANTS
  LookupCorrect
  FileConsistent
  EnumeratesAll
PROPERTIES
  ImplementsTable
