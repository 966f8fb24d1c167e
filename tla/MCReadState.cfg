SPECIFICATION Spec
CONSTANTS
  Threads = {a, b}
  Cards = {c1, c2}
  NoCard = NoCard
  Capacity = 1
  MaxRows = 2
  MaxClears = 1
  MaxFaults = 1
INVARIANTS
  Recoverable
  RebootKeeps
PROPERTIES
  CardsMonotone
SYMMETRY ReadSymmetry
