SPECIFICATION Spec
CONSTANTS
  Goroutines = {g1, g2, g3}
  TableSize = 2
INVARIANTS
  WrongOnlyOnForeignTable
PROPERTIES
  WrongOnlyAtFirst
