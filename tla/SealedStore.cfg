SPECIFICATION Spec
CONSTANTS
  c1 = c1
  c2 = c2
  Column = {c1, c2}
  RowsOf <- Lengths
  BatchSize = 1
  MaxRoot = 2
INVARIANTS RowIsTrue PlaintextIsFound
PROPERTY RecordMovesWithItsValues
