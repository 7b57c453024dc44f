SPECIFICATION Spec
CONSTANTS
  Events <- MCEvents
  Failed <- MCFailed
  TimeOf <- MCTimeOf
  Readers = {r1, r2}
  Writers = {w1}
  MaxId = 3
SYMMETRY MCSymmetry
INVARIANTS
  RowExact
  CacheExact
  AnswersCursor
