SPECIFICATION Spec
CONSTANTS
  Texts = {t1, t2, t3}
  Readers = {r}
  MaxBatch = 2
  MaxFile = 3
  GoesOn = FALSE
  None = None
SYMMETRY Symmetry
INVARIANTS CountedIsThere ReaderFinds AddedStays
