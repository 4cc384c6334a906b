SPECIFICATION Spec
CONSTANTS
  Books = {b1, b2}
  Texts = {t1, t2}
  Blank = Blank
  Configs = {c1, c2}
  Models = {f1, f2}
  None = None
  MaxFind = 1
INVARIANTS ClaimedIsStored StoredIsClaimed Comparable BlankStaysKnown
