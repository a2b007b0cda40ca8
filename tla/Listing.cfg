\* Six rows in all, four at a time, pages of two.
CONSTANTS
  Code = {c1, c2, c3, c4}
  Target = {t1}
  Never = Never
  Second = 1
  PerPage = 2
  MaxId = 6
SPECIFICATION Spec
INVARIANTS TypeOK MissedBounded RepeatsBounded
SYMMETRY Symmetric
