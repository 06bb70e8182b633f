\* Three jobs of a user, two texts, two days.
SPECIFICATION Spec
CONSTANTS
  u1 = u1  x1 = x1  x2 = x2  j1 = j1  j2 = j2  j3 = j3
  Users = {u1}
  Texts = {x1, x2}
  Jobs = {j1, j2, j3}
  Limit = 2
  DayLength = 2
  MaxTime = 3
  MaxCount = 3
INVARIANTS TypeOK WithinLimit RefusedAtTheLimit
SYMMETRY Alike
