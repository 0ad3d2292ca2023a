CONSTANTS
  Processes = {p, q}
  Steps = {s, t}
  Inodes = {i1, i2, i3, i4}
  MaxLength = 2
  Absent = Absent
  Nobody = Nobody
  Torn = Torn
  p = p
  q = q
  s = s
  t = t
  i1 = i1
  i2 = i2
  i3 = i3
  i4 = i4
SYMMETRY Symmetry
SPECIFICATION Spec
INVARIANTS AcknowledgedStays OneTemporary
PROPERTIES IsRegister
