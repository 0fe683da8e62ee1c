SPECIFICATION Spec
CONSTANTS
  a = a
  b = b
  k1 = k1
  k2 = k2
  s1 = s1
  s2 = s2
  Nodes = {n1, n2}
  RealmIds = {a, b}
  Settings = {s1, s2}
  Original = s1
  KeyOf <- MCKeyOf
  Gets = {g1, g2, g3}
  Operators = {m1}
  Kinds = {"create", "update", "disable", "remove"}
  Revalidate = 1
  MaxTime = 1
  None = None
CHECK_DEADLOCK FALSE
SYMMETRY Symmetry
INVARIANTS ServedCurrent KeysApart
