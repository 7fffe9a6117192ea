SPECIFICATION Spec
CONSTANTS
  Clients = {c1, c2}
  Tasks = {t1, t2, t3}
  Keys = {k1}
  Hashes = {h1, h2}
  None = None
  MaxId = 3
SYMMETRY Symmetry
INVARIANTS EventsTellHistory NoLostUpdate OneTaskPerKey
