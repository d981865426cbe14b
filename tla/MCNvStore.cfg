SPECIFICATION Spec
CONSTANTS
  Items = {i1, i2}
  Values = {v1, v2}
  MODULE_IDX_NUM = 3
  MaxRefused = 1
  Absent = Absent
INVARIANTS TypeOK CurrentIsSound
PROPERTIES AtomicMap
SYMMETRY Symmetry
