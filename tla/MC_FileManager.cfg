SPECIFICATION Spec
CONSTANTS
  Conns = {c1, c2}
  Names = {a, b}
  MaxDepth = 2
  Bodies <- SmallBodies
  OldBody <- Old
  Hole = "hole"
SYMMETRY Interchangeable
INVARIANTS
  UploadIntact
PROPERTIES
  RebootCauses
  DeleteScope
CHECK_DEADLOCK FALSE
