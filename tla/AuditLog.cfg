SPECIFICATION Spec
CONSTANTS
  Writers = {w1, w2}
  Keys = {k1}
  Ops = {remember, forget}
  MaxAppends = 3
  None = None
INVARIANTS AcceptedIsHistory CleanLogVerifies
PROPERTIES BrokenStaysBroken
SYMMETRY Symmetry
