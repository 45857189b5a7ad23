SPECIFICATION Spec
CONSTANTS
  Cases = {c1}
  Helpers = {}
  Contents = {x, y}
  Actors = {a, b}
  MaxTasks = 3
  None = None
SYMMETRY Symmetry
CHECK_DEADLOCK FALSE
PROPERTIES OnlyPublicationsReplace
