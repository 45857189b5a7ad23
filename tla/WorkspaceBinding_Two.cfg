SPECIFICATION FairSpec
CONSTANTS
  Cases = {c1, c2}
  Helpers = {h}
  Contents = {x, y}
  Actors = {a, b}
  MaxTasks = 2
  None = None
CHECK_DEADLOCK FALSE
INVARIANTS BindingsAreTrue
PROPERTIES NoBlindOverwrite EveryMutationEnds
