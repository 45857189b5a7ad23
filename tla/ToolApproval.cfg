\* Calls of one tool with two sets of arguments; the system stops when all calls are made,
\* all approvals have expired and the run is left alone.
SPECIFICATION FairSpec
CONSTANTS
  sendA = sendA
  sendB = sendB
  Callers = {c1, c2}
  Requests = {sendA, sendB}
  ToolOf <- OneTool
  Ids = {i1, i2}
  MaxCalls = 2
CHECK_DEADLOCK FALSE
INVARIANTS ApprovedOnce QuestionsAreCurrent
PROPERTIES DecisionsStand EveryCallEnds
