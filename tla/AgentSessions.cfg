SPECIFICATION FairSessionsSpec
CONSTANTS
  c1 = c1
  c2 = c2
  c3 = c3
  a1 = a1
  Resources = {"agent", "runner"}
  Callers = {c1, c2, c3}
  Signals <- MCSignals
  SignalOf <- MCSignalOf
  Calls <- MCCalls
  Limits <- MCLimits
  MaxQueue = 2
  Appenders = {a1}
  Sessions = {"planning"}
  SessionOf <- MCSessionOf
INVARIANTS SlotsAreAccounted
PROPERTIES GrantsAreFair EveryWaitEnds KeepsTheLine
