SPECIFICATION Spec
CONSTANTS
  Negotiated = 9
  Start = 7
  Slack = 2
  Grow = 2
  MaxBackoff = 2
  N = 4
  PerOp = 2
  MutOp = 1
  ReadOnly = TRUE
  Fits <- MCFits
PROPERTIES
  CallReturns
