SPECIFICATION Spec
CONSTANTS
  Runs = {}
  Earlier = {r0}
  Children = {c1}
  ResumeFrom = {6}
  MaxRequests = 1
  MaxCrashes = 0
  NoNode = NoNode
INVARIANT LateResumeSubmitsNothing
CHECK_DEADLOCK FALSE
