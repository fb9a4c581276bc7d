CONSTANTS
  KernelFS <- MCKernelFS
  MaxRuns = 3
SPECIFICATION Spec
INVARIANTS HostIsUntouched BuildStartsFresh LeavesNothing
PROPERTY SignalEndsIt
CHECK_DEADLOCK FALSE
