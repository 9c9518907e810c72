CONSTANTS
  NumPrograms <- NumInstances
  Program <- Instance
SPECIFICATION Spec
INVARIANTS MeansTheTree UpvaluesMatchStack ReadsAsWritten HandlesAgree
CHECK_DEADLOCK FALSE
