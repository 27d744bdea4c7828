\* Two participants: running again after an interrupted prepare phase.
CONSTANTS
  Participants = {p1, p2}
  MaxFailures = 2
SPECIFICATION Spec
PROPERTIES RerunIsNormal2PC
