SPECIFICATION Spec
PROPERTY
  KeepsSessionAlive
CHECK_DEADLOCK FALSE
