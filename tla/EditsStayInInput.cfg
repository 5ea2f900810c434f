SPECIFICATION Spec
CONSTANTS
  Up <- MCUp
  Node <- MCNode
  TextStarts <- ExactTextStarts
  TextLen <- MCTextLen
  Schema <- MCSchema
  Kind <- MCKind
  NoInput <- MCNoInput
  Refused = {}
  Typed <- MCTyped
  Targets <- MCTargets
  HasTemporary = TRUE
  None = None
  NoStore = NoStore
PROPERTY
  EditsStayInInput
CHECK_DEADLOCK FALSE
