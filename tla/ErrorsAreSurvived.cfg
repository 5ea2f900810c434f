SPECIFICATION Spec
CONSTANTS
  Up <- MCUp
  Node <- MCNode
  TextStarts <- ExactTextStarts
  TextLen <- MCTextLen
  Schema <- MCSchema
  Kind <- MCKind
  NoInput <- MCNoInput
  Refused = {}
  Typed <- CleanTyped
  Targets <- MCTargets
  HasTemporary = TRUE
  None = None
  NoStore = NoStore
INVARIANT
  ErrorsAreSurvived
CHECK_DEADLOCK FALSE
