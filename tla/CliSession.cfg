SPECIFICATION Spec
CONSTANTS
  Up <- MCUp
  Node <- MCNode
  TextStarts <- MCTextStarts
  TextLen <- MCTextLen
  Schema <- MCSchema
  Kind <- MCKind
  NoInput <- MCNoInput
  Refused <- MCRefused
  Typed <- MCTyped
  Targets <- MCTargets
  HasTemporary = TRUE
  None = None
  NoStore = NoStore
INVARIANTS
  TypeOK
  OnlyEnteredIsSent
  InputHoldsOnlyItsRpc
  ActsOnChosenTarget
PROPERTY
  AskingEndsInput
CHECK_DEADLOCK FALSE
