SPECIFICATION Spec
CONSTANTS
  Up <- MCUp
  SchemaNode <- MCSchemaNode
  Kind <- MCKind
  Config <- MCConfig
  Hidden = {"lib"}
  NoModule = "none"
  NoKey <- MCNoKey
  NoNode = NoNode
  Word = {"fast", "er", "slow", "true", "m1", "m2"}
  Number = {"0", "5", "128", "256"}
  ValueOf <- MCValueOf
  SixDigits <- MCSixDigits
  NodePath = {"/m1:box"}
  NoPath = {"/nowhere"}
  Module = {"m1", "m2"}
  Unprefixed = "none"
  Type <- MCType
  TypeInfo <- MCTypeInfo
  Key = "id"
  Typed <- MCTyped
  Texts <- MCTexts
  WritableOps = FALSE
INVARIANT IdentityIsCompleted
CHECK_DEADLOCK FALSE
