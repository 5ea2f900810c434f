SPECIFICATION Spec
CONSTANTS
  one = one
  two = two
  odd = odd
  empty = empty
  fine = fine
  coarse = coarse
  None = None
  Bracketed = Bracketed
  Empty = empty
  Fine = fine
  Coarse = coarse
  MaxNodes = 5
  Names <- MCNames
  ParentOf <- MCParentOf
  KindOf <- MCKindOf
  ValuesOf <- MCValuesOf
  Spelling <- MCSpelling
INVARIANTS
  EverythingIsListed
  EveryLineIsPrinted
PROPERTIES
  InputIsSentWhole
