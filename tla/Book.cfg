SPECIFICATION Spec
CONSTANTS
  Addresses = {"A", "B"}
  Accounts = {"A"}
  Names = {n1, n2}
  Scopes = {"s"}
  Groups = {g1, g2}
  HeapBlocks = 8
  ContactBlocks = 2
SYMMETRY Symmetry
INVARIANTS
  TypeOK
  BuffersMatchReview
PROPERTIES
  AliasesStrayTwoWays
  OnlyEditsRename
  UniqueButForTwoWays
