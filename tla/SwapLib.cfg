SPECIFICATION Spec
CONSTANTS
  Radix = 2
  TmpSize = 4
  Tmp2Size = 7
  PrintableSize = 9
  ScreenSize = 12
  TrxDecimals = 2
  FeeCap = 1
  MaxAmount = 9
  Addresses = {"A", "B"}
  Paths <- MCPaths
  AddressOf <- MCAddressOf
  Tokens <- MCTokens
INVARIANTS
  PrintableExact
  SignedIsValidated
  ValidatedIsSignable
  RunsOnCleanGlobals
