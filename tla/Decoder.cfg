SPECIFICATION Spec
CONSTANTS
  GroupBits = 3
  Bits64 = 16
  Bits32 = 10
  EnumBits = 4
  AddressSize = 2
  OperationsSize = 2
  AssetNameSize = 2
  TokenIdSize = 1
  TokenNameSize = 3
  SignatureSize = 2
  MaxVotes = 2
  MaxParameters = 2
  MaxKeys = 1
  MaxActives = 1
  MaxContracts = 1
  Fixed32Bytes = 2
  Fixed64Bytes = 3
  RawBuffer = 5
  SelectorSize = 1
  WordSize = 3
  Prefix = 65
  Selectors <- MCSelectors
  Inputs <- MCInputs
INVARIANTS
  TypeOK
  StreamsNest
  ArraysFit
  DecodesMeaning
  ContractIsTheParameter
  LastOccurrenceShown
  VarintsKeepTheirNumber
CHECK_DEADLOCK FALSE
