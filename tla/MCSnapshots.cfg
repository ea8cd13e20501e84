CONSTANTS
  U16 = 1
  U32 = 3
  U64 = 7
  Formats = {"ewf", "raw"}
  Schemes = {"gpt"}
  Ciphers = {"luks2"}
  Kinds = {"ntfs"}
  Guids = {"00112233445566778899aabbccddeeff"}
  Written <- MCWritten
  Slips <- MCSlips
  MaxSlips = 1
  Radix = 2
  Widths = {1, 2, 3}
  MaxOffset = 7
  Sources <- MCSources
  Xids <- MCXids
  TagLen = 5
  TimeLen = 3
  MaxViews = 2
SPECIFICATION SSpec
INVARIANTS
  TypeOK
  RoundTrip
  LegacyAlias
  EpochsOrdered
  EpochReversible
  FieldsExact
CHECK_DEADLOCK FALSE
