CONSTANTS
  U16 = 1
  U32 = 3
  U64 = 7
  Formats = {"ewf", "raw"}
  Schemes = {"gpt"}
  Ciphers = {"luks2"}
  Kinds = {"ntfs"}
  Guids = {"00112233445566778899aabbccddeeff"}
  Written <- MCWritten
  Slips <- MCNumerals
  MaxSlips = 1
SPECIFICATION Spec
INVARIANT
  NumbersKept
CHECK_DEADLOCK FALSE
