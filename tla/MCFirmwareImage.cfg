SPECIFICATION ImageSpec
CONSTANTS
  HeaderSize = 2
  SlotSize = 40
  TrailerSize = 6
  SigLen = 7
  Wide = {2}
  Phrase = 4
  Sector = 8
  CrcUnit = 4
  MinImage = 12
  RawLen = 5
  Code <- MCCode
  AliasBase = 128
  CodeOptions <- MCCodeOptions
  DataOptions <- MCDataOptions
  Input <- MCInput
  Key = {1, 2}
  SigLengths = {5, 7}
  Bootloader <- MCBootloader
  AppOffset = {24, 152}
  KeyAddr = 6
INVARIANTS
  ImageTypeOK
  SignedIsAccepted
  FlashIsFile
  OptionsAreFile
  BoardBoots
CHECK_DEADLOCK FALSE
