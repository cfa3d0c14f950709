SPECIFICATION FairSpec
CONSTANTS
  Addr <- MCAddr
  Byte <- MCByte
  Beats <- MCBeats
  NoBeat = NoBeat
  OtherBeat = OtherBeat
  NoWord = NoWord
  PowerUpAddr = 0
  PowerUpWord <- MCPowerUpWord
  StrayWords <- MCStrayWords
  OtherSlavesStall = FALSE
INVARIANTS
  TypeOK
  PairedAddressAndData
PROPERTIES
  CrossingDataStable
  ServesEachBeatOnce
  BeatCompletes
