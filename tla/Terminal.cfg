SPECIFICATION TerminalSpec
CONSTANTS
  Writes <- MCWrites
  MaxWrites = 2
  ReadSizes = {1, 128}
  ChunksCap = 1
  EventsCap = 1
  PasteMarkerGrace = 2
  None = None
INVARIANTS
  ChunkingIsInvisible
  PasteIsNotTyped
PROPERTIES
  NeverDeaf
  SleepsWhenStuck
  JoinEnds
CHECK_DEADLOCK FALSE
