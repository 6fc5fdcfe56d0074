SPECIFICATION GameSpec
CONSTANTS
  Elf <- MCElf
  Dynlib <- MCDynlib
  Null = Null
  HookThreads = {"loader", "screen"}
  Loader = "loader"
  Screen = "screen"
  FastBits = 2
  WordBits = 5
  Side = 2
  Colours = 2
  Word = 4096
  Memory = 1000
  Worlds <- MCWorlds
INVARIANTS LoadsFit CallsReachReadyCode HooksHold ChunksAreReadWhole BlocksAreDecoded LoadedUnlessDenied
CHECK_DEADLOCK FALSE
