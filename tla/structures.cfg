CONSTANTS
  Elements = {e1, e2}
  None = None
  ChunkSize = 2
  Addresses = {a1, a2, a3}
  MaxHeight = 5
  MaxCalls = 3
  Ptrs = {1, 2, 3, 4, 5, 6}
  StackEnd = 1
  NoPtr = 0
  MaxFrames = 3
  HeaderSize = 1
  MinSplit = 2
  BlockSize = 7
  MacroBlocks = {1, 10}
  Sizes = {1, 3}
  MaxUsed = 3
SYMMETRY Alike
SPECIFICATION Spec
INVARIANTS
  RootsTraced
  TopTwo
  Tiled
  Coalesced
  OneMacroBlock
PROPERTIES
  IsFrameStack
