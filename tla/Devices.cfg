CONSTANTS
  Devices = {file0, file1}
  NumDirBufs = 2
  Files = {rom}
  Dirs = {home}
  NoPath = NoPath
  Listing <- MCListing
  TooLong = TooLong
  NULL = NULL
  Gone = Gone
  Invalid = Invalid
  MemSize = 4
  MaxLength = 2
  MaxSize = 1
  Tile = 2
  Word = 64
  Memory <- MCMemory
  DefaultWidth = 3
  DefaultHeight = 2
  Widths = {0, 2}
  Heights = {0, 2}
  Xs = {63, 2, 59}
  Ys = {63, 1}
  Addresses = {3}
  Autos <- MCAutos
  PixelControls <- MCPixels
  TileControls <- MCTiles
  Themes = {1}
  MaxDraws = 2
  ArgumentLists <- MCArguments
  BufferSize = 3
  MaxTyped = 2
  MaxWritten = 3
  Fingers = {1, 2, 3}
  NoFinger = 0
  Keys = {"left ctrl", "right ctrl", "up"}
  ButtonOf <- MCButtonOf
  Modifiers = {"A"}
  MaxInputs = 3
  MaxArgs = 2
  MaxToken = 3
  SignatureSize = 10
  StackSize = 6
  TypedLines <- MCLines
  MaxPrompts = 4
SPECIFICATION MCSpec
INVARIANTS HandlesOwned ListingInOrder TexturesExact ConsoleExact HandsExact ReplExact
PROPERTIES ShortReadMeansEnd IsPicture
SYMMETRY DevicesAlike
VIEW Relevant
