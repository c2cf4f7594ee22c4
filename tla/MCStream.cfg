CONSTANTS
  MatchLenMax = 8
  NiceLen = 7
  SearchDepth = 3
  MustNormalize = 40
  OPTS = 14
  Prices <- SymbolPrices
  Bytes = 4
  DictSize = 14
  Reserve = 4
  Alignment = 2
  ChunkMax = 26
  UncompressedMax = 30
  DictMin = 4
  DictUnit = 4
  VliMax = 16383
  VliBase = 16
  VliBytesMax = 4
  GroupSize = 2
  BackwardMax = 4096
  LzipLogMin = 3
  LzipLogMax = 6
  PickySizeMax = 512
  Setups <- AllSetups
SPECIFICATION Spec
INVARIANTS FlushedIsReadable AcceptedIsWhole NeverStuck TellsWhatIsMissing
CHECK_DEADLOCK FALSE
