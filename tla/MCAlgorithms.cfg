CONSTANTS
  WIDTH = 3
  Keys = {0, 1}
  ByteBits = 2
  NonceLen = 2
  TagLen = 1
  MaxPlain = 2
  AssetIds <- MCAssetIds
  Tickers <- MCTickers
  NoTicker = NoTicker
  TickerLen = 2
  MaxPrecision = 8
  Precisions = {0, 8, 9}
  MaxRequest = 3
SPECIFICATION AlgorithmsSpec
INVARIANT TableMatchesReference
INVARIANT CipherRoundTrip
INVARIANT GetAssetsFollowsRequest
