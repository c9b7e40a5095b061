SPECIFICATION FairSpec
CONSTANTS
  None = None
  k1 = k1
  k2 = k2
  p = p
  q = q
  Keys <- MCKeys
  Configs <- MCConfigs
  Payloads <- MCPayloads
  Carries <- MCCarries
  RateLimit = 1
  MaxSuppressed = 1
INVARIANTS TrailingKept
PROPERTIES Debounced PendingDelivered
