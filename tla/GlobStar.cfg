SPECIFICATION MCSpec
CONSTANTS
  Requests = {q1, q2, q3, q4}
  NoRequest = NoRequest
  GenLimit = 3
  MaxChunks = 1
  r1 = r1
  r2 = r2
  r3 = r3
  h1 = h1
  h2 = h2
  p1 = p1
  p2 = p2
  w1 = w1
  PageReqs <- MCPageReqs
  Hosts <- MCPageHosts
  Pages = {"home"}
  CACHE_CAPACITY = 1
  MaxStamp = 2
  ImgReqs <- MCReqs
  ImgHosts <- MCHosts
  Sources <- MCSources
  ImageConfigs <- MCConfigs
  Widths = {0, 16, 17}
  Qualities = {0, 75, 101}
  Accepts <- MCAccepts
  UpstreamAges = {0}
  MaxEntries = 2
  MaxBytes = 3
  MaxClock = 1
  MaxCrashes = 1
  Patterns <- MCPatterns
  Texts <- MCTexts
  Chars <- MCChars
INVARIANTS
  StarIsAnyNumber
CHECK_DEADLOCK FALSE
