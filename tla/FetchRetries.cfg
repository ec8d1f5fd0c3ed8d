SPECIFICATION FairSpec
CONSTANTS
  c1 = c1  far = far  bad = bad  own = own  ownImage = ownImage
  web = web  pub1 = pub1  priv = priv  pic = pic  blob = blob
  None = None  lo = lo  unpinned = unpinned
  Calls = {c1}
  Urls = {far, bad, own, ownImage}
  InvalidUrls = {bad}
  SelfUrls = {own, ownImage}
  ImageUrls = {ownImage}
  Hosts = {web}
  HostOf <- MCHostOf
  Ips = {pub1, priv}
  PublicIps = {pub1}
  Loopback = lo
  Contents = {pic, blob}
  TooLarge = {}
  NotImages = {blob}
  Responses <- MCResponses
  MaxRetries = 2
  DnsTimeout = 2
  HeaderTimeout <- MCHeaderTimeout
  TotalTimeout = 3
  Backoff <- MCBackoff
  MaxRedirects = 1
  Unpinned = unpinned
  MaxBackoff = 3
INVARIANTS
  IInv
  EndsInBudget
PROPERTIES
  KeepsContract
  CallsGoOn
  EveryCallEnds
CHECK_DEADLOCK FALSE
