SPECIFICATION Spec
CONSTANTS
  c1 = c1  c2 = c2  far = far  low = low  evil = evil  own = own
  web = web  pic = pic  blob = blob  None = None  lo = lo  unpinned = unpinned
  Calls = {c1, c2}
  Urls = {far, low, evil, own}
  InvalidUrls <- MCInvalid
  SelfUrls = {own}
  ImageUrls = {}
  Hosts = {web}
  HostOf <- MCHostOf
  Ips <- MCIps
  PublicIps <- MCPublic
  Loopback = lo
  Contents = {pic, blob}
  TooLarge = {}
  NotImages = {blob}
  Responses <- OneResponse
  MaxRetries = 1
  DnsTimeout = 0
  HeaderTimeout <- NoWait
  TotalTimeout = 0
  Backoff <- NoBackoff
  MaxRedirects = 1
  Unpinned = unpinned
  MaxBackoff = 0
  Labels <- MCLabels
  BlockedNames <- MCBlocked
  UrlOf <- MCUrlOf
  Options <- MCOptions
CONSTRAINT OneKind
SYMMETRY Symmetry
INVARIANTS
  AddressChecked
  SettlesOnPublic
PROPERTY OneAddressPerCall
CHECK_DEADLOCK FALSE
