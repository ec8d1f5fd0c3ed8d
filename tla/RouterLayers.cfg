SPECIFICATION Spec
CONSTANTS
  source = source  overlay = overlay  key = key  ip = ip  lo = lo
  c1 = c1  c2 = c2  red = red  blue = blue
  Names <- MCNames
  Texts <- MCTexts
  Ttl = 3
  Now = 5
  None = None
  Callers = {c1}
  Legs <- MCLegs
  Source = source
  Keys = {key}
  Addresses = {ip, lo}
  Configs <- AllConfigs
  Requests <- AllRequests
  Loopback = lo
INVARIANTS
  IInv
  OnlyAdmitted
  AtMostOneHop
  ReadableAnswers
  HopsVerify
  Accounts
PROPERTIES
  NoWayBack
CHECK_DEADLOCK FALSE
