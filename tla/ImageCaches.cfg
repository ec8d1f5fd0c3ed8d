SPECIFICATION Spec
CONSTANTS
  r1 = r1  r2 = r2  u1 = u1  u2 = u2
  pic = pic  pic2 = pic2  torn = torn  huge = huge
  small = small  large = large  garbled = garbled  here = here  there = there  shadow = shadow  bare = bare
  None = None
  Requests = {r1, r2}
  Urls = {u1}
  Contents = {pic, torn}
  Decodable = {pic}
  Oversized = {}
  Looks = {small, large, garbled}
  RejectedLooks = {large}
  TextLost <- MCTextLost
  Places = {here}
  Decos = {bare, shadow}
  Bare = bare
  Spares = {0, 1}
  Queries <- SharedKeyQueries
  MaxOverlays = 1
  MinDimension = 1
  MaxOverlaySize = 2
  Hash <- MCHash
SYMMETRY Symmetry
INVARIANTS
  CachesSound
  AnswersSound
CHECK_DEADLOCK FALSE
