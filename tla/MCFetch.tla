------------------------------- MODULE MCFetch -------------------------------
(* Instances of Fetch for TLC.                                             *)
EXTENDS Fetch

CONSTANTS c1, far, bad, own, ownImage, web, pub1, priv, lo, unpinned, pic, blob

MCHostOf == [u \in Urls |-> web]

MCHeaderTimeout == [k \in Kinds |-> IF k = "main" THEN 2 ELSE 1]

MCBackoff == [k \in 0..MaxRetries |-> k + 1]

Reply(status, ctype, length, content) ==
  [status |-> status, ctype |-> ctype, length |-> length, content |-> content]

\* A picture, something else under an image type, and each way to be refused.
MCResponses ==
  {Reply(200, "image", "fits", pic), Reply(200, "absent", "absent", blob),
   Reply(200, "other", "fits", pic), Reply(206, "image", "over", pic),
   Reply(404, "other", "fits", blob), Reply(403, "other", "fits", blob),
   Reply(429, "absent", "fits", blob), Reply(500, "absent", "fits", blob)}
=============================================================================
