---------------------------- MODULE MCRateLimiter ----------------------------
(* Instances of RateLimiter for TLC.                                       *)
EXTENDS RateLimiter, TLC

CONSTANTS w1, w2, ip1, ip2, proxy, junk, key1, l1, l2, l3

Request(conn, forwarded, real, apiKey) ==
  [conn |-> conn, forwarded |-> forwarded, real |-> real, apiKey |-> apiKey]

\* Three budgets: two addresses and an API key.
ThreeClients ==
  {Request(ip1, << >>, None, key1), Request(ip1, <<ip2>>, None, None),
   Request(proxy, <<proxy>>, None, None), Request(proxy, <<junk>>, ip1, None)}

\* A key may get MaxAccepted requests, all keys together one more.
FewRequests ==
  Len(accepted[ip1]) + Len(accepted[proxy]) + Len(accepted[key1]) <= MaxAccepted + 1

Symmetry == Permutations({w1, w2}) \cup Permutations(Limiters)
=============================================================================
