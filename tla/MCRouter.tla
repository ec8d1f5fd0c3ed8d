------------------------------- MODULE MCRouter -------------------------------
(* Instances of Router for TLC.                                            *)
EXTENDS Router

CONSTANTS source, overlay, key, ip, lo, c1, c2, red, blue

MCLegs == {source, overlay}

Config(auth, secret, keys, cors, referers, byKey, limit) ==
  [auth |-> auth, secret |-> secret, keys |-> keys, cors |-> cors,
   referers |-> referers, byKey |-> byKey, limit |-> limit]

\* Everything on and off, with and without a secret.
AllConfigs ==
  {Config(auth, secret, {key}, cors, cors, byKey, 1) :
     auth \in BOOLEAN, secret \in BOOLEAN, cors \in BOOLEAN, byKey \in BOOLEAN}

OneConfig == {Config(TRUE, TRUE, {key}, TRUE, TRUE, FALSE, 2)}
KeysOnly == {Config(TRUE, FALSE, {key}, FALSE, FALSE, FALSE, 2)}

MCNames == {"sig", "expires", "api_key", "c", "d"}
MCTexts == {key, red, blue}

Red == Pair("c", red)
Query == <<Red>>

Request(path, method, targets, url) ==
  [path |-> path, query |-> Sign(path, Query, Now), method |-> method, bearer |-> None,
   xkey |-> None, origin |-> "none", referer |-> "none", from |-> ip,
   targets |-> targets, url |-> url]

Url(path, query) == [path |-> path, query |-> query]

Gradient == Url("/gradient", Query)
Bare == Url("/gradient", None)
OwnImage == Url("/image", Query)
Robots == Url("/robots.txt", Query)

\* The query of a signed URL, one with keys twice and a parameter without '=',
\* and one with an expires= that the server did not set.
Signed == Url("/gradient", <<Sig(None)>> \o Query)
Twice == Url("/gradient", <<Pair("d", red), Red, Pair(None, red), Pair("c", blue)>>)
Stale == Url("/gradient", <<Pair("expires", 0)>> \o Query)

To(s, o) == [l \in MCLegs |-> IF l = source THEN s ELSE o]

Get(path) == Request(path, "GET", To("none", "none"), Gradient)

\* Ways to come in, and what to ask for.
Ways ==
  {[q EXCEPT !.origin = o, !.referer = f, !.query = Query] :
     q \in {Request("/gradient", m, To("none", "none"), Gradient) : m \in Methods},
     o \in {"none", "listed", "other"}, f \in {"none", "listed", "other"}} \cup
  {[Get("/gradient") EXCEPT !.query = q, !.bearer = b, !.xkey = x] :
     b \in {None, key}, x \in {None, key}, q \in {Query, Append(Query, Pair("api_key", key))}} \cup
  {[Get(p) EXCEPT !.query = q] : p \in Paths, q \in {None, Query}} \cup
  {Get(p) : p \in Paths} \cup
  {[Get("/gradient") EXCEPT !.query = q] :
     q \in {Sign("/robots.txt", Query, Now), Sign("/gradient", Query, Now - Ttl - 1),
            Append(Query, Sig(ToSign("/gradient", Query, None)))}}

Pictures ==
  {Request("/image", "GET", t, u) :
     t \in {To("far", "self"), To("self", "far"), To("far", "none")},
     u \in {Gradient, Bare, OwnImage, Robots}} \cup
  {Request("/image", "GET", To("self", "self"), u) : u \in {Gradient, OwnImage}} \cup
  {Request("/image", "GET", To("far", "self"), u) : u \in {Signed, Twice, Stale}}

AllRequests == Ways \cup {[q EXCEPT !.origin = "listed"] : q \in Pictures}

\* Source and overlay both from the server itself.
SelfRequests == {Request("/image", "GET", To("self", "self"), Gradient), Get("/health")}

\* Let in by a key, with a source on the server itself.
HopRequests ==
  {[Request("/image", "GET", To("self", "none"), u) EXCEPT !.bearer = key, !.query = Query] :
     u \in {Gradient, Robots}}
=============================================================================
