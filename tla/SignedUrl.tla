------------------------------- MODULE SignedUrl -------------------------------
(***************************************************************************)
(* Signed URLs: what sign_loopback_url (http_client/client.rs) appends to   *)
(* the query of a URL, and what verify_hmac_signature (middleware/auth.rs)  *)
(* makes of a query.  Both write out the string to sign for themselves.     *)
(*                                                                         *)
(* A query is the sequence of its parameters, None where the URL has no '?'. *)
(* Numbers are written in one way.  An HMAC tells strings apart, so that the *)
(* signature of a string is that string.                                    *)
(***************************************************************************)
EXTENDS Integers, Sequences, FiniteSets

CONSTANTS
  Names,   \* keys of parameters
  Texts,   \* values of parameters that do not parse as a number
  Ttl,     \* LOOPBACK_SIG_TTL_SECS
  None

Paths == {"/image", "/gradient", "/health", "/robots.txt", "/favicon.ico", "elsewhere"}

Values == Int \cup Texts \cup {None}

\* What is signed: the path, the pairs in order of their keys, pairs of one key
\* in the order of the query, and among them the time.
Strings == [path: Paths, pairs: SUBSET (Names \X Values \X Nat), expires: Values]

\* The key is None where there is no '=', `mac` the string a "sig" is the HMAC
\* of, and `after` what the parameter has behind the first "expires=" in it.
Parameters ==
  [key: Names \cup {None}, value: Values, mac: Strings \cup {None}, after: Values]

Queries == Seq(Parameters)

ASSUME TextAssumption ==
  /\ {"sig", "expires", "api_key"} \subseteq Names
  /\ Ttl \in Nat
  /\ None \notin Int \cup Names \cup Texts \cup Strings \cup Queries

Pair(key, value) ==
  [key |-> key, value |-> value, mac |-> None, after |-> IF key = "expires" THEN value ELSE None]
Sig(mac) == [key |-> "sig", value |-> None, mac |-> mac, after |-> None]

\* Places of the parameters with key k, and of those that are signed as they are.
At(query, k) == {i \in 1..Len(query) : query[i].key = k}
Kept(query) == {i \in 1..Len(query) : query[i].key \notin {None, "sig", "expires"}}

\* sort_by is stable.
Rank(query, i) == Cardinality({j \in Kept(query) : j < i /\ query[j].key = query[i].key})

ToSign(path, query, expires) ==
  [path |-> path,
   pairs |-> {<<query[i].key, query[i].value, Rank(query, i)>> : i \in Kept(query)},
   expires |-> expires]

-----------------------------------------------------------------------------
\* sign_loopback_url: the query's own "sig" and "expires" are not signed, and
\* stay.
Sign(path, query, now) ==
  query \o <<Pair("expires", now + Ttl), Sig(ToSign(path, query, now + Ttl))>>

-----------------------------------------------------------------------------
Last(places) == CHOOSE i \in places : \A j \in places : j <= i
First(places) == CHOOSE i \in places : \A j \in places : i <= j

\* A variant of Signature: the first one counts.
SignatureFirst(query) ==
  IF At(query, "sig") = {} THEN None ELSE query[First(At(query, "sig"))].mac

Signature(query) ==
  IF At(query, "sig") = {} THEN None ELSE query[Last(At(query, "sig"))].mac

\* expires = value.parse().ok()
Expiry(query) ==
  IF At(query, "expires") = {} THEN None
  ELSE LET text == query[Last(At(query, "expires"))].value
       IN  IF text \in Int THEN text ELSE None

\* query.split("expires=").nth(1), up to the next '&'
ExpiryText(query) ==
  LET places == {i \in 1..Len(query) : query[i].after # None}
  IN  query[First(places)].after

\* verify_hmac_signature
Verifies(path, query, now) ==
  /\ query # None
  /\ Signature(query) # None
  /\ Expiry(query) # None => now <= Expiry(query)
  /\ Signature(query) =
       ToSign(path, query, IF Expiry(query) = None THEN None ELSE ExpiryText(query))

\* The value of the first "api_key" (extract_api_key).
QueryKey(query) ==
  IF query = None THEN None
  ELSE IF At(query, "api_key") = {} THEN None ELSE query[First(At(query, "api_key"))].value

\* A query without the text "expires=".
Plain(query) == \A i \in 1..Len(query) : query[i].after = None
=============================================================================
