----------------------------- MODULE MCFetchPolicy -----------------------------
(* Instances of FetchPolicy for TLC.                                       *)
EXTENDS FetchPolicy, TLC

CONSTANTS c1, c2, far, low, evil, own, web, lo, unpinned, pic, blob

MCHostOf == [u \in Urls |-> web]

\* All timers are due at once, so that any order of steps of the calls happens.
NoWait == [k \in Kinds |-> 0]
NoBackoff == [k \in 0..MaxRetries |-> 0]

Reply(status, content) ==
  [status |-> status, ctype |-> "image", length |-> "fits", content |-> content]

\* A reply that ends a call, or whose body breaks off so that it is retried.
OneResponse == {Reply(200, pic)}

MCLabels == {"*", "com", "example", "evil", "meta", "own", "literal"}
MCBlocked == {<<"meta", "com">>}
MCOptions ==
  [https |-> TRUE, allowed |-> {<<"*", "com">>, <<"literal">>}, blocked |-> {<<"*", "evil", "com">>}]

Url(scheme, name, literal) ==
  [size |-> "fits", parses |-> TRUE, scheme |-> scheme, host |-> [name |-> name, literal |-> literal]]

\* 10.0.0.1 as ::10.0.0.1 and ::ffff:10.0.0.1; 8.8.8.8, and as ::ffff:8.8.8.8.
Compatible == <<0, 0, 0, 0, 0, 0, 2560, 1>>
Mapped == <<0, 0, 0, 0, 0, 65535, 2560, 1>>
Public == <<8, 8, 8, 8>>
MappedPublic == <<0, 0, 0, 0, 0, 65535, 2056, 2056>>

MCIps == {Compatible, Public, MappedPublic}

\* far: any subdomain; low: a literal that is private; evil: on the block
\* list; own: on SELF_HOST.
MCUrlOf ==
  (far :> Url("https", <<"example", "com">>, None)) @@
  (low :> Url("https", <<"literal">>, Mapped)) @@
  (evil :> Url("https", <<"example", "evil", "com">>, None)) @@
  (own :> Url("https", <<"own", "com">>, None))

MCInvalid == {u \in Urls : ~Policy!Valid(MCUrlOf[u], MCOptions)}
MCPublic == {a \in MCIps : ~Policy!IsPrivate(a)}

\* Both kinds have the same timers here, so one of them will do.
OneKind == \A c \in Calls : kind[c] = "main"

Symmetry == Permutations({c1, c2})
=============================================================================
