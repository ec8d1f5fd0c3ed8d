------------------------------- MODULE UrlPolicy -------------------------------
(***************************************************************************)
(* Which URLs and which addresses may be fetched: validate_url_format_with_ *)
(* options (security/url_validator.rs) and is_private_ip (security/ssrf.rs). *)
(*                                                                         *)
(* An IPv4 address is the sequence of its four octets, an IPv6 address of   *)
(* its eight segments; a name is the sequence of its labels, lower case.    *)
(***************************************************************************)
EXTENDS Integers, Sequences, SequencesExt

CONSTANTS
  Labels,        \* labels of names, "*" among them
  BlockedNames,  \* BLOCKED_HOSTNAMES
  None

Octet == 0..255
Segment == 0..65535

V4 == [1..4 -> Octet]
V6 == [1..8 -> Segment]

Names == Seq(Labels)

-----------------------------------------------------------------------------
(* Addresses.                                                              *)

\* The addresses that begin with `fixed` and go on with one of `next`.
Net(fixed, next) == [fixed |-> fixed, next |-> next]

Within(a, n) ==
  /\ \A i \in 1..Len(n.fixed) : a[i] = n.fixed[i]
  /\ a[Len(n.fixed) + 1] \in n.next

\* PRIVATE_RANGES, of each kind of address.
PrivateV4 ==
  {Net(<<127>>, Octet), Net(<<10>>, Octet), Net(<<172>>, 16..31), Net(<<192>>, {168}),
   Net(<<169>>, {254}), Net(<<0>>, Octet), Net(<<100>>, 64..127), Net(<<192, 0>>, {0}),
   Net(<<192, 0>>, {2}), Net(<<198>>, 18..19), Net(<<198, 51>>, {100}), Net(<<203, 0>>, {113}),
   Net(<< >>, 224..239), Net(<< >>, 240..255), Net(<<255, 255, 255>>, {255})}

PrivateV6 ==
  {Net(<<0, 0, 0, 0, 0, 0, 0>>, {1}), Net(<<0, 0, 0, 0, 0, 0, 0>>, {0}),
   Net(<<0, 0, 0, 0, 0>>, {65535}), Net(<<100, 65435, 0, 0, 0>>, {0}), Net(<<256, 0, 0>>, {0}),
   Net(<<8193>>, {0}), Net(<<8193>>, 16..31), Net(<<8193>>, 32..47), Net(<<8193>>, {3512}),
   Net(<< >>, {8194}), Net(<< >>, 64512..65023), Net(<< >>, 65152..65215),
   Net(<< >>, 65280..65535)}

\* The last 32 bits.
Low(a) == <<a[7] \div 256, a[7] % 256, a[8] \div 256, a[8] % 256>>

\* A variant of the next: only ::ffff:x.x.x.x is taken for an IPv4 address.
EffectiveMapped(a) ==
  IF Len(a) = 8 /\ (\A i \in 1..5 : a[i] = 0) /\ a[6] = 65535 THEN Low(a) ELSE a

\* effective_ip: to_ipv4_mapped, then ::x.x.x.x.
Effective(a) ==
  IF Len(a) = 8 /\ (\A i \in 1..5 : a[i] = 0) /\ a[6] \in {0, 65535} THEN Low(a) ELSE a

IsPrivate(a) ==
  LET ip == Effective(a)
  IN  \E n \in (IF Len(ip) = 4 THEN PrivateV4 ELSE PrivateV6) : Within(ip, n)

-----------------------------------------------------------------------------
(* URLs.                                                                   *)

\* Hosts have the address they are written as, if they are.
Hostnames == [name: Names, literal: V4 \cup V6 \cup {None}]

UrlType ==
  [size: {"empty", "fits", "long"}, parses: BOOLEAN, scheme: {"http", "https", "other"},
   host: Hostnames \cup {None}]

OptionType == [https: BOOLEAN, allowed: SUBSET Names, blocked: SUBSET Names]

\* is_domain_in_list
IsWildcard(domain) == Len(domain) > 1 /\ domain[1] = "*"

InList(name, domains) ==
  \/ name \in domains
  \/ \E domain \in domains : IsWildcard(domain) /\ IsSuffix(Tail(domain), name)

SchemeAllowed(url, options) ==
  url.scheme = "https" \/ (url.scheme = "http" /\ ~options.https)

\* validate_url_format_with_options
Valid(url, options) ==
  /\ url.size = "fits"
  /\ url.parses
  /\ SchemeAllowed(url, options)
  /\ url.host # None
  /\ url.host.name \notin BlockedNames
  /\ url.host.literal # None => ~IsPrivate(url.host.literal)
  /\ options.allowed # {} => InList(url.host.name, options.allowed)
  /\ ~InList(url.host.name, options.blocked)
=============================================================================
