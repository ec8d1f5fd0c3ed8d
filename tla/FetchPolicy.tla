------------------------------ MODULE FetchPolicy ------------------------------
(***************************************************************************)
(* HttpClient::fetch_image with the policy it applies: Fetch, where the     *)
(* URLs refused and the addresses let through are those UrlPolicy says.     *)
(***************************************************************************)
EXTENDS Fetch

CONSTANTS
  Labels, BlockedNames,   \* as in UrlPolicy
  UrlOf,                  \* function: what Url::parse makes of a URL
  Options                 \* REQUIRE_HTTPS, ALLOWED_DOMAINS, BLOCKED_DOMAINS

Policy == INSTANCE UrlPolicy

ASSUME PolicyAssumption ==
  /\ "*" \in Labels /\ BlockedNames \subseteq Policy!Names
  /\ UrlOf \in [Urls -> Policy!UrlType] /\ Options \in Policy!OptionType
  /\ Ips \subseteq Policy!V4 \cup Policy!V6
  /\ InvalidUrls = {u \in Urls : ~Policy!Valid(UrlOf[u], Options)}
  /\ PublicIps = {a \in Ips : ~Policy!IsPrivate(a)}

-----------------------------------------------------------------------------
(* Properties                                                              *)

\* The IPv4 addresses that a packet for a may be handed on to: what it is or
\* stands for, what 64:ff9b::/96 translates to, and where 2002::/16 tunnels to.
Carried(a) ==
  IF Len(a) = 4 THEN {a}
  ELSE {v \in {Policy!Low(a)} :
          /\ \A i \in 3..5 : a[i] = 0
          /\ <<a[1], a[2], a[6]>> \in {<<0, 0, 0>>, <<0, 0, 65535>>, <<100, 65435, 0>>}}
       \cup {v \in {<<a[2] \div 256, a[2] % 256, a[3] \div 256, a[3] % 256>>} : a[1] = 8194}

Reserved(v) == \E n \in Policy!PrivateV4 : Policy!Within(v, n)

\* Whatever records say and in whatever form, literal, mapped, compatible,
\* translated or tunnelled: no call for another server settles on a private IPv4
\* address, writes one into the cache the others read, or has one in its URL,
\* and what a pinned client is connected to is none until a server redirects it.
SettlesOnPublic ==
  /\ \A h \in Hosts : dnsCache[h] # None => \A v \in Carried(dnsCache[h]) : ~Reserved(v)
  /\ \A c \in Calls : Exchanging(c) /\ url[c] \notin SelfUrls =>
       /\ \A v \in Carried(ip[c]) : ~Reserved(v)
       /\ conn[c].pin # Unpinned /\ conn[c].hops = 0 =>
            \A v \in Carried(conn[c].at) : ~Reserved(v)
       /\ LET literal == UrlOf[url[c]].host.literal
          IN  literal # None => \A v \in Carried(literal) : ~Reserved(v)
=============================================================================
