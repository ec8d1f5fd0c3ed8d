--------------------------- MODULE FetchPolicyProofs ---------------------------
(* Theorems about FetchPolicy, with their proofs.                          *)
EXTENDS FetchPolicy, FetchProofs

LEMMA AddressLengths ==
  /\ \A a \in Policy!V4 : Len(a) = 4
  /\ \A a \in Policy!V6 : Len(a) = 8
  /\ \A a : Len(Policy!Low(a)) = 4
<1>1. \A a \in Policy!V4 : Len(a) = 4
  BY DEF Policy!V4
<1>2. \A a \in Policy!V6 : Len(a) = 8
  BY DEF Policy!V6
<1>3. \A a : Len(Policy!Low(a)) = 4
  BY DEF Policy!Low
<1> QED
  BY <1>1, <1>2, <1>3

\* is_private_ip gives the IPv4 address in an IPv6 address the verdict it has
\* on its own, or refuses the form altogether.
LEMMA CarriedPublic ==
  ASSUME NEW a \in Policy!V4 \cup Policy!V6, ~Policy!IsPrivate(a)
  PROVE  \A v \in Carried(a) : ~Reserved(v)
<1>1. CASE a \in Policy!V4
  <2>1. Len(a) = 4
    BY <1>1, AddressLengths
  <2>2. Policy!Effective(a) = a /\ Carried(a) = {a}
    BY <2>1 DEF Policy!Effective, Carried
  <2> QED
    BY <2>1, <2>2 DEF Policy!IsPrivate, Reserved
<1>2. CASE a \in Policy!V6
  <2>1. Len(a) = 8
    BY <1>2, AddressLengths
  <2>2. CASE a[1] = 0 /\ a[2] = 0 /\ a[3] = 0 /\ a[4] = 0 /\ a[5] = 0 /\ a[6] \in {0, 65535}
    <3>1. Policy!Effective(a) = Policy!Low(a)
      <4>1. \A i \in 1..5 : a[i] = 0
        BY <2>2
      <4> QED
        BY <2>1, <2>2, <4>1 DEF Policy!Effective
    <3>2. Carried(a) \subseteq {Policy!Low(a)}
      BY <2>1, <2>2 DEF Carried
    <3>3. Len(Policy!Low(a)) = 4
      BY AddressLengths
    <3>4. ~Reserved(Policy!Low(a))
      BY <3>1, <3>3 DEF Policy!IsPrivate, Reserved
    <3> QED
      BY <3>2, <3>4
  <2>3. CASE a[1] # 0
    <3>1. Policy!Effective(a) = a
      <4>1. ~(\A i \in 1..5 : a[i] = 0)
        BY <2>3
      <4> QED
        BY <4>1 DEF Policy!Effective
    <3>2. \A n \in Policy!PrivateV6 : ~Policy!Within(a, n)
      BY <2>1, <3>1 DEF Policy!IsPrivate
    <3>3. a[1] # 8194
      <4>1. Policy!Net(<< >>, {8194}) \in Policy!PrivateV6
        BY DEF Policy!PrivateV6
      <4>2. ~Policy!Within(a, Policy!Net(<< >>, {8194}))
        BY <3>2, <4>1
      <4>3. Policy!Net(<< >>, {8194}).fixed = << >> /\ Policy!Net(<< >>, {8194}).next = {8194}
        BY DEF Policy!Net
      <4>4. Len(<< >>) = 0
        OBVIOUS
      <4> QED
        BY <4>2, <4>3, <4>4 DEF Policy!Within
    <3>4. ~(a[1] = 100 /\ a[2] = 65435 /\ a[3] = 0 /\ a[4] = 0 /\ a[5] = 0 /\ a[6] = 0)
      <4> DEFINE fixed == <<100, 65435, 0, 0, 0>>
      <4>1. Policy!Net(fixed, {0}) \in Policy!PrivateV6
        BY DEF Policy!PrivateV6
      <4>2. ~Policy!Within(a, Policy!Net(fixed, {0}))
        BY <3>2, <4>1
      <4>3. Policy!Net(fixed, {0}).fixed = fixed /\ Policy!Net(fixed, {0}).next = {0}
        BY DEF Policy!Net
      <4>4. Len(fixed) = 5 /\ fixed[1] = 100 /\ fixed[2] = 65435 /\ fixed[3] = 0 /\ fixed[4] = 0
            /\ fixed[5] = 0
        OBVIOUS
      <4> HIDE DEF fixed
      <4>5. ~(/\ \A i \in 1..Len(fixed) : a[i] = fixed[i]
              /\ a[Len(fixed) + 1] \in {0})
        BY <4>2, <4>3, Zenon DEF Policy!Within
      <4>6. Len(fixed) + 1 = 6
        BY <4>4
      <4>7. (\A i \in 1..5 : a[i] = fixed[i]) => a[6] # 0
        BY <4>4, <4>5, <4>6
      <4> QED
        BY <4>4, <4>7
    <3>5. Carried(a) = {}
      <4>1. (\A i \in 3..5 : a[i] = 0) => a[3] = 0 /\ a[4] = 0 /\ a[5] = 0
        OBVIOUS
      <4>2. ~(/\ \A i \in 3..5 : a[i] = 0
              /\ <<a[1], a[2], a[6]>> \in {<<0, 0, 0>>, <<0, 0, 65535>>, <<100, 65435, 0>>})
        BY <2>3, <3>4, <4>1
      <4> QED
        BY <2>1, <3>3, <4>2 DEF Carried
    <3> QED
      BY <3>5
  <2>4. CASE a[1] = 0 /\ ~(a[2] = 0 /\ a[3] = 0 /\ a[4] = 0 /\ a[5] = 0 /\ a[6] \in {0, 65535})
    <3>1. Carried(a) = {}
      BY <2>1, <2>4 DEF Carried
    <3> QED
      BY <3>1
  <2> QED
    BY <2>2, <2>3, <2>4
<1> QED
  BY <1>1, <1>2

\* Whatever records say, whatever is cached and retried, and in whatever IPv6
\* form an address comes: no call for another server settles on a private IPv4
\* address, caches one or has one in its URL, and a pinned client is connected to
\* none before a server redirects it.
THEOREM SettlesPublic == Spec => []SettlesOnPublic
<1>1. ASSUME NEW a \in PublicIps
      PROVE  \A v \in Carried(a) : ~Reserved(v)
  <2>1. a \in Policy!V4 \cup Policy!V6 /\ ~Policy!IsPrivate(a)
    BY PolicyAssumption
  <2> QED
    BY <2>1, CarriedPublic
<1>2. ASSUME IInv, NEW c \in Calls, Exchanging(c), url[c] \notin SelfUrls
      PROVE  /\ ip[c] \in PublicIps
             /\ conn[c].pin # Unpinned /\ conn[c].hops = 0 => conn[c].at = ip[c]
  <2>1. conn[c].at = ip[c] \/ Astray(c)
    BY <1>2 DEF IInv, PhasesAgree
  <2>2. conn[c] \in Conns
    BY <1>2 DEF IInv, PhasesAgree
  <2>3. ip[c] \in PublicIps
    BY <1>2 DEF IInv, PhasesAgree
  <2> QED
    BY <2>1, <2>2, <2>3 DEF Astray, Conns
<1>3. ASSUME IInv, NEW c \in Calls, Exchanging(c),
             NEW literal, literal = UrlOf[url[c]].host.literal, literal # None
      PROVE  \A v \in Carried(literal) : ~Reserved(v)
  <2>1. url[c] \in Urls /\ url[c] \notin InvalidUrls
    BY <1>3 DEF IInv, PhasesAgree, Exchanging
  <2>2. UrlOf[url[c]] \in Policy!UrlType /\ Policy!Valid(UrlOf[url[c]], Options)
    BY <2>1, PolicyAssumption
  <2> DEFINE host == UrlOf[url[c]].host
  <2>3. host \in Policy!Hostnames /\ host # None
    BY <2>2 DEF Policy!UrlType, Policy!Valid
  <2>4. host.literal \in Policy!V4 \cup Policy!V6 \cup {None}
    BY <2>3 DEF Policy!Hostnames
  <2>5. host.literal # None => ~Policy!IsPrivate(host.literal)
    BY <2>2 DEF Policy!Valid
  <2> QED
    BY <1>3, <2>4, <2>5, CarriedPublic
<1>4. IInv => SettlesOnPublic
  <2>1. IInv => \A h \in Hosts : dnsCache[h] # None => dnsCache[h] \in PublicIps
    BY DEF IInv, PoolsAgree
  <2> QED
    BY <1>1, <1>2, <1>3, <2>1 DEF SettlesOnPublic
<1> QED
  BY <1>4, Inductive, PTL

\* An IPv4 address in the last 32 bits of an IPv6 address whose sixth segment is
\* `tag` and whose first five are 0.
Embedded(tag, v) == <<0, 0, 0, 0, 0, tag, v[1] * 256 + v[2], v[3] * 256 + v[4]>>

\* "Also handles IPv6-mapped IPv4 addresses" (ssrf.rs:93): is_private_ip judges
\* an IPv4 address, its mapped form ::ffff:x.x.x.x and its compatible form
\* ::x.x.x.x alike, so that a public address stays reachable in either form.
THEOREM FormsAlike ==
  \A v \in Policy!V4 : \A tag \in {0, 65535} :
    Policy!IsPrivate(Embedded(tag, v)) <=> Policy!IsPrivate(v)
<1>1. SUFFICES ASSUME NEW v \in Policy!V4, NEW tag, tag \in {0, 65535}
               PROVE  Policy!IsPrivate(Embedded(tag, v)) <=> Policy!IsPrivate(v)
  OBVIOUS
<1> DEFINE e == Embedded(tag, v)
<1>2. /\ v[1] \in 0..255 /\ v[2] \in 0..255 /\ v[3] \in 0..255 /\ v[4] \in 0..255
      /\ v = <<v[1], v[2], v[3], v[4]>>
  BY DEF Policy!V4, Policy!Octet
<1>3. /\ e[1] = 0 /\ e[2] = 0 /\ e[3] = 0 /\ e[4] = 0 /\ e[5] = 0 /\ e[6] = tag
      /\ e[7] = v[1] * 256 + v[2] /\ e[8] = v[3] * 256 + v[4] /\ Len(e) = 8
  BY DEF Embedded
<1>4. e[7] \div 256 = v[1] /\ e[7] % 256 = v[2] /\ e[8] \div 256 = v[3] /\ e[8] % 256 = v[4]
  <2> HIDE DEF e
  <2>1. e[7] \div 256 = v[1] /\ e[7] % 256 = v[2]
    <3>1. PICK a \in 0..255, b \in 0..255 : a = v[1] /\ b = v[2]
      BY <1>2
    <3>2. PICK n \in Nat : n = a * 256 + b
      OBVIOUS
    <3>3. n \div 256 = a
      BY <3>2
    <3>4. n % 256 = b
      BY <3>2
    <3>5. n = e[7]
      BY <1>3, <3>1, <3>2
    <3>6. QED
      BY <3>1, <3>3, <3>4, <3>5
  <2>2. e[8] \div 256 = v[3] /\ e[8] % 256 = v[4]
    <3>1. PICK a \in 0..255, b \in 0..255 : a = v[3] /\ b = v[4]
      BY <1>2
    <3>2. PICK n \in Nat : n = a * 256 + b
      OBVIOUS
    <3>3. n \div 256 = a
      BY <3>2
    <3>4. n % 256 = b
      BY <3>2
    <3>5. n = e[8]
      BY <1>3, <3>1, <3>2
    <3>6. QED
      BY <3>1, <3>3, <3>4, <3>5
  <2>3. QED
    BY <2>1, <2>2
<1>5. Policy!Low(e) = v
  BY <1>2, <1>4 DEF Policy!Low
<1>6. Policy!Effective(e) = v
  <2>1. \A i \in 1..5 : e[i] = 0
    BY <1>3
  <2>2. QED
    BY <1>1, <1>3, <1>5, <2>1 DEF Policy!Effective
<1>7. Policy!Effective(v) = v
  BY AddressLengths DEF Policy!Effective
<1>8. QED
  BY <1>6, <1>7 DEF Policy!IsPrivate
=============================================================================
