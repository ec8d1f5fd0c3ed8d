----------------------------- MODULE FetchProofs -----------------------------
(* Theorems of Fetch, for every instance of its constants.                 *)
EXTENDS Fetch, TLAPS

-----------------------------------------------------------------------------
(* Facts about the budget: what is left after attempt n.                   *)

LEMMA RestFacts ==
  /\ \A n \in 0..MaxRetries : Rest(n) \in Nat
  /\ \A n \in 0..MaxRetries :
       n < MaxRetries => n + 1 \in 0..MaxRetries /\ Rest(n) = Rest(n + 1) + TotalTimeout + MaxBackoff
  /\ Budget = DnsTimeout + TotalTimeout + Rest(0)
  /\ Budget \in Nat
<1> DEFINE K == TotalTimeout + MaxBackoff
<1>1. MaxRetries \in Nat /\ K \in Nat /\ DnsTimeout \in Nat /\ TotalTimeout \in Nat /\ MaxBackoff \in Nat
  BY TimeAssumption
<1>2. ASSUME NEW n \in 0..MaxRetries
      PROVE  Rest(n) \in Nat
  <2> DEFINE m == MaxRetries - n
  <2>1. m \in Nat
    BY <1>1
  <2>2. m * K \in Nat
    BY <1>1, <2>1
  <2>3. QED
    BY <2>2 DEF Rest
<1>3. ASSUME NEW n \in 0..MaxRetries, n < MaxRetries
      PROVE  n + 1 \in 0..MaxRetries /\ Rest(n) = Rest(n + 1) + TotalTimeout + MaxBackoff
  <2> DEFINE m == MaxRetries - (n + 1)
  <2>1. m \in Nat /\ MaxRetries - n = m + 1 /\ n + 1 \in 0..MaxRetries
    BY <1>1, <1>3
  <2>2. (m + 1) * K = m * K + K
    BY <1>1, <2>1
  <2>3. Rest(n) = (m + 1) * K /\ Rest(n + 1) = m * K
    BY <2>1 DEF Rest
  <2>4. m * K \in Nat
    BY <1>1, <2>1
  <2> HIDE DEF m
  <2>5. QED
    BY <1>1, <2>1, <2>2, <2>3, <2>4
<1>4. Budget = DnsTimeout + TotalTimeout + Rest(0)
  <2>1. Rest(0) = MaxRetries * (TotalTimeout + MaxBackoff)
    BY <1>1 DEF Rest
  <2>2. MaxRetries * (TotalTimeout + MaxBackoff) = MaxRetries * TotalTimeout + MaxRetries * MaxBackoff
    BY <1>1
  <2>3. (MaxRetries + 1) * TotalTimeout = MaxRetries * TotalTimeout + TotalTimeout
    BY <1>1
  <2>4. QED
    BY <1>1, <2>1, <2>2, <2>3 DEF Budget
<1>5. Budget \in Nat
  BY <1>1, <1>2, <1>4
<1>6. QED
  BY <1>2, <1>3, <1>4, <1>5

-----------------------------------------------------------------------------
(* The three ways a call moves on keep the invariant.                      *)

LEMMA InitInv == Init => IInv
<1> SUFFICES ASSUME Init PROVE IInv
  OBVIOUS
<1>1. TypeOK
  BY TimeAssumption DEF Init, TypeOK, Kinds, Phases
<1>2. PoolsAgree
  BY DEF Init, PoolsAgree, PinKeys, PinKey
<1>3. PhasesAgree /\ RepliesAgree
  BY DEF Init, PhasesAgree, RepliesAgree, Exchanging, Active
<1>4. TimersAgree
  <2>1. 0 <= Budget
    BY RestFacts
  <2>2. \A c \in Calls : phase[c] = "idle" /\ spent[c] = 0 /\ timer[c] = 0
    BY DEF Init
  <2>3. QED
    BY <2>1, <2>2 DEF TimersAgree
<1>5. QED
  BY <1>1, <1>2, <1>3, <1>4 DEF IInv

\* An exchange that is where its client was to go.
Started(x, host, addr) ==
  /\ x.pin \in {addr, Unpinned}
  /\ x.at = addr \/ (x.pin = Unpinned /\ (host = Loopback => x.at = Loopback))

\* The pooled client a call is given is pinned to the address it asks for, or
\* not at all, and connects there, or to loopback for a URL of ours.
LEMMA PinnedAsAsked ==
  ASSUME TypeOK, PoolsAgree, NEW c \in Calls, NEW k \in Kinds, NEW host \in Hosts \cup {Loopback},
         NEW addr \in Ips \cup {Loopback}, NEW n, StartAttempt(c, k, host, addr, n)
  PROVE  /\ \E x \in Conns : conn' = [conn EXCEPT ![c] = x] /\ Started(x, host, addr)
         /\ clients' \in [PinKeys -> Ips \cup {Loopback, Unpinned, None}]
         /\ \A h \in Hosts \cup {Loopback}, a \in Ips \cup {Loopback} :
              clients'[PinKey(h, a)] \in {a, Unpinned, None}
<1>1. PinKey(host, addr) \in PinKeys
  BY DEF PinKeys
<1>2. clients[PinKey(host, addr)] \in {addr, Unpinned, None}
  BY DEF PoolsAgree
<1>3. PICK pin \in Client(PinKey(host, addr), addr) : \E at \in Reaches(pin, host) :
        /\ clients' = [clients EXCEPT ![PinKey(host, addr)] = pin]
        /\ conn' = [conn EXCEPT ![c] = [pin |-> pin, at |-> at, hops |-> 0]]
  BY DEF StartAttempt
<1>4. PICK at \in Reaches(pin, host) :
        /\ clients' = [clients EXCEPT ![PinKey(host, addr)] = pin]
        /\ conn' = [conn EXCEPT ![c] = [pin |-> pin, at |-> at, hops |-> 0]]
  BY <1>3
<1>5. pin \in {addr, Unpinned}
  BY <1>2 DEF Client
<1>6. /\ at \in Ips \cup {Loopback}
      /\ at = addr \/ (pin = Unpinned /\ (host = Loopback => at = Loopback))
  BY <1>5 DEF Reaches
<1> DEFINE x == [pin |-> pin, at |-> at, hops |-> 0]
<1>7. x \in Conns /\ Started(x, host, addr)
  BY <1>5, <1>6, TimeAssumption DEF Conns, Started
<1>8. \A h \in Hosts \cup {Loopback}, a \in Ips \cup {Loopback} :
        PinKey(h, a) \in PinKeys /\ (PinKey(h, a) = PinKey(host, addr) => a = addr)
  BY DEF PinKey, PinKeys
<1>9. /\ clients' \in [PinKeys -> Ips \cup {Loopback, Unpinned, None}]
      /\ \A h \in Hosts \cup {Loopback}, a \in Ips \cup {Loopback} :
           clients'[PinKey(h, a)] \in {a, Unpinned, None}
  BY <1>1, <1>4, <1>5, <1>8 DEF TypeOK, PoolsAgree
<1>10. conn' = [conn EXCEPT ![c] = x]
  BY <1>4
<1> HIDE DEF x
<1>11. QED
  BY <1>7, <1>9, <1>10

LEMMA StartKeeps ==
  ASSUME IInv, NEW c \in Calls, NEW k \in Kinds, NEW host \in Hosts \cup {Loopback},
         NEW addr \in Ips \cup {Loopback}, NEW n \in 0..MaxRetries,
         StartAttempt(c, k, host, addr, n),
         NEW u \in Urls \ InvalidUrls, url' = [url EXCEPT ![c] = u], kind' = [kind EXCEPT ![c] = k],
         IF u \in SelfUrls THEN addr = Loopback ELSE addr \in PublicIps,
         u \in SelfUrls => host = Loopback,
         dnsCache' \in [Hosts -> Ips \cup {None}],
         \A h \in Hosts : dnsCache'[h] \in PublicIps \cup {None},
         seen' = seen, spent' = spent, phase[c] # "done",
         Len(seen[c]) <= n, \A i \in 1..Len(seen[c]) : Contract!Retryable(seen[c][i]),
         spent[c] + TotalTimeout + Rest(n) <= Budget
  PROVE  IInv'
<1>0. PICK x \in Conns : conn' = [conn EXCEPT ![c] = x] /\ Started(x, host, addr)
  <2>1. TypeOK /\ PoolsAgree
    BY DEF IInv
  <2>2. QED
    BY <2>1, PinnedAsAsked, Zenon
<1>1. /\ conn' = [conn EXCEPT ![c] = x] /\ x \in Conns
      /\ clients' \in [PinKeys -> Ips \cup {Loopback, Unpinned, None}]
      /\ PoolsAgree'
  BY <1>0, PinnedAsAsked DEF IInv, PoolsAgree
<1> DEFINE t == MinOf(HeaderTimeout[k], TotalTimeout)
<1>2. t \in Nat /\ t <= TotalTimeout /\ TotalTimeout \in Nat
  BY TimeAssumption DEF MinOf
<1>3. /\ ip' = [ip EXCEPT ![c] = addr] /\ attempt' = [attempt EXCEPT ![c] = n]
      /\ phase' = [phase EXCEPT ![c] = "sending"] /\ timer' = [timer EXCEPT ![c] = t]
      /\ total' = [total EXCEPT ![c] = TotalTimeout] /\ resp' = [resp EXCEPT ![c] = None]
      /\ UNCHANGED <<dns, result>>
  BY DEF StartAttempt
<1> HIDE DEF t
<1>4. TypeOK'
  BY <1>1, <1>2, <1>3 DEF IInv, TypeOK, Phases
<1>5. PhasesAgree'
  <2>1. (conn'[c].at = ip'[c] \/ Astray(c)') /\ conn'[c].pin \in {ip'[c], Unpinned} /\ conn'[c] \in Conns
    BY <1>0, <1>1, <1>3 DEF IInv, TypeOK, Astray, Started
  <2>2. \A d \in Calls \ {c} : Astray(d)' = Astray(d) /\ conn'[d] = conn[d]
    BY <1>1 DEF IInv, TypeOK, Astray
  <2>3. QED
    BY <1>3, <2>1, <2>2 DEF IInv, TypeOK, PhasesAgree, Exchanging, Astray
<1>6. RepliesAgree'
  BY <1>3 DEF IInv, TypeOK, RepliesAgree, Active
<1>7. TimersAgree'
  BY <1>2, <1>3 DEF IInv, TypeOK, TimersAgree
<1>8. QED
  BY <1>1, <1>4, <1>5, <1>6, <1>7 DEF IInv

LEMMA ReturnKeeps ==
  ASSUME IInv, NEW c \in Calls, NEW res \in Contract!Results \cup {None}, Return(c, res),
         NEW u \in Urls, url' = [url EXCEPT ![c] = u],
         NEW k \in Kinds, kind' = [kind EXCEPT ![c] = k],
         UNCHANGED <<shared, ip, attempt, spent>>,
         NEW replies \in Seq(Responses), seen' = [seen EXCEPT ![c] = replies]
  PROVE  IInv'
<1>1. TypeOK'
  <2>1. /\ phase' = [phase EXCEPT ![c] = "done"] /\ result' = [result EXCEPT ![c] = res]
        /\ conn' = [conn EXCEPT ![c] = None] /\ timer' = [timer EXCEPT ![c] = 0]
        /\ total' = [total EXCEPT ![c] = 0] /\ resp' = [resp EXCEPT ![c] = None]
    BY DEF Return
  <2>2. 0 \in 0..TotalTimeout
    BY TimeAssumption
  <2>3. /\ phase' \in [Calls -> Phases] /\ timer' \in [Calls -> Nat]
        /\ total' \in [Calls -> 0..TotalTimeout]
    BY <2>1, <2>2 DEF IInv, TypeOK, Phases
  <2>4. /\ url' \in [Calls -> Urls \cup {None}] /\ kind' \in [Calls -> Kinds]
        /\ conn' \in [Calls -> Conns \cup {None}]
        /\ resp' \in [Calls -> Responses \cup {None}]
        /\ result' \in [Calls -> Contract!Results \cup {None}]
        /\ seen' \in [Calls -> Seq(Responses)]
    BY <2>1 DEF IInv, TypeOK
  <2>5. QED
    BY <2>3, <2>4 DEF IInv, TypeOK, shared
<1>2. PoolsAgree'
  BY DEF IInv, PoolsAgree, shared
<1>3. PhasesAgree'
  BY DEF IInv, TypeOK, PhasesAgree, Return, Exchanging, Astray
<1>4. RepliesAgree'
  BY DEF IInv, TypeOK, RepliesAgree, Return, Active
<1>5. TimersAgree'
  BY DEF IInv, TypeOK, TimersAgree, Return
<1>6. QED
  BY <1>1, <1>2, <1>3, <1>4, <1>5 DEF IInv

\* A failed exchange sleeps only on a transient error of a foreign URL with an
\* attempt left, and then what it may still spend is within the budget.
LEMMA FailKeeps ==
  ASSUME IInv, NEW c \in Calls, Exchanging(c), NEW k \in Contract!ErrorKinds, AttemptFails(c, k),
         NEW replies \in Seq(Responses), seen' = [seen EXCEPT ![c] = replies],
         k = "Transient" =>
           /\ Len(replies) <= attempt[c] + 1
           /\ \A i \in 1..Len(replies) : Contract!Retryable(replies[i])
  PROVE  IInv'
<1>0. attempt[c] \in 0..MaxRetries /\ MaxRetries \in Nat /\ url[c] \in Urls
  BY TimeAssumption DEF IInv, TypeOK, PhasesAgree, Exchanging, Astray
<1>1. CASE k = "Transient" /\ ip[c] # Loopback /\ attempt[c] < MaxRetries
  <2>1. /\ phase' = [phase EXCEPT ![c] = "sleeping"]
        /\ timer' = [timer EXCEPT ![c] = Backoff[attempt[c]]]
        /\ total' = [total EXCEPT ![c] = 0]
        /\ conn' = [conn EXCEPT ![c] = None]
        /\ resp' = [resp EXCEPT ![c] = None]
        /\ UNCHANGED <<result, shared, args, ip, attempt, spent>>
    BY <1>1 DEF AttemptFails, RetryIf
  <2>2. Backoff[attempt[c]] \in Nat /\ Backoff[attempt[c]] <= MaxBackoff /\ MaxBackoff \in Nat
    BY <1>0, TimeAssumption
  <2>3. spent[c] + Rest(attempt[c]) <= Budget
    <3>1. spent[c] \in Nat /\ timer[c] \in Nat /\ total[c] \in Nat
      BY TimeAssumption DEF IInv, TypeOK
    <3>2. Rest(attempt[c]) \in Nat /\ Budget \in Nat
      BY <1>0, RestFacts
    <3>3. \/ spent[c] + total[c] + Rest(attempt[c]) <= Budget
          \/ spent[c] + timer[c] + Rest(attempt[c]) <= Budget
      BY DEF IInv, TimersAgree, Exchanging
    <3>4. QED
      BY <3>1, <3>2, <3>3
  <2>4. spent[c] + Backoff[attempt[c]] + TotalTimeout + Rest(attempt[c] + 1) <= Budget
    <3>1. spent[c] \in Nat /\ TotalTimeout \in Nat
      BY TimeAssumption DEF IInv, TypeOK
    <3>2. attempt[c] + 1 \in 0..MaxRetries
          /\ Rest(attempt[c]) = Rest(attempt[c] + 1) + TotalTimeout + MaxBackoff
      BY <1>0, <1>1, RestFacts
    <3>3. Rest(attempt[c] + 1) \in Nat /\ Budget \in Nat
      BY <3>2, RestFacts
    <3>4. QED
      BY <2>2, <2>3, <3>1, <3>2, <3>3
  <2>5. TypeOK'
    <3>1. /\ phase' \in [Calls -> Phases]
          /\ timer' \in [Calls -> Nat]
      BY <2>1, <2>2 DEF IInv, TypeOK, Phases
    <3>2. 0 \in 0..TotalTimeout
      BY TimeAssumption
    <3>3. /\ total' \in [Calls -> 0..TotalTimeout]
          /\ conn' \in [Calls -> Conns \cup {None}]
          /\ resp' \in [Calls -> Responses \cup {None}]
          /\ seen' \in [Calls -> Seq(Responses)]
      BY <2>1, <3>2 DEF IInv, TypeOK
    <3>4. QED
      BY <2>1, <3>1, <3>3 DEF IInv, TypeOK, shared, args
  <2>6. PoolsAgree'
    BY <2>1 DEF IInv, PoolsAgree, shared
  <2>7. PhasesAgree'
    BY <1>1, <2>1 DEF IInv, TypeOK, PhasesAgree, Exchanging, Astray, args
  <2>8. RepliesAgree'
    BY <1>1, <2>1 DEF IInv, TypeOK, RepliesAgree, Active
  <2>9. TimersAgree'
    BY <2>1, <2>4 DEF IInv, TypeOK, TimersAgree
  <2>10. QED
    BY <2>5, <2>6, <2>7, <2>8, <2>9 DEF IInv
<1>2. CASE ~(k = "Transient" /\ ip[c] # Loopback /\ attempt[c] < MaxRetries)
  <2>1. Return(c, Err(k)) /\ UNCHANGED <<shared, args, ip, attempt, spent>>
    BY <1>2 DEF AttemptFails, RetryIf
  <2>2. Err(k) \in Contract!Results
    BY DEF Err, Contract!Results
  <2>3. url' = [url EXCEPT ![c] = url[c]] /\ kind' = [kind EXCEPT ![c] = kind[c]] /\ kind[c] \in Kinds
    BY <2>1 DEF args, IInv, TypeOK
  <2>4. QED
    BY <1>0, <2>1, <2>2, <2>3, ReturnKeeps
<1>3. QED
  BY <1>1, <1>2

-----------------------------------------------------------------------------
(* Every action keeps the invariant.                                       *)

LEMMA BeginKeeps ==
  ASSUME IInv, NEW c \in Calls, NEW u \in Urls, NEW k \in Kinds, Begin(c, u, k)
  PROVE  IInv'
<1>1. /\ phase[c] = "idle" /\ spent[c] = 0 /\ seen[c] = << >> /\ Len(seen[c]) = 0
      /\ url' = [url EXCEPT ![c] = u] /\ kind' = [kind EXCEPT ![c] = k]
      /\ UNCHANGED <<seen, spent>>
  BY DEF Begin, IInv, PhasesAgree, RepliesAgree
<1>2. seen[c] \in Seq(Responses) /\ seen' = [seen EXCEPT ![c] = seen[c]]
  BY <1>1 DEF IInv, TypeOK
<1>3. CASE /\ Return(c, Err("Permanent"))
           /\ UNCHANGED <<shared, ip, attempt>>
  <2>1. Err("Permanent") \in Contract!Results
    BY DEF Err, Contract!Results, Contract!ErrorKinds
  <2>2. QED
    BY <1>1, <1>2, <1>3, <2>1, ReturnKeeps
<1>4. CASE /\ u \in SelfUrls \ ImageUrls
           /\ StartAttempt(c, k, Loopback, Loopback, 0)
           /\ UNCHANGED dnsCache
  <2>1. 0 \in 0..MaxRetries /\ 0 + TotalTimeout + Rest(0) <= Budget
    <3>1. DnsTimeout \in Nat /\ TotalTimeout \in Nat /\ MaxRetries \in Nat
      BY TimeAssumption
    <3>2. 0 \in 0..MaxRetries
      BY <3>1
    <3>3. Rest(0) \in Nat /\ Budget = DnsTimeout + TotalTimeout + Rest(0)
      BY <3>2, RestFacts
    <3>4. QED
      BY <3>1, <3>2, <3>3
  <2>2. u \in Urls \ InvalidUrls
    BY <1>4, UrlAssumption
  <2>3. /\ dnsCache' \in [Hosts -> Ips \cup {None}]
        /\ \A h \in Hosts : dnsCache'[h] \in PublicIps \cup {None}
    BY <1>4 DEF IInv, TypeOK, PoolsAgree
  <2>4. /\ Len(seen[c]) <= 0 /\ \A i \in 1..Len(seen[c]) : Contract!Retryable(seen[c][i])
        /\ spent[c] + TotalTimeout + Rest(0) <= Budget
    BY <1>1, <2>1
  <2>5. QED
    BY <1>1, <1>4, <2>1, <2>2, <2>3, <2>4, StartKeeps
<1>5. CASE /\ u \notin InvalidUrls \cup SelfUrls
           /\ phase' = [phase EXCEPT ![c] = "lookup"]
           /\ UNCHANGED <<shared, ip, conn, attempt, timer, total, resp, result>>
  <2>1. TypeOK'
    BY <1>1, <1>5 DEF IInv, TypeOK, Phases, shared
  <2>2. PoolsAgree'
    BY <1>5 DEF IInv, PoolsAgree, shared
  <2>3. PhasesAgree'
    BY <1>1, <1>5 DEF IInv, TypeOK, PhasesAgree, Exchanging, Astray
  <2>4. RepliesAgree'
    BY <1>1, <1>5 DEF IInv, TypeOK, RepliesAgree, Active
  <2>5. TimersAgree'
    BY <1>1, <1>5 DEF IInv, TypeOK, TimersAgree
  <2>6. QED
    BY <2>1, <2>2, <2>3, <2>4, <2>5 DEF IInv
<1>6. QED
  BY <1>3, <1>4, <1>5 DEF Begin

\* A call whose lookup is over starts its first attempt.
LEMMA FirstAttemptKeeps ==
  ASSUME IInv, NEW c \in Calls, phase[c] \in {"lookup", "caching"}, NEW addr \in PublicIps,
         StartAttempt(c, kind[c], HostOf[url[c]], addr, 0),
         UNCHANGED <<args, seen, spent>>,
         dnsCache' \in [Hosts -> Ips \cup {None}],
         \A h \in Hosts : dnsCache'[h] \in PublicIps \cup {None}
  PROVE  IInv'
<1>1. /\ url[c] \in Urls /\ url[c] \notin InvalidUrls \cup SelfUrls
      /\ HostOf[url[c]] \in Hosts /\ kind[c] \in Kinds
      /\ addr \in Ips
  BY UrlAssumption, IpAssumption DEF IInv, TypeOK, PhasesAgree
<1>2. url' = [url EXCEPT ![c] = url[c]] /\ kind' = [kind EXCEPT ![c] = kind[c]]
  BY DEF args, IInv, TypeOK
<1>3. seen[c] = << >> /\ Len(seen[c]) = 0 /\ phase[c] # "done"
  BY DEF IInv, RepliesAgree
<1>4. 0 \in 0..MaxRetries /\ spent[c] + TotalTimeout + Rest(0) <= Budget
  <2>1. DnsTimeout \in Nat /\ TotalTimeout \in Nat /\ MaxRetries \in Nat
    BY TimeAssumption
  <2>2. 0 \in 0..MaxRetries
    BY <2>1
  <2>3. Rest(0) \in Nat /\ Budget = DnsTimeout + TotalTimeout + Rest(0)
    BY <2>2, RestFacts
  <2>4. spent[c] \in Nat /\ spent[c] <= DnsTimeout
    BY <2>1 DEF IInv, TypeOK, TimersAgree
  <2>5. QED
    BY <2>1, <2>2, <2>3, <2>4
<1>5. Len(seen[c]) <= 0 /\ \A i \in 1..Len(seen[c]) : Contract!Retryable(seen[c][i])
  BY <1>3
<1>6. url[c] \in Urls \ InvalidUrls /\ url[c] \notin SelfUrls
  BY <1>1
<1>7. HostOf[url[c]] \in Hosts \cup {Loopback} /\ addr \in Ips \cup {Loopback}
  BY <1>1
<1>8. seen' = seen /\ spent' = spent
  OBVIOUS
<1>9. IF url[c] \in SelfUrls THEN addr = Loopback ELSE addr \in PublicIps
  BY <1>6
<1>10. url[c] \in SelfUrls => HostOf[url[c]] = Loopback
  BY <1>6
<1>11. /\ kind[c] \in Kinds /\ 0 \in 0..MaxRetries /\ phase[c] # "done"
       /\ spent[c] + TotalTimeout + Rest(0) <= Budget
  BY <1>1, <1>3, <1>4
<1>12. QED
  BY <1>2, <1>5, <1>6, <1>7, <1>8, <1>9, <1>10, <1>11, StartKeeps

LEMMA LookupKeeps ==
  ASSUME IInv, NEW c \in Calls,
         DnsHit(c) \/ DnsMiss(c) \/ DnsAnswers(c) \/ DnsFails(c) \/ DnsStore(c)
  PROVE  IInv'
<1>1. Err("Permanent") \in Contract!Results
  BY DEF Err, Contract!Results, Contract!ErrorKinds
<1>2. ASSUME Return(c, Err("Permanent")), phase[c] \in {"lookup", "resolving"},
             UNCHANGED <<shared, args, ip, attempt, seen, spent>>
      PROVE  IInv'
  <2>1. /\ url[c] \in Urls /\ kind[c] \in Kinds /\ seen[c] \in Seq(Responses)
        /\ url' = [url EXCEPT ![c] = url[c]] /\ kind' = [kind EXCEPT ![c] = kind[c]]
        /\ seen' = [seen EXCEPT ![c] = seen[c]]
    BY <1>2 DEF IInv, TypeOK, PhasesAgree, args
  <2>2. QED
    BY <1>1, <1>2, <2>1, ReturnKeeps
<1>3. CASE DnsHit(c)
  <2> DEFINE addr == dnsCache[HostOf[url[c]]]
  <2>1. CASE addr \in PublicIps
    <3>1. /\ dnsCache' \in [Hosts -> Ips \cup {None}]
          /\ \A h \in Hosts : dnsCache'[h] \in PublicIps \cup {None}
      BY <1>3, <2>1 DEF DnsHit, IInv, TypeOK, PoolsAgree
    <3>2. QED
      BY <1>3, <2>1, <3>1, FirstAttemptKeeps DEF DnsHit
  <2>2. CASE addr \notin PublicIps
    BY <1>2, <1>3, <2>2 DEF DnsHit
  <2>3. QED
    BY <2>1, <2>2
<1>4. CASE DnsMiss(c)
  <2>1. /\ phase[c] = "lookup" /\ phase' = [phase EXCEPT ![c] = "resolving"]
        /\ timer' = [timer EXCEPT ![c] = DnsTimeout]
        /\ UNCHANGED <<dns, dnsCache, clients, url, kind, ip, conn, attempt, total, resp, result, seen, spent>>
    BY <1>4 DEF DnsMiss, shared, args
  <2>2. DnsTimeout \in Nat /\ spent[c] = 0
    BY <2>1, TimeAssumption DEF IInv, TimersAgree
  <2>3. TypeOK'
    BY <2>1, <2>2 DEF IInv, TypeOK, Phases
  <2>4. PoolsAgree'
    BY <2>1 DEF IInv, PoolsAgree
  <2>5. PhasesAgree'
    BY <2>1 DEF IInv, TypeOK, PhasesAgree, Exchanging, Astray
  <2>6. RepliesAgree'
    BY <2>1 DEF IInv, TypeOK, RepliesAgree, Active
  <2>7. TimersAgree'
    BY <2>1, <2>2 DEF IInv, TypeOK, TimersAgree
  <2>8. QED
    BY <2>3, <2>4, <2>5, <2>6, <2>7 DEF IInv
<1>5. CASE DnsAnswers(c)
  <2> DEFINE addr == dns[HostOf[url[c]]]
  <2>1. CASE addr \notin PublicIps
    BY <1>2, <1>5, <2>1 DEF DnsAnswers
  <2>2. CASE addr \in PublicIps
    <3>1. /\ phase[c] = "resolving" /\ phase' = [phase EXCEPT ![c] = "caching"]
          /\ ip' = [ip EXCEPT ![c] = addr] /\ timer' = [timer EXCEPT ![c] = 0]
          /\ UNCHANGED <<dns, dnsCache, clients, url, kind, conn, attempt, total, resp, result, seen, spent>>
      BY <1>5, <2>2 DEF DnsAnswers, shared, args
    <3>2. addr \in Ips
      BY <2>2, IpAssumption
    <3> HIDE DEF addr
    <3>3. TypeOK'
      BY <3>1, <3>2 DEF IInv, TypeOK, Phases
    <3>4. PoolsAgree'
      BY <3>1 DEF IInv, PoolsAgree
    <3>5. PhasesAgree'
      BY <2>2, <3>1 DEF IInv, TypeOK, PhasesAgree, Exchanging, Astray
    <3>6. RepliesAgree'
      BY <3>1 DEF IInv, TypeOK, RepliesAgree, Active
    <3>7. spent[c] \in Nat /\ timer[c] \in Nat /\ DnsTimeout \in Nat /\ spent[c] <= DnsTimeout
      BY <3>1, TimeAssumption DEF IInv, TypeOK, TimersAgree
    <3>8. TimersAgree'
      BY <3>1, <3>7 DEF IInv, TypeOK, TimersAgree
    <3>9. QED
      BY <3>3, <3>4, <3>5, <3>6, <3>8 DEF IInv
  <2>3. QED
    BY <2>1, <2>2
<1>6. CASE DnsFails(c)
  BY <1>2, <1>6 DEF DnsFails
<1>7. CASE DnsStore(c)
  <2>1. phase[c] = "caching" /\ ip[c] \in PublicIps /\ ip[c] \in Ips
    BY <1>7, IpAssumption DEF DnsStore, IInv, PhasesAgree
  <2>2. dnsCache' = [dnsCache EXCEPT ![HostOf[url[c]]] = ip[c]]
    BY <1>7 DEF DnsStore
  <2>3. /\ dnsCache' \in [Hosts -> Ips \cup {None}]
        /\ \A h \in Hosts : dnsCache'[h] \in PublicIps \cup {None}
    BY <2>1, <2>2 DEF IInv, TypeOK, PoolsAgree
  <2>4. QED
    BY <1>7, <2>1, <2>3, FirstAttemptKeeps DEF DnsStore
<1>8. QED
  BY <1>3, <1>4, <1>5, <1>6, <1>7

\* The replies of a call whose exchange is under way, and the next one.
LEMMA RepliesSoFar ==
  ASSUME IInv, NEW c \in Calls, Exchanging(c)
  PROVE  /\ seen[c] \in Seq(Responses) /\ attempt[c] \in 0..MaxRetries
         /\ \A i \in 1..Len(seen[c]) : Contract!Retryable(seen[c][i])
         /\ Len(seen[c]) <= attempt[c] + 1
         /\ phase[c] = "sending" => Len(seen[c]) <= attempt[c]
         /\ url[c] \in Urls /\ kind[c] \in Kinds
         /\ seen = [seen EXCEPT ![c] = seen[c]]
         /\ url = [url EXCEPT ![c] = url[c]] /\ kind = [kind EXCEPT ![c] = kind[c]]
<1>1. seen[c] \in Seq(Responses) /\ attempt[c] \in 0..MaxRetries /\ MaxRetries \in Nat
  BY TimeAssumption DEF IInv, TypeOK
<1>2. Len(seen[c]) \in Nat
  BY <1>1
<1>3. /\ phase[c] = "sending" => Len(seen[c]) <= attempt[c]
      /\ phase[c] = "reading" => Len(seen[c]) <= attempt[c] + 1
  BY DEF IInv, RepliesAgree
<1>4. Len(seen[c]) <= attempt[c] + 1
  BY <1>1, <1>2, <1>3 DEF Exchanging
<1>5. \A i \in 1..Len(seen[c]) : Contract!Retryable(seen[c][i])
  BY DEF IInv, RepliesAgree, Active, Exchanging
<1>6. url[c] \in Urls /\ kind[c] \in Kinds
  BY DEF IInv, TypeOK, PhasesAgree, Exchanging, Astray
<1>7. /\ seen = [seen EXCEPT ![c] = seen[c]]
      /\ url = [url EXCEPT ![c] = url[c]] /\ kind = [kind EXCEPT ![c] = kind[c]]
  BY DEF IInv, TypeOK
<1>8. QED
  BY <1>1, <1>3, <1>4, <1>5, <1>6, <1>7

\* A retryable reply after retryable ones.
LEMMA OneMoreReply ==
  ASSUME NEW s \in Seq(Responses), NEW r \in Responses, NEW n \in Nat, Len(s) <= n,
         \A i \in 1..Len(s) : Contract!Retryable(s[i]), Contract!Retryable(r)
  PROVE  /\ Append(s, r) \in Seq(Responses) /\ Len(Append(s, r)) <= n + 1
         /\ Append(s, r) # << >> /\ Append(s, r)[Len(Append(s, r))] = r
         /\ \A i \in 1..Len(Append(s, r)) : Contract!Retryable(Append(s, r)[i])
<1>1. /\ Append(s, r) \in Seq(Responses) /\ Len(Append(s, r)) = Len(s) + 1 /\ Len(s) \in Nat
      /\ Append(s, r)[Len(s) + 1] = r /\ \A i \in 1..Len(s) : Append(s, r)[i] = s[i]
  OBVIOUS
<1>2. Append(s, r) # << >>
  BY <1>1
<1>3. ASSUME NEW i \in 1..Len(Append(s, r))
      PROVE  Contract!Retryable(Append(s, r)[i])
  <2>1. i \in 1..Len(s) \/ i = Len(s) + 1
    BY <1>1
  <2>2. QED
    BY <1>1, <2>1
<1>4. QED
  BY <1>1, <1>2, <1>3

\* What the head verdict can be, and which verdicts make a reply retryable.
LEMMA Verdicts ==
  ASSUME NEW r \in Responses
  PROVE  /\ Contract!HeadVerdict(r) \in Contract!ErrorKinds \cup {"read"}
         /\ Contract!HeadVerdict(r) \in {"Transient", "read"} => Contract!Retryable(r)
<1>1. r.status \in 100..599
  BY ResponseAssumption DEF Statuses
<1>2. Contract!IsSuccess(404) = FALSE
  BY DEF Contract!IsSuccess
<1>3. CASE r.status = 404
  BY <1>3 DEF Contract!HeadVerdict, Contract!ErrorKinds, Contract!Retryable
<1>4. CASE r.status # 404 /\ ~Contract!IsSuccess(r.status)
  BY <1>4 DEF Contract!HeadVerdict, Contract!ErrorKinds, Contract!Retryable
<1>5. CASE Contract!IsSuccess(r.status)
  <2>1. r.status # 404
    BY <1>2, <1>5
  <2>2. QED
    BY <1>5, <2>1 DEF Contract!HeadVerdict, Contract!ErrorKinds, Contract!Retryable
<1>6. QED
  BY <1>3, <1>4, <1>5

LEMMA HeadersKeep ==
  ASSUME IInv, NEW c \in Calls, NEW r \in Responses, Headers(c, r)
  PROVE  IInv'
<1>1. phase[c] = "sending" /\ Exchanging(c) /\ seen' = [seen EXCEPT ![c] = Append(seen[c], r)]
  BY DEF Headers, Exchanging
<1>2. /\ seen[c] \in Seq(Responses) /\ attempt[c] \in Nat /\ Len(seen[c]) <= attempt[c]
      /\ \A i \in 1..Len(seen[c]) : Contract!Retryable(seen[c][i])
  BY <1>1, RepliesSoFar, TimeAssumption
<1>3. Append(seen[c], r) \in Seq(Responses)
  BY <1>2
<1>4. CASE Contract!HeadVerdict(r) = "read"
  <2>1. /\ phase' = [phase EXCEPT ![c] = "reading"] /\ timer' = [timer EXCEPT ![c] = total[c]]
        /\ resp' = [resp EXCEPT ![c] = r]
        /\ UNCHANGED <<dns, dnsCache, clients, url, kind, ip, conn, attempt, total, result, spent>>
    BY <1>4 DEF Headers, shared, args
  <2>2. Contract!Retryable(r)
    BY <1>4, Verdicts
  <2> DEFINE s == Append(seen[c], r)
  <2>3. /\ s \in Seq(Responses) /\ Len(s) <= attempt[c] + 1 /\ s # << >> /\ s[Len(s)] = r
        /\ \A i \in 1..Len(s) : Contract!Retryable(s[i])
    BY <1>2, <2>2, OneMoreReply
  <2> HIDE DEF s
  <2>4. seen' = [seen EXCEPT ![c] = s]
    BY <1>1 DEF s
  <2>5. total[c] \in Nat
    BY TimeAssumption DEF IInv, TypeOK
  <2>6. TypeOK'
    BY <2>1, <2>3, <2>4, <2>5 DEF IInv, TypeOK, Phases
  <2>7. PoolsAgree'
    BY <2>1 DEF IInv, PoolsAgree
  <2>8. PhasesAgree'
    BY <1>1, <2>1 DEF IInv, TypeOK, PhasesAgree, Exchanging, Astray
  <2>9. RepliesAgree'
    BY <1>4, <2>1, <2>3, <2>4 DEF IInv, TypeOK, RepliesAgree, Active
  <2>10. TimersAgree'
    BY <1>1, <2>1, <2>5 DEF IInv, TypeOK, TimersAgree
  <2>11. QED
    BY <2>6, <2>7, <2>8, <2>9, <2>10 DEF IInv
<1>5. CASE Contract!HeadVerdict(r) # "read"
  <2> DEFINE k == Contract!HeadVerdict(r)
  <2>1. AttemptFails(c, k) /\ k \in Contract!ErrorKinds /\ (k = "Transient" => Contract!Retryable(r))
    BY <1>5, Verdicts DEF Headers
  <2> HIDE DEF k
  <2>2. k = "Transient" =>
          /\ Len(Append(seen[c], r)) <= attempt[c] + 1
          /\ \A i \in 1..Len(Append(seen[c], r)) : Contract!Retryable(Append(seen[c], r)[i])
    BY <1>2, <2>1, OneMoreReply
  <2>3. QED
    BY <1>1, <1>3, <2>1, <2>2, FailKeeps
<1>6. QED
  BY <1>4, <1>5

\* The other ends of an exchange leave the replies as they are.
LEMMA ExchangeEnds ==
  ASSUME IInv, NEW c \in Calls,
         \/ \E k \in Contract!ErrorKinds : SendFails(c, k)
         \/ SendTimesOut(c) \/ Body(c) \/ BodyFails(c)
  PROVE  IInv'
<1>1. Exchanging(c) /\ UNCHANGED seen
  BY DEF Exchanging, SendFails, SendTimesOut, Body, BodyFails
<1>2. /\ seen[c] \in Seq(Responses) /\ Len(seen[c]) <= attempt[c] + 1
      /\ \A i \in 1..Len(seen[c]) : Contract!Retryable(seen[c][i])
      /\ seen' = [seen EXCEPT ![c] = seen[c]]
  BY <1>1, RepliesSoFar
<1>3. CASE \E k \in Contract!ErrorKinds : AttemptFails(c, k)
  BY <1>1, <1>2, <1>3, FailKeeps
<1>4. CASE /\ phase[c] = "reading"
           /\ Return(c, Ok(resp[c].content))
           /\ UNCHANGED <<shared, args, ip, attempt, spent>>
  <2>1. resp[c].content \in Contents
    BY <1>4, ResponseAssumption DEF IInv, RepliesAgree
  <2>2. Ok(resp[c].content) \in Contract!Results
    BY <2>1 DEF Ok, Contract!Results
  <2>3. /\ url[c] \in Urls /\ kind[c] \in Kinds
        /\ url' = [url EXCEPT ![c] = url[c]] /\ kind' = [kind EXCEPT ![c] = kind[c]]
    BY <1>1, <1>4, RepliesSoFar DEF args
  <2>4. QED
    BY <1>2, <1>4, <2>2, <2>3, ReturnKeeps
<1>5. QED
  BY <1>3, <1>4 DEF SendFails, SendTimesOut, Body, BodyFails, Contract!ErrorKinds

\* A redirect moves its own exchange only, and says so.
LEMMA RedirectKeeps ==
  ASSUME IInv, NEW c \in Calls, NEW addr \in Ips \cup {Loopback}, Redirect(c, addr)
  PROVE  IInv'
<1>1. /\ phase[c] = "sending" /\ url[c] \notin SelfUrls /\ conn[c].hops < MaxRedirects
      /\ conn' = [conn EXCEPT ![c].at = addr, ![c].hops = @ + 1]
      /\ UNCHANGED <<dns, dnsCache, clients, phase, url, kind, ip, attempt, timer, total, resp,
                     result, seen, spent>>
  BY DEF Redirect, shared, args
<1>2. conn[c] \in Conns /\ conn[c].pin \in {ip[c], Unpinned}
  BY <1>1 DEF IInv, PhasesAgree, Exchanging
<1>3. PICK pin \in Ips \cup {Loopback, Unpinned}, at \in Ips \cup {Loopback}, hops \in 0..MaxRedirects :
        conn[c] = [pin |-> pin, at |-> at, hops |-> hops]
  BY <1>2 DEF Conns
<1>4. hops + 1 \in 0..MaxRedirects /\ hops + 1 > 0
  <2>1. conn[c].hops = hops
    BY <1>3
  <2>2. QED
    BY <1>1, <2>1, TimeAssumption
<1>5. conn'[c] = [pin |-> pin, at |-> addr, hops |-> hops + 1] /\ conn'[c] \in Conns
  <2>1. conn' = [conn EXCEPT ![c] = [pin |-> pin, at |-> addr, hops |-> hops + 1]]
    BY <1>1, <1>3 DEF IInv, TypeOK
  <2>2. conn'[c] = [pin |-> pin, at |-> addr, hops |-> hops + 1]
    BY <2>1 DEF IInv, TypeOK
  <2>3. QED
    BY <1>4, <2>2 DEF Conns
<1>6. \A d \in Calls \ {c} : conn'[d] = conn[d]
  BY <1>1 DEF IInv, TypeOK
<1>7. conn' \in [Calls -> Conns \cup {None}]
  BY <1>1, <1>5, <1>6 DEF IInv, TypeOK
<1>8. TypeOK'
  BY <1>1, <1>7 DEF IInv, TypeOK
<1>9. PoolsAgree' /\ RepliesAgree' /\ TimersAgree'
  BY <1>1 DEF IInv, PoolsAgree, RepliesAgree, TimersAgree, Active
<1>10. PhasesAgree'
  <2>1. Astray(c)' /\ conn'[c].pin = conn[c].pin
    BY <1>1, <1>3, <1>4, <1>5 DEF Astray
  <2>2. \A d \in Calls \ {c} : Astray(d)' = Astray(d)
    BY <1>1, <1>6 DEF Astray
  <2>3. QED
    BY <1>1, <1>2, <1>5, <1>6, <2>1, <2>2 DEF IInv, PhasesAgree, Exchanging
<1>11. QED
  BY <1>8, <1>9, <1>10 DEF IInv

LEMMA RetryKeeps ==
  ASSUME IInv, NEW c \in Calls, Retry(c)
  PROVE  IInv'
<1> DEFINE n == attempt[c] + 1
<1>1. /\ phase[c] = "sleeping" /\ StartAttempt(c, kind[c], HostOf[url[c]], ip[c], n)
      /\ UNCHANGED <<dnsCache, args, seen, spent>>
  BY DEF Retry
<1>2. /\ url[c] \in Urls \ InvalidUrls /\ ip[c] \in PublicIps /\ url[c] \notin SelfUrls
      /\ attempt[c] < MaxRetries
  BY <1>1 DEF IInv, PhasesAgree
<1>3. /\ HostOf[url[c]] \in Hosts /\ ip[c] \in Ips /\ kind[c] \in Kinds
      /\ url' = [url EXCEPT ![c] = url[c]] /\ kind' = [kind EXCEPT ![c] = kind[c]]
  BY <1>1, <1>2, UrlAssumption, IpAssumption DEF IInv, TypeOK, args
<1>4. n \in 0..MaxRetries
  BY <1>2, TimeAssumption DEF IInv, TypeOK
<1>5. Len(seen[c]) <= n /\ \A i \in 1..Len(seen[c]) : Contract!Retryable(seen[c][i])
  BY <1>1 DEF IInv, RepliesAgree, Active
<1>6. spent[c] + TotalTimeout + Rest(n) <= Budget
  <2>1. spent[c] + timer[c] + TotalTimeout + Rest(n) <= Budget
    BY <1>1 DEF IInv, TimersAgree
  <2>2. spent[c] \in Nat /\ timer[c] \in Nat /\ TotalTimeout \in Nat
    BY TimeAssumption DEF IInv, TypeOK
  <2>3. Rest(n) \in Nat /\ Budget \in Nat
    BY <1>4, RestFacts
  <2> HIDE DEF n
  <2>4. QED
    BY <2>1, <2>2, <2>3
<1>7. /\ dnsCache' \in [Hosts -> Ips \cup {None}]
      /\ \A h \in Hosts : dnsCache'[h] \in PublicIps \cup {None}
  BY <1>1 DEF IInv, TypeOK, PoolsAgree
<1>8. HostOf[url[c]] \in Hosts \cup {Loopback} /\ ip[c] \in Ips \cup {Loopback}
  BY <1>3
<1>9. /\ IF url[c] \in SelfUrls THEN ip[c] = Loopback ELSE ip[c] \in PublicIps
      /\ url[c] \in SelfUrls => HostOf[url[c]] = Loopback
  BY <1>2
<1>10. seen' = seen /\ spent' = spent /\ phase[c] # "done"
  BY <1>1
<1> HIDE DEF n
<1>11. QED
  BY <1>1, <1>2, <1>3, <1>4, <1>5, <1>6, <1>7, <1>8, <1>9, <1>10, StartKeeps

LEMMA AbandonKeeps ==
  ASSUME IInv, NEW c \in Calls, Abandon(c)
  PROVE  IInv'
<1>1. /\ Active(c) /\ Return(c, None)
      /\ UNCHANGED <<shared, args, ip, attempt, seen, spent>>
  BY DEF Abandon
<1>2. /\ url[c] \in Urls /\ kind[c] \in Kinds /\ seen[c] \in Seq(Responses)
      /\ url' = [url EXCEPT ![c] = url[c]] /\ kind' = [kind EXCEPT ![c] = kind[c]]
      /\ seen' = [seen EXCEPT ![c] = seen[c]]
  BY <1>1 DEF IInv, TypeOK, PhasesAgree, Active, args
<1>3. QED
  BY <1>1, <1>2, ReturnKeeps

\* The world changes shared state only: no call's own part is disturbed.
LEMMA WorldKeeps ==
  ASSUME IInv,
         \/ \E h \in Hosts, addr \in Ips : Rebind(h, addr)
         \/ \E h \in Hosts : ExpireDns(h)
         \/ \E k \in PinKeys : EvictClient(k)
         \/ UNCHANGED vars
  PROVE  IInv'
<1>1. UNCHANGED <<others, timer, total, spent>>
  BY DEF Rebind, ExpireDns, EvictClient, vars, others
<1>2. /\ dns' \in [Hosts -> Ips] /\ dnsCache' \in [Hosts -> Ips \cup {None}]
      /\ clients' \in [PinKeys -> Ips \cup {Loopback, Unpinned, None}]
  BY DEF IInv, TypeOK, Rebind, ExpireDns, EvictClient, vars, shared
<1>3. /\ \A h \in Hosts : dnsCache'[h] \in {dnsCache[h], None}
      /\ \A k \in PinKeys : clients'[k] \in {clients[k], None}
  BY DEF IInv, TypeOK, Rebind, ExpireDns, EvictClient, vars, shared
<1>4. \A h \in Hosts \cup {Loopback}, a \in Ips \cup {Loopback} : PinKey(h, a) \in PinKeys
  BY DEF PinKeys
<1>5. TypeOK'
  BY <1>1, <1>2 DEF IInv, TypeOK, others, args
<1>6. PoolsAgree'
  BY <1>3, <1>4 DEF IInv, PoolsAgree
<1>7. PhasesAgree'
  BY <1>1 DEF IInv, PhasesAgree, Exchanging, Astray, others, args
<1>8. RepliesAgree'
  BY <1>1 DEF IInv, RepliesAgree, Active, others, args
<1>9. TimersAgree'
  BY <1>1 DEF IInv, TimersAgree, others, args
<1>10. QED
  BY <1>5, <1>6, <1>7, <1>8, <1>9 DEF IInv

\* A tick takes from every running timer what it adds to the time spent.
LEMMA TickKeeps ==
  ASSUME IInv, Tick
  PROVE  IInv'
<1>1. /\ \A c \in Calls : Active(c) => timer[c] > 0
      /\ timer' = [c \in Calls |-> IF Active(c) THEN timer[c] - 1 ELSE timer[c]]
      /\ total' = [c \in Calls |-> IF total[c] > 0 THEN total[c] - 1 ELSE 0]
      /\ spent' = [c \in Calls |-> IF Active(c) THEN spent[c] + 1 ELSE spent[c]]
      /\ UNCHANGED <<dns, dnsCache, clients, phase, url, kind, ip, conn, attempt, resp, result, seen>>
  BY DEF Tick, shared, others, args
<1>2. \A c \in Calls : /\ timer[c] \in Nat /\ spent[c] \in Nat /\ total[c] \in Nat
                       /\ total[c] <= TotalTimeout
                       /\ attempt[c] \in 0..MaxRetries /\ phase[c] \in Phases
  BY TimeAssumption DEF IInv, TypeOK
<1>3. TypeOK'
  <2>1. timer' \in [Calls -> Nat] /\ spent' \in [Calls -> Nat]
    BY <1>1, <1>2
  <2>2. total' \in [Calls -> 0..TotalTimeout]
    BY <1>1, <1>2, TimeAssumption
  <2>3. QED
    BY <1>1, <2>1, <2>2 DEF IInv, TypeOK
<1>4. PoolsAgree'
  BY <1>1 DEF IInv, PoolsAgree
<1>5. PhasesAgree'
  BY <1>1 DEF IInv, PhasesAgree, Exchanging, Astray, Active
<1>6. RepliesAgree'
  BY <1>1 DEF IInv, RepliesAgree, Active
<1>7. TimersAgree'
  <2>1. DnsTimeout \in Nat /\ TotalTimeout \in Nat /\ Budget \in Nat /\ DnsTimeout <= Budget
    <3>1. DnsTimeout \in Nat /\ TotalTimeout \in Nat /\ 0 \in 0..MaxRetries
      BY TimeAssumption
    <3>2. Rest(0) \in Nat /\ Budget = DnsTimeout + TotalTimeout + Rest(0)
      BY <3>1, RestFacts
    <3>3. QED
      BY <3>1, <3>2
  <2>2. SUFFICES ASSUME NEW c \in Calls
                 PROVE
    /\ phase[c] \in {"idle", "lookup", "caching"} => timer'[c] = 0
    /\ phase[c] \in {"idle", "lookup"} => spent'[c] = 0
    /\ phase[c] = "resolving" => spent'[c] + timer'[c] <= DnsTimeout
    /\ phase[c] = "caching" => spent'[c] <= DnsTimeout
    /\ phase[c] = "sending" =>
         timer'[c] <= total'[c] /\ spent'[c] + total'[c] + Rest(attempt[c]) <= Budget
    /\ phase[c] = "reading" => spent'[c] + timer'[c] + Rest(attempt[c]) <= Budget
    /\ phase[c] = "sleeping" =>
         spent'[c] + timer'[c] + TotalTimeout + Rest(attempt[c] + 1) <= Budget
    /\ spent'[c] <= Budget
    BY <1>1 DEF TimersAgree, Rest, Budget
  <2>3. CASE ~Active(c)
    BY <1>1, <1>2, <2>3 DEF IInv, TimersAgree, Active
  <2>4. CASE Active(c)
    <3>1. /\ timer[c] > 0 /\ timer'[c] = timer[c] - 1 /\ spent'[c] = spent[c] + 1
          /\ (total[c] > 0 => total'[c] = total[c] - 1)
          /\ phase[c] \in {"resolving", "sending", "reading", "sleeping"}
      BY <1>1, <1>2, <2>4 DEF IInv, TimersAgree, Active, Phases
    <3>2. CASE phase[c] = "resolving"
      BY <1>2, <2>1, <3>1, <3>2 DEF IInv, TimersAgree
    <3>3. CASE phase[c] \in {"sending", "reading"}
      <4>1. Rest(attempt[c]) \in Nat
        BY <1>2, RestFacts
      <4>2. QED
        BY <1>2, <2>1, <3>1, <3>3, <4>1 DEF IInv, TimersAgree
    <3>4. CASE phase[c] = "sleeping"
      <4>1. Rest(attempt[c] + 1) \in Nat
        <5>1. attempt[c] < MaxRetries
          BY <3>4 DEF IInv, PhasesAgree
        <5>2. QED
          BY <1>2, <5>1, RestFacts
      <4>2. QED
        BY <1>2, <2>1, <3>1, <3>4, <4>1 DEF IInv, TimersAgree
    <3>5. QED
      BY <3>1, <3>2, <3>3, <3>4
  <2>5. QED
    BY <2>3, <2>4
<1>8. QED
  BY <1>3, <1>4, <1>5, <1>6, <1>7 DEF IInv

LEMMA NextKeeps == IInv /\ [Next]_vars => IInv'
<1> SUFFICES ASSUME IInv, [Next]_vars PROVE IInv'
  OBVIOUS
<1>1. CASE \E c \in Calls, u \in Urls, k \in Kinds : Begin(c, u, k)
  BY <1>1, BeginKeeps
<1>2. CASE \E c \in Calls : Step(c)
  BY <1>2, LookupKeeps, HeadersKeep, RedirectKeeps, ExchangeEnds, RetryKeeps DEF Step
<1>3. CASE \E c \in Calls : Abandon(c)
  BY <1>3, AbandonKeeps
<1>4. CASE \/ \E h \in Hosts, addr \in Ips : Rebind(h, addr)
           \/ \E h \in Hosts : ExpireDns(h)
           \/ \E k \in PinKeys : EvictClient(k)
           \/ UNCHANGED vars
  BY <1>4, WorldKeeps
<1>5. CASE Tick
  BY <1>5, TickKeeps
<1>6. QED
  BY <1>1, <1>2, <1>3, <1>4, <1>5 DEF Next

-----------------------------------------------------------------------------
\* The invariant that carries the others: pools, phases, replies and timers of
\* every call agree with each other at any moment (fetch_image,
\* get_pinned_client and DnsResolver::lookup together).
THEOREM Inductive == Spec => []IInv
<1>1. QED
  BY InitInv, NextKeeps, PTL DEF Spec

\* The state of the fetcher keeps its types: in particular the attempt counter
\* never passes FETCH_MAX_RETRIES.
THEOREM TypeCorrect == Spec => []TypeOK
<1>1. IInv => TypeOK
  BY DEF IInv
<1>2. QED
  BY <1>1, Inductive, PTL

\* A call settles on an address it has checked, and only a redirect or the
\* unpinned client takes an exchange of a foreign URL elsewhere, for any number
\* of hosts, addresses, calls, redirects and changes of the records.
THEOREM AddressesCorrect == Spec => []AddressChecked
<1>1. IInv => AddressChecked
  BY DEF IInv, PhasesAgree, AddressChecked, Exchanging
<1>2. QED
  BY <1>1, Inductive, PTL

\* A call outlives neither its timeouts nor its backoffs, whatever their values.
THEOREM BudgetKept == Spec => []EndsInBudget
<1>1. IInv => EndsInBudget
  BY DEF IInv, TimersAgree, EndsInBudget
<1>2. QED
  BY <1>1, Inductive, PTL

\* The retries of a call go where its first attempt went: nothing that happens
\* between two attempts moves the address of a call that has one.
THEOREM OneAddress == Spec => OneAddressPerCall
<1>1. ASSUME IInv, [Next]_vars
      PROVE  [\A c \in Calls : Exchanging(c) \/ phase[c] = "sleeping" => ip'[c] = ip[c]]_vars
  <2>1. ASSUME NEW c \in Calls, Exchanging(c) \/ phase[c] = "sleeping", Next
        PROVE  ip'[c] = ip[c]
    <3>1. ip \in [Calls -> Ips \cup {Loopback, None}]
      BY <1>1 DEF IInv, TypeOK
    <3>2. ASSUME NEW d \in Calls, NEW u \in Urls, NEW k \in Kinds, Begin(d, u, k)
          PROVE  ip'[c] = ip[c]
      BY <2>1, <3>1, <3>2 DEF Begin, StartAttempt, Exchanging
    <3>3. ASSUME NEW d \in Calls, DnsHit(d) \/ DnsMiss(d) \/ DnsAnswers(d) \/ DnsFails(d)
          PROVE  ip'[c] = ip[c]
      BY <2>1, <3>1, <3>3 DEF DnsHit, DnsMiss, DnsAnswers, DnsFails, StartAttempt, Exchanging
    <3>4. ASSUME NEW d \in Calls, DnsStore(d) \/ Retry(d)
          PROVE  ip'[c] = ip[c]
      BY <2>1, <3>1, <3>4 DEF DnsStore, Retry, StartAttempt, Exchanging
    <3>5. ASSUME NEW d \in Calls,
                 \/ \E r \in Responses : Headers(d, r)
                 \/ \E k \in Contract!ErrorKinds : SendFails(d, k)
                 \/ \E addr \in Ips \cup {Loopback} : Redirect(d, addr)
                 \/ SendTimesOut(d) \/ Body(d) \/ BodyFails(d) \/ Abandon(d)
          PROVE  ip'[c] = ip[c]
      BY <3>5 DEF Headers, Redirect, SendFails, SendTimesOut, Body, BodyFails, Abandon, AttemptFails, RetryIf
    <3>6. ASSUME \/ \E h \in Hosts, addr \in Ips : Rebind(h, addr)
                 \/ \E h \in Hosts : ExpireDns(h)
                 \/ \E k \in PinKeys : EvictClient(k)
                 \/ Tick
          PROVE  ip'[c] = ip[c]
      BY <3>6 DEF Rebind, ExpireDns, EvictClient, Tick, others
    <3>7. QED
      BY <2>1, <3>2, <3>3, <3>4, <3>5, <3>6 DEF Next, Step
  <2>2. QED
    BY <1>1, <2>1
<1>2. QED
  BY <1>1, Inductive, PTL DEF Spec, OneAddressPerCall

-----------------------------------------------------------------------------
(* No call starts over.                                                    *)

LEMMA Unmoved ==
  ASSUME TypeOK, NEW c \in Calls,
         phase'[c] = phase[c], attempt'[c] = attempt[c], timer'[c] = timer[c]
  PROVE  GoesOn(c)
BY DEF GoesOn, TypeOK

LEMMA ReturnGoesOn ==
  ASSUME TypeOK, NEW c \in Calls, phase[c] # "done", NEW res, Return(c, res), UNCHANGED attempt,
         NEW d \in Calls
  PROVE  GoesOn(d)
<1>1. CASE d = c
  <2>1. phase[c] \in Phases \ {"done"} /\ phase'[c] = "done" /\ attempt'[c] = attempt[c]
    BY DEF Return, TypeOK
  <2>2. PhaseRank(phase[c]) < PhaseRank(phase'[c])
    BY <2>1 DEF PhaseRank, Phases
  <2>3. QED
    BY <1>1, <2>1, <2>2 DEF GoesOn
<1>2. CASE d # c
  BY <1>2, Unmoved DEF Return, TypeOK
<1>3. QED
  BY <1>1, <1>2

LEMMA StartGoesOn ==
  ASSUME TypeOK, NEW c \in Calls, NEW k, NEW host, NEW addr, NEW n, StartAttempt(c, k, host, addr, n),
         \/ phase[c] \in {"idle", "lookup", "resolving", "caching"} /\ n = attempt[c]
         \/ phase[c] = "sleeping" /\ n = attempt[c] + 1,
         NEW d \in Calls
  PROVE  GoesOn(d)
<1>1. CASE d = c
  <2>1. phase'[c] = "sending" /\ attempt'[c] = n
    BY DEF StartAttempt, TypeOK
  <2>2. CASE phase[c] = "sleeping" /\ n = attempt[c] + 1
    <3>1. attempt[c] \in 0..MaxRetries /\ MaxRetries \in Nat
      BY TimeAssumption DEF TypeOK
    <3>2. attempt[c] < attempt'[c]
      BY <2>1, <2>2, <3>1
    <3>3. QED
      BY <1>1, <2>2, <3>2 DEF GoesOn
  <2>3. CASE phase[c] \in {"idle", "lookup", "resolving", "caching"} /\ n = attempt[c]
    <3>1. PhaseRank(phase[c]) < PhaseRank(phase'[c])
      BY <2>1, <2>3 DEF PhaseRank
    <3>2. QED
      BY <1>1, <2>1, <2>3, <3>1 DEF GoesOn
  <2>4. QED
    BY <2>2, <2>3
<1>2. CASE d # c
  BY <1>2, Unmoved DEF StartAttempt, TypeOK
<1>3. QED
  BY <1>1, <1>2

\* A call that waits for something else than before waits for what comes later.
LEMMA WaitGoesOn ==
  ASSUME TypeOK, NEW c \in Calls, NEW p \in Phases, phase' = [phase EXCEPT ![c] = p],
         PhaseRank(phase[c]) < PhaseRank(p), UNCHANGED attempt,
         \A d \in Calls \ {c} : timer'[d] = timer[d],
         NEW d \in Calls
  PROVE  GoesOn(d)
<1>1. CASE d = c
  BY <1>1 DEF GoesOn, TypeOK
<1>2. CASE d # c
  BY <1>2, Unmoved DEF TypeOK
<1>3. QED
  BY <1>1, <1>2

LEMMA FailGoesOn ==
  ASSUME TypeOK, NEW c \in Calls, Exchanging(c), NEW k, AttemptFails(c, k), NEW d \in Calls
  PROVE  GoesOn(d)
<1>1. CASE k = "Transient" /\ ip[c] # Loopback /\ attempt[c] < MaxRetries
  <2>1. /\ phase' = [phase EXCEPT ![c] = "sleeping"]
        /\ timer' = [timer EXCEPT ![c] = Backoff[attempt[c]]]
        /\ UNCHANGED attempt
    BY <1>1 DEF AttemptFails, RetryIf
  <2>2. PhaseRank(phase[c]) < PhaseRank("sleeping") /\ "sleeping" \in Phases
    BY DEF Exchanging, PhaseRank, Phases
  <2>3. \A e \in Calls \ {c} : timer'[e] = timer[e]
    BY <2>1 DEF TypeOK
  <2>4. QED
    BY <2>1, <2>2, <2>3, WaitGoesOn
<1>2. CASE ~(k = "Transient" /\ ip[c] # Loopback /\ attempt[c] < MaxRetries)
  <2>1. Return(c, Err(k)) /\ UNCHANGED attempt
    BY <1>2 DEF AttemptFails, RetryIf
  <2>2. QED
    BY <2>1, ReturnGoesOn DEF Exchanging
<1>3. QED
  BY <1>1, <1>2

LEMMA BeginGoesOn ==
  ASSUME IInv, NEW c \in Calls, NEW u \in Urls, NEW k \in Kinds, Begin(c, u, k), NEW d \in Calls
  PROVE  GoesOn(d)
<1>1. phase[c] = "idle" /\ attempt[c] = 0 /\ TypeOK
  BY DEF Begin, IInv, PhasesAgree
<1>2. CASE Return(c, Err("Permanent")) /\ UNCHANGED attempt
  BY <1>1, <1>2, ReturnGoesOn
<1>3. CASE StartAttempt(c, k, Loopback, Loopback, 0)
  BY <1>1, <1>3, StartGoesOn
<1>4. CASE phase' = [phase EXCEPT ![c] = "lookup"] /\ UNCHANGED <<attempt, timer>>
  <2>1. PhaseRank(phase[c]) < PhaseRank("lookup") /\ "lookup" \in Phases
    BY <1>1 DEF PhaseRank, Phases
  <2>2. QED
    BY <1>1, <1>4, <2>1, WaitGoesOn
<1>5. QED
  BY <1>2, <1>3, <1>4 DEF Begin

LEMMA StepGoesOn ==
  ASSUME IInv, NEW c \in Calls, Step(c) \/ Abandon(c), NEW d \in Calls
  PROVE  GoesOn(d)
<1>0. /\ TypeOK
      /\ phase[c] \in {"lookup", "resolving", "caching"} => attempt[c] = 0
  BY DEF IInv, PhasesAgree
<1>1. CASE DnsHit(c)
  <2>1. \/ StartAttempt(c, kind[c], HostOf[url[c]], dnsCache[HostOf[url[c]]], 0)
        \/ Return(c, Err("Permanent")) /\ UNCHANGED attempt
    BY <1>1 DEF DnsHit
  <2>2. phase[c] = "lookup" /\ attempt[c] = 0
    BY <1>0, <1>1 DEF DnsHit
  <2>3. QED
    BY <1>0, <2>1, <2>2, StartGoesOn, ReturnGoesOn
<1>2. CASE DnsMiss(c)
  <2>1. PhaseRank(phase[c]) < PhaseRank("resolving") /\ "resolving" \in Phases
    BY <1>2 DEF DnsMiss, PhaseRank, Phases
  <2>2. QED
    BY <1>0, <1>2, <2>1, WaitGoesOn DEF DnsMiss, TypeOK
<1>3. CASE DnsAnswers(c)
  <2>1. CASE dns[HostOf[url[c]]] \in PublicIps
    <3>1. PhaseRank(phase[c]) < PhaseRank("caching") /\ "caching" \in Phases
      BY <1>3 DEF DnsAnswers, PhaseRank, Phases
    <3>2. QED
      BY <1>0, <1>3, <2>1, <3>1, WaitGoesOn DEF DnsAnswers, TypeOK
  <2>2. CASE dns[HostOf[url[c]]] \notin PublicIps
    BY <1>0, <1>3, <2>2, ReturnGoesOn DEF DnsAnswers
  <2>3. QED
    BY <2>1, <2>2
<1>4. CASE DnsFails(c) \/ Abandon(c)
  BY <1>0, <1>4, ReturnGoesOn DEF DnsFails, Abandon, Active
<1>5. CASE DnsStore(c)
  BY <1>0, <1>5, StartGoesOn DEF DnsStore
<1>6. ASSUME NEW r \in Responses, Headers(c, r)
      PROVE  GoesOn(d)
  <2>1. phase[c] = "sending" /\ Exchanging(c)
    BY <1>6 DEF Headers, Exchanging
  <2>2. CASE Contract!HeadVerdict(r) = "read"
    <3>1. PhaseRank(phase[c]) < PhaseRank("reading") /\ "reading" \in Phases
      BY <2>1 DEF PhaseRank, Phases
    <3>2. QED
      BY <1>0, <1>6, <2>2, <3>1, WaitGoesOn DEF Headers, TypeOK
  <2>3. CASE Contract!HeadVerdict(r) # "read"
    BY <1>0, <1>6, <2>1, <2>3, FailGoesOn DEF Headers
  <2>4. QED
    BY <2>2, <2>3
<1>7. CASE (\E k \in Contract!ErrorKinds : SendFails(c, k)) \/ SendTimesOut(c) \/ BodyFails(c)
  BY <1>0, <1>7, FailGoesOn DEF SendFails, SendTimesOut, BodyFails, Exchanging
<1>8. CASE Body(c)
  <2>1. Exchanging(c) /\ phase[c] # "done"
    BY <1>8 DEF Body, Exchanging
  <2>2. \/ Return(c, Ok(resp[c].content)) /\ UNCHANGED attempt
        \/ AttemptFails(c, "Permanent")
    BY <1>8 DEF Body
  <2>3. QED
    BY <1>0, <2>1, <2>2, ReturnGoesOn, FailGoesOn
<1>9. CASE Retry(c)
  BY <1>0, <1>9, StartGoesOn DEF Retry
<1>10. CASE \E addr \in Ips \cup {Loopback} : Redirect(c, addr)
  BY <1>0, <1>10, Unmoved DEF Redirect
<1>11. QED
  BY <1>1, <1>2, <1>3, <1>4, <1>5, <1>6, <1>7, <1>8, <1>9, <1>10 DEF Step

\* A call of fetch_image only ever goes on, for any timeouts and backoffs and
\* any number of calls: what remains of its attempts, of the phases of the
\* attempt and of its timer shrinks in this order with each of its steps.
THEOREM NoCallStartsOver == Spec => CallsGoOn
<1>1. ASSUME IInv, [Next]_vars, NEW d \in Calls
      PROVE  GoesOn(d)
  <2>1. CASE \E c \in Calls, u \in Urls, k \in Kinds : Begin(c, u, k)
    BY <1>1, <2>1, BeginGoesOn
  <2>2. CASE \E c \in Calls : Step(c) \/ Abandon(c)
    BY <1>1, <2>2, StepGoesOn
  <2>3. CASE \/ \E h \in Hosts, addr \in Ips : Rebind(h, addr)
             \/ \E h \in Hosts : ExpireDns(h)
             \/ \E k \in PinKeys : EvictClient(k)
             \/ UNCHANGED vars
    BY <1>1, <2>3, Unmoved DEF Rebind, ExpireDns, EvictClient, others, vars, IInv
  <2>4. CASE Tick
    <3>1. timer[d] \in Nat /\ timer'[d] \in {timer[d], timer[d] - 1}
      BY <1>1, <2>4 DEF Tick, IInv, TypeOK
    <3>2. QED
      BY <2>4, <3>1 DEF Tick, others, GoesOn
  <2>5. QED
    BY <1>1, <2>1, <2>2, <2>3, <2>4 DEF Next
<1>2. IInv /\ [Next]_vars => [\A c \in Calls : GoesOn(c)]_vars
  BY <1>1
<1>3. QED
  BY <1>2, Inductive, PTL DEF Spec, CallsGoOn

-----------------------------------------------------------------------------
(* Fetch implements FetchContract.                                         *)

\* A call concludes with a result that has its cause, or goes on.
LEMMA Concludes ==
  ASSUME IInv, NEW c \in Calls, NEW res \in Contract!Results \cup {None},
         result' = [result EXCEPT ![c] = res],
         res # None => Contract!HasCause(res, seen'[c])
  PROVE  Contract!Conclude(c)
<1>1. result'[c] = res
  BY DEF IInv, TypeOK
<1>2. result' = [result EXCEPT ![c] = result'[c]]
  BY <1>1
<1>3. QED
  BY <1>1, <1>2 DEF Contract!Conclude

\* A call under way has no result yet.
LEMMA NoResultYet ==
  ASSUME IInv, NEW c \in Calls, phase[c] # "done"
  PROVE  result[c] = None /\ result = [result EXCEPT ![c] = None]
<1>1. result[c] = None
  BY DEF IInv, PhasesAgree
<1>2. QED
  BY <1>1 DEF IInv, TypeOK

\* A permanent error needs no cause, another one a reply or a run of retryable ones.
LEMMA Errors ==
  ASSUME NEW k \in Contract!ErrorKinds, NEW replies,
         k = "NotFound" =>
           replies # << >> /\ Contract!HeadVerdict(replies[Len(replies)]) = "NotFound",
         k = "Transient" => \A i \in 1..Len(replies) : Contract!Retryable(replies[i])
  PROVE  Err(k) \in Contract!Results /\ Contract!HasCause(Err(k), replies)
<1>1. Err(k).kind = k /\ k # "Ok"
  BY DEF Err, Contract!ErrorKinds
<1>2. Err(k) \in Contract!Results
  BY DEF Err, Contract!Results
<1>3. Contract!HasCause(Err(k), replies)
  BY <1>1 DEF Contract!HasCause
<1>4. QED
  BY <1>2, <1>3

LEMMA FailConcludes ==
  ASSUME IInv, NEW c \in Calls, phase[c] # "done", NEW k \in Contract!ErrorKinds, AttemptFails(c, k),
         k = "NotFound" =>
           seen'[c] # << >> /\ Contract!HeadVerdict(seen'[c][Len(seen'[c])]) = "NotFound",
         k = "Transient" => \A i \in 1..Len(seen'[c]) : Contract!Retryable(seen'[c][i])
  PROVE  Contract!Conclude(c) /\ UNCHANGED url
<1>1. Err(k) \in Contract!Results /\ Contract!HasCause(Err(k), seen'[c])
  BY Errors
<1>2. result' = result \/ result' = [result EXCEPT ![c] = Err(k)]
  BY DEF AttemptFails, RetryIf, Return
<1>3. Contract!Conclude(c)
  BY <1>1, <1>2, NoResultYet, Concludes
<1>4. QED
  BY <1>3 DEF AttemptFails, RetryIf, args

LEMMA BeginImplements ==
  ASSUME IInv, NEW c \in Calls, NEW u \in Urls, NEW k \in Kinds, Begin(c, u, k)
  PROVE  Contract!Begin(c, u)
<1>1. /\ phase[c] = "idle" /\ url[c] = None /\ url' = [url EXCEPT ![c] = u] /\ UNCHANGED seen
  BY DEF Begin, IInv, PhasesAgree
<1>2. result' = result \/ result' = [result EXCEPT ![c] = Err("Permanent")]
  BY DEF Begin, Return, StartAttempt
<1>3. Err("Permanent") \in Contract!Results /\ Contract!HasCause(Err("Permanent"), seen'[c])
  BY Errors DEF Contract!ErrorKinds
<1>4. Contract!Conclude(c)
  BY <1>1, <1>2, <1>3, NoResultYet, Concludes
<1>5. QED
  BY <1>1, <1>4 DEF Contract!Begin

LEMMA HeadersImplement ==
  ASSUME IInv, NEW c \in Calls, NEW r \in Responses, Headers(c, r)
  PROVE  Contract!Serve(c, r)
<1>1. phase[c] = "sending" /\ Exchanging(c) /\ seen' = [seen EXCEPT ![c] = Append(@, r)]
  BY DEF Headers, Exchanging
<1>2. /\ seen[c] \in Seq(Responses) /\ attempt[c] \in 0..MaxRetries /\ Len(seen[c]) <= attempt[c]
      /\ \A i \in 1..Len(seen[c]) : Contract!Retryable(seen[c][i])
  BY <1>1, RepliesSoFar
<1>3. Len(seen[c]) <= MaxRetries /\ attempt[c] \in Nat
  <2>1. Len(seen[c]) \in Nat /\ MaxRetries \in Nat
    BY <1>2, TimeAssumption
  <2>2. QED
    BY <1>2, <2>1
<1>4. seen'[c] = Append(seen[c], r)
  BY <1>1 DEF IInv, TypeOK
<1>5. url[c] # None /\ result[c] = None
  <2>1. url[c] \in Urls
    BY <1>1, RepliesSoFar
  <2>2. QED
    BY <1>1, <2>1, NoResultYet, UrlAssumption
<1>6. CASE Contract!HeadVerdict(r) = "read"
  <2>1. UNCHANGED <<url, result>>
    BY <1>6 DEF Headers, args
  <2>2. QED
    BY <1>1, <1>2, <1>3, <1>5, <2>1, NoResultYet, Concludes DEF Contract!Serve
<1>7. CASE Contract!HeadVerdict(r) # "read"
  <2> DEFINE k == Contract!HeadVerdict(r)
  <2>1. AttemptFails(c, k) /\ k \in Contract!ErrorKinds /\ (k = "Transient" => Contract!Retryable(r))
    BY <1>7, Verdicts DEF Headers
  <2>2. k = "NotFound" =>
          seen'[c] # << >> /\ Contract!HeadVerdict(seen'[c][Len(seen'[c])]) = "NotFound"
    BY <1>2, <1>4
  <2> HIDE DEF k
  <2>3. k = "Transient" => \A i \in 1..Len(seen'[c]) : Contract!Retryable(seen'[c][i])
    BY <1>2, <1>3, <1>4, <2>1, OneMoreReply
  <2>4. Contract!Conclude(c) /\ UNCHANGED url
    BY <1>1, <2>1, <2>2, <2>3, FailConcludes
  <2>5. QED
    BY <1>1, <1>2, <1>3, <1>5, <2>4 DEF Contract!Serve
<1>8. QED
  BY <1>6, <1>7

\* What a call does without a new reply is a step of the contract, or none.
LEMMA RestImplements ==
  ASSUME IInv, NEW c \in Calls,
         \/ DnsHit(c) \/ DnsMiss(c) \/ DnsAnswers(c) \/ DnsFails(c) \/ DnsStore(c)
         \/ \E addr \in Ips \cup {Loopback} : Redirect(c, addr)
         \/ \E k \in Contract!ErrorKinds : SendFails(c, k)
         \/ SendTimesOut(c) \/ Body(c) \/ BodyFails(c) \/ Retry(c) \/ Abandon(c)
  PROVE  Contract!Return(c)
<1>1. Active(c) /\ UNCHANGED <<url, seen>>
  BY DEF Active, DnsHit, DnsMiss, DnsAnswers, DnsFails, DnsStore, Redirect, SendFails, SendTimesOut, Body,
         BodyFails, Retry, Abandon, AttemptFails, RetryIf, args
<1>2. url[c] \in Urls /\ url[c] # None /\ result[c] = None /\ phase[c] # "done"
  BY <1>1, UrlAssumption, NoResultYet DEF IInv, PhasesAgree, Active
<1>3. SUFFICES Contract!Conclude(c)
  BY <1>1, <1>2 DEF Contract!Return
<1>4. CASE \/ DnsHit(c) \/ DnsMiss(c) \/ DnsAnswers(c) \/ DnsFails(c) \/ DnsStore(c)
           \/ Retry(c) \/ Abandon(c) \/ \E addr \in Ips \cup {Loopback} : Redirect(c, addr)
  <2>1. \/ result' = result \/ result' = [result EXCEPT ![c] = Err("Permanent")]
        \/ result' = [result EXCEPT ![c] = None]
    BY <1>4 DEF DnsHit, DnsMiss, DnsAnswers, DnsFails, DnsStore, Retry, Redirect, Abandon,
                   Return, StartAttempt
  <2>2. Err("Permanent") \in Contract!Results /\ Contract!HasCause(Err("Permanent"), seen'[c])
    BY Errors DEF Contract!ErrorKinds
  <2>3. QED
    BY <1>2, <2>1, <2>2, NoResultYet, Concludes
<1>5. CASE \/ \E k \in Contract!ErrorKinds : SendFails(c, k)
           \/ SendTimesOut(c) \/ Body(c) \/ BodyFails(c)
  <2>1. Exchanging(c)
    BY <1>5 DEF Exchanging, SendFails, SendTimesOut, Body, BodyFails
  <2>2. \A i \in 1..Len(seen'[c]) : Contract!Retryable(seen'[c][i])
    BY <1>1, <2>1, RepliesSoFar
  <2>3. CASE \E k \in {"Transient", "Permanent"} : AttemptFails(c, k)
    BY <1>2, <2>2, <2>3, FailConcludes DEF Contract!ErrorKinds
  <2>4. CASE /\ phase[c] = "reading" /\ Contract!BodyVerdict(resp[c].content) = "Ok"
             /\ Return(c, Ok(resp[c].content))
    <3>1. /\ resp[c] \in Responses /\ Contract!HeadVerdict(resp[c]) = "read"
          /\ seen'[c] # << >> /\ seen'[c][Len(seen'[c])] = resp[c]
      BY <1>1, <2>4 DEF IInv, RepliesAgree
    <3>2. Ok(resp[c].content) \in Contract!Results
      BY <3>1, ResponseAssumption DEF Ok, Contract!Results
    <3>3. Contract!HasCause(Ok(resp[c].content), seen'[c])
      BY <2>4, <3>1 DEF Ok, Contract!HasCause, Contract!Acceptable
    <3>4. QED
      BY <2>4, <3>2, <3>3, Concludes DEF Return
  <2>5. QED
    BY <1>5, <2>3, <2>4 DEF SendFails, SendTimesOut, Body, BodyFails
<1>6. QED
  BY <1>4, <1>5

\* Whatever lookup, timers, retries and other calls do, the caller of
\* fetch_image sees what FetchContract promises: a picture only from a reply
\* of this very call, and no question asked again after a final answer.
THEOREM Implements == Spec => KeepsContract
<1>1. Init => Contract!Init
  BY DEF Init, Contract!Init
<1>2. ASSUME IInv, [Next]_vars
      PROVE  [Contract!Next]_(Contract!vars)
  <2>1. ASSUME NEW c \in Calls, NEW u \in Urls, NEW k \in Kinds, Begin(c, u, k)
        PROVE  Contract!Next
    BY <1>2, <2>1, BeginImplements DEF Contract!Next
  <2>2. ASSUME NEW c \in Calls, NEW r \in Responses, Headers(c, r)
        PROVE  Contract!Next
    BY <1>2, <2>2, HeadersImplement DEF Contract!Next
  <2>3. ASSUME NEW c \in Calls, Step(c) \/ Abandon(c)
        PROVE  Contract!Next
    <3>1. CASE \E r \in Responses : Headers(c, r)
      BY <2>2, <3>1
    <3>2. CASE ~(\E r \in Responses : Headers(c, r))
      <4>1. Contract!Return(c)
        BY <1>2, <2>3, <3>2, RestImplements DEF Step
      <4>2. QED
        BY <4>1 DEF Contract!Next
    <3>3. QED
      BY <3>1, <3>2
  <2>4. CASE \/ \E h \in Hosts, addr \in Ips : Rebind(h, addr)
             \/ \E h \in Hosts : ExpireDns(h)
             \/ \E k \in PinKeys : EvictClient(k)
             \/ Tick \/ UNCHANGED vars
    BY <2>4 DEF Rebind, ExpireDns, EvictClient, Tick, others, args, vars, Contract!vars
  <2>5. QED
    BY <1>2, <2>1, <2>3, <2>4 DEF Next
<1>3. QED
  BY <1>1, <1>2, Inductive, PTL DEF Spec, KeepsContract, Contract!Spec

=============================================================================
