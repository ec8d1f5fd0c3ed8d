-------------------------------- MODULE Fetch --------------------------------
(***************************************************************************)
(* HttpClient::fetch_image (http_client/client.rs): validation, the        *)
(* loopback short cut, DNS with its cache (dns.rs), clients pinned to one  *)
(* address, timers, and retries with backoff (retry.rs).  Several calls    *)
(* run at once and share the DNS cache and the pool of clients, while the  *)
(* hosts' records and the servers' replies change under them.              *)
(*                                                                         *)
(* The clients are built without a redirect policy and fall back to the    *)
(* unpinned client when building fails, so an exchange may leave the       *)
(* address its call has checked.                                           *)
(*                                                                         *)
(* Time is counted in ticks, and a task whose timer is due or that waits   *)
(* for nothing runs before the next tick.                                  *)
(***************************************************************************)
EXTENDS Naturals, Sequences

CONSTANTS
  Calls,          \* concurrent fetch_image calls
  Urls,
  InvalidUrls,    \* refused by validate_url_format_with_options
  SelfUrls,       \* valid URLs on SELF_HOST
  ImageUrls,      \* those of them whose path is /image
  Hosts,
  HostOf,         \* function: the host of a URL
  Ips,
  PublicIps,      \* addresses is_private_ip lets through
  Loopback,       \* 127.0.0.1
  Contents, TooLarge, NotImages, Responses,   \* as in FetchContract
  MaxRetries,     \* FETCH_MAX_RETRIES
  DnsTimeout,     \* DNS_LOOKUP_TIMEOUT_MS
  HeaderTimeout,  \* function: FETCH_TIMEOUT_MAIN and FETCH_TIMEOUT_OVERLAY
  TotalTimeout,   \* AGENT_BODY_TIMEOUT: reqwest's limit on a whole exchange
  Backoff,        \* function: get_delay(k), slept before attempt k + 1
  MaxBackoff,     \* a bound on it
  MaxRedirects,   \* how many redirects reqwest's default policy follows
  Unpinned,       \* the client HttpClient::new builds, which resolves for itself
  None

Kinds == {"main", "overlay"}

ASSUME UrlAssumption ==
  /\ InvalidUrls \subseteq Urls /\ None \notin Urls
  /\ SelfUrls \subseteq Urls \ InvalidUrls /\ ImageUrls \subseteq SelfUrls
  /\ HostOf \in [Urls -> Hosts]

ASSUME IpAssumption ==
  /\ PublicIps \subseteq Ips /\ Loopback \notin PublicIps
  /\ None \notin Ips \cup {Loopback} /\ Unpinned \notin Ips \cup {Loopback, None}

ASSUME TimeAssumption ==
  /\ MaxRetries \in Nat /\ DnsTimeout \in Nat /\ TotalTimeout \in Nat
  /\ HeaderTimeout \in [Kinds -> Nat] /\ MaxBackoff \in Nat /\ MaxRedirects \in Nat
  /\ Backoff \in [0..MaxRetries -> 0..MaxBackoff]

Statuses == 100..599

ASSUME ResponseAssumption ==
  Responses \subseteq
    [status: Statuses, ctype: {"absent", "image", "other"}, length: {"absent", "fits", "over"},
     content: Contents]

VARIABLES
  dns,        \* dns[h]: the address h resolves to now
  dnsCache,   \* DnsResolver.cache: host -> address or None
  clients,    \* PINNED_CLIENTS: key -> the address a client is pinned to, Unpinned or None
  phase,      \* phase[c]: which await of fetch_image c is at
  url, kind,  \* url[c], kind[c]: its arguments (is_overlay as a kind)
  ip,         \* ip[c]: the address the call has settled on
  conn,       \* conn[c]: the current exchange: its client, address and redirects
  attempt,    \* attempt[c]: the loop variable of the retry loop
  timer,      \* timer[c]: ticks left of the await's own timer
  total,      \* total[c]: ticks left of the exchange's total timeout
  resp,       \* resp[c]: the reply whose body is being downloaded
  result,     \* result[c]: what fetch_image returned
  seen,       \* history: the replies servers have given to c
  spent       \* history: ticks since c began

shared == <<dns, dnsCache, clients>>
args == <<url, kind>>
vars == <<shared, phase, args, ip, conn, attempt, timer, total, resp, result, seen, spent>>

Contract == INSTANCE FetchContract WITH url <- url, seen <- seen, result <- result

Phases == {"idle", "lookup", "resolving", "caching", "sending", "reading", "sleeping", "done"}
Active(c) == phase[c] \notin {"idle", "done"}
Exchanging(c) == phase[c] \in {"sending", "reading"}

MinOf(m, n) == IF m <= n THEN m ELSE n

\* Variant of the next: clients pooled by host alone.
PinKeyByHost(host, addr) == <<host, Loopback>>

\* The key of get_pinned_client (the port follows from the URL).
PinKey(host, addr) == <<host, addr>>
PinKeys == {PinKey(h, a) : h \in Hosts \cup {Loopback}, a \in Ips \cup {Loopback}}

\* An exchange: what its client is pinned to, where it is connected now, and
\* how many redirects it has followed to get there.
Conns == [pin: Ips \cup {Loopback, Unpinned}, at: Ips \cup {Loopback}, hops: 0..MaxRedirects]

-----------------------------------------------------------------------------
Init ==
  /\ dns \in [Hosts -> Ips]
  /\ dnsCache = [h \in Hosts |-> None]
  /\ clients = [k \in PinKeys |-> None]
  /\ phase = [c \in Calls |-> "idle"]
  /\ url = [c \in Calls |-> None]
  /\ kind = [c \in Calls |-> "main"]
  /\ ip = [c \in Calls |-> None]
  /\ conn = [c \in Calls |-> None]
  /\ attempt = [c \in Calls |-> 0]
  /\ timer = [c \in Calls |-> 0]
  /\ total = [c \in Calls |-> 0]
  /\ resp = [c \in Calls |-> None]
  /\ result = [c \in Calls |-> None]
  /\ seen = [c \in Calls |-> << >>]
  /\ spent = [c \in Calls |-> 0]

-----------------------------------------------------------------------------
(* Pieces of the handler.                                                  *)

Return(c, res) ==
  /\ phase' = [phase EXCEPT ![c] = "done"]
  /\ result' = [result EXCEPT ![c] = res]
  /\ conn' = [conn EXCEPT ![c] = None]
  /\ timer' = [timer EXCEPT ![c] = 0]
  /\ total' = [total EXCEPT ![c] = 0]
  /\ resp' = [resp EXCEPT ![c] = None]

Err(k) == [kind |-> k, content |-> None]
Ok(content) == [kind |-> "Ok", content |-> content]

\* get_pinned_client: the pooled client for this host and address; when there
\* is none, one pinned to the address is built and pooled, or the unpinned
\* client if building fails.
Client(key, addr) == IF clients[key] = None THEN {addr, Unpinned} ELSE {clients[key]}

\* Where a client connects to: an unpinned one to any address the host has or
\* had, or to the one that stands in the URL.
Reaches(pin, host) ==
  IF pin # Unpinned THEN {pin} ELSE IF host = Loopback THEN {Loopback} ELSE Ips

\* fetch_once_with_resolved_ip up to its first await: the client, and the
\* timers of the exchange.
StartAttempt(c, k, host, addr, n) ==
  \E pin \in Client(PinKey(host, addr), addr) : \E at \in Reaches(pin, host) :
      /\ clients' = [clients EXCEPT ![PinKey(host, addr)] = pin]
      /\ conn' = [conn EXCEPT ![c] = [pin |-> pin, at |-> at, hops |-> 0]]
      /\ ip' = [ip EXCEPT ![c] = addr]
      /\ attempt' = [attempt EXCEPT ![c] = n]
      /\ phase' = [phase EXCEPT ![c] = "sending"]
      /\ timer' = [timer EXCEPT ![c] = MinOf(HeaderTimeout[k], TotalTimeout)]
      /\ total' = [total EXCEPT ![c] = TotalTimeout]
      /\ resp' = [resp EXCEPT ![c] = None]
      /\ UNCHANGED <<dns, result>>

\* What a failed exchange does, given whether it is worth a retry.
RetryIf(c, k, worthIt) ==
  /\ IF worthIt
     THEN /\ phase' = [phase EXCEPT ![c] = "sleeping"]
          /\ timer' = [timer EXCEPT ![c] = Backoff[attempt[c]]]
          /\ total' = [total EXCEPT ![c] = 0]
          /\ conn' = [conn EXCEPT ![c] = None]
          /\ resp' = [resp EXCEPT ![c] = None]
          /\ UNCHANGED result
     ELSE Return(c, Err(k))
  /\ UNCHANGED <<shared, args, ip, attempt, spent>>

\* Variants of the next: retries of a 404, and over loopback.
AttemptFailsUnlessPermanent(c, k) ==
  RetryIf(c, k, k # "Permanent" /\ ip[c] # Loopback /\ attempt[c] < MaxRetries)
AttemptFailsAnywhere(c, k) == RetryIf(c, k, k = "Transient" /\ attempt[c] < MaxRetries)

\* An exchange ended with error k: returned at once over loopback, when it is
\* not transient and when no retry is left; slept on otherwise.
AttemptFails(c, k) ==
  RetryIf(c, k, k = "Transient" /\ ip[c] # Loopback /\ attempt[c] < MaxRetries)

-----------------------------------------------------------------------------
(* fetch_image                                                             *)

\* Called: an invalid URL and our own /image are refused, the rest of
\* SELF_HOST is asked over loopback, other hosts are looked up.
Begin(c, u, k) ==
  /\ phase[c] = "idle"
  /\ url' = [url EXCEPT ![c] = u]
  /\ kind' = [kind EXCEPT ![c] = k]
  /\ UNCHANGED <<seen, spent>>
  /\ \/ /\ u \in InvalidUrls \cup ImageUrls
        /\ Return(c, Err("Permanent"))
        /\ UNCHANGED <<shared, ip, attempt>>
     \/ /\ u \in SelfUrls \ ImageUrls
        /\ StartAttempt(c, k, Loopback, Loopback, 0)
        /\ UNCHANGED dnsCache
     \/ /\ u \notin InvalidUrls \cup SelfUrls
        /\ phase' = [phase EXCEPT ![c] = "lookup"]
        /\ UNCHANGED <<shared, ip, conn, attempt, timer, total, resp, result>>

\* DnsResolver::lookup: the cached address is checked again, then
\* validate_resolved_ip checks it once more.
DnsHit(c) ==
  LET addr == dnsCache[HostOf[url[c]]]
  IN  /\ phase[c] = "lookup"
      /\ addr # None
      /\ IF addr \in PublicIps
         THEN StartAttempt(c, kind[c], HostOf[url[c]], addr, 0) /\ UNCHANGED dnsCache
         ELSE Return(c, Err("Permanent")) /\ UNCHANGED <<shared, ip, attempt>>
      /\ UNCHANGED <<args, seen, spent>>

DnsMiss(c) ==
  /\ phase[c] = "lookup"
  /\ dnsCache[HostOf[url[c]]] = None
  /\ phase' = [phase EXCEPT ![c] = "resolving"]
  /\ timer' = [timer EXCEPT ![c] = DnsTimeout]
  /\ UNCHANGED <<shared, args, ip, conn, attempt, total, resp, result, seen, spent>>

\* The resolver answers with the host's address of this moment.
DnsAnswers(c) ==
  LET addr == dns[HostOf[url[c]]]
  IN  /\ phase[c] = "resolving"
      /\ IF addr \in PublicIps
         THEN /\ ip' = [ip EXCEPT ![c] = addr]
              /\ phase' = [phase EXCEPT ![c] = "caching"]
              /\ timer' = [timer EXCEPT ![c] = 0]
              /\ UNCHANGED <<conn, total, resp, result>>
         ELSE Return(c, Err("Permanent")) /\ UNCHANGED ip
      /\ UNCHANGED <<shared, args, attempt, seen, spent>>

\* It fails, knows no address, or its timeout fires: permanent all the same.
DnsFails(c) ==
  /\ phase[c] = "resolving"
  /\ Return(c, Err("Permanent"))
  /\ UNCHANGED <<shared, args, ip, attempt, seen, spent>>

\* The address is cached, checked again by validate_resolved_ip, and used for
\* every attempt of this call.
DnsStore(c) ==
  /\ phase[c] = "caching"
  /\ dnsCache' = [dnsCache EXCEPT ![HostOf[url[c]]] = ip[c]]
  /\ StartAttempt(c, kind[c], HostOf[url[c]], ip[c], 0)
  /\ UNCHANGED <<args, seen, spent>>

\* Variant of the next: a timeout of its own for the body.
HeadersNewTimer(c, r) ==
  /\ phase[c] = "sending"
  /\ seen' = [seen EXCEPT ![c] = Append(@, r)]
  /\ IF Contract!HeadVerdict(r) = "read"
     THEN /\ phase' = [phase EXCEPT ![c] = "reading"]
          /\ timer' = [timer EXCEPT ![c] = TotalTimeout]
          /\ resp' = [resp EXCEPT ![c] = r]
          /\ UNCHANGED <<shared, args, ip, conn, attempt, total, result, spent>>
     ELSE AttemptFails(c, Contract!HeadVerdict(r))

\* Status and headers arrive and are judged.
Headers(c, r) ==
  /\ phase[c] = "sending"
  /\ seen' = [seen EXCEPT ![c] = Append(@, r)]
  /\ IF Contract!HeadVerdict(r) = "read"
     THEN /\ phase' = [phase EXCEPT ![c] = "reading"]
          /\ timer' = [timer EXCEPT ![c] = total[c]]
          /\ resp' = [resp EXCEPT ![c] = r]
          /\ UNCHANGED <<shared, args, ip, conn, attempt, total, result, spent>>
     ELSE AttemptFails(c, Contract!HeadVerdict(r))

\* The server redirects, and reqwest follows wherever that leads, inside the same
\* send and under the same timers; our own routes never redirect.
Redirect(c, addr) ==
  /\ phase[c] = "sending"
  /\ url[c] \notin SelfUrls
  /\ conn[c].hops < MaxRedirects
  /\ conn' = [conn EXCEPT ![c].at = addr, ![c].hops = @ + 1]
  /\ UNCHANGED <<shared, phase, args, ip, attempt, timer, total, resp, result, seen, spent>>

\* No reply, or one redirect too many: connect, request and timeout errors are
\* transient, others not.
SendFails(c, k) ==
  /\ phase[c] = "sending"
  /\ k \in {"Transient", "Permanent"}
  /\ AttemptFails(c, k)
  /\ UNCHANGED seen

\* Variant of the next: the timeout of overlays forgotten.
MainSendTimesOut(c) ==
  /\ phase[c] = "sending" /\ kind[c] = "main"
  /\ timer[c] = 0
  /\ AttemptFails(c, "Transient")
  /\ UNCHANGED seen

SendTimesOut(c) ==
  /\ phase[c] = "sending"
  /\ timer[c] = 0
  /\ AttemptFails(c, "Transient")
  /\ UNCHANGED seen

\* The body is complete: its size and its magic bytes are checked.
Body(c) ==
  LET content == resp[c].content
  IN  /\ phase[c] = "reading"
      /\ IF Contract!BodyVerdict(content) = "Ok"
         THEN Return(c, Ok(content)) /\ UNCHANGED <<shared, args, ip, attempt, spent>>
         ELSE AttemptFails(c, "Permanent")
      /\ UNCHANGED seen

\* It breaks off, does not decompress, or the total timeout fires.
BodyFails(c) ==
  /\ phase[c] = "reading"
  /\ AttemptFails(c, "Transient")
  /\ UNCHANGED seen

\* Variant of the next: the address looked up anew.
RetryLookingUp(c) ==
  LET cached == dnsCache[HostOf[url[c]]]
  IN  /\ phase[c] = "sleeping"
      /\ timer[c] = 0
      /\ StartAttempt(c, kind[c], HostOf[url[c]], IF cached = None THEN ip[c] ELSE cached,
                      attempt[c] + 1)
      /\ UNCHANGED <<dnsCache, args, seen, spent>>

\* Variant of the next: the attempts are not counted.
RetryUncounted(c) ==
  /\ phase[c] = "sleeping"
  /\ timer[c] = 0
  /\ StartAttempt(c, kind[c], HostOf[url[c]], ip[c], attempt[c])
  /\ UNCHANGED <<dnsCache, args, seen, spent>>

\* The backoff is over: the next attempt, to the address of the first one.
Retry(c) ==
  /\ phase[c] = "sleeping"
  /\ timer[c] = 0
  /\ StartAttempt(c, kind[c], HostOf[url[c]], ip[c], attempt[c] + 1)
  /\ UNCHANGED <<dnsCache, args, seen, spent>>

\* The caller's future is dropped.
Abandon(c) ==
  /\ Active(c)
  /\ Return(c, None)
  /\ UNCHANGED <<shared, args, ip, attempt, seen, spent>>

-----------------------------------------------------------------------------
(* The world: records change, cache entries expire or are evicted, time    *)
(* passes.                                                                 *)

others == <<phase, args, ip, conn, attempt, resp, result, seen>>

Rebind(h, addr) ==
  /\ addr # dns[h]
  /\ dns' = [dns EXCEPT ![h] = addr]
  /\ UNCHANGED <<dnsCache, clients, others, timer, total, spent>>

ExpireDns(h) ==
  /\ dnsCache[h] # None
  /\ dnsCache' = [dnsCache EXCEPT ![h] = None]
  /\ UNCHANGED <<dns, clients, others, timer, total, spent>>

EvictClient(k) ==
  /\ clients[k] # None
  /\ clients' = [clients EXCEPT ![k] = None]
  /\ UNCHANGED <<dns, dnsCache, others, timer, total, spent>>

Tick ==
  /\ \E c \in Calls : Active(c)
  /\ \A c \in Calls : Active(c) => timer[c] > 0
  /\ timer' = [c \in Calls |-> IF Active(c) THEN timer[c] - 1 ELSE timer[c]]
  /\ total' = [c \in Calls |-> IF total[c] > 0 THEN total[c] - 1 ELSE 0]
  /\ spent' = [c \in Calls |-> IF Active(c) THEN spent[c] + 1 ELSE spent[c]]
  /\ UNCHANGED <<shared, others>>

-----------------------------------------------------------------------------
\* What c does of itself, or once the network has answered.
Step(c) ==
  \/ DnsHit(c) \/ DnsMiss(c) \/ DnsAnswers(c) \/ DnsFails(c) \/ DnsStore(c)
  \/ \E r \in Responses : Headers(c, r)
  \/ \E addr \in Ips \cup {Loopback} : Redirect(c, addr)
  \/ \E k \in Contract!ErrorKinds : SendFails(c, k)
  \/ SendTimesOut(c) \/ Body(c) \/ BodyFails(c) \/ Retry(c)

Next ==
  \/ \E c \in Calls :
       \/ \E u \in Urls, k \in Kinds : Begin(c, u, k)
       \/ Step(c)
       \/ Abandon(c)
  \/ \E h \in Hosts, addr \in Ips : Rebind(h, addr)
  \/ \E h \in Hosts : ExpireDns(h)
  \/ \E k \in PinKeys : EvictClient(k)
  \/ Tick

Spec == Init /\ [][Next]_vars

\* What c does when the network stays silent: only its own steps and timers.
OwnStep(c) ==
  \/ DnsHit(c) \/ DnsMiss(c) \/ DnsStore(c) \/ Retry(c)
  \/ timer[c] = 0 /\ (DnsFails(c) \/ SendTimesOut(c) \/ BodyFails(c))

\* Time passes and due tasks run; the network owes nothing.
FairSpec == Spec /\ WF_vars(Tick) /\ \A c \in Calls : WF_vars(OwnStep(c))

-----------------------------------------------------------------------------
(* Properties                                                              *)

TypeOK ==
  /\ dns \in [Hosts -> Ips]
  /\ dnsCache \in [Hosts -> Ips \cup {None}]
  /\ clients \in [PinKeys -> Ips \cup {Loopback, Unpinned, None}]
  /\ phase \in [Calls -> Phases]
  /\ url \in [Calls -> Urls \cup {None}]
  /\ kind \in [Calls -> Kinds]
  /\ ip \in [Calls -> Ips \cup {Loopback, None}]
  /\ conn \in [Calls -> Conns \cup {None}]
  /\ attempt \in [Calls -> 0..MaxRetries]
  /\ timer \in [Calls -> Nat]
  /\ total \in [Calls -> 0..TotalTimeout]
  /\ resp \in [Calls -> Responses \cup {None}]
  /\ result \in [Calls -> Contract!Results \cup {None}]
  /\ seen \in [Calls -> Seq(Responses)]
  /\ spent \in [Calls -> Nat]

\* A foreign exchange that was redirected or got the unpinned client.
Astray(c) == url[c] \notin SelfUrls /\ (conn[c].hops > 0 \/ conn[c].pin = Unpinned)

\* "Use the resolved IP directly" (client.rs:256), as far as the code goes: what
\* a call has settled on is the public address it has checked, or the loopback
\* address for a URL of ours; and whatever the records, the caches and the other
\* calls do between attempts, its exchanges are connected there, except where a
\* server redirects them or the pinned client could not be built, which happens
\* to foreign URLs only.
AddressChecked ==
  \A c \in Calls : Exchanging(c) =>
    /\ IF url[c] \in SelfUrls THEN ip[c] = Loopback ELSE ip[c] \in PublicIps
    /\ conn[c].at = ip[c] \/ Astray(c)

\* One call never moves to another address: the retries of a call go where its
\* first attempt went, though the record was rebound and the cache expired.
OneAddressPerCall ==
  [][\A c \in Calls : Exchanging(c) \/ phase[c] = "sleeping" => ip'[c] = ip[c]]_vars

\* No call outlives the sum of its timeouts.
Budget == DnsTimeout + (MaxRetries + 1) * TotalTimeout + MaxRetries * MaxBackoff
EndsInBudget == \A c \in Calls : spent[c] <= Budget

\* The inductive invariant behind them.  A pooled client is pinned to the
\* address in its key, if at all, and the cache holds public addresses only;
PoolsAgree ==
  /\ \A h \in Hosts \cup {Loopback}, a \in Ips \cup {Loopback} :
       clients[PinKey(h, a)] \in {a, Unpinned, None}
  /\ \A h \in Hosts : dnsCache[h] \in PublicIps \cup {None}

\* the phase of a call says what it has settled on;
PhasesAgree ==
  \A c \in Calls :
    /\ IF phase[c] = "idle" THEN url[c] = None /\ spent[c] = 0 ELSE url[c] \in Urls
    /\ phase[c] # "done" => result[c] = None
    /\ phase[c] \in {"lookup", "resolving", "caching"} =>
         url[c] \notin InvalidUrls \cup SelfUrls
    /\ phase[c] = "caching" => ip[c] \in PublicIps
    /\ phase[c] \in {"idle", "lookup", "resolving", "caching"} => attempt[c] = 0
    /\ Exchanging(c) \/ phase[c] = "sleeping" =>
         /\ url[c] \notin InvalidUrls
         /\ IF url[c] \in SelfUrls THEN ip[c] = Loopback ELSE ip[c] \in PublicIps
    /\ Exchanging(c) =>
         /\ conn[c] \in Conns /\ conn[c].pin \in {ip[c], Unpinned}
         /\ conn[c].at = ip[c] \/ Astray(c)
    /\ phase[c] = "sleeping" => attempt[c] < MaxRetries /\ ip[c] # Loopback

\* no reply is left unheeded: fewer replies than attempts, all of them worth a
\* retry, the last one being the reply whose body is read;
RepliesAgree ==
  \A c \in Calls :
    /\ phase[c] \in {"idle", "lookup", "resolving", "caching"} => seen[c] = << >>
    /\ phase[c] = "sending" => Len(seen[c]) <= attempt[c]
    /\ phase[c] \in {"reading", "sleeping"} => Len(seen[c]) <= attempt[c] + 1
    /\ Active(c) => \A i \in 1..Len(seen[c]) : Contract!Retryable(seen[c][i])
    /\ phase[c] = "reading" =>
         /\ resp[c] \in Responses /\ Contract!HeadVerdict(resp[c]) = "read"
         /\ seen[c] # << >> /\ seen[c][Len(seen[c])] = resp[c]

\* and what a call has spent leaves enough for all it may still do.
Rest(n) == (MaxRetries - n) * (TotalTimeout + MaxBackoff)

TimersAgree ==
  \A c \in Calls :
    /\ phase[c] \in {"idle", "lookup", "caching"} => timer[c] = 0
    /\ phase[c] \in {"idle", "lookup"} => spent[c] = 0
    /\ phase[c] = "resolving" => spent[c] + timer[c] <= DnsTimeout
    /\ phase[c] = "caching" => spent[c] <= DnsTimeout
    /\ phase[c] = "sending" =>
         timer[c] <= total[c] /\ spent[c] + total[c] + Rest(attempt[c]) <= Budget
    /\ phase[c] = "reading" => spent[c] + timer[c] + Rest(attempt[c]) <= Budget
    /\ phase[c] = "sleeping" =>
         spent[c] + timer[c] + TotalTimeout + Rest(attempt[c] + 1) <= Budget
    /\ spent[c] <= Budget

IInv == TypeOK /\ PoolsAgree /\ PhasesAgree /\ RepliesAgree /\ TimersAgree

\* What a call does within one attempt, in order.
PhaseRank(p) ==
  CASE p = "idle" -> 0 [] p = "lookup" -> 1 [] p = "resolving" -> 2 [] p = "caching" -> 3
    [] p = "sending" -> 4 [] p = "reading" -> 5 [] p = "sleeping" -> 6 [] p = "done" -> 7

GoesOn(c) ==
  \/ phase'[c] = phase[c] /\ attempt'[c] = attempt[c] /\ timer'[c] <= timer[c]
  \/ PhaseRank(phase[c]) < PhaseRank(phase'[c]) /\ attempt'[c] = attempt[c]
  \/ phase[c] # "done" /\ attempt[c] < attempt'[c]

\* A call never starts over: whatever the other calls, the records and the
\* caches do, it stays where it is and its timer runs down, or it goes on
\* within its attempt, or on to a later attempt, of which there are
\* FETCH_MAX_RETRIES + 1.
CallsGoOn == [][\A c \in Calls : GoesOn(c)]_vars

\* Retries, timers and caches are invisible to the caller (FetchContract).
KeepsContract == Contract!Spec

\* A call ends even if no server ever says a word.
EveryCallEnds == \A c \in Calls : Active(c) ~> phase[c] = "done"
=============================================================================
