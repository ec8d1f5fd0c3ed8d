----------------------------- MODULE RateLimiter -----------------------------
(***************************************************************************)
(* The rate limiting layer (server/middleware/rate_limit.rs): a limiter    *)
(* per IP address and one per API key, kept in two bounded caches that     *)
(* forget a limiter nobody has asked for.  Worker threads interleave       *)
(* between fetching a limiter (get_with) and asking it (check); no await   *)
(* lies between the two, so no time passes there either.                   *)
(*                                                                         *)
(* The limiter itself is governor's GCRA: it keeps the time at which all   *)
(* it has granted would be earned again, and grants while that time is at  *)
(* most a full burst ahead.                                                *)
(***************************************************************************)
EXTENDS Integers, Sequences, FiniteSets

CONSTANTS
  Workers,    \* threads of the runtime
  Ips,
  ApiKeys,
  Garbage,    \* a header element that does not parse as an address
  Trusted,    \* TRUSTED_PROXIES
  Requests,   \* what clients and proxies send, /health left out
  RateLimit,  \* RATE_LIMIT_PER_MINUTE
  ByKey,      \* RATE_LIMIT_BY_KEY
  CountedAhead, \* whether a new limiter counts its first request in advance
  Minute,     \* a minute, in ticks
  Idle,       \* time_to_idle of the two caches
  IpCapacity, KeyCapacity,  \* max_capacity of the two caches
  Limiters,   \* limiter objects
  MaxTime, MaxAccepted,     \* bounds of the instance
  None

ASSUME QuotaAssumption ==
  /\ CountedAhead \in BOOLEAN
  /\ RateLimit \in Nat /\ Minute \in Nat /\ Minute >= 1 /\ MaxTime \in Nat /\ MaxAccepted \in Nat

\* 120 s against the minute of Quota::per_minute.
ASSUME IdleAssumption == Idle \in Nat /\ Idle >= 2 * Minute

ASSUME RequestAssumption ==
  /\ None \notin ApiKeys \cup Ips \cup Limiters /\ Garbage \notin Ips
  /\ Trusted \subseteq Ips
  /\ Requests \subseteq [conn: Ips, forwarded: Seq(Ips \cup {Garbage}),
                         real: Ips \cup {Garbage, None}, apiKey: ApiKeys \cup {None}]

\* Quota::per_minute(NonZeroU32::new(rate_limit).unwrap_or(100))
Burst == IF RateLimit = 0 THEN 100 ELSE RateLimit
Interval == Minute \div Burst

\* How long it takes to earn m requests.
Earned(m) == m * Interval

Keys == Ips \cup ApiKeys

VARIABLES
  now,
  pool,       \* RATE_LIMITERS and API_KEY_RATE_LIMITERS: key -> limiter or None
  lastGet,    \* lastGet[k]: when k's entry was last asked for
  tat,        \* tat[o]: GCRA's theoretical arrival time of limiter o
  work,       \* work[w]: the limiter w holds and for whom, as [key, lim]
  accepted,   \* history: when requests of a key were let through
  displaced   \* history: keys whose entry a full cache has pushed out

vars == <<now, pool, lastGet, tat, work, accepted, displaced>>

Free == [key |-> None, lim |-> None]

MaxOf(m, n) == IF m >= n THEN m ELSE n

-----------------------------------------------------------------------------
(* Whom a request is charged to.                                           *)

\* extract_client_ip: behind a trusted proxy, the rightmost forwarded address
\* that is no proxy, else the first, else X-Real-IP; the peer otherwise.
ClientIp(req) ==
  LET hops == req.forwarded
      clients == {i \in DOMAIN hops : hops[i] \in Ips \ Trusted}
  IN  IF req.conn \notin Trusted THEN req.conn
      ELSE IF clients # {} THEN hops[CHOOSE i \in clients : \A j \in clients : j <= i]
      ELSE IF hops # << >> /\ hops[1] \in Ips THEN hops[1]
      ELSE IF req.real \in Ips THEN req.real
      ELSE req.conn

ChargedKey(req) == IF ByKey /\ req.apiKey # None THEN req.apiKey ELSE ClientIp(req)

Live(keys) == {k \in keys : pool[k] # None}
Overfull(k) ==
  IF k \in ApiKeys THEN Cardinality(Live(ApiKeys)) > KeyCapacity
                   ELSE Cardinality(Live(Ips)) > IpCapacity

-----------------------------------------------------------------------------
Init ==
  /\ now = 0
  /\ pool = [k \in Keys |-> None]
  /\ lastGet = [k \in Keys |-> 0]
  /\ tat = [o \in Limiters |-> 0]
  /\ work = [w \in Workers |-> Free]
  /\ accepted = [k \in Keys |-> << >>]
  /\ displaced = {}

\* Limiters neither cached nor held by a thread.
Unused(o) == (\A k \in Keys : pool[k] # o) /\ (\A w \in Workers : work[w].lim # o)

\* A new limiter owes nothing, or the request it is made for.
Fresh == IF CountedAhead THEN now + Interval ELSE now

\* time_to_idle has passed: get_with no longer returns the entry.
Expired(k) == pool[k] # None /\ now - lastGet[k] >= Idle

\* Variant of the next: get and insert in two calls, so that a thread that has
\* found nothing may replace the limiter another one has put there since.
GetThenInsert(w, req) ==
  LET k == ChargedKey(req)
  IN  /\ work[w] = Free
      /\ ~Expired(k)
      /\ Len(accepted[k]) < MaxAccepted
      /\ lastGet' = [lastGet EXCEPT ![k] = now]
      /\ \E o \in Limiters :
           /\ Unused(o)
           /\ pool' = [pool EXCEPT ![k] = o]
           /\ tat' = [tat EXCEPT ![o] = Fresh]
           /\ work' = [work EXCEPT ![w] = [key |-> k, lim |-> o]]
      /\ UNCHANGED <<now, accepted, displaced>>

\* get_with: the cached limiter, or a new one.
Get(w, req) ==
  LET k == ChargedKey(req)
  IN  /\ work[w] = Free
      /\ ~Expired(k)
      /\ Len(accepted[k]) < MaxAccepted
      /\ lastGet' = [lastGet EXCEPT ![k] = now]
      /\ \/ /\ pool[k] # None
            /\ work' = [work EXCEPT ![w] = [key |-> k, lim |-> pool[k]]]
            /\ UNCHANGED <<pool, tat>>
         \/ /\ pool[k] = None
            /\ \E o \in Limiters :
                 /\ Unused(o)
                 /\ pool' = [pool EXCEPT ![k] = o]
                 /\ tat' = [tat EXCEPT ![o] = Fresh]
                 /\ work' = [work EXCEPT ![w] = [key |-> k, lim |-> o]]
      /\ UNCHANGED <<now, accepted, displaced>>

\* Variant of the next: the request that is asked for is counted already.
ConformsAfter(o) == tat[o] + Interval <= now + Earned(Burst)

Conforms(o) == tat[o] <= now + Earned(Burst)

\* check() is Ok: the request goes on to the next layer.
Accept(w) ==
  LET k == work[w].key
      o == work[w].lim
  IN  /\ work[w] # Free
      /\ Conforms(o)
      /\ tat' = [tat EXCEPT ![o] = MaxOf(tat[o], now) + Interval]
      /\ accepted' = [accepted EXCEPT ![k] = Append(@, now)]
      /\ work' = [work EXCEPT ![w] = Free]
      /\ UNCHANGED <<now, pool, lastGet, displaced>>

\* check() is Err: 429, and the limiter is not charged.
Refuse(w) ==
  /\ work[w] # Free
  /\ ~Conforms(work[w].lim)
  /\ work' = [work EXCEPT ![w] = Free]
  /\ UNCHANGED <<now, pool, lastGet, tat, accepted, displaced>>

\* EvictIdle, were a limiter forgotten after the minute of the quota.
EvictAfterMinute(k) ==
  /\ pool[k] # None
  /\ now - lastGet[k] >= Minute
  /\ pool' = [pool EXCEPT ![k] = None]
  /\ UNCHANGED <<now, lastGet, tat, work, accepted, displaced>>

\* time_to_idle
EvictIdle(k) ==
  /\ Expired(k)
  /\ pool' = [pool EXCEPT ![k] = None]
  /\ UNCHANGED <<now, lastGet, tat, work, accepted, displaced>>

\* max_capacity: the entry that goes may be a busy one, or the newest.
EvictOverflow(k) ==
  /\ pool[k] # None
  /\ Overfull(k)
  /\ pool' = [pool EXCEPT ![k] = None]
  /\ displaced' = displaced \cup {k}
  /\ UNCHANGED <<now, lastGet, tat, work, accepted>>

Tick ==
  /\ now < MaxTime
  /\ \A w \in Workers : work[w] = Free
  /\ now' = now + 1
  /\ UNCHANGED <<pool, lastGet, tat, work, accepted, displaced>>

Next ==
  \/ \E w \in Workers : (\E req \in Requests : Get(w, req)) \/ Accept(w) \/ Refuse(w)
  \/ \E k \in Keys : EvictIdle(k) \/ EvictOverflow(k)
  \/ Tick

Spec == Init /\ [][Next]_vars

-----------------------------------------------------------------------------
(* Properties                                                              *)

TypeOK ==
  /\ now \in Nat
  /\ pool \in [Keys -> Limiters \cup {None}]
  /\ lastGet \in [Keys -> Nat]
  /\ tat \in [Limiters -> Nat]
  /\ work \in [Workers -> [key: Keys, lim: Limiters] \cup {Free}]
  /\ accepted \in [Keys -> Seq(Nat)]
  /\ displaced \subseteq Keys

\* The requests i..j of a key fit a burst, one request of grace, and what is
\* earned between the first and the last of them.
WithinBudget(times) ==
  \A i, j \in 1..Len(times) :
    i <= j => Earned(j - i + 1) <= times[j] - times[i] + Earned(Burst + 1)

\* Forgetting idle limiters gives nobody a second budget: in any window a key
\* gets no more than if its limiter had been kept for ever, and this stays true
\* of a key however many others a full cache pushes out.
BudgetKept == \A k \in Keys \ displaced : WithinBudget(accepted[k])

\* The inductive invariant: a limiter in use is the one in the cache, ...
LimitersAgree ==
  /\ \A k, j \in Keys : pool[k] # None /\ pool[k] = pool[j] => k = j
  /\ \A w \in Workers : work[w] # Free =>
       /\ \A k \in Keys : pool[k] = work[w].lim => k = work[w].key
       /\ \A v \in Workers : work[v] # Free /\ work[v].lim = work[w].lim => work[v].key = work[w].key
       /\ work[w].key \notin displaced =>
            pool[work[w].key] = work[w].lim /\ lastGet[work[w].key] = now

\* ... and it owes all that was granted to its key; a key without a limiter has
\* been idle for long enough to owe nothing.
DebtsAgree ==
  \A k \in Keys \ displaced :
    /\ \A i \in 1..Len(accepted[k]) :
         /\ accepted[k][i] <= lastGet[k]
         /\ pool[k] # None =>
              accepted[k][i] + Earned(Len(accepted[k]) - i + 1) <= tat[pool[k]]
    /\ lastGet[k] <= now
    /\ pool[k] = None /\ accepted[k] # << >> => lastGet[k] + Idle <= now

\* What a new limiter counts in advance.
Ahead == IF CountedAhead THEN 1 ELSE 0

\* The requests k was granted from the i-th on fill a burst and all that has
\* been earned since the i-th.
UsedUp(k) ==
  \E i \in 1..Len(accepted[k]) :
    now + Earned(Burst) < accepted[k][i] + Earned(Len(accepted[k]) - i + 1 + Ahead)

\* Nobody pays for others, for what was refused, or for a limiter that had to be
\* made anew: whoever is about to be refused has used up a budget of its own.
RefusedRightly ==
  \A w \in Workers : work[w] # Free /\ ~Conforms(work[w].lim) => UsedUp(work[w].key)

\* Behind it: a limiter owes no more than what its key was granted, by whichever
\* of its limiters.
Due(k, o) ==
  \/ tat[o] <= now + Earned(Ahead)
  \/ \E i \in 1..Len(accepted[k]) :
       tat[o] <= accepted[k][i] + Earned(Len(accepted[k]) - i + 1 + Ahead)

DebtsDue ==
  /\ \A k \in Keys : pool[k] # None => Due(k, pool[k])
  /\ \A w \in Workers : work[w] # Free => Due(work[w].key, work[w].lim)

IInv == TypeOK /\ LimitersAgree /\ DebtsAgree /\ BudgetKept
=============================================================================
