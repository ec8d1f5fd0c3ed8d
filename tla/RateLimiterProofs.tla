-------------------------- MODULE RateLimiterProofs --------------------------
(* Theorems of RateLimiter, for every instance of its constants.           *)
EXTENDS RateLimiter, WellFoundedInduction, TLAPS

-----------------------------------------------------------------------------
\* Quota::per_minute spreads a burst over at most a minute, so an idle limiter
\* is forgotten only after it has earned back a burst and one request more.
LEMMA QuotaFacts ==
  /\ Interval \in Nat /\ Burst \in Nat /\ Idle \in Nat
  /\ Earned(Burst + 1) \in Nat /\ Earned(Burst + 1) <= Idle
<1>1. Burst \in Nat /\ Burst >= 1 /\ Minute \in Nat /\ Idle \in Nat /\ Idle >= 2 * Minute
  BY QuotaAssumption, IdleAssumption DEF Burst
<1> HIDE DEF Burst
<1>2. Interval \in Nat /\ Burst * Interval <= Minute /\ Burst * Interval \in Nat
  BY <1>1 DEF Interval
<1> HIDE DEF Interval
<1> DEFINE m == Burst - 1
<1>3. m \in Nat /\ Burst = m + 1
  BY <1>1
<1>4. Burst * Interval = m * Interval + Interval /\ m * Interval \in Nat
  <2>1. (m + 1) * Interval = m * Interval + Interval
    BY <1>2, <1>3
  <2>2. m * Interval \in Nat
    BY <1>2, <1>3
  <2>3. QED
    BY <1>3, <2>1, <2>2
<1>5. Interval <= Minute
  BY <1>1, <1>2, <1>4
<1>6. (Burst + 1) * Interval = Burst * Interval + Interval
  BY <1>1, <1>2
<1>7. QED
  BY <1>1, <1>2, <1>5, <1>6 DEF Earned

\* One request more takes an interval more.
LEMMA EarnedFacts ==
  /\ Earned(1) = Interval
  /\ \A m \in Nat : Earned(m) \in Nat /\ Earned(m + 1) = Earned(m) + Interval
<1>1. Interval \in Nat
  BY QuotaFacts
<1> HIDE DEF Interval
<1>2. QED
  BY <1>1 DEF Earned

-----------------------------------------------------------------------------
LEMMA InitInv == Init => IInv
<1> SUFFICES ASSUME Init PROVE IInv
  OBVIOUS
<1>1. TypeOK
  BY DEF Init, TypeOK, Keys
<1>2. LimitersAgree
  BY DEF Init, LimitersAgree
<1>3. \A k \in Keys : accepted[k] = << >> /\ Len(accepted[k]) = 0 /\ lastGet[k] = 0
  BY DEF Init
<1>4. DebtsAgree
  BY <1>3 DEF Init, DebtsAgree
<1>5. BudgetKept
  BY <1>3 DEF BudgetKept, WithinBudget
<1>6. QED
  BY <1>1, <1>2, <1>4, <1>5 DEF IInv

\* A set of positions of a sequence has a last one.
LEMMA LastPosition ==
  ASSUME NEW n \in Nat, NEW C, C \subseteq 1..n, C # {}
  PROVE  \E i \in C : \A j \in C : j <= i
<1> DEFINE R == {p \in Nat \X Nat : p[1] < p[2]}
           T == {n - i : i \in C}
<1>1. IsWellFoundedOn(R, Nat)
  BY NatLessThanWellFounded DEF OpToRel
<1>2. \A i \in C : n - i \in Nat
  OBVIOUS
<1>3. T \subseteq Nat /\ T # {}
  BY <1>2
<1> HIDE DEF R
<1>4. PICK x \in T : \A y \in T : ~(<<y, x>> \in R)
  BY <1>1, <1>3, WFMin
<1>5. PICK i \in C : x = n - i
  BY <1>4
<1>6. ASSUME NEW j \in C
      PROVE  j <= i
  <2>1. n - j \in T /\ ~(<<n - j, n - i>> \in R)
    BY <1>4, <1>5
  <2>2. ~(n - j < n - i)
    BY <2>1, <1>3, <1>5 DEF R
  <2>3. QED
    BY <2>2
<1>7. QED
  BY <1>6

\* Whatever a request carries, it is charged to an address or a key.
LEMMA ChargedKeyIsKey ==
  ASSUME NEW req \in Requests
  PROVE  ChargedKey(req) \in Keys
<1>1. /\ req.conn \in Ips /\ req.apiKey \in ApiKeys \cup {None}
      /\ req.forwarded \in Seq(Ips \cup {Garbage})
  BY RequestAssumption
<1> DEFINE s == req.forwarded
           clients == {i \in DOMAIN s : s[i] \in Ips \ Trusted}
           last == CHOOSE i \in clients : \A j \in clients : j <= i
<1>2. ASSUME clients # {}
      PROVE  s[last] \in Ips
  <2>1. clients \subseteq 1..Len(s) /\ Len(s) \in Nat
    BY <1>1
  <2>2. \E i \in clients : \A j \in clients : j <= i
    <3> HIDE DEF clients, s
    <3>1. QED
      BY <1>2, <2>1, LastPosition
  <2>3. last \in clients
    BY <2>2
  <2>4. QED
    BY <2>3
<1>3. ClientIp(req) \in Ips
  BY <1>1, <1>2 DEF ClientIp
<1>4. QED
  BY <1>1, <1>3 DEF ChargedKey, Keys

-----------------------------------------------------------------------------
(* The actions.                                                            *)

\* The invariant read at one key.
LEMMA KeyFacts ==
  ASSUME IInv, NEW k \in Keys
  PROVE  /\ accepted[k] \in Seq(Nat) /\ Len(accepted[k]) \in Nat
         /\ lastGet[k] \in Nat /\ now \in Nat
         /\ \A i \in 1..Len(accepted[k]) :
              /\ accepted[k][i] \in Nat
              /\ Earned(Len(accepted[k]) - i + 1) \in Nat
              /\ Earned(Len(accepted[k]) + 1 - i + 1) = Earned(Len(accepted[k]) - i + 1) + Interval
<1>1. accepted[k] \in Seq(Nat) /\ lastGet[k] \in Nat /\ now \in Nat
  BY DEF IInv, TypeOK
<1>2. Len(accepted[k]) \in Nat
  BY <1>1
<1>3. ASSUME NEW i \in 1..Len(accepted[k])
      PROVE  /\ accepted[k][i] \in Nat
             /\ Earned(Len(accepted[k]) - i + 1) \in Nat
             /\ Earned(Len(accepted[k]) + 1 - i + 1) = Earned(Len(accepted[k]) - i + 1) + Interval
  <2>1. /\ Len(accepted[k]) - i + 1 \in Nat
        /\ Len(accepted[k]) + 1 - i + 1 = (Len(accepted[k]) - i + 1) + 1
    BY <1>2
  <2>2. accepted[k][i] \in Nat
    BY <1>1
  <2>3. QED
    BY <2>1, <2>2, EarnedFacts
<1>4. QED
  BY <1>1, <1>2, <1>3, Zenon

\* A key whose limiter was forgotten owes nothing any more.
LEMMA IdleOwesNothing ==
  ASSUME IInv, NEW k \in Keys \ displaced, pool[k] = None, NEW i \in 1..Len(accepted[k])
  PROVE  accepted[k][i] + Earned(Len(accepted[k]) - i + 1) <= now
<1> DEFINE s == accepted[k]
           n == Len(s)
<1>1. s \in Seq(Nat) /\ n \in 1..n /\ s # << >> /\ s[n] \in Nat /\ s[i] \in Nat
      /\ now \in Nat /\ lastGet[k] \in Nat /\ Earned(n - i + 1) \in Nat
  BY KeyFacts
<1>2. Earned(n - i + 1) <= s[n] - s[i] + Earned(Burst + 1)
  <2>1. WithinBudget(s) /\ i \in 1..n /\ i <= n
    BY <1>1 DEF IInv, BudgetKept
  <2> HIDE DEF s
  <2>2. QED
    BY <1>1, <2>1 DEF WithinBudget
<1>3. s[n] <= lastGet[k] /\ lastGet[k] + Idle <= now
  BY <1>1 DEF IInv, DebtsAgree
<1> DEFINE owed == Earned(n - i + 1)
           grace == Earned(Burst + 1)
<1>4. grace \in Nat /\ grace <= Idle /\ Idle \in Nat
  BY QuotaFacts
<1>5. owed \in Nat /\ owed <= s[n] - s[i] + grace /\ s[n] \in Nat /\ s[i] \in Nat
      /\ now \in Nat /\ lastGet[k] \in Nat
  BY <1>1, <1>2
<1> HIDE DEF owed, grace, s, n
<1>6. s[i] + owed <= now
  BY <1>3, <1>4, <1>5
<1>7. QED
  BY <1>6 DEF owed, s, n

\* A fetched limiter is its key's, and a new one owes what its key owes.
LEMMA GetKeeps ==
  ASSUME IInv, NEW w \in Workers, NEW req \in Requests, Get(w, req)
  PROVE  IInv'
<1> DEFINE k == ChargedKey(req)
<1>1. k \in Keys /\ now \in Nat /\ Interval \in Nat
  BY ChargedKeyIsKey, QuotaFacts DEF IInv, TypeOK
<1> HIDE DEF k
<1>2. /\ work[w] = Free /\ lastGet' = [lastGet EXCEPT ![k] = now]
      /\ UNCHANGED <<now, accepted, displaced>>
  BY DEF Get, k
<1>3. BudgetKept'
  BY <1>2 DEF IInv, BudgetKept, WithinBudget
<1>4. CASE /\ pool[k] # None
           /\ work' = [work EXCEPT ![w] = [key |-> k, lim |-> pool[k]]]
           /\ UNCHANGED <<pool, tat>>
  <2>1. TypeOK'
    BY <1>1, <1>2, <1>4 DEF IInv, TypeOK
  <2>2. LimitersAgree'
    <3>1. work'[w] = [key |-> k, lim |-> pool[k]] /\ \A v \in Workers : v # w => work'[v] = work[v]
      BY <1>4 DEF IInv, TypeOK
    <3>2. lastGet'[k] = now /\ \A j \in Keys : j # k => lastGet'[j] = lastGet[j]
      BY <1>1, <1>2 DEF IInv, TypeOK
    <3>3. ASSUME NEW v \in Workers, work'[v] # Free
          PROVE  /\ \A j \in Keys : pool[j] = work'[v].lim => j = work'[v].key
                 /\ work'[v].key \in Keys
                 /\ work'[v].key \notin displaced =>
                      pool[work'[v].key] = work'[v].lim /\ lastGet'[work'[v].key] = now
      <4>1. CASE v = w
        BY <1>1, <1>4, <3>1, <3>2, <4>1 DEF IInv, LimitersAgree
      <4>2. CASE v # w
        BY <3>1, <3>2, <3>3, <4>2 DEF IInv, TypeOK, LimitersAgree
      <4>3. QED
        BY <4>1, <4>2
    <3>4. ASSUME NEW v \in Workers, NEW u \in Workers, work'[v] # Free, work'[u] # Free,
                 work'[u].lim = work'[v].lim
          PROVE  work'[u].key = work'[v].key
      <4>1. CASE u = w
        BY <1>1, <3>1, <3>3, <3>4, <4>1
      <4>2. CASE v = w
        BY <1>1, <3>1, <3>3, <3>4, <4>2
      <4>3. CASE u # w /\ v # w
        BY <3>1, <3>4, <4>3 DEF IInv, LimitersAgree
      <4>4. QED
        BY <4>1, <4>2, <4>3
    <3>5. QED
      BY <1>2, <1>4, <3>3, <3>4 DEF IInv, LimitersAgree, Free
  <2>3. DebtsAgree'
    <3>1. ASSUME NEW j \in Keys \ displaced
          PROVE  /\ lastGet[j] <= lastGet'[j] /\ lastGet'[j] <= now /\ lastGet'[j] \in Nat
                 /\ pool[j] = None => lastGet'[j] = lastGet[j]
      BY <1>1, <1>2, <1>4 DEF IInv, TypeOK, DebtsAgree
    <3>2. ASSUME NEW j \in Keys \ displaced, NEW i \in 1..Len(accepted[j])
          PROVE  accepted[j][i] <= lastGet'[j]
      <4>1. accepted[j][i] <= lastGet[j] /\ accepted[j][i] \in Nat /\ lastGet[j] \in Nat
        BY KeyFacts DEF IInv, DebtsAgree
      <4>2. QED
        BY <3>1, <4>1
    <3>3. QED
      BY <1>2, <1>4, <3>1, <3>2 DEF IInv, DebtsAgree
  <2>4. QED
    BY <1>3, <2>1, <2>2, <2>3 DEF IInv
<1>5. CASE /\ pool[k] = None
           /\ \E o \in Limiters :
                 /\ Unused(o)
                 /\ pool' = [pool EXCEPT ![k] = o]
                 /\ tat' = [tat EXCEPT ![o] = Fresh]
                 /\ work' = [work EXCEPT ![w] = [key |-> k, lim |-> o]]
  <2>1. PICK o \in Limiters :
                 /\ Unused(o)
                 /\ pool' = [pool EXCEPT ![k] = o]
                 /\ tat' = [tat EXCEPT ![o] = Fresh]
                 /\ work' = [work EXCEPT ![w] = [key |-> k, lim |-> o]]
    BY <1>5
  <2>2. o # None /\ Fresh \in Nat /\ now <= Fresh
    BY <1>1, RequestAssumption DEF Fresh
  <2>3. TypeOK'
    BY <1>1, <1>2, <2>1, <2>2 DEF IInv, TypeOK
  <2>4. LimitersAgree'
    <3>1. work'[w] = [key |-> k, lim |-> o] /\ \A v \in Workers : v # w => work'[v] = work[v]
      BY <2>1 DEF IInv, TypeOK
    <3>2. lastGet'[k] = now /\ \A j \in Keys : j # k => lastGet'[j] = lastGet[j]
      BY <1>1, <1>2 DEF IInv, TypeOK
    <3>3. pool'[k] = o /\ \A j \in Keys : j # k => pool'[j] = pool[j] /\ pool[j] # o
      BY <1>1, <2>1 DEF IInv, TypeOK, Unused
    <3>4. \A v \in Workers : v # w /\ work'[v] # Free => work'[v].lim # o /\ work'[v].key \in Keys
      BY <2>1, <3>1 DEF IInv, TypeOK, Unused
    <3>5. \A i, j \in Keys : pool'[i] # None /\ pool'[i] = pool'[j] => i = j
      BY <2>2, <3>3 DEF IInv, LimitersAgree
    <3>6. ASSUME NEW v \in Workers, work'[v] # Free
          PROVE  /\ \A j \in Keys : pool'[j] = work'[v].lim => j = work'[v].key
                 /\ \A u \in Workers : work'[u] # Free /\ work'[u].lim = work'[v].lim
                                       => work'[u].key = work'[v].key
                 /\ work'[v].key \notin displaced =>
                      pool'[work'[v].key] = work'[v].lim /\ lastGet'[work'[v].key] = now
      <4>1. CASE v = w
        BY <1>1, <3>1, <3>2, <3>3, <3>4, <4>1
      <4>2. CASE v # w
        <5>1. work'[v] = work[v] /\ work[v].lim # o /\ work[v].key \in Keys
          BY <3>1, <3>4, <3>6, <4>2
        <5>2. \A j \in Keys : pool'[j] = work[v].lim => j = work[v].key
          BY <3>3, <3>6, <5>1 DEF IInv, LimitersAgree
        <5>3. \A u \in Workers : work'[u] # Free /\ work'[u].lim = work[v].lim
                                 => work'[u].key = work[v].key
          BY <3>1, <3>6, <5>1 DEF IInv, LimitersAgree
        <5>4. work[v].key \notin displaced =>
                pool[work[v].key] = work[v].lim /\ lastGet[work[v].key] = now
          BY <3>6, <5>1 DEF IInv, LimitersAgree
        <5>5. work[v].key \notin displaced => work[v].key # k
          BY <1>5, <2>2, <3>6, <5>1, <5>4, RequestAssumption DEF IInv, TypeOK
        <5>6. QED
          BY <3>2, <3>3, <5>1, <5>2, <5>3, <5>4, <5>5
      <4>3. QED
        BY <4>1, <4>2
    <3>7. QED
      BY <1>2, <3>5, <3>6 DEF LimitersAgree, Free
  <2>5. ASSUME NEW j \in Keys \ displaced
        PROVE  /\ \A i \in 1..Len(accepted[j]) :
                    /\ accepted[j][i] <= lastGet'[j]
                    /\ pool'[j] # None =>
                         accepted[j][i] + Earned(Len(accepted[j]) - i + 1) <= tat'[pool'[j]]
               /\ lastGet'[j] <= now
               /\ pool'[j] = None /\ accepted[j] # << >> => lastGet'[j] + Idle <= now
    <3>1. CASE j = k
      <4>1. pool'[j] = o /\ tat'[o] = Fresh /\ lastGet'[j] = now
        BY <1>1, <1>2, <2>1, <3>1 DEF IInv, TypeOK
      <4>2. ASSUME NEW i \in 1..Len(accepted[j])
            PROVE  /\ accepted[j][i] <= now
                   /\ accepted[j][i] + Earned(Len(accepted[j]) - i + 1) <= Fresh
        <5>1. accepted[j][i] + Earned(Len(accepted[j]) - i + 1) <= now
          BY <1>5, <3>1, IdleOwesNothing
        <5>2. accepted[j][i] \in Nat /\ Earned(Len(accepted[j]) - i + 1) \in Nat
          BY KeyFacts
        <5> DEFINE owed == Earned(Len(accepted[j]) - i + 1)
        <5> HIDE DEF owed
        <5>3. accepted[j][i] <= now /\ accepted[j][i] + owed <= Fresh
          BY <1>1, <2>2, <5>1, <5>2 DEF owed
        <5>4. QED
          BY <5>3 DEF owed
      <4>3. QED
        BY <1>1, <2>2, <4>1, <4>2
    <3>2. CASE j # k
      <4>1. pool'[j] = pool[j] /\ lastGet'[j] = lastGet[j]
            /\ (pool[j] # None => tat'[pool[j]] = tat[pool[j]])
        BY <1>1, <1>2, <2>1, <3>2 DEF IInv, TypeOK, Unused
      <4>2. QED
        BY <4>1 DEF IInv, DebtsAgree
    <3>3. QED
      BY <3>1, <3>2
  <2>6. DebtsAgree'
    BY <1>2, <2>5 DEF DebtsAgree
  <2>7. QED
    BY <1>3, <2>3, <2>4, <2>6 DEF IInv
<1>6. QED
  BY <1>4, <1>5 DEF Get, k

\* A granted request is charged to the limiter of its key, and to no other.
LEMMA AcceptKeeps ==
  ASSUME IInv, NEW w \in Workers, Accept(w)
  PROVE  IInv'
<1> DEFINE k == work[w].key
           o == work[w].lim
           s == accepted[k]
           n == Len(s)
           t == Append(s, now)
<1>1. k \in Keys /\ o \in Limiters /\ now \in Nat /\ work[w] # Free /\ o # None
  BY RequestAssumption DEF Accept, IInv, TypeOK
<1>2. s \in Seq(Nat) /\ n \in Nat /\ tat[o] \in Nat
  BY <1>1 DEF IInv, TypeOK
<1>3. /\ tat' = [tat EXCEPT ![o] = MaxOf(tat[o], now) + Interval]
      /\ accepted' = [accepted EXCEPT ![k] = t]
      /\ work' = [work EXCEPT ![w] = Free]
      /\ tat[o] <= now + Earned(Burst)
      /\ UNCHANGED <<now, pool, lastGet, displaced>>
  BY DEF Accept, Conforms
<1>4. \A j \in Keys : pool[j] = o => j = k
  BY <1>1 DEF IInv, LimitersAgree
<1>5. k \notin displaced => pool[k] = o /\ lastGet[k] = now
  BY <1>1 DEF IInv, LimitersAgree
<1>6. \A i \in 1..n : s[i] \in Nat /\ Earned(n - i + 1) \in Nat
                      /\ Earned(n + 1 - i + 1) = Earned(n - i + 1) + Interval
  BY <1>1, KeyFacts
<1>7. ASSUME k \notin displaced, NEW i \in 1..n
      PROVE  s[i] <= now /\ s[i] + Earned(n - i + 1) <= tat[o]
  BY <1>1, <1>5, <1>7 DEF IInv, DebtsAgree
<1>8. ASSUME k \notin displaced, NEW i \in 1..n, NEW m \in 1..n, i <= m
      PROVE  Earned(m - i + 1) <= s[m] - s[i] + Earned(Burst + 1)
  BY <1>1, <1>8 DEF IInv, BudgetKept, WithinBudget
<1>9. /\ accepted'[k] = t
      /\ \A j \in Keys : j # k => accepted'[j] = accepted[j]
  BY <1>1, <1>3 DEF IInv, TypeOK
<1>10. t \in Seq(Nat) /\ Len(t) = n + 1 /\ t[n + 1] = now /\ \A i \in 1..n : t[i] = s[i]
  BY <1>1, <1>2
<1> HIDE DEF k, o, s, n, t
<1>11. Interval \in Nat /\ Earned(Burst) \in Nat
       /\ Earned(Burst + 1) = Earned(Burst) + Interval /\ Earned(1) = Interval
  BY QuotaFacts, EarnedFacts
<1>12. /\ tat'[o] \in Nat /\ tat[o] + Interval <= tat'[o] /\ now + Interval <= tat'[o]
       /\ \A p \in Limiters : p # o => tat'[p] = tat[p]
  BY <1>1, <1>2, <1>3, <1>11 DEF IInv, TypeOK, MaxOf
<1>13. TypeOK'
  <2>1. tat' \in [Limiters -> Nat]
    BY <1>3, <1>12 DEF IInv, TypeOK
  <2>2. accepted' \in [Keys -> Seq(Nat)]
    BY <1>3, <1>10 DEF IInv, TypeOK
  <2>3. QED
    BY <1>3, <2>1, <2>2 DEF IInv, TypeOK
<1>14. LimitersAgree'
  BY <1>3 DEF IInv, TypeOK, LimitersAgree
<1>15. DebtsAgree'
  <2>1. SUFFICES ASSUME NEW j \in Keys \ displaced
                 PROVE  /\ \A i \in 1..Len(accepted'[j]) :
                             /\ accepted'[j][i] <= lastGet[j]
                             /\ pool[j] # None =>
                                  accepted'[j][i] + Earned(Len(accepted'[j]) - i + 1)
                                    <= tat'[pool[j]]
                        /\ lastGet[j] <= now
                        /\ pool[j] = None /\ accepted'[j] # << >> => lastGet[j] + Idle <= now
    BY <1>3 DEF DebtsAgree
  <2>2. CASE j # k
    <3>1. accepted'[j] = accepted[j] /\ (pool[j] # None => tat'[pool[j]] = tat[pool[j]])
      BY <1>4, <1>9, <1>12, <2>2 DEF IInv, TypeOK
    <3>2. QED
      BY <3>1 DEF IInv, DebtsAgree
  <2>3. CASE j = k
    <3>1. lastGet[j] = now /\ pool[j] = o /\ k \notin displaced
      BY <1>5, <2>3
    <3>2. ASSUME NEW i \in 1..(n + 1)
          PROVE  t[i] <= now /\ t[i] + Earned(n + 1 - i + 1) <= tat'[o]
      <4>1. CASE i \in 1..n
        <5>1. t[i] = s[i] /\ s[i] \in Nat /\ s[i] <= now /\ Earned(n - i + 1) \in Nat
              /\ Earned(n + 1 - i + 1) = Earned(n - i + 1) + Interval
              /\ s[i] + Earned(n - i + 1) <= tat[o]
          BY <1>6, <1>7, <1>10, <3>1, <4>1
        <5> DEFINE owed == Earned(n - i + 1)
        <5> HIDE DEF owed
        <5>2. owed \in Nat /\ s[i] \in Nat /\ s[i] + owed <= tat[o]
          BY <5>1 DEF owed
        <5>3. tat[o] + Interval <= tat'[o] /\ tat[o] \in Nat /\ tat'[o] \in Nat /\ Interval \in Nat
          BY <1>2, <1>11, <1>12
        <5>4. s[i] + (owed + Interval) <= tat'[o]
          BY <5>2, <5>3
        <5>5. QED
          BY <5>1, <5>4 DEF owed
      <4>2. CASE i = n + 1
        <5>1. n + 1 - i + 1 = 1 /\ t[i] = now
          BY <1>2, <1>10, <4>2
        <5>2. QED
          BY <1>1, <1>11, <1>12, <5>1
      <4>3. QED
        BY <1>2, <4>1, <4>2
    <3>3. QED
      <4>1. accepted'[j] = t /\ Len(t) = n + 1 /\ now <= now
        BY <1>1, <1>9, <1>10, <2>3
      <4>2. pool[j] # None
        BY <1>1, <3>1
      <4>3. QED
        <5>1. ASSUME NEW i \in 1..Len(accepted'[j])
              PROVE  /\ accepted'[j][i] <= lastGet[j]
                     /\ accepted'[j][i] + Earned(Len(accepted'[j]) - i + 1) <= tat'[pool[j]]
          <6>1. i \in 1..(n + 1)
            BY <4>1
          <6>2. t[i] <= now /\ t[i] + Earned(n + 1 - i + 1) <= tat'[o]
            BY <3>2, <6>1
          <6>3. Len(accepted'[j]) - i + 1 = n + 1 - i + 1
            BY <1>2, <4>1
          <6>4. QED
            BY <3>1, <4>1, <6>2, <6>3
        <5>2. lastGet[j] <= now
          BY <1>1, <3>1
        <5>3. QED
          BY <4>2, <5>1, <5>2
  <2>4. QED
    BY <2>2, <2>3
<1>16. BudgetKept'
  <2>1. SUFFICES ASSUME NEW j \in Keys \ displaced
                 PROVE  WithinBudget(accepted'[j])
    BY <1>3 DEF BudgetKept, WithinBudget
  <2>2. CASE j # k
    BY <1>9, <2>2 DEF IInv, BudgetKept
  <2>3. CASE j = k
    <3>1. SUFFICES ASSUME NEW i \in 1..(n + 1), NEW m \in 1..(n + 1), i <= m
                   PROVE  Earned(m - i + 1) <= t[m] - t[i] + Earned(Burst + 1)
      BY <1>9, <1>10, <2>3 DEF WithinBudget
    <3>2. CASE m \in 1..n
      <4>1. i \in 1..n
        BY <1>2, <3>1, <3>2
      <4>2. QED
        BY <1>8, <1>10, <2>3, <3>1, <3>2, <4>1
    <3>3. CASE m = n + 1 /\ i \in 1..n
      <4>1. t[m] = now /\ t[i] = s[i] /\ s[i] \in Nat /\ Earned(n - i + 1) \in Nat
            /\ Earned(m - i + 1) = Earned(n - i + 1) + Interval
            /\ s[i] + Earned(n - i + 1) <= tat[o]
        <5>1. k \notin displaced /\ m - i + 1 = n + 1 - i + 1
          BY <1>2, <2>3, <3>3
        <5>2. QED
          BY <1>6, <1>7, <1>10, <3>3, <5>1
      <4>2. QED
        <5>1. tat[o] <= now + Earned(Burst) /\ tat[o] \in Nat /\ now \in Nat
          BY <1>1, <1>2, <1>3
        <5> DEFINE owed == Earned(n - i + 1)
        <5> HIDE DEF owed
        <5>2. owed + Interval <= now - s[i] + (Earned(Burst) + Interval)
          BY <1>11, <4>1, <5>1 DEF owed
        <5>3. QED
          BY <1>11, <4>1, <5>2 DEF owed
    <3>4. CASE m = n + 1 /\ i = n + 1
      <4>1. m - i + 1 = 1 /\ t[m] - t[i] = 0
        BY <1>1, <1>2, <1>10, <3>4
      <4>2. QED
        BY <1>11, <4>1
    <3>5. QED
      BY <1>2, <3>1, <3>2, <3>3, <3>4
  <2>4. QED
    BY <2>2, <2>3
<1>17. QED
  BY <1>13, <1>14, <1>15, <1>16 DEF IInv

LEMMA RefuseKeeps ==
  ASSUME IInv, NEW w \in Workers, Refuse(w)
  PROVE  IInv'
<1>1. work' = [work EXCEPT ![w] = Free]
      /\ UNCHANGED <<now, pool, lastGet, tat, accepted, displaced>>
  BY DEF Refuse
<1>2. TypeOK'
  BY <1>1 DEF IInv, TypeOK
<1>3. LimitersAgree'
  BY <1>1 DEF IInv, TypeOK, LimitersAgree
<1>4. DebtsAgree' /\ BudgetKept'
  BY <1>1 DEF IInv, DebtsAgree, BudgetKept, WithinBudget
<1>5. QED
  BY <1>2, <1>3, <1>4 DEF IInv

\* Time stands still while a limiter is held, so none that is held is idle.
LEMMA EvictIdleKeeps ==
  ASSUME IInv, NEW k \in Keys, EvictIdle(k)
  PROVE  IInv'
<1>1. /\ pool' = [pool EXCEPT ![k] = None] /\ now - lastGet[k] >= Idle
      /\ UNCHANGED <<now, lastGet, tat, work, accepted, displaced>>
  BY DEF EvictIdle, Expired
<1>2. Idle \in Nat /\ Idle >= 1 /\ now \in Nat /\ \A j \in Keys : lastGet[j] \in Nat
  BY QuotaAssumption, IdleAssumption DEF IInv, TypeOK
<1>3. \A j \in Keys : j # k => pool'[j] = pool[j]
  BY <1>1 DEF IInv, TypeOK
<1>4. pool'[k] = None
  BY <1>1 DEF IInv, TypeOK
<1>5. TypeOK'
  BY <1>1 DEF IInv, TypeOK
<1>6. LimitersAgree'
  <2>1. \A w \in Workers : work[w] # Free /\ work[w].key \notin displaced => work[w].key # k
    BY <1>1, <1>2 DEF IInv, LimitersAgree
  <2>2. \A w \in Workers : work[w] # Free => work[w].key \in Keys /\ work[w].lim # None
    BY RequestAssumption DEF IInv, TypeOK
  <2>3. QED
    BY <1>1, <1>3, <1>4, <2>1, <2>2 DEF IInv, LimitersAgree
<1>7. DebtsAgree'
  BY <1>1, <1>2, <1>3, <1>4 DEF IInv, DebtsAgree
<1>8. BudgetKept'
  BY <1>1 DEF IInv, BudgetKept, WithinBudget
<1>9. QED
  BY <1>5, <1>6, <1>7, <1>8 DEF IInv

LEMMA EvictOverflowKeeps ==
  ASSUME IInv, NEW k \in Keys, EvictOverflow(k)
  PROVE  IInv'
<1>1. /\ pool' = [pool EXCEPT ![k] = None] /\ displaced' = displaced \cup {k}
      /\ UNCHANGED <<now, lastGet, tat, work, accepted>>
  BY DEF EvictOverflow
<1>2. pool'[k] = None /\ \A j \in Keys : j # k => pool'[j] = pool[j]
  BY <1>1 DEF IInv, TypeOK
<1>3. TypeOK'
  BY <1>1 DEF IInv, TypeOK
<1>4. LimitersAgree'
  <2>1. \A w \in Workers : work[w] # Free => work[w].key \in Keys /\ work[w].lim # None
    BY RequestAssumption DEF IInv, TypeOK
  <2>2. QED
    BY <1>1, <1>2, <2>1 DEF IInv, LimitersAgree
<1>5. DebtsAgree'
  BY <1>1, <1>2 DEF IInv, DebtsAgree
<1>6. BudgetKept'
  BY <1>1 DEF IInv, BudgetKept, WithinBudget
<1>7. QED
  BY <1>3, <1>4, <1>5, <1>6 DEF IInv

LEMMA TickKeeps ==
  ASSUME IInv, Tick
  PROVE  IInv'
<1>1. /\ \A w \in Workers : work[w] = Free
      /\ now' = now + 1
      /\ UNCHANGED <<pool, lastGet, tat, work, accepted, displaced>>
  BY DEF Tick
<1>2. Idle \in Nat /\ now \in Nat /\ \A j \in Keys : lastGet[j] \in Nat
  BY IdleAssumption DEF IInv, TypeOK
<1>3. TypeOK'
  BY <1>1 DEF IInv, TypeOK
<1>4. LimitersAgree'
  BY <1>1 DEF IInv, LimitersAgree
<1>5. DebtsAgree'
  BY <1>1, <1>2 DEF IInv, DebtsAgree
<1>6. BudgetKept'
  BY <1>1 DEF IInv, BudgetKept, WithinBudget
<1>7. QED
  BY <1>3, <1>4, <1>5, <1>6 DEF IInv

LEMMA NextKeeps == IInv /\ [Next]_vars => IInv'
<1> SUFFICES ASSUME IInv, [Next]_vars PROVE IInv'
  OBVIOUS
<1>1. ASSUME NEW w \in Workers, (\E req \in Requests : Get(w, req)) \/ Accept(w) \/ Refuse(w)
      PROVE  IInv'
  BY <1>1, GetKeeps, AcceptKeeps, RefuseKeeps
<1>2. ASSUME NEW k \in Keys, EvictIdle(k) \/ EvictOverflow(k)
      PROVE  IInv'
  BY <1>2, EvictIdleKeeps, EvictOverflowKeeps
<1>3. CASE UNCHANGED vars
  BY <1>3 DEF vars, IInv, TypeOK, LimitersAgree, DebtsAgree, BudgetKept, WithinBudget
<1>4. QED
  BY <1>1, <1>2, <1>3, TickKeeps DEF Next

-----------------------------------------------------------------------------
\* A limiter in use is its key's, a limiter owes all that was granted to its
\* key, and a key without one owes nothing (get_rate_limiter and
\* get_api_key_rate_limiter with their idle and capacity eviction).
THEOREM LimitersOweTheirGrants == Spec => []IInv
<1>1. QED
  BY InitInv, NextKeeps, PTL DEF Spec

\* Whatever the order of requests, threads and evictions, a key that no full
\* cache has pushed out gets no more than one limiter kept for ever would
\* grant: forgetting after 120 s of idleness gives nobody a second budget.
THEOREM NoSecondBudget == Spec => []BudgetKept
<1>1. QED
  BY LimitersOweTheirGrants, PTL DEF IInv

-----------------------------------------------------------------------------
(* What is refused is refused rightly.                                     *)

LEMMA AheadFacts ==
  /\ Ahead \in {0, 1} /\ Earned(Ahead) \in Nat /\ Earned(Ahead) <= Earned(Burst)
  /\ now \in Nat => Fresh = now + Earned(Ahead)
<1>1. Interval \in Nat /\ Earned(0) = 0 /\ Earned(1) = Interval
  <2>1. Interval \in Nat
    BY QuotaFacts
  <2> HIDE DEF Interval
  <2>2. QED
    BY <2>1 DEF Earned
<1>2. Interval <= Earned(Burst)
  <2>1. Burst \in Nat /\ Burst >= 1
    BY QuotaAssumption DEF Burst
  <2> DEFINE m == Burst - 1
  <2>2. m \in Nat /\ Burst = m + 1
    BY <2>1
  <2> HIDE DEF m
  <2>3. Earned(m) \in Nat /\ Earned(m + 1) = Earned(m) + Interval
    BY <2>2, EarnedFacts
  <2>4. QED
    BY <1>1, <2>2, <2>3
<1> HIDE DEF Interval, Burst
<1>3. CASE CountedAhead
  BY <1>1, <1>2, <1>3 DEF Ahead, Fresh
<1>4. CASE ~CountedAhead
  <2>1. Ahead = 0 /\ Fresh = now
    BY <1>4 DEF Ahead, Fresh
  <2>2. 0 <= Earned(Burst)
    BY <1>1, <1>2, QuotaFacts, EarnedFacts
  <2>3. QED
    BY <1>1, <2>1, <2>2
<1>5. QED
  BY <1>3, <1>4

\* A key owes no less when time passes.
LEMMA DueLater ==
  ASSUME NEW k, NEW o, Due(k, o), tat[o] \in Nat, now \in Nat, now' \in Nat, now <= now',
         tat'[o] = tat[o], accepted'[k] = accepted[k]
  PROVE  Due(k, o)'
<1>1. Earned(Ahead) \in Nat
  BY AheadFacts
<1>2. CASE tat[o] <= now + Earned(Ahead)
  <2>1. tat'[o] <= now' + Earned(Ahead)
    BY <1>1, <1>2
  <2>2. QED
    BY <2>1 DEF Due
<1>3. CASE \E i \in 1..Len(accepted[k]) :
             tat[o] <= accepted[k][i] + Earned(Len(accepted[k]) - i + 1 + Ahead)
  BY <1>3 DEF Due
<1>4. QED
  BY <1>2, <1>3 DEF Due

\* What a request adds to the debt of its limiter, it adds to that of its key;
\* another limiter of the key is owed no more than before.
LEMMA DueOneMore ==
  ASSUME IInv, NEW k \in Keys, NEW o \in Limiters, Due(k, o), now' = now,
         accepted'[k] = Append(accepted[k], now),
         tat'[o] \in {tat[o], MaxOf(tat[o], now) + Interval}
  PROVE  Due(k, o)'
<1> DEFINE s == accepted[k]
           n == Len(s)
           t == Append(s, now)
<1>1. /\ now \in Nat /\ tat[o] \in Nat /\ s \in Seq(Nat) /\ n \in Nat
      /\ Interval \in Nat /\ Ahead \in {0, 1} /\ Earned(Ahead) \in Nat
  BY AheadFacts, QuotaFacts DEF IInv, TypeOK
<1>2. t \in Seq(Nat) /\ Len(t) = n + 1 /\ t[n + 1] = now /\ \A i \in 1..n : t[i] = s[i] /\ s[i] \in Nat
  BY <1>1
<1>3. accepted'[k] = t
  OBVIOUS
<1>4. \E i \in 1..(n + 1) : tat'[o] <= t[i] + Earned(n + 1 - i + 1 + Ahead)
  <2>1. CASE tat[o] <= now + Earned(Ahead)
    <3>1. tat'[o] <= now + Earned(Ahead) + Interval
      BY <1>1, <2>1 DEF MaxOf
    <3>2. n + 1 - (n + 1) + 1 + Ahead = Ahead + 1 /\ Ahead \in Nat /\ n + 1 \in 1..(n + 1)
      BY <1>1
    <3>3. Earned(Ahead + 1) = Earned(Ahead) + Interval
      BY <3>2, EarnedFacts
    <3>4. tat'[o] <= t[n + 1] + Earned(n + 1 - (n + 1) + 1 + Ahead)
      BY <1>1, <1>2, <3>1, <3>2, <3>3
    <3>5. QED
      BY <3>2, <3>4
  <2>2. CASE \E i \in 1..n : tat[o] <= s[i] + Earned(n - i + 1 + Ahead)
    <3>1. PICK i \in 1..n : tat[o] <= s[i] + Earned(n - i + 1 + Ahead)
      BY <2>2
    <3> DEFINE m == n - i + 1 + Ahead
    <3>2. m \in Nat /\ n + 1 - i + 1 + Ahead = m + 1 /\ i \in 1..(n + 1)
      BY <1>1
    <3>3. tat[o] <= s[i] + Earned(m) /\ t[i] = s[i] /\ s[i] \in Nat
      BY <1>2, <3>1
    <3> HIDE DEF m, t, s, n
    <3>4. Earned(m) \in Nat /\ Earned(m + 1) = Earned(m) + Interval
      BY <3>2, EarnedFacts
    <3>5. CASE tat'[o] <= tat[o] + Interval
      <4>1. tat'[o] \in Nat
        BY <1>1 DEF MaxOf
      <4>2. \A a, b, x, e \in Nat : a <= x + e /\ b <= a + Interval => b <= x + (e + Interval)
        BY <1>1
      <4>3. tat'[o] <= s[i] + (Earned(m) + Interval)
        BY <1>1, <3>3, <3>4, <3>5, <4>1, <4>2
      <4>4. tat'[o] <= t[i] + Earned(m + 1)
        BY <3>3, <3>4, <4>3
      <4>5. QED
        BY <3>2, <4>4
    \* Otherwise the limiter owed nothing any more.
    <3>6. CASE ~(tat'[o] <= tat[o] + Interval)
      <4>1. tat'[o] = now + Interval
        BY <1>1, <3>6 DEF MaxOf
      <4>2. n + 1 - (n + 1) + 1 + Ahead = Ahead + 1 /\ Ahead \in Nat /\ n + 1 \in 1..(n + 1)
        BY <1>1
      <4>3. Earned(Ahead + 1) = Earned(Ahead) + Interval
        BY <4>2, EarnedFacts
      <4>4. tat'[o] <= t[n + 1] + Earned(n + 1 - (n + 1) + 1 + Ahead)
        BY <1>1, <1>2, <4>1, <4>2, <4>3
      <4>5. QED
        BY <4>2, <4>4
    <3>7. QED
      BY <3>5, <3>6
  <2>3. QED
    BY <2>1, <2>2 DEF Due
<1> HIDE DEF s, n, t
<1>5. PICK i \in 1..(n + 1) : tat'[o] <= t[i] + Earned(n + 1 - i + 1 + Ahead)
  BY <1>4
<1>6. i \in 1..Len(accepted'[k])
      /\ tat'[o] <= accepted'[k][i] + Earned(Len(accepted'[k]) - i + 1 + Ahead)
  <2>1. Len(accepted'[k]) = n + 1 /\ accepted'[k][i] = t[i]
    <3>1. Len(t) = n + 1
      BY <1>2
    <3>2. QED
      BY <1>3, <3>1
  <2>2. n + 1 - i + 1 + Ahead = Len(accepted'[k]) - i + 1 + Ahead
    BY <1>1, <1>5, <2>1
  <2>3. Earned(n + 1 - i + 1 + Ahead) = Earned(Len(accepted'[k]) - i + 1 + Ahead)
    BY <2>2, Zenon
  <2>4. t[i] = accepted'[k][i] /\ n + 1 = Len(accepted'[k])
    BY <2>1
  <2>5. i \in 1..Len(accepted'[k])
    BY <1>5, <2>4, Zenon
  <2>6. tat'[o] <= accepted'[k][i] + Earned(Len(accepted'[k]) - i + 1 + Ahead)
    BY <1>5, <2>3, <2>4, Zenon
  <2>7. QED
    BY <2>5, <2>6
<1>7. QED
  BY <1>6 DEF Due

LEMMA InitDue == Init => DebtsDue
BY DEF Init, DebtsDue

LEMMA GetDue ==
  ASSUME IInv, DebtsDue, NEW w \in Workers, NEW req \in Requests, Get(w, req)
  PROVE  DebtsDue'
<1> DEFINE k == ChargedKey(req)
<1>1. k \in Keys /\ now \in Nat
  BY ChargedKeyIsKey DEF IInv, TypeOK
<1> HIDE DEF k
<1>2. UNCHANGED <<now, accepted>>
  BY DEF Get
<1>3. CASE /\ pool[k] # None
           /\ work' = [work EXCEPT ![w] = [key |-> k, lim |-> pool[k]]]
           /\ UNCHANGED <<pool, tat>>
  BY <1>1, <1>2, <1>3 DEF IInv, TypeOK, DebtsDue, Due
<1>4. CASE /\ pool[k] = None
           /\ \E o \in Limiters :
                 /\ Unused(o)
                 /\ pool' = [pool EXCEPT ![k] = o]
                 /\ tat' = [tat EXCEPT ![o] = Fresh]
                 /\ work' = [work EXCEPT ![w] = [key |-> k, lim |-> o]]
  <2>1. PICK o \in Limiters :
                 /\ Unused(o)
                 /\ pool' = [pool EXCEPT ![k] = o]
                 /\ tat' = [tat EXCEPT ![o] = Fresh]
                 /\ work' = [work EXCEPT ![w] = [key |-> k, lim |-> o]]
    BY <1>4
  <2>2. Fresh = now + Earned(Ahead) /\ Earned(Ahead) \in Nat
    BY <1>1, AheadFacts
  <2>3. \A j \in Keys : Due(j, o)'
    BY <1>1, <1>2, <2>1, <2>2 DEF IInv, TypeOK, Due
  <2>4. ASSUME NEW j \in Keys, NEW p \in Limiters, p # o, Due(j, p)
        PROVE  Due(j, p)'
    BY <1>2, <2>1, <2>4 DEF IInv, TypeOK, Due
  <2>5. ASSUME NEW j \in Keys, pool'[j] # None
        PROVE  Due(j, pool[j])'
    BY <1>1, <2>1, <2>3, <2>4, <2>5 DEF IInv, TypeOK, DebtsDue, Unused
  <2>6. ASSUME NEW v \in Workers, work'[v] # Free
        PROVE  Due(work[v].key, work[v].lim)'
    <3>1. CASE v = w
      BY <1>1, <2>1, <2>3, <3>1 DEF IInv, TypeOK
    <3>2. CASE v # w
      <4>1. /\ work'[v] = work[v] /\ work[v] # Free /\ work[v].lim # o
            /\ work[v].key \in Keys /\ work[v].lim \in Limiters
        BY <2>1, <2>6, <3>2 DEF IInv, TypeOK, Unused
      <4>2. QED
        BY <2>4, <4>1 DEF DebtsDue
    <3>3. QED
      BY <3>1, <3>2
  <2>7. QED
    BY <2>5, <2>6 DEF DebtsDue, Free
<1>5. QED
  BY <1>3, <1>4 DEF Get, k

LEMMA AcceptDue ==
  ASSUME IInv, DebtsDue, NEW w \in Workers, Accept(w)
  PROVE  DebtsDue'
<1> DEFINE k == work[w].key
           o == work[w].lim
<1>1. /\ work[w] # Free /\ k \in Keys /\ o \in Limiters /\ now \in Nat
      /\ tat' = [tat EXCEPT ![o] = MaxOf(tat[o], now) + Interval]
      /\ accepted' = [accepted EXCEPT ![k] = Append(@, now)]
      /\ work' = [work EXCEPT ![w] = Free]
      /\ UNCHANGED <<now, pool>>
  BY DEF Accept, IInv, TypeOK
<1>2. /\ \A j \in Keys : pool[j] = o => j = k
      /\ \A v \in Workers : work[v] # Free /\ work[v].lim = o => work[v].key = k
  BY <1>1 DEF IInv, LimitersAgree
<1> HIDE DEF k, o
<1>3. ASSUME NEW j \in Keys, NEW p \in Limiters, Due(j, p), p = o => j = k
      PROVE  Due(j, p)'
  <2>1. CASE j = k
    <3>1. accepted'[j] = Append(accepted[j], now)
          /\ tat'[p] \in {tat[p], MaxOf(tat[p], now) + Interval}
      BY <1>1, <2>1 DEF IInv, TypeOK
    <3>2. QED
      BY <1>1, <1>3, <3>1, DueOneMore
  <2>2. CASE j # k
    <3>1. accepted'[j] = accepted[j] /\ tat'[p] = tat[p] /\ tat[p] \in Nat
      BY <1>1, <1>3, <2>2 DEF IInv, TypeOK
    <3>2. QED
      BY <1>1, <1>3, <3>1, DueLater
  <2>3. QED
    BY <2>1, <2>2
<1>4. ASSUME NEW j \in Keys, pool'[j] # None
      PROVE  Due(j, pool[j])'
  <2>1. pool'[j] = pool[j] /\ pool[j] \in Limiters /\ Due(j, pool[j])
    BY <1>1, <1>4 DEF IInv, TypeOK, DebtsDue
  <2>2. PICK p \in Limiters : p = pool[j] /\ Due(j, p) /\ (p = o => j = k) /\ pool'[j] = p
    BY <1>2, <2>1
  <2>3. Due(j, p)'
    BY <1>3, <2>2
  <2>4. QED
    BY <2>2, <2>3 DEF Due
<1>5. ASSUME NEW v \in Workers, work'[v] # Free
      PROVE  Due(work[v].key, work[v].lim)'
  <2>1. /\ work'[v] = work[v] /\ work[v] # Free
        /\ work[v].key \in Keys /\ work[v].lim \in Limiters
    BY <1>1, <1>5 DEF IInv, TypeOK
  <2>2. Due(work[v].key, work[v].lim)
    BY <2>1 DEF DebtsDue
  <2>3. PICK j \in Keys, p \in Limiters :
          j = work[v].key /\ p = work[v].lim /\ Due(j, p) /\ (p = o => j = k)
    BY <1>2, <2>1, <2>2
  <2>4. work'[v].key = j /\ work'[v].lim = p
    BY <2>1, <2>3
  <2>5. QED
    BY <1>3, <2>3, <2>4 DEF Due
<1>6. QED
  BY <1>4, <1>5 DEF DebtsDue, Free

LEMMA StepDue == IInv /\ DebtsDue /\ [Next]_vars => DebtsDue'
<1> SUFFICES ASSUME IInv, DebtsDue, [Next]_vars PROVE DebtsDue'
  OBVIOUS
<1>1. ASSUME NEW w \in Workers, Refuse(w) PROVE DebtsDue'
  BY <1>1 DEF Refuse, IInv, TypeOK, DebtsDue, Due, Free
<1>2. ASSUME NEW k \in Keys, EvictIdle(k) \/ EvictOverflow(k) PROVE DebtsDue'
  BY <1>2 DEF EvictIdle, EvictOverflow, IInv, TypeOK, DebtsDue, Due, Free
<1>3. CASE Tick
  <2>1. /\ \A w \in Workers : work[w] = Free
        /\ now \in Nat /\ now' = now + 1 /\ UNCHANGED <<pool, tat, work, accepted>>
    BY <1>3 DEF Tick, IInv, TypeOK
  <2>2. ASSUME NEW k \in Keys, pool[k] # None PROVE Due(k, pool[k])'
    <3>1. tat[pool[k]] \in Nat /\ Due(k, pool[k]) /\ pool'[k] = pool[k]
      BY <2>1, <2>2 DEF IInv, TypeOK, DebtsDue
    <3> DEFINE o == pool[k]
    <3>2. now' \in Nat /\ now <= now' /\ tat'[o] = tat[o] /\ accepted'[k] = accepted[k]
      BY <2>1
    <3>3. Due(k, o) /\ tat[o] \in Nat /\ pool'[k] = o
      BY <3>1
    <3> HIDE DEF o
    <3>4. tat'[o] <= now' + Earned(Ahead) \/ \E i \in 1..Len(accepted'[k]) :
            tat'[o] <= accepted'[k][i] + Earned(Len(accepted'[k]) - i + 1 + Ahead)
      <4>1. Earned(Ahead) \in Nat
        BY AheadFacts
      <4>2. QED
        BY <2>1, <3>2, <3>3, <4>1 DEF Due
    <3>5. QED
      BY <3>3, <3>4 DEF Due
  <2>3. QED
    BY <2>1, <2>2 DEF DebtsDue, Free
<1>4. CASE UNCHANGED vars
  BY <1>4 DEF vars, DebtsDue, Due, Free
<1>5. QED
  BY <1>1, <1>2, <1>3, <1>4, GetDue, AcceptDue DEF Next

\* Whoever gets a 429 has used up a budget of its own: for any limit, any number
\* of keys, threads and evictions, no key pays for another's requests, for
\* requests that were refused, or for a limiter made anew.
THEOREM NoneRefusedEarly == Spec => []RefusedRightly
<1>1. ASSUME IInv, DebtsDue, NEW w \in Workers, work[w] # Free, ~Conforms(work[w].lim)
      PROVE  UsedUp(work[w].key)
  <2> DEFINE k == work[w].key
             o == work[w].lim
  <2>1. k \in Keys /\ o \in Limiters /\ Due(k, o) /\ ~(tat[o] <= now + Earned(Burst))
    BY <1>1 DEF IInv, TypeOK, DebtsDue, Conforms
  <2> HIDE DEF k, o
  <2>2. now \in Nat /\ tat[o] \in Nat /\ Earned(Ahead) <= Earned(Burst)
        /\ Earned(Ahead) \in Nat /\ Earned(Burst) \in Nat
    BY <1>1, <2>1, AheadFacts, EarnedFacts, QuotaFacts DEF IInv, TypeOK
  <2>3. PICK i \in 1..Len(accepted[k]) :
          tat[o] <= accepted[k][i] + Earned(Len(accepted[k]) - i + 1 + Ahead)
    BY <2>1, <2>2 DEF Due
  <2>4. accepted[k][i] + Earned(Len(accepted[k]) - i + 1 + Ahead) \in Int
    <3>1. accepted[k] \in Seq(Nat) /\ accepted[k][i] \in Nat
      BY <1>1, <2>1 DEF IInv, TypeOK
    <3>2. Len(accepted[k]) - i + 1 + Ahead \in Nat
      BY <3>1, AheadFacts
    <3>3. Earned(Len(accepted[k]) - i + 1 + Ahead) \in Nat
      BY <3>2, EarnedFacts
    <3>4. QED
      BY <3>1, <3>3
  <2>5. now + Earned(Burst) < accepted[k][i] + Earned(Len(accepted[k]) - i + 1 + Ahead)
    BY <2>1, <2>2, <2>3, <2>4
  <2>6. QED
    BY <2>5 DEF UsedUp, k
<1>2. IInv /\ DebtsDue => RefusedRightly
  BY <1>1 DEF RefusedRightly
<1>3. Spec => []DebtsDue
  BY InitDue, StepDue, LimitersOweTheirGrants, PTL DEF Spec
<1>4. QED
  BY <1>2, <1>3, LimitersOweTheirGrants, PTL

-----------------------------------------------------------------------------
(* A minute.                                                               *)

\* A burst and what is earned behind it (rate_limit.rs:54): the requests granted
\* to a key within a minute.
AtMostTwice ==
  \A k \in Keys \ displaced : \A i, j \in 1..Len(accepted[k]) :
    i <= j /\ accepted[k][j] - accepted[k][i] < Minute => j - i + 1 <= 2 * Burst

\* RATE_LIMIT_PER_MINUTE is a limit on the rate: in the worst minute a key is
\* granted twice as many requests, and never more, where the limit divides the
\* minute.
THEOREM TwiceInAMinute == Minute = Earned(Burst) => (Spec => []AtMostTwice)
<1>1. ASSUME Minute = Earned(Burst), IInv, NEW k \in Keys \ displaced,
             NEW i \in 1..Len(accepted[k]), NEW j \in 1..Len(accepted[k]),
             i <= j, accepted[k][j] - accepted[k][i] < Minute
      PROVE  j - i + 1 <= 2 * Burst
  <2>1. Earned(j - i + 1) <= accepted[k][j] - accepted[k][i] + Earned(Burst + 1)
    BY <1>1 DEF IInv, BudgetKept, WithinBudget
  <2>2. /\ accepted[k][i] \in Nat /\ accepted[k][j] \in Nat /\ Burst \in Nat /\ Interval \in Nat
        /\ Minute \in Nat /\ Len(accepted[k]) \in Nat
    BY <1>1, KeyFacts, QuotaFacts, QuotaAssumption
  <2> DEFINE m == j - i + 1
             d == accepted[k][j] - accepted[k][i]
  <2>3. m \in Nat /\ d \in Int /\ d < Minute
    BY <1>1, <2>2
  <2> HIDE DEF m, d, Interval
  <2>4. m * Interval <= d + (Burst + 1) * Interval /\ Minute = Burst * Interval
    BY <1>1, <2>1 DEF Earned, m, d
  <2>5. m * Interval < Burst * Interval + (Burst + 1) * Interval
    <3>1. m * Interval \in Nat /\ (Burst + 1) * Interval \in Nat /\ Burst * Interval \in Nat
      BY <2>2, <2>3
    <3>2. QED
      BY <2>3, <2>4, <3>1
  <2>6. Burst * Interval + (Burst + 1) * Interval = (2 * Burst + 1) * Interval
    BY <2>2
  <2>7. m < 2 * Burst + 1
    <3>1. \A a, b, c \in Nat : a >= b => a * c >= b * c
      OBVIOUS
    <3>2. SUFFICES ASSUME m >= 2 * Burst + 1 PROVE FALSE
      BY <2>2, <2>3
    <3>3. 2 * Burst + 1 \in Nat
      BY <2>2
    <3>4. m * Interval >= (2 * Burst + 1) * Interval
      BY <2>2, <2>3, <3>1, <3>2, <3>3
    <3>5. m * Interval \in Nat /\ (2 * Burst + 1) * Interval \in Nat
      BY <2>2, <2>3, <3>3
    <3>6. QED
      BY <2>5, <2>6, <3>4, <3>5
  <2>8. QED
    BY <2>2, <2>3, <2>7 DEF m
<1>2. Minute = Earned(Burst) => (IInv => AtMostTwice)
  BY <1>1 DEF AtMostTwice
<1>3. SUFFICES ASSUME Minute = Earned(Burst) PROVE Spec => []AtMostTwice
  OBVIOUS
<1>4. IInv => AtMostTwice
  BY <1>2, <1>3
<1>5. QED
  BY <1>4, LimitersOweTheirGrants, PTL

=============================================================================
