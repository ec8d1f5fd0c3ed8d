---------------------------- MODULE SignedUrlProofs ----------------------------
(* Theorems about SignedUrl, with their proofs.                            *)
EXTENDS SignedUrl, FiniteSetTheorems, TLAPS

LEMMA RankType ==
  ASSUME NEW query \in Queries, NEW i
  PROVE  Rank(query, i) \in Nat
<1> DEFINE earlier == {j \in Kept(query) : j < i /\ query[j].key = query[i].key}
<1>1. Len(query) \in Nat
  BY DEF Queries
<1>2. IsFiniteSet(1..Len(query))
  BY <1>1, FS_Interval
<1>3. earlier \subseteq 1..Len(query)
  BY DEF Kept
<1>4. IsFiniteSet(earlier)
  BY <1>2, <1>3, FS_Subset
<1>5. Cardinality(earlier) \in Nat
  BY <1>4, FS_CardinalityType
<1> QED
  BY <1>5 DEF Rank

\* A string to sign is one.
LEMMA ToSignType ==
  ASSUME NEW path \in Paths, NEW query \in Queries, NEW expires \in Values
  PROVE  ToSign(path, query, expires) \in Strings
<1> DEFINE pairs == {<<query[i].key, query[i].value, Rank(query, i)>> : i \in Kept(query)}
<1>1. ASSUME NEW i \in Kept(query)
      PROVE  <<query[i].key, query[i].value, Rank(query, i)>> \in Names \X Values \X Nat
  <2>1. query[i] \in Parameters /\ query[i].key # None
    BY <1>1 DEF Queries, Kept
  <2>2. query[i].key \in Names /\ query[i].value \in Values
    BY <2>1 DEF Parameters
  <2> QED
    BY <2>2, RankType
<1>2. pairs \in SUBSET (Names \X Values \X Nat)
  BY <1>1
<1> HIDE DEF pairs
<1>3. [path |-> path, pairs |-> pairs, expires |-> expires] \in Strings
  BY <1>2 DEF Strings
<1> QED
  BY <1>3 DEF ToSign, pairs

LEMMA ParameterTypes ==
  ASSUME NEW t \in Values, NEW mac \in Strings
  PROVE  Pair("expires", t) \in Parameters /\ Sig(mac) \in Parameters
<1>1. None \in Values /\ "expires" \in Names \cup {None} /\ "sig" \in Names \cup {None}
      /\ None \in Strings \cup {None} /\ mac \in Strings \cup {None}
  <2>1. None \in Values
    BY DEF Values
  <2>2. "expires" \in Names /\ "sig" \in Names
    BY TextAssumption
  <2> QED
    BY <2>1, <2>2, SMT
<1>2. \A key \in Names \cup {None}, value \in Values, m \in Strings \cup {None}, after \in Values :
        [key |-> key, value |-> value, mac |-> m, after |-> after] \in Parameters
  BY DEF Parameters
<1>3. Pair("expires", t) = [key |-> "expires", value |-> t, mac |-> None, after |-> t]
  BY DEF Pair
<1>4. Sig(mac) = [key |-> "sig", value |-> None, mac |-> mac, after |-> None]
  BY DEF Sig
<1>5. Pair("expires", t) \in Parameters
  BY <1>1, <1>2, <1>3
<1>6. Sig(mac) \in Parameters
  BY <1>1, <1>2, <1>4
<1> QED
  BY <1>5, <1>6

\* A signed query is a query with two more parameters, of known keys.
LEMMA SignShape ==
  ASSUME NEW path \in Paths, NEW query \in Queries, NEW now \in Int
  PROVE  LET signed == Sign(path, query, now)
             n == Len(query)
         IN  /\ signed \in Queries
             /\ n \in Nat /\ Len(signed) = n + 2
             /\ \A i \in 1..n : signed[i] = query[i]
             /\ signed[n + 1] = Pair("expires", now + Ttl)
             /\ signed[n + 2] = Sig(ToSign(path, query, now + Ttl))
<1> DEFINE expires == Pair("expires", now + Ttl)
           sig == Sig(ToSign(path, query, now + Ttl))
           n == Len(query)
<1>1. now + Ttl \in Int /\ now + Ttl \in Values
  BY TextAssumption DEF Values
<1>2. ToSign(path, query, now + Ttl) \in Strings
  BY <1>1, ToSignType
<1>3. expires \in Parameters
  BY <1>1, <1>2, ParameterTypes
<1>4. sig \in Parameters
  BY <1>1, <1>2, ParameterTypes
<1>5. Sign(path, query, now) = query \o <<expires, sig>>
  BY DEF Sign
<1> HIDE DEF expires, sig
<1>6. query \in Seq(Parameters) /\ n \in Nat
  BY DEF Queries
<1>7. <<expires, sig>> \in Seq(Parameters) /\ Len(<<expires, sig>>) = 2
      /\ <<expires, sig>>[1] = expires /\ <<expires, sig>>[2] = sig
  BY <1>3, <1>4
<1>8. /\ query \o <<expires, sig>> \in Seq(Parameters)
      /\ Len(query \o <<expires, sig>>) = n + 2
      /\ \A i \in 1..n : (query \o <<expires, sig>>)[i] = query[i]
      /\ (query \o <<expires, sig>>)[n + 1] = expires
      /\ (query \o <<expires, sig>>)[n + 2] = sig
  BY <1>6, <1>7
<1> QED
  BY <1>5, <1>6, <1>8 DEF Queries, expires, sig

LEMMA SignType ==
  ASSUME NEW path \in Paths, NEW query \in Queries, NEW now \in Int
  PROVE  Sign(path, query, now) \in Queries
BY SignShape

LEMMA LastIs ==
  ASSUME NEW places \in SUBSET Int, NEW i \in places, \A j \in places : j <= i
  PROVE  Last(places) = i
<1>1. Last(places) \in places /\ \A j \in places : j <= Last(places)
  BY DEF Last
<1>2. Last(places) \in Int /\ i \in Int
  BY <1>1
<1>3. Last(places) <= i /\ i <= Last(places)
  BY <1>1
<1> QED
  BY <1>2, <1>3

\* What is signed of a signed query is what was signed of the query.
LEMMA SignedTheSame ==
  ASSUME NEW path \in Paths, NEW query \in Queries, NEW now \in Int, NEW expires
  PROVE  ToSign(path, Sign(path, query, now), expires) = ToSign(path, query, expires)
<1> DEFINE signed == Sign(path, query, now)
           n == Len(query)
<1>1. /\ n \in Nat /\ Len(signed) = n + 2 /\ \A i \in 1..n : signed[i] = query[i]
      /\ signed[n + 1].key = "expires" /\ signed[n + 2].key = "sig"
  <2>1. Pair("expires", now + Ttl).key = "expires"
    BY DEF Pair
  <2>2. Sig(ToSign(path, query, now + Ttl)).key = "sig"
    BY DEF Sig
  <2> QED
    BY <2>1, <2>2, SignShape
<1> HIDE DEF signed, n
<1>2. Kept(signed) = Kept(query)
  <2>1. Kept(query) = {i \in 1..n : query[i].key \notin {None, "sig", "expires"}}
    BY DEF Kept, n
  <2>2. Kept(signed) = {i \in 1..(n + 2) : signed[i].key \notin {None, "sig", "expires"}}
    BY <1>1 DEF Kept
  <2>3. \A i \in 1..(n + 2) : i \in 1..n \/ i = n + 1 \/ i = n + 2
    BY <1>1
  <2>4. 1..n \subseteq 1..(n + 2)
    BY <1>1
  <2> QED
    BY <1>1, <2>1, <2>2, <2>3, <2>4
<1>3. \A i \in Kept(query) : signed[i] = query[i]
  BY <1>1 DEF Kept, n
<1>4. \A i \in Kept(query) : Rank(signed, i) = Rank(query, i)
  <2> SUFFICES ASSUME NEW i \in Kept(query) PROVE Rank(signed, i) = Rank(query, i)
    OBVIOUS
  <2>1. {j \in Kept(signed) : j < i /\ signed[j].key = signed[i].key}
        = {j \in Kept(query) : j < i /\ query[j].key = query[i].key}
    BY <1>2, <1>3
  <2> QED
    BY <2>1 DEF Rank
<1>5. {<<signed[i].key, signed[i].value, Rank(signed, i)>> : i \in Kept(signed)}
      = {<<query[i].key, query[i].value, Rank(query, i)>> : i \in Kept(query)}
  BY <1>2, <1>3, <1>4
<1>6. ToSign(path, signed, expires) = ToSign(path, query, expires)
  BY <1>5 DEF ToSign
<1> QED
  BY <1>6 DEF signed

\* What sign_loopback_url signs, verify_hmac_signature accepts until it has
\* expired, whatever the query holds, if it does not hold "expires=".
THEOREM SignedVerifies ==
  ASSUME NEW path \in Paths, NEW query \in Queries, Plain(query),
         NEW then \in Int, NEW now \in Int, now <= then + Ttl
  PROVE  Verifies(path, Sign(path, query, then), now)
<1> DEFINE signed == Sign(path, query, then)
           n == Len(query)
           t == then + Ttl
           mac == ToSign(path, query, t)
<1>1. t \in Int /\ t # None /\ mac \in Strings /\ mac # None
  <2>1. t \in Int /\ t \in Values
    BY TextAssumption DEF Values
  <2>2. mac \in Strings
    BY <2>1, ToSignType
  <2> QED
    BY <2>1, <2>2, TextAssumption
<1>2. /\ signed \in Queries /\ n \in Nat /\ Len(signed) = n + 2
      /\ \A i \in 1..n : signed[i] = query[i]
      /\ signed[n + 1] = Pair("expires", t) /\ signed[n + 2] = Sig(mac)
  BY SignShape
<1>3. signed # None
  BY <1>2, TextAssumption
<1>4. now <= t
  OBVIOUS
<1>5. ToSign(path, signed, t) = mac
  BY SignedTheSame
<1> HIDE DEF signed, n, t, mac
<1>6. /\ signed[n + 1].key = "expires" /\ signed[n + 1].value = t /\ signed[n + 1].after = t
      /\ signed[n + 2].key = "sig" /\ signed[n + 2].mac = mac /\ signed[n + 2].after = None
  BY <1>2 DEF Pair, Sig
<1>7. \A i \in 1..(n + 2) : i <= n + 1 \/ i = n + 2
  BY <1>2
<1>8. n + 1 \in 1..(n + 2) /\ n + 2 \in 1..(n + 2)
  BY <1>2
<1>9. Signature(signed) = mac
  <2>1. n + 2 \in At(signed, "sig") /\ At(signed, "sig") \subseteq 1..(n + 2)
    BY <1>2, <1>6, <1>8 DEF At
  <2>2. \A j \in At(signed, "sig") : j <= n + 2
    BY <1>2, <2>1
  <2>3. Last(At(signed, "sig")) = n + 2
    BY <2>1, <2>2, LastIs
  <2> QED
    BY <1>6, <2>1, <2>3 DEF Signature
<1>10. Expiry(signed) = t
  <2>1. n + 1 \in At(signed, "expires") /\ n + 2 \notin At(signed, "expires")
        /\ At(signed, "expires") \subseteq 1..(n + 2)
    BY <1>2, <1>6, <1>8 DEF At
  <2>2. \A j \in At(signed, "expires") : j <= n + 1
    BY <1>7, <2>1
  <2>3. Last(At(signed, "expires")) = n + 1
    BY <2>1, <2>2, LastIs
  <2> QED
    BY <1>1, <1>6, <2>1, <2>3 DEF Expiry
<1>11. ExpiryText(signed) = t
  <2>1. \A i \in 1..n : signed[i].after = None
    BY <1>2 DEF Plain, n
  <2>2. \A i \in 1..(n + 2) : i \in 1..n \/ i = n + 1 \/ i = n + 2
    BY <1>2
  <2>3. {i \in 1..(n + 2) : signed[i].after # None} = {n + 1}
    BY <1>1, <1>6, <1>8, <2>1, <2>2
  <2>4. First({n + 1}) = n + 1
    BY <1>2 DEF First
  <2> QED
    BY <1>2, <1>6, <2>3, <2>4 DEF ExpiryText
<1>12. Verifies(path, signed, now)
  BY <1>1, <1>3, <1>4, <1>5, <1>9, <1>10, <1>11 DEF Verifies
<1> QED
  BY <1>12 DEF signed
=============================================================================
