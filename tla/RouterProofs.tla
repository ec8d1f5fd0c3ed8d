----------------------------- MODULE RouterProofs -----------------------------
(* Theorems about Router, with their proofs.                               *)
EXTENDS Router, SignedUrlProofs, FiniteSetTheorems

USE NameAssumption, InputAssumption

-----------------------------------------------------------------------------
(* The stack.                                                              *)

\* The place of every layer.
LEMMA Depths ==
  /\ Len(Layers) = 8
  /\ Depth("logging") = 1 /\ Depth("limit") = 2 /\ Depth("cors") = 3 /\ Depth("auth") = 4
  /\ Depth("referer") = 5 /\ Depth("timeout") = 6 /\ Depth("security") = 7
  /\ Depth("handler") = 8
<1>1. Len(Layers) = 8
  BY DEF Layers
<1>2. \A i \in 1..8 : \A j \in 1..8 : Layers[i] = Layers[j] => i = j
  BY SMTT(60) DEF Layers
<1>3. \A i \in 1..8 : Depth(Layers[i]) = i
  BY <1>1, <1>2 DEF Depth
<1> QED
  BY <1>1, <1>3 DEF Layers

LEMMA TheLayers ==
  LayerNames = {"logging", "limit", "cors", "auth", "referer", "timeout", "security", "handler"}
BY SMTT(60) DEF LayerNames, Layers

LEMMA InwardOrder ==
  /\ Inward("logging") = "limit" /\ Inward("limit") = "cors" /\ Inward("cors") = "auth"
  /\ Inward("auth") = "referer" /\ Inward("referer") = "timeout"
  /\ Inward("timeout") = "security" /\ Inward("security") = "handler"
BY Depths DEF Inward, Layers

LEMMA WhatWraps ==
  /\ ~Wraps("cors", "limit") /\ ~Wraps("cors", "cors") /\ Wraps("cors", "auth")
  /\ Wraps("cors", "referer") /\ Wraps("cors", "timeout") /\ Wraps("cors", "handler")
BY Depths DEF Wraps

-----------------------------------------------------------------------------
(* Names of requests.                                                          *)

LEMMA TupleLengths ==
  ASSUME NEW c, NEW l, NEW m
  PROVE  /\ Len(<<c>>) = 1 /\ Len(<<c, l>>) = 2 /\ Len(<<c, l, m>>) = 3
         /\ ~IsHop(<<c>>) /\ IsHop(<<c, l>>) /\ IsHop(<<c, l, m>>)
<1>1. Len(<<c>>) = 1 /\ Len(<<c, l>>) = 2 /\ Len(<<c, l, m>>) = 3
  OBVIOUS
<1> QED
  BY <1>1 DEF IsHop

LEMMA NamesAreIds ==
  ASSUME NEW c \in Callers, NEW l \in Legs, NEW m \in Legs
  PROVE  <<c>> \in Ids /\ <<c, l>> \in Ids /\ <<c, l, m>> \in Ids
BY DEF Ids

\* Going out and back in, on explicit names.
LEMMA FirstStep ==
  ASSUME NEW c, NEW l
  PROVE  Hop(<<c>>, l) = <<c, l>> /\ Outer(<<c, l>>) = <<c>> /\ LegOf(<<c, l>>) = l
<1>1. Hop(<<c>>, l) = <<c, l>>
  BY TupleLengths DEF Hop
<1>2. Outer(<<c, l>>) = <<c>> /\ LegOf(<<c, l>>) = l
  BY TupleLengths DEF Outer, LegOf
<1> QED
  BY <1>1, <1>2

LEMMA SecondStep ==
  ASSUME NEW c, NEW l, NEW m
  PROVE  Hop(<<c, l>>, m) = <<c, l, m>> /\ Outer(<<c, l, m>>) = <<c, l>> /\ LegOf(<<c, l, m>>) = m
<1>1. Hop(<<c, l>>, m) = <<c, l, m>>
  BY TupleLengths DEF Hop
<1>2. Outer(<<c, l, m>>) = <<c, l>> /\ LegOf(<<c, l, m>>) = m
  BY TupleLengths DEF Outer, LegOf
<1> QED
  BY <1>1, <1>2

LEMMA Lengths == \A r \in Ids : Len(r) \in {1, 2, 3}
BY DEF Ids

LEMMA HopNames ==
  ASSUME NEW r \in Ids, NEW l \in Legs, Len(r) # 3
  PROVE  /\ Hop(r, l) \in Ids /\ IsHop(Hop(r, l)) /\ Hop(r, l) # r
         /\ Outer(Hop(r, l)) = r /\ LegOf(Hop(r, l)) = l
         /\ Len(Hop(r, l)) = Len(r) + 1
<1>1. CASE r \in {<<c>> : c \in Callers}
  <2>1. PICK c \in Callers : r = <<c>>
    BY <1>1
  <2>2. Hop(r, l) = <<c, l>> /\ Outer(<<c, l>>) = <<c>> /\ LegOf(<<c, l>>) = l
    BY <2>1, FirstStep
  <2>3. <<c, l>> \in Ids /\ IsHop(<<c, l>>) /\ Len(r) = 1 /\ Len(<<c, l>>) = 2
    BY <2>1, NamesAreIds, TupleLengths
  <2> QED
    BY <2>1, <2>2, <2>3
<1>2. CASE r \in Callers \X Legs
  <2>1. PICK c \in Callers, k \in Legs : r = <<c, k>>
    BY <1>2
  <2>2. Hop(<<c, k>>, l) = <<c, k, l>> /\ Outer(<<c, k, l>>) = <<c, k>> /\ LegOf(<<c, k, l>>) = l
    BY SecondStep
  <2>3. <<c, k, l>> \in Ids /\ IsHop(<<c, k, l>>) /\ Len(r) = 2 /\ Len(<<c, k, l>>) = 3
    BY <2>1, NamesAreIds, TupleLengths
  <2> QED
    BY <2>1, <2>2, <2>3
<1>3. CASE r \in Callers \X Legs \X Legs
  BY <1>3
<1> QED
  BY <1>1, <1>2, <1>3 DEF Ids

LEMMA HopOfAny == \A r \in Ids, l \in Legs : Hop(r, l) \in Ids
<1> SUFFICES ASSUME NEW r \in Ids, NEW l \in Legs PROVE Hop(r, l) \in Ids
  OBVIOUS
<1>1. CASE Len(r) = 3
  <2>1. r \in Callers \X Legs \X Legs
    BY <1>1, TupleLengths DEF Ids
  <2>2. PICK c \in Callers, k \in Legs, m \in Legs : r = <<c, k, m>>
    BY <2>1
  <2>3. Hop(<<c, k, m>>, l) = <<c, k, l>>
    BY TupleLengths DEF Hop
  <2> QED
    BY <2>2, <2>3, NamesAreIds
<1>2. CASE Len(r) # 3
  BY <1>2, HopNames
<1> QED
  BY <1>1, <1>2

LEMMA OuterNames ==
  ASSUME NEW r \in Ids, IsHop(r)
  PROVE  Outer(r) \in Ids /\ LegOf(r) \in Legs /\ Hop(Outer(r), LegOf(r)) = r /\ Len(Outer(r)) # 3
<1>1. CASE r \in {<<c>> : c \in Callers}
  <2>1. PICK c \in Callers : r = <<c>>
    BY <1>1
  <2> QED
    BY <2>1, TupleLengths
<1>2. CASE r \in Callers \X Legs
  <2>1. PICK c \in Callers, k \in Legs : r = <<c, k>>
    BY <1>2
  <2>2. Outer(r) = <<c>> /\ LegOf(r) = k /\ Hop(<<c>>, k) = r
    BY <2>1, FirstStep
  <2>3. <<c>> \in Ids /\ Len(<<c>>) = 1
    BY NamesAreIds, TupleLengths
  <2> QED
    BY <2>2, <2>3
<1>3. CASE r \in Callers \X Legs \X Legs
  <2>1. PICK c \in Callers, k \in Legs, m \in Legs : r = <<c, k, m>>
    BY <1>3
  <2>2. Outer(<<c, k, m>>) = <<c, k>> /\ LegOf(<<c, k, m>>) = m /\ Hop(<<c, k>>, m) = <<c, k, m>>
    BY SecondStep
  <2>3. <<c, k>> \in Ids /\ Len(<<c, k>>) = 2
    BY NamesAreIds, TupleLengths
  <2> QED
    BY <2>1, <2>2, <2>3
<1> QED
  BY <1>1, <1>2, <1>3 DEF Ids

LEMMA HopOfLong ==
  ASSUME NEW r \in Ids, NEW l \in Legs, Len(r) = 3
  PROVE  Len(Hop(r, l)) = 3
BY TupleLengths DEF Hop, IsHop

LEMMA HopIsHop ==
  ASSUME NEW r \in Ids, NEW l \in Legs
  PROVE  IsHop(Hop(r, l))
BY TupleLengths DEF Hop

\* Whoever has a hop is no hop itself, unless the hop is a hop's hop.
LEMMA OuterIsNoHop ==
  ASSUME NEW r \in Ids, IsHop(r), Len(r) # 3
  PROVE  ~IsHop(Outer(r))
<1>1. CASE r \in {<<c>> : c \in Callers}
  BY <1>1, TupleLengths
<1>2. CASE r \in Callers \X Legs
  <2>1. PICK c \in Callers, k \in Legs : r = <<c, k>>
    BY <1>2
  <2>2. Outer(<<c, k>>) = <<c>> /\ ~IsHop(<<c>>)
    BY FirstStep, TupleLengths
  <2> QED
    BY <2>1, <2>2
<1>3. CASE r \in Callers \X Legs \X Legs
  BY <1>3, TupleLengths
<1> QED
  BY <1>1, <1>2, <1>3 DEF Ids

-----------------------------------------------------------------------------
(* Initial states.                                                         *)

LEMMA InitInv == Init => IInv
<1> SUFFICES ASSUME Init PROVE IInv
  OBVIOUS
<1>1. config \in ConfigType /\ config.limit \in Nat
  BY DEF Init, ConfigType
<1>2. TypeOK
  BY <1>1 DEF Init, TypeOK, NoLegs, LegStates
<1>3. ASSUME NEW r \in Ids
      PROVE  /\ at[r] = "none" /\ req[r] = None /\ answer[r] = None /\ legs[r] = NoLegs
             /\ \A l \in Legs : at[Hop(r, l)] = "none"
  <2>1. \A l \in Legs : Hop(r, l) \in Ids
    BY HopOfAny
  <2> QED
    BY <2>1 DEF Init
<1>4. OnlyAdmitted
  BY <1>3 DEF OnlyAdmitted, Handled
<1>5. AtMostOneHop /\ ReadableAnswers
  BY <1>3 DEF AtMostOneHop, ReadableAnswers
<1>6. LegsAgree
  BY <1>3 DEF LegsAgree, NoLegs
<1>7. OnItsWay
  BY <1>3 DEF OnItsWay
<1> QED
  BY <1>2, <1>4, <1>5, <1>6, <1>7 DEF IInv

-----------------------------------------------------------------------------
(* What the pieces of the actions preserve.                                *)

InTheStack == {"limit", "cors", "auth", "referer", "timeout", "security"}

\* A request that goes one layer further in.
LEMMA ProceedKeeps ==
  ASSUME IInv, NEW r \in Ids, at[r] \in InTheStack, Proceed(r),
         left' \in [Clients -> 0..config.limit],
         at[r] = "cors" => ~IsPreflight(config, req[r]),
         at[r] = "auth" => Authentic(config, req[r]),
         at[r] = "referer" => Welcome(config, req[r])
  PROVE  IInv'
<1> DEFINE next == Inward(at[r])
<1>1. /\ next \in {"cors", "auth", "referer", "timeout", "security", "handler"}
      /\ at[r] = "limit" => next = "cors"
      /\ at[r] = "cors" => next = "auth"
      /\ at[r] = "auth" => next = "referer"
      /\ at[r] = "referer" => next = "timeout"
      /\ at[r] = "timeout" => next = "security"
      /\ at[r] = "security" => next = "handler"
  BY InwardOrder DEF InTheStack
<1> HIDE DEF next
<1>2. /\ config' = config /\ open' = open /\ req' = req /\ legs' = legs /\ answer' = answer
      /\ at' = [at EXCEPT ![r] = next] /\ earned' = earned
  BY DEF Proceed, next
<1>3. at \in [Ids -> (LayerNames \ {"logging"}) \cup {"none", "fetching", "done", "dropped"}]
  BY DEF IInv, TypeOK
<1>4. at'[r] = next /\ \A s \in Ids : s # r => at'[s] = at[s]
  BY <1>2, <1>3
<1>5. TypeOK'
  BY <1>1, <1>2, <1>3, TheLayers DEF IInv, TypeOK
<1>6. OnItsWay'
  BY <1>1, <1>2, <1>4 DEF IInv, OnItsWay, InTheStack
<1>7. ASSUME NEW s \in Ids
      PROVE  Handled(s)' => Authentic(config, req[s]) /\ Welcome(config, req[s])
                              /\ ~IsPreflight(config, req[s])
  <2>1. CASE s # r
    BY <1>2, <1>4, <2>1 DEF IInv, OnlyAdmitted, Handled
  <2>2. CASE s = r
    BY <1>1, <1>2, <1>4, <2>2 DEF IInv, OnItsWay, Handled, InTheStack
  <2> QED
    BY <2>1, <2>2
<1>8. OnlyAdmitted'
  BY <1>2, <1>4, <1>7 DEF IInv, OnlyAdmitted, InTheStack
<1>9. AtMostOneHop'
  BY <1>1, <1>2, <1>4 DEF IInv, AtMostOneHop, InTheStack
<1>10. ReadableAnswers'
  BY <1>2 DEF IInv, ReadableAnswers
<1>11. LegsAgree'
  <2>1. \A s \in Ids : at'[s] = "none" <=> at[s] = "none"
    BY <1>1, <1>4 DEF InTheStack
  <2>2. \A s \in Ids : /\ at'[s] # "fetching" => at[s] # "fetching"
                       /\ at'[s] \notin {"fetching", "done", "dropped"} =>
                            at[s] \notin {"fetching", "done", "dropped"}
    BY <1>1, <1>4 DEF InTheStack
  <2> QED
    BY <1>2, <2>1, <2>2, HopOfAny DEF IInv, LegsAgree
<1> QED
  BY <1>5, <1>6, <1>8, <1>9, <1>10, <1>11 DEF IInv

\* A request that has ended, answered or not.
LEMMA EndKeepsLegs ==
  ASSUME IInv, NEW r \in Ids, at[r] # "none", NEW end \in {"done", "dropped"},
         at' = [at EXCEPT ![r] = end], legs' = [legs EXCEPT ![r] = NoLegs], req' = req
  PROVE  LegsAgree'
<1>1. at \in [Ids -> (LayerNames \ {"logging"}) \cup {"none", "fetching", "done", "dropped"}]
      /\ legs \in [Ids -> [Legs -> LegStates]]
  BY DEF IInv, TypeOK
<1>2. at'[r] = end /\ \A s \in Ids : s # r => at'[s] = at[s]
  BY <1>1
<1>3. legs'[r] = NoLegs /\ \A s \in Ids : s # r => legs'[s] = legs[s]
  BY <1>1
<1>4. \A s \in Ids : at'[s] = "none" <=> at[s] = "none"
  BY <1>2
<1>5. \A l \in Legs : legs'[r][l] = "none"
  BY <1>3 DEF NoLegs
<1> SUFFICES ASSUME NEW s \in Ids
             PROVE  /\ at'[s] # "fetching" => legs'[s] = NoLegs
                    /\ \A l \in Legs :
                         /\ legs'[s][l] \in {"connecting", "waiting"} => req[s].url.path # "/image"
                         /\ legs'[s][l] = "waiting" => at'[Hop(s, l)] # "none"
                         /\ legs'[s][l] = "connecting" \/ at'[s] \notin {"fetching", "done", "dropped"} =>
                              at'[Hop(s, l)] = "none"
  BY DEF LegsAgree
<1>6. CASE s = r
  BY <1>2, <1>3, <1>5, <1>6
<1>7. CASE s # r
  BY <1>2, <1>3, <1>4, <1>7, HopOfAny DEF IInv, LegsAgree
<1> QED
  BY <1>6, <1>7

\* Any layer's answer, if it is to a request the layer has seen.
LEMMA AnswerKeeps ==
  ASSUME IInv, NEW r \in Ids, at[r] \notin {"none", "done", "dropped"},
         NEW l \in {"limit", "cors", "auth", "referer", "timeout", "handler"},
         NEW status \in StatusCodes, Answer(r, l, status),
         l \in {"handler", "timeout"} => at[r] \in {"handler", "fetching"}
  PROVE  IInv'
<1> DEFINE a == [status |-> status, by |-> l, headers |-> Headers(config, req[r], l)]
<1>1. /\ at' = [at EXCEPT ![r] = "done"] /\ answer' = [answer EXCEPT ![r] = a]
      /\ legs' = [legs EXCEPT ![r] = NoLegs]
      /\ config' = config /\ open' = open /\ req' = req /\ left' = left /\ earned' = earned
  BY DEF Answer
<1>2. /\ a \in Responses /\ a.by = l
      /\ "x-request-id" \in a.headers
      /\ config.cors /\ req[r].origin = "listed" =>
           ("access-control-allow-origin" \in a.headers <=> a.by # "limit")
  <2>1. Headers(config, req[r], l) \subseteq HeaderNames
    BY DEF Headers, HeaderNames
  <2>2. "x-request-id" \in Headers(config, req[r], l)
    BY DEF Headers
  <2>3. (Wraps("cors", l) \/ l = "cors") <=> l # "limit"
    BY WhatWraps
  <2>4. config.cors /\ req[r].origin = "listed" =>
          ("access-control-allow-origin" \in Headers(config, req[r], l) <=> l # "limit")
    BY <2>3 DEF Headers
  <2>5. l \in LayerNames
    BY TheLayers
  <2> QED
    BY <2>1, <2>2, <2>4, <2>5 DEF Responses
<1> HIDE DEF a
<1>3. TypeOK
  BY DEF IInv
<1>4. /\ at'[r] = "done" /\ answer'[r] = a
      /\ \A s \in Ids : s # r => at'[s] = at[s] /\ answer'[s] = answer[s]
  BY <1>1, <1>3 DEF TypeOK
<1>5. TypeOK'
  BY <1>1, <1>2, <1>3 DEF TypeOK, NoLegs, LegStates
<1>6. OnItsWay'
  BY <1>1, <1>4 DEF IInv, OnItsWay
<1>7. ASSUME NEW s \in Ids
      PROVE  Handled(s)' => Authentic(config, req[s]) /\ Welcome(config, req[s])
                              /\ ~IsPreflight(config, req[s])
  <2>1. CASE s # r
    BY <1>1, <1>4, <2>1 DEF IInv, OnlyAdmitted, Handled
  <2>2. CASE s = r
    BY <1>1, <1>2, <1>4, <2>2 DEF IInv, OnlyAdmitted, Handled
  <2> QED
    BY <2>1, <2>2
<1>8. OnlyAdmitted'
  BY <1>1, <1>4, <1>7 DEF IInv, OnlyAdmitted
<1>9. AtMostOneHop'
  BY <1>1, <1>4 DEF IInv, AtMostOneHop
<1>10. ReadableAnswers'
  BY <1>1, <1>2, <1>4 DEF IInv, ReadableAnswers
<1>11. LegsAgree'
  BY <1>1, EndKeepsLegs
<1> QED
  BY <1>5, <1>6, <1>8, <1>9, <1>10, <1>11 DEF IInv

\* A leg that has ended.
LEMMA LegEndKeeps ==
  ASSUME IInv, NEW r \in Ids, NEW l \in Legs, NEW to \in {"ok", "failed"},
         legs[r][l] # "none", SetLeg(r, l, to), req' = req, at' = at
  PROVE  IInv'
<1>1. /\ legs' = [legs EXCEPT ![r][l] = to]
      /\ config' = config /\ open' = open /\ answer' = answer /\ left' = left /\ earned' = earned
  BY DEF SetLeg
<1>2. TypeOK /\ legs \in [Ids -> [Legs -> LegStates]]
  BY DEF IInv, TypeOK
<1>3. /\ legs'[r] = [legs[r] EXCEPT ![l] = to]
      /\ \A s \in Ids : s # r => legs'[s] = legs[s]
  BY <1>1, <1>2
<1>4. \A s \in Ids, m \in Legs : legs'[s][m] = legs[s][m] \/ legs'[s][m] \in {"ok", "failed"}
  BY <1>2, <1>3
<1>5. at[r] = "fetching"
  BY DEF IInv, LegsAgree, NoLegs
<1>6. TypeOK'
  BY <1>1, <1>2 DEF TypeOK, LegStates
<1>7. OnItsWay' /\ AtMostOneHop' /\ ReadableAnswers'
  BY <1>1 DEF IInv, OnItsWay, AtMostOneHop, ReadableAnswers
<1>8. OnlyAdmitted'
  BY <1>1 DEF IInv, OnlyAdmitted, Handled
<1>9. LegsAgree'
  <2>1. \A s \in Ids : at[s] # "fetching" => legs'[s] = NoLegs
    BY <1>3, <1>5 DEF IInv, LegsAgree
  <2> QED
    BY <1>4, <2>1 DEF IInv, LegsAgree
<1> QED
  BY <1>6, <1>7, <1>8, <1>9 DEF IInv

\* The hop a leg makes.
LEMMA HopArrivesKeeps ==
  ASSUME IInv, NEW r \in Ids, NEW l \in Legs, HopArrives(r, l)
  PROVE  IInv'
<1> DEFINE h == Hop(r, l)
           q == HopRequest(config, req[r])
<1>1. /\ legs[r][l] = "connecting" /\ legs' = [legs EXCEPT ![r][l] = "waiting"]
      /\ req' = [req EXCEPT ![h] = q] /\ at' = [at EXCEPT ![h] = "limit"]
      /\ config' = config /\ open' = open /\ answer' = answer /\ left' = left /\ earned' = earned
  BY InwardOrder DEF HopArrives, SetLeg
<1>2. TypeOK /\ legs \in [Ids -> [Legs -> LegStates]]
      /\ at \in [Ids -> (LayerNames \ {"logging"}) \cup {"none", "fetching", "done", "dropped"}]
      /\ req \in [Ids -> RequestType \cup {None}]
  BY DEF IInv, TypeOK
<1>3. at[r] = "fetching" /\ ~IsHop(r)
  BY <1>1 DEF IInv, LegsAgree, NoLegs, AtMostOneHop
<1>4. Len(r) = 1
  BY <1>3, Lengths DEF IsHop
<1>5. h \in Ids /\ IsHop(h) /\ h # r /\ Outer(h) = r /\ LegOf(h) = l /\ Len(h) = 2 /\ at[h] = "none"
  <2>1. Len(r) # 3
    BY <1>4
  <2>2. h \in Ids /\ IsHop(h) /\ h # r /\ Outer(h) = r /\ LegOf(h) = l /\ Len(h) = Len(r) + 1
    BY <2>1, HopNames, Zenon
  <2>3. Len(h) = 2
    BY <1>4, <2>2
  <2>4. at[h] = "none"
    BY <1>1 DEF IInv, LegsAgree
  <2> QED
    BY <2>2, <2>3, <2>4
<1>6. req[r] \in RequestType /\ req[r].path = "/image" /\ req[r].url.path # "/image"
  BY <1>1, <1>3 DEF IInv, OnItsWay, LegsAgree
<1>7. q \in RequestType /\ q.path = req[r].url.path
  <2>1. req[r].url \in SelfUrls /\ req[r].targets \in [Legs -> {"none", "far", "self"}]
    BY <1>6 DEF RequestType
  <2>2. q.query \in Queries \cup {None}
    <3>1. req[r].url.path \in Paths /\ req[r].url.query \in Queries \cup {None}
      BY <2>1 DEF SelfUrls
    <3>2. req[r].url.query # None => Sign(req[r].url.path, req[r].url.query, Now) \in Queries
      BY <3>1, SignType
    <3> QED
      BY <3>1, <3>2 DEF HopRequest
  <2>3. q.path = req[r].url.path /\ q.path \in Paths
    BY <2>1 DEF HopRequest, SelfUrls
  <2> QED
    BY <2>1, <2>2, <2>3 DEF HopRequest, RequestType, Methods
<1>8. Authentic(config, req[r]) /\ Welcome(config, req[r]) /\ ~IsPreflight(config, req[r])
  BY <1>3 DEF IInv, OnlyAdmitted, Handled
<1> HIDE DEF h, q
<1>9. /\ at'[h] = "limit" /\ req'[h] = q
      /\ \A s \in Ids : s # h => at'[s] = at[s] /\ req'[s] = req[s]
  BY <1>1, <1>2, <1>5
<1>10. /\ \A s \in Ids, m \in Legs : legs'[s][m] = legs[s][m] \/ <<s, m>> = <<r, l>>
       /\ legs'[r][l] = "waiting"
       /\ \A s \in Ids : s # r => legs'[s] = legs[s]
  BY <1>1, <1>2
<1>11. TypeOK'
  BY <1>1, <1>2, <1>5, <1>7, TheLayers DEF TypeOK, LegStates
<1>12. OnItsWay'
  BY <1>1, <1>5, <1>6, <1>7, <1>9 DEF IInv, OnItsWay
<1>13. AtMostOneHop'
  BY <1>5, <1>9 DEF IInv, AtMostOneHop
<1>14. answer[h] = None
  BY <1>5 DEF IInv, OnItsWay
<1>15. ReadableAnswers'
  BY <1>1, <1>9, <1>14 DEF IInv, ReadableAnswers
<1>16. OnlyAdmitted'
  <2>1. ASSUME NEW s \in Ids
        PROVE  Handled(s)' => Authentic(config, req'[s]) /\ Welcome(config, req'[s])
                                /\ ~IsPreflight(config, req'[s])
    BY <1>1, <1>9, <1>14 DEF IInv, OnlyAdmitted, Handled
  <2>2. ASSUME NEW s \in Ids, IsHop(s), at'[s] # "none"
        PROVE  LET o == req'[Outer(s)]
               IN  o.path = "/image" /\ Authentic(config, o) /\ Welcome(config, o) /\ ~IsPreflight(config, o)
    <3>1. CASE s = h
      BY <1>5, <1>6, <1>8, <1>9, <3>1
    <3>2. CASE s # h
      <4>1. Outer(s) \in Ids
        BY <2>2, OuterNames
      <4>2. req[Outer(s)].path = "/image" /\ Authentic(config, req[Outer(s)])
            /\ Welcome(config, req[Outer(s)]) /\ ~IsPreflight(config, req[Outer(s)])
        BY <1>9, <2>2, <3>2 DEF IInv, OnlyAdmitted
      <4>3. Outer(s) # h
        BY <1>5, <1>9, <2>2, <3>2, OuterNames, OuterIsNoHop DEF IInv, AtMostOneHop
      <4> QED
        BY <1>9, <4>1, <4>2, <4>3
    <3> QED
      BY <3>1, <3>2
  <2> QED
    BY <1>1, <2>1, <2>2 DEF OnlyAdmitted
<1>17. LegsAgree'
  <2>1. ASSUME NEW s \in Ids
        PROVE  at'[s] # "fetching" => legs'[s] = NoLegs
    BY <1>3, <1>5, <1>9, <1>10 DEF IInv, LegsAgree
  <2>2. ASSUME NEW s \in Ids, NEW m \in Legs
        PROVE  /\ legs'[s][m] \in {"connecting", "waiting"} => req'[s].url.path # "/image"
               /\ legs'[s][m] = "waiting" => at'[Hop(s, m)] # "none"
    <3>1. legs[h] = NoLegs
      BY <1>5 DEF IInv, LegsAgree
    <3>2. legs'[h] = NoLegs
      BY <1>5, <1>10, <3>1
    <3>3. legs'[h][m] = "none"
      BY <3>2 DEF NoLegs
    <3>4. CASE s = h
      BY <3>3, <3>4
    <3>5. CASE <<s, m>> = <<r, l>>
      BY <1>5, <1>6, <1>9, <3>5 DEF h
    <3>6. CASE s # h /\ <<s, m>> # <<r, l>>
      <4>1. legs'[s][m] = legs[s][m] /\ req'[s] = req[s]
        BY <1>9, <1>10, <3>6
      <4>2. at[Hop(s, m)] # "none" => at'[Hop(s, m)] # "none"
        BY <1>9, HopOfAny
      <4> QED
        BY <4>1, <4>2 DEF IInv, LegsAgree
    <3> QED
      BY <3>4, <3>5, <3>6
  <2>3. ASSUME NEW s \in Ids, NEW m \in Legs,
               legs'[s][m] = "connecting" \/ at'[s] \notin {"fetching", "done", "dropped"}
        PROVE  at'[Hop(s, m)] = "none"
    <3>1. legs[s][m] = "connecting" \/ at[s] \notin {"fetching", "done", "dropped"}
      BY <1>5, <1>9, <1>10, <2>3
    <3>2. at[Hop(s, m)] = "none"
      BY <3>1 DEF IInv, LegsAgree
    <3>3. Hop(s, m) # h
      <4>1. CASE Len(s) = 3
        BY <1>5, <4>1, HopOfLong
      <4>2. CASE Len(s) # 3
        <5>1. Outer(Hop(s, m)) = s /\ LegOf(Hop(s, m)) = m
          BY <4>2, HopNames
        <5>3. legs'[r][l] # "connecting" /\ at'[r] = "fetching"
          BY <1>3, <1>5, <1>9, <1>10
        <5> QED
          BY <1>5, <2>3, <5>1, <5>3
      <4> QED
        BY <4>1, <4>2
    <3> QED
      BY <1>9, <3>2, <3>3, HopOfAny
  <2> QED
    BY <2>1, <2>2, <2>3 DEF LegsAgree
<1> QED
  BY <1>11, <1>12, <1>13, <1>15, <1>16, <1>17 DEF IInv

\* A request from outside.
LEMMA ArriveKeeps ==
  ASSUME IInv, NEW c \in Callers, Arrive(c)
  PROVE  IInv'
<1> DEFINE r == <<c>>
<1>1. PICK q \in Requests : req' = [req EXCEPT ![r] = q]
  BY DEF Arrive
<1>2. /\ at[r] = "none" /\ at' = [at EXCEPT ![r] = "limit"]
      /\ config' = config /\ open' = open /\ legs' = legs /\ answer' = answer /\ left' = left /\ earned' = earned
  BY InwardOrder DEF Arrive
<1>3. TypeOK /\ at \in [Ids -> (LayerNames \ {"logging"}) \cup {"none", "fetching", "done", "dropped"}]
      /\ req \in [Ids -> RequestType \cup {None}]
  BY DEF IInv, TypeOK
<1>4. r \in Ids /\ Len(r) = 1 /\ ~IsHop(r)
  BY NamesAreIds, TupleLengths, NameAssumption
<1> HIDE DEF r
<1>5. q \in RequestType
  OBVIOUS
<1>6. /\ at'[r] = "limit" /\ req'[r] = q
      /\ \A s \in Ids : s # r => at'[s] = at[s] /\ req'[s] = req[s]
  BY <1>1, <1>2, <1>3, <1>4
<1>7. TypeOK'
  BY <1>1, <1>2, <1>3, <1>4, <1>5, TheLayers DEF TypeOK
<1>8. OnItsWay' /\ AtMostOneHop'
  BY <1>2, <1>4, <1>5, <1>6 DEF IInv, OnItsWay, AtMostOneHop
<1>9. answer[r] = None /\ legs[r] = NoLegs /\ \A l \in Legs : legs[r][l] = "none"
  BY <1>2, <1>4 DEF IInv, OnItsWay, LegsAgree, NoLegs
<1>10. ReadableAnswers'
  BY <1>2, <1>6, <1>9 DEF IInv, ReadableAnswers
<1>11. OnlyAdmitted'
  <2>1. ASSUME NEW s \in Ids
        PROVE  Handled(s)' => Authentic(config, req'[s]) /\ Welcome(config, req'[s])
                                /\ ~IsPreflight(config, req'[s])
    BY <1>2, <1>6, <1>9 DEF IInv, OnlyAdmitted, Handled
  <2>2. ASSUME NEW s \in Ids, IsHop(s), at'[s] # "none"
        PROVE  LET o == req'[Outer(s)]
               IN  o.path = "/image" /\ Authentic(config, o) /\ Welcome(config, o) /\ ~IsPreflight(config, o)
    <3>1. at[s] # "none" /\ Outer(s) \in Ids /\ LegOf(s) \in Legs /\ Hop(Outer(s), LegOf(s)) = s
      BY <1>4, <1>6, <2>2, OuterNames
    <3>2. Outer(s) # r
      BY <1>2, <1>4, <3>1 DEF IInv, LegsAgree
    <3> QED
      BY <1>6, <2>2, <3>1, <3>2 DEF IInv, OnlyAdmitted
  <2> QED
    BY <1>2, <2>1, <2>2 DEF OnlyAdmitted
<1>12. LegsAgree'
  <2>1. ASSUME NEW s \in Ids, NEW l \in Legs
        PROVE  /\ legs[s][l] \in {"connecting", "waiting"} => req'[s].url.path # "/image"
               /\ legs[s][l] = "waiting" => at'[Hop(s, l)] # "none"
    BY <1>6, <1>9, HopOfAny DEF IInv, LegsAgree
  <2>2. ASSUME NEW s \in Ids, NEW l \in Legs
        PROVE  Hop(s, l) # r
    BY <1>4, HopIsHop
  <2>3. ASSUME NEW s \in Ids, NEW l \in Legs,
               legs[s][l] = "connecting" \/ at'[s] \notin {"fetching", "done", "dropped"}
        PROVE  at'[Hop(s, l)] = "none"
    <3>1. legs[s][l] = "connecting" \/ at[s] \notin {"fetching", "done", "dropped"}
      BY <1>2, <1>6, <2>3
    <3> QED
      BY <1>6, <2>2, <3>1, HopOfAny DEF IInv, LegsAgree
  <2>4. \A s \in Ids : at'[s] # "fetching" => legs[s] = NoLegs
    BY <1>6, <1>9 DEF IInv, LegsAgree
  <2> QED
    BY <1>2, <2>1, <2>3, <2>4 DEF LegsAgree
<1> QED
  BY <1>7, <1>8, <1>10, <1>11, <1>12 DEF IInv

\* The fetches of an /image request begin.
LEMMA StartKeeps ==
  ASSUME IInv, NEW r \in Ids, StartFetches(r)
  PROVE  IInv'
<1>1. PICK start \in [Legs -> {"ok", "failed", "fetching", "connecting"}] :
        /\ \A l \in Legs : start[l] \in LegStarts(req[r], l)
        /\ legs' = [legs EXCEPT ![r] = start]
  BY DEF StartFetches
<1>2. /\ at[r] = "handler" /\ req[r].path = "/image" /\ at' = [at EXCEPT ![r] = "fetching"]
      /\ config' = config /\ open' = open /\ req' = req /\ answer' = answer /\ left' = left /\ earned' = earned
  BY DEF StartFetches
<1>3. TypeOK /\ legs \in [Ids -> [Legs -> LegStates]]
      /\ at \in [Ids -> (LayerNames \ {"logging"}) \cup {"none", "fetching", "done", "dropped"}]
  BY DEF IInv, TypeOK
<1>4. req[r] \in RequestType /\ ~IsHop(r)
  BY <1>2 DEF IInv, OnItsWay
<1>5. \A l \in Legs : start[l] = "connecting" => req[r].url.path # "/image"
  <2>1. \A l \in Legs : req[r].targets[l] \in {"none", "far", "self"}
    BY <1>4 DEF RequestType
  <2> QED
    BY <1>1, <2>1 DEF LegStarts
<1>6. /\ at'[r] = "fetching" /\ legs'[r] = start
      /\ \A s \in Ids : s # r => at'[s] = at[s] /\ legs'[s] = legs[s]
  BY <1>1, <1>2, <1>3
<1>7. TypeOK'
  BY <1>1, <1>2, <1>3 DEF TypeOK, LegStates
<1>8. OnItsWay'
  BY <1>2, <1>6 DEF IInv, OnItsWay
<1>9. AtMostOneHop'
  BY <1>2, <1>4, <1>6 DEF IInv, AtMostOneHop
<1>10. ReadableAnswers'
  BY <1>2 DEF IInv, ReadableAnswers
<1>11. OnlyAdmitted'
  BY <1>2, <1>6 DEF IInv, OnlyAdmitted, Handled
<1>12. LegsAgree'
  <2>1. \A s \in Ids : at'[s] = "none" <=> at[s] = "none"
    BY <1>2, <1>6
  <2>2. \A l \in Legs : at[Hop(r, l)] = "none" /\ start[l] # "waiting"
    BY <1>1, <1>2 DEF IInv, LegsAgree
  <2>3. ASSUME NEW s \in Ids, s # r
        PROVE  /\ at'[s] # "fetching" => legs'[s] = NoLegs
               /\ \A l \in Legs :
                    /\ legs'[s][l] \in {"connecting", "waiting"} => req[s].url.path # "/image"
                    /\ legs'[s][l] = "waiting" => at'[Hop(s, l)] # "none"
                    /\ legs'[s][l] = "connecting" \/ at'[s] \notin {"fetching", "done", "dropped"} =>
                         at'[Hop(s, l)] = "none"
    BY <1>6, <2>1, <2>3, HopOfAny DEF IInv, LegsAgree
  <2> QED
    BY <1>2, <1>5, <1>6, <2>1, <2>2, <2>3, HopOfAny DEF LegsAgree
<1> QED
  BY <1>7, <1>8, <1>9, <1>10, <1>11, <1>12 DEF IInv

LEMMA DisconnectKeeps ==
  ASSUME IInv, NEW r \in Ids, Disconnect(r)
  PROVE  IInv'
<1>1. /\ at[r] \notin {"none", "done", "dropped"} /\ at' = [at EXCEPT ![r] = "dropped"]
      /\ legs' = [legs EXCEPT ![r] = NoLegs]
      /\ config' = config /\ open' = open /\ req' = req /\ answer' = answer /\ left' = left /\ earned' = earned
  BY DEF Disconnect
<1>2. TypeOK /\ at \in [Ids -> (LayerNames \ {"logging"}) \cup {"none", "fetching", "done", "dropped"}]
  BY DEF IInv, TypeOK
<1>3. at'[r] = "dropped" /\ \A s \in Ids : s # r => at'[s] = at[s]
  BY <1>1, <1>2
<1>4. TypeOK'
  BY <1>1, <1>2 DEF TypeOK, NoLegs, LegStates
<1>5. OnItsWay'
  BY <1>1, <1>3 DEF IInv, OnItsWay
<1>6. AtMostOneHop' /\ ReadableAnswers'
  BY <1>1, <1>3 DEF IInv, AtMostOneHop, ReadableAnswers
<1>7. OnlyAdmitted'
  BY <1>1, <1>3 DEF IInv, OnlyAdmitted, Handled
<1>8. LegsAgree'
  BY <1>1, EndKeepsLegs
<1> QED
  BY <1>4, <1>5, <1>6, <1>7, <1>8 DEF IInv

-----------------------------------------------------------------------------
(* Every step.                                                             *)

LEMMA Clientship == ASSUME NEW q \in RequestType PROVE Client(config, q) \in Clients
BY DEF Client, LimitKey, RequestType, Clients

LEMMA InboundKeeps ==
  ASSUME IInv, NEW r \in Ids, Inbound(r)
  PROVE  IInv'
<1>1. left \in [Clients -> 0..config.limit] /\ config.limit \in Nat /\ config \in ConfigType
  BY DEF IInv, TypeOK, ConfigType
<1>2. CASE Admit(r)
  <2>1. left' \in [Clients -> 0..config.limit]
    <3>1. CASE Metered(req[r])
      <4>1. PICK c \in Clients : left[c] > 0 /\ left' = [left EXCEPT ![c] = @ - 1]
        <5>1. req[r] \in RequestType
          BY <1>2 DEF IInv, OnItsWay, Admit
        <5> QED
          BY <1>2, <3>1, <5>1, Clientship DEF Admit
      <4>2. left[c] - 1 \in 0..config.limit
        BY <1>1, <4>1
      <4> QED
        BY <1>1, <4>1, <4>2
    <3>2. CASE ~Metered(req[r])
      BY <1>1, <1>2, <3>2 DEF Admit
    <3> QED
      BY <3>1, <3>2
  <2> QED
    BY <1>2, <2>1, ProceedKeeps DEF Admit, InTheStack
<1>3. CASE Throttle(r)
  BY <1>3, AnswerKeeps DEF Throttle, StatusCodes
<1>4. CASE Preflight(r)
  BY <1>4, AnswerKeeps DEF Preflight, StatusCodes
<1>5. CASE PassCors(r)
  BY <1>1, <1>5, ProceedKeeps DEF PassCors, InTheStack
<1>6. CASE Authenticate(r)
  BY <1>1, <1>6, ProceedKeeps DEF Authenticate, InTheStack
<1>7. CASE Unauthorized(r)
  BY <1>7, AnswerKeeps DEF Unauthorized, StatusCodes
<1>8. CASE PassReferer(r)
  BY <1>1, <1>8, ProceedKeeps DEF PassReferer, InTheStack
<1>9. CASE Forbid(r)
  BY <1>9, AnswerKeeps DEF Forbid, StatusCodes
<1>10. CASE Enter(r)
  BY <1>1, <1>10, ProceedKeeps DEF Enter, InTheStack
<1> QED
  BY <1>2, <1>3, <1>4, <1>5, <1>6, <1>7, <1>8, <1>9, <1>10 DEF Inbound

LEMMA HandlerKeeps ==
  ASSUME IInv, NEW r \in Ids, Handler(r) \/ Expire(r)
  PROVE  IInv'
<1>1. CASE Respond(r)
  <2>1. req[r] \in RequestType
    BY <1>1 DEF IInv, OnItsWay, Respond
  <2>2. Statuses(req[r]) \subseteq StatusCodes
    BY <2>1 DEF Statuses, StatusCodes, RequestType, Paths, Methods
  <2>3. PICK status \in StatusCodes : Answer(r, "handler", status)
    BY <1>1, <2>2 DEF Respond
  <2> QED
    BY <1>1, <2>3, AnswerKeeps DEF Respond
<1>2. CASE StartFetches(r)
  BY <1>2, StartKeeps
<1>3. CASE Compose(r)
  <2>1. PICK status \in StatusCodes : Answer(r, "handler", status)
    BY <1>3 DEF Compose, StatusCodes
  <2> QED
    BY <1>3, <2>1, AnswerKeeps DEF Compose
<1>4. CASE Expire(r)
  BY <1>4, AnswerKeeps DEF Expire, StatusCodes
<1> QED
  BY <1>1, <1>2, <1>3, <1>4 DEF Handler

LEMMA LegStepKeeps ==
  ASSUME IInv, NEW r \in Ids, NEW l \in Legs, LegStep(r, l)
  PROVE  IInv'
<1>1. CASE FarEnds(r, l)
  BY <1>1, LegEndKeeps DEF FarEnds
<1>2. CASE HopArrives(r, l)
  BY <1>2, HopArrivesKeeps
<1>3. CASE HopRefused(r, l)
  BY <1>3, LegEndKeeps DEF HopRefused
<1>4. CASE HopAnswered(r, l)
  <2>1. PICK to \in {"ok", "failed"} : SetLeg(r, l, to)
    BY <1>4 DEF HopAnswered
  <2> QED
    BY <1>4, <2>1, LegEndKeeps DEF HopAnswered
<1>5. CASE HopTimesOut(r, l)
  <2>1. legs[r][l] # "none" /\ SetLeg(r, l, "failed") /\ req' = req /\ at' = at
    BY <1>5 DEF HopTimesOut
  <2> QED
    BY <2>1, LegEndKeeps
<1> QED
  BY <1>1, <1>2, <1>3, <1>4, <1>5 DEF LegStep

LEMMA RefillKeeps ==
  ASSUME IInv, NEW c \in Clients, Refill(c)
  PROVE  IInv'
<1>1. left \in [Clients -> 0..config.limit] /\ config.limit \in Nat
  BY DEF IInv, TypeOK, ConfigType
<1>2. left[c] + 1 \in 0..config.limit
  BY <1>1 DEF Refill
<1>3. left' \in [Clients -> 0..config.limit]
  BY <1>1, <1>2 DEF Refill
<1>4. /\ config' = config /\ open' = open /\ req' = req /\ at' = at /\ legs' = legs
      /\ answer' = answer
  BY DEF Refill
<1>5. earned' \in [Clients -> Nat]
  <2>1. earned \in [Clients -> Nat] /\ earned[c] + 1 \in Nat
    BY DEF IInv, TypeOK
  <2> QED
    BY <2>1 DEF Refill
<1>6. TypeOK'
  BY <1>3, <1>4, <1>5 DEF IInv, TypeOK
<1> QED
  BY <1>4, <1>6 DEF IInv, OnlyAdmitted, Handled, AtMostOneHop, ReadableAnswers, LegsAgree, OnItsWay

LEMMA StepInv == IInv /\ [Next]_vars => IInv'
<1> SUFFICES ASSUME IInv, [Next]_vars PROVE IInv'
  OBVIOUS
<1>1. ASSUME NEW c \in Callers, Arrive(c) PROVE IInv'
  BY <1>1, ArriveKeeps
<1>2. ASSUME NEW r \in Ids, Inbound(r) \/ Handler(r) \/ Expire(r) \/ Disconnect(r) PROVE IInv'
  BY <1>2, InboundKeeps, HandlerKeeps, DisconnectKeeps
<1>3. ASSUME NEW r \in Ids, NEW l \in Legs, LegStep(r, l) PROVE IInv'
  BY <1>3, LegStepKeeps
<1>4. ASSUME NEW c \in Clients, Refill(c) PROVE IInv'
  BY <1>4, RefillKeeps
<1>5. CASE Shutdown
  <2>1. /\ open' \in BOOLEAN /\ config' = config /\ req' = req /\ at' = at /\ legs' = legs
        /\ answer' = answer /\ left' = left /\ earned' = earned
    BY <1>5 DEF Shutdown
  <2>2. TypeOK'
    BY <2>1 DEF IInv, TypeOK
  <2> QED
    BY <2>1, <2>2 DEF IInv, OnlyAdmitted, Handled, AtMostOneHop, ReadableAnswers, LegsAgree,
                      OnItsWay
<1>6. CASE UNCHANGED vars
  BY <1>6 DEF vars, IInv, TypeOK, OnlyAdmitted, Handled, AtMostOneHop, ReadableAnswers,
              LegsAgree, OnItsWay
<1> QED
  BY <1>1, <1>2, <1>3, <1>4, <1>5, <1>6 DEF Next

-----------------------------------------------------------------------------
(* Theorems                                                                *)

\* The inductive invariant: where a request is says which checks of app.rs it
\* has passed and which hops its handler has made.
THEOREM Inductive == Spec => []IInv
<1>1. IInv /\ [Next]_vars => IInv'
  BY StepInv
<1> QED
  BY <1>1, InitInv, PTL DEF Spec

\* Budgets stay between zero and RATE_LIMIT_PER_MINUTE, and requests, legs and
\* answers are what they should be.
THEOREM TypeCorrect == Spec => []TypeOK
<1>1. IInv => TypeOK
  BY DEF IInv
<1> QED
  BY <1>1, Inductive, PTL

\* Whatever the configuration, a handler works only for requests that have
\* passed authentication and the referer check, and the requests it makes to
\* the server itself are no way around either.
THEOREM Admission == Spec => []OnlyAdmitted
<1>1. IInv => OnlyAdmitted
  BY DEF IInv
<1> QED
  BY <1>1, Inductive, PTL

\* The recursion guard of maybe_rewrite_self: a hop makes no hop, whatever URLs
\* the requests carry, so the server never waits for itself in a circle.
THEOREM NoCircularWait == Spec => []AtMostOneHop
<1>1. IInv => AtMostOneHop
  BY DEF IInv
<1> QED
  BY <1>1, Inductive, PTL

\* The order of the layers: a listed page can read every answer but the rate
\* limiter's, 401, 403 and 408 included.
THEOREM Readable == Spec => []ReadableAnswers
<1>1. IInv => ReadableAnswers
  BY DEF IInv
<1> QED
  BY <1>1, Inductive, PTL

-----------------------------------------------------------------------------
(* Budgets.                                                                *)

LEMMA FiniteIds == IsFiniteSet(Ids)
<1>1. IsFiniteSet({<<c>> : c \in Callers})
  <2> DEFINE f == [c \in Callers |-> <<c>>]
  <2>1. f \in Surjection(Callers, {<<c>> : c \in Callers})
    BY DEF Surjection
  <2> QED
    BY <2>1, FS_Surjection
<1>2. IsFiniteSet(Callers \X Legs)
  BY FS_Product
<1>3. IsFiniteSet(Callers \X Legs \X Legs)
  <2> DEFINE Nested == (Callers \X Legs) \X Legs
             f == [p \in Nested |-> <<p[1][1], p[1][2], p[2]>>]
  <2>1. IsFiniteSet(Nested)
    BY <1>2, FS_Product
  <2>2. f \in [Nested -> Callers \X Legs \X Legs]
    OBVIOUS
  <2>3. ASSUME NEW t \in Callers \X Legs \X Legs PROVE \E p \in Nested : f[p] = t
    <3>1. PICK c \in Callers, l \in Legs, m \in Legs : t = <<c, l, m>>
      OBVIOUS
    <3>2. <<<<c, l>>, m>> \in Nested /\ f[<<<<c, l>>, m>>] = <<c, l, m>>
      OBVIOUS
    <3> QED
      BY <3>1, <3>2
  <2>4. f \in Surjection(Nested, Callers \X Legs \X Legs)
    BY <2>2, <2>3 DEF Surjection
  <2> QED
    BY <2>1, <2>4, FS_Surjection
<1> QED
  BY <1>1, <1>2, <1>3, FS_Union DEF Ids

\* Requests that are charged and not dropped: one that its client has dropped
\* may have been on either side of the limiter.
Staying(c) == {r \in Charged(c) : at[r] # "dropped"}

\* The inductive form of Accounts.
Books ==
  \A c \in Clients : Cardinality(Staying(c)) <= Spent(c) /\ Spent(c) <= Cardinality(Charged(c))

LEMMA FiniteBooks ==
  ASSUME NEW S \in SUBSET Ids, NEW T \in SUBSET S
  PROVE  /\ IsFiniteSet(S) /\ IsFiniteSet(T)
         /\ Cardinality(S) \in Nat /\ Cardinality(T) \in Nat /\ Cardinality(T) <= Cardinality(S)
<1>1. IsFiniteSet(S)
  BY FiniteIds, FS_Subset
<1>2. IsFiniteSet(T) /\ Cardinality(T) <= Cardinality(S)
  BY <1>1, FS_Subset
<1> QED
  BY <1>1, <1>2, FS_CardinalityType

LEMMA SpentType ==
  ASSUME TypeOK, NEW c \in Clients
  PROVE  Spent(c) \in Int
<1>1. left[c] \in 0..config.limit /\ earned[c] \in Nat /\ config.limit \in Nat
  BY DEF TypeOK, ConfigType
<1> QED
  BY <1>1 DEF Spent

\* Nothing is spent, and no request has come past the limiter.
LEMMA QuietBooks ==
  ASSUME TypeOK, Books, \A c \in Clients : Spent(c)' = Spent(c),
         \A c \in Clients : Staying(c)' \subseteq Staying(c) /\ Charged(c) \subseteq Charged(c)'
  PROVE  Books'
<1> SUFFICES ASSUME NEW c \in Clients
             PROVE  Cardinality(Staying(c)') <= Spent(c)' /\ Spent(c)' <= Cardinality(Charged(c)')
  BY DEF Books
<1> DEFINE K == Staying(c)
           L == Staying(c)'
           C == Charged(c)
           D == Charged(c)'
<1>1. K \in SUBSET Ids /\ C \in SUBSET Ids /\ D \in SUBSET Ids /\ L \in SUBSET K /\ C \in SUBSET D
  BY DEF Staying, Charged
<1>2. Cardinality(K) <= Spent(c) /\ Spent(c) <= Cardinality(C) /\ Spent(c)' = Spent(c)
  BY DEF Books
<1>3. Spent(c) \in Int
  BY SpentType
<1> HIDE DEF K, L, C, D
<1>4. Cardinality(L) \in Nat /\ Cardinality(K) \in Nat /\ Cardinality(L) <= Cardinality(K)
  BY <1>1, FiniteBooks
<1>5. Cardinality(C) \in Nat /\ Cardinality(D) \in Nat /\ Cardinality(C) <= Cardinality(D)
  BY <1>1, FiniteBooks
<1>6. Cardinality(L) <= Spent(c)' /\ Spent(c)' <= Cardinality(D)
  BY <1>2, <1>3, <1>4, <1>5
<1> QED
  BY <1>6 DEF L, D

\* The same, request by request: what is past the limiter stays there and keeps
\* its client, and nothing comes past it.
LEMMA QuietStep ==
  ASSUME TypeOK, Books, config' = config, \A c \in Clients : Spent(c)' = Spent(c),
         \A s \in Ids :
           \/ at'[s] = at[s] /\ req'[s] = req[s] /\ answer'[s] = answer[s]
           \/ at[s] = "none" /\ at'[s] = "limit"
           \/ /\ at[s] \notin {"none", "limit", "done", "dropped"} /\ req'[s] = req[s]
              /\ at'[s] \notin {"none", "limit"} /\ (at'[s] = "done" => answer'[s].by # "limit")
           \/ /\ at[s] = "limit" /\ req'[s] = req[s]
              /\ \/ at'[s] = "dropped" \/ ~Metered(req[s])
                 \/ at'[s] = "done" /\ answer'[s].by = "limit"
  PROVE  Books'
<1>1. ASSUME NEW c \in Clients, NEW s \in Staying(c)' PROVE s \in Staying(c)
  BY <1>1 DEF Staying, Charged
<1>2. ASSUME NEW c \in Clients, NEW s \in Charged(c) PROVE s \in Charged(c)'
  BY <1>2 DEF Charged
<1> QED
  BY <1>1, <1>2, QuietBooks

LEMMA AdmitBooks ==
  ASSUME IInv, Books, NEW r \in Ids, Admit(r)
  PROVE  Books'
<1>1. /\ at[r] = "limit" /\ at' = [at EXCEPT ![r] = "cors"]
      /\ config' = config /\ req' = req /\ answer' = answer /\ earned' = earned
  BY InwardOrder DEF Admit, Proceed
<1>2. /\ TypeOK /\ config.limit \in Nat
      /\ at \in [Ids -> (LayerNames \ {"logging"}) \cup {"none", "fetching", "done", "dropped"}]
      /\ left \in [Clients -> 0..config.limit] /\ earned \in [Clients -> Nat]
  BY DEF IInv, TypeOK, ConfigType
<1>3. at'[r] = "cors" /\ \A s \in Ids : s # r => at'[s] = at[s]
  BY <1>1, <1>2
<1>4. CASE ~Metered(req[r])
  <2>1. left' = left
    BY <1>4 DEF Admit
  <2>2. \A c \in Clients : Spent(c)' = Spent(c)
    BY <1>1, <2>1 DEF Spent
  <2> QED
    BY <1>1, <1>2, <1>3, <1>4, <2>2, QuietStep
<1>5. CASE Metered(req[r])
  <2>1. left' = [left EXCEPT ![Client(config, req[r])] = @ - 1]
    BY <1>5 DEF Admit
  <2> SUFFICES ASSUME NEW c \in Clients
               PROVE  Cardinality(Staying(c)') <= Spent(c)' /\ Spent(c)' <= Cardinality(Charged(c)')
    BY DEF Books
  <2>2. Cardinality(Staying(c)) <= Spent(c) /\ Spent(c) <= Cardinality(Charged(c)) /\ Spent(c) \in Int
    BY <1>2, SpentType DEF Books
  <2>3. CASE Client(config, req[r]) # c
    <3>1. Staying(c)' = Staying(c) /\ Charged(c)' = Charged(c)
      BY <1>1, <1>3, <2>3 DEF Staying, Charged
    <3>2. Spent(c)' = Spent(c)
      BY <1>1, <1>2, <2>1, <2>3 DEF Spent
    <3> QED
      BY <2>2, <3>1, <3>2
  <2>4. CASE Client(config, req[r]) = c
    <3>1. r \notin Charged(c) /\ r \notin Staying(c)
      BY <1>1 DEF Staying, Charged
    <3>2. Staying(c)' = Staying(c) \cup {r} /\ Charged(c)' = Charged(c) \cup {r}
      BY <1>1, <1>3, <1>5, <2>4 DEF Staying, Charged
    <3>3. Charged(c) \in SUBSET Ids /\ Staying(c) \in SUBSET Charged(c)
      BY DEF Staying, Charged
    <3>4. /\ IsFiniteSet(Charged(c)) /\ IsFiniteSet(Staying(c))
          /\ Cardinality(Charged(c)) \in Nat /\ Cardinality(Staying(c)) \in Nat
      BY <3>3, FiniteBooks
    <3>5. /\ Cardinality(Charged(c) \cup {r}) = Cardinality(Charged(c)) + 1
          /\ Cardinality(Staying(c) \cup {r}) = Cardinality(Staying(c)) + 1
      BY <3>1, <3>4, FS_AddElement
    <3>6. Spent(c)' = Spent(c) + 1
      <4>1. left'[c] = left[c] - 1 /\ left[c] \in Int /\ earned[c] \in Nat
        BY <1>2, <2>1, <2>4
      <4> QED
        BY <1>1, <1>2, <4>1 DEF Spent
    <3> QED
      BY <2>2, <3>2, <3>4, <3>5, <3>6
  <2> QED
    BY <2>3, <2>4
<1> QED
  BY <1>4, <1>5

LEMMA RefillBooks ==
  ASSUME IInv, Books, NEW d \in Clients, Refill(d)
  PROVE  Books'
<1>1. /\ left' = [left EXCEPT ![d] = @ + 1] /\ earned' = [earned EXCEPT ![d] = @ + 1]
      /\ config' = config /\ at' = at /\ req' = req /\ answer' = answer
  BY DEF Refill
<1>2. /\ TypeOK /\ config.limit \in Nat
      /\ left \in [Clients -> 0..config.limit] /\ earned \in [Clients -> Nat]
  BY DEF IInv, TypeOK, ConfigType
<1>3. ASSUME NEW c \in Clients PROVE Spent(c)' = Spent(c)
  <2>1. left[c] \in Int /\ earned[c] \in Nat
    BY <1>2
  <2>2. \/ left'[c] = left[c] /\ earned'[c] = earned[c]
        \/ left'[c] = left[c] + 1 /\ earned'[c] = earned[c] + 1
    BY <1>1, <1>2
  <2> QED
    BY <1>1, <1>2, <2>1, <2>2 DEF Spent
<1> QED
  BY <1>1, <1>2, <1>3, QuietStep

\* Answers of any layer: only the limiter's are not charged.
LEMMA AnswerBooks ==
  ASSUME IInv, Books, NEW r \in Ids, NEW l, NEW status, Answer(r, l, status),
         at[r] \notin {"none", "done", "dropped"}, at[r] = "limit" <=> l = "limit"
  PROVE  Books'
<1>1. /\ at' = [at EXCEPT ![r] = "done"]
      /\ answer' = [answer EXCEPT ![r] =
                      [status |-> status, by |-> l, headers |-> Headers(config, req[r], l)]]
      /\ config' = config /\ req' = req /\ left' = left /\ earned' = earned
  BY DEF Answer
<1>2. /\ TypeOK
      /\ at \in [Ids -> (LayerNames \ {"logging"}) \cup {"none", "fetching", "done", "dropped"}]
      /\ answer \in [Ids -> Responses \cup {None}]
  BY DEF IInv, TypeOK
<1>3. /\ at'[r] = "done" /\ answer'[r].by = l
      /\ \A s \in Ids : s # r => at'[s] = at[s] /\ answer'[s] = answer[s]
  BY <1>1, <1>2
<1>4. \A c \in Clients : Spent(c)' = Spent(c)
  BY <1>1 DEF Spent
<1> QED
  BY <1>1, <1>2, <1>3, <1>4, QuietStep

LEMMA InboundBooks ==
  ASSUME IInv, Books, NEW r \in Ids, Inbound(r)
  PROVE  Books'
<1>1. CASE Admit(r)
  BY <1>1, AdmitBooks
<1>2. CASE Throttle(r)
  BY <1>2, AnswerBooks DEF Throttle
<1>3. CASE Preflight(r)
  BY <1>3, AnswerBooks DEF Preflight
<1>4. CASE Unauthorized(r)
  BY <1>4, AnswerBooks DEF Unauthorized
<1>5. CASE Forbid(r)
  BY <1>5, AnswerBooks DEF Forbid
<1>6. CASE PassCors(r) \/ Authenticate(r) \/ PassReferer(r) \/ Enter(r)
  <2>1. /\ at[r] \in {"cors", "auth", "referer", "timeout", "security"} /\ Proceed(r)
        /\ left' = left
    BY <1>6 DEF PassCors, Authenticate, PassReferer, Enter
  <2>2. /\ at' = [at EXCEPT ![r] = Inward(at[r])]
        /\ config' = config /\ req' = req /\ answer' = answer /\ earned' = earned
    BY <2>1 DEF Proceed
  <2>3. Inward(at[r]) \in {"auth", "referer", "timeout", "security", "handler"}
    BY <2>1, InwardOrder
  <2>4. TypeOK /\ at'[r] = Inward(at[r]) /\ \A s \in Ids : s # r => at'[s] = at[s]
    BY <2>2 DEF IInv, TypeOK
  <2>5. \A c \in Clients : Spent(c)' = Spent(c)
    BY <2>1, <2>2 DEF Spent
  <2> QED
    BY <2>1, <2>2, <2>3, <2>4, <2>5, QuietStep
<1> QED
  BY <1>1, <1>2, <1>3, <1>4, <1>5, <1>6 DEF Inbound

LEMMA HandlerBooks ==
  ASSUME IInv, Books, NEW r \in Ids, Handler(r) \/ Expire(r) \/ Disconnect(r)
  PROVE  Books'
<1>1. CASE Respond(r)
  BY <1>1, AnswerBooks DEF Respond
<1>2. CASE Compose(r)
  BY <1>2, AnswerBooks DEF Compose
<1>3. CASE Expire(r)
  BY <1>3, AnswerBooks DEF Expire
<1>4. CASE StartFetches(r) \/ Disconnect(r)
  <2>1. PICK to \in {"fetching", "dropped"} :
          /\ at[r] \notin {"none", "done", "dropped"} /\ at' = [at EXCEPT ![r] = to]
          /\ to = "fetching" => at[r] = "handler"
          /\ config' = config /\ req' = req /\ answer' = answer /\ left' = left
          /\ earned' = earned
    BY <1>4 DEF StartFetches, Disconnect
  <2>2. TypeOK /\ at'[r] = to /\ \A s \in Ids : s # r => at'[s] = at[s]
    BY <2>1 DEF IInv, TypeOK
  <2>3. \A c \in Clients : Spent(c)' = Spent(c)
    BY <2>1 DEF Spent
  <2> QED
    BY <2>1, <2>2, <2>3, QuietStep
<1> QED
  BY <1>1, <1>2, <1>3, <1>4 DEF Handler

LEMMA ComingBooks ==
  ASSUME IInv, Books, NEW r \in Ids, at[r] = "none", at' = [at EXCEPT ![r] = "limit"],
         \A s \in Ids \ {r} : req'[s] = req[s],
         UNCHANGED <<config, answer, left, earned>>
  PROVE  Books'
<1>1. TypeOK /\ at'[r] = "limit" /\ \A s \in Ids : s # r => at'[s] = at[s]
  BY DEF IInv, TypeOK
<1>2. \A c \in Clients : Spent(c)' = Spent(c)
  BY DEF Spent
<1> QED
  BY <1>1, <1>2, QuietStep

LEMMA SameBooks ==
  ASSUME IInv, Books, UNCHANGED <<config, at, req, answer, left, earned>>
  PROVE  Books'
<1>1. TypeOK
  BY DEF IInv
<1>2. \A c \in Clients : Spent(c)' = Spent(c)
  BY DEF Spent
<1> QED
  BY <1>1, <1>2, QuietStep

LEMMA LegBooks ==
  ASSUME IInv, Books, NEW r \in Ids, NEW l \in Legs, LegStep(r, l)
  PROVE  Books'
<1>1. CASE HopArrives(r, l)
  <2>1. /\ legs[r][l] = "connecting" /\ at' = [at EXCEPT ![Hop(r, l)] = "limit"]
        /\ req' = [req EXCEPT ![Hop(r, l)] = HopRequest(config, req[r])]
        /\ UNCHANGED <<config, answer, left, earned>>
    BY <1>1, InwardOrder DEF HopArrives, SetLeg
  <2>2. Hop(r, l) \in Ids /\ at[Hop(r, l)] = "none"
    BY <2>1, HopOfAny DEF IInv, LegsAgree
  <2>3. \A s \in Ids \ {Hop(r, l)} : req'[s] = req[s]
    BY <2>1 DEF IInv, TypeOK
  <2> QED
    BY <2>1, <2>2, <2>3, ComingBooks
<1>2. CASE FarEnds(r, l) \/ HopRefused(r, l) \/ HopAnswered(r, l) \/ HopTimesOut(r, l)
  BY <1>2, SameBooks DEF FarEnds, HopRefused, HopAnswered, HopTimesOut, SetLeg
<1> QED
  BY <1>1, <1>2 DEF LegStep

LEMMA StepBooks == IInv /\ Books /\ [Next]_vars => Books'
<1> SUFFICES ASSUME IInv, Books, [Next]_vars PROVE Books'
  OBVIOUS
<1>1. ASSUME NEW c \in Callers, Arrive(c) PROVE Books'
  <2>1. <<c>> \in Ids
    BY NamesAreIds
  <2>2. PICK q \in Requests : req' = [req EXCEPT ![<<c>>] = q]
    BY <1>1 DEF Arrive
  <2>3. \A s \in Ids \ {<<c>>} : req'[s] = req[s]
    BY <2>2 DEF IInv, TypeOK
  <2>4. /\ at[<<c>>] = "none" /\ at' = [at EXCEPT ![<<c>>] = "limit"]
        /\ UNCHANGED <<config, answer, left, earned>>
    BY <1>1, InwardOrder DEF Arrive
  <2> QED
    BY <2>1, <2>3, <2>4, ComingBooks
<1>2. ASSUME NEW r \in Ids, Inbound(r) \/ Handler(r) \/ Expire(r) \/ Disconnect(r) PROVE Books'
  BY <1>2, InboundBooks, HandlerBooks
<1>3. ASSUME NEW r \in Ids, NEW l \in Legs, LegStep(r, l) PROVE Books'
  BY <1>3, LegBooks
<1>4. ASSUME NEW c \in Clients, Refill(c) PROVE Books'
  BY <1>4, RefillBooks
<1>5. CASE Shutdown
  BY <1>5, SameBooks DEF Shutdown
<1>6. CASE UNCHANGED vars
  BY <1>6, SameBooks DEF vars
<1> QED
  BY <1>1, <1>2, <1>3, <1>4, <1>5, <1>6 DEF Next

LEMMA InitBooks == Init => Books
<1> SUFFICES ASSUME Init, NEW c \in Clients
             PROVE  Cardinality(Staying(c)) <= Spent(c) /\ Spent(c) <= Cardinality(Charged(c))
  BY DEF Books
<1>1. Charged(c) = {} /\ Staying(c) = {}
  BY DEF Init, Charged, Staying
<1>2. config.limit \in Nat /\ left[c] = config.limit /\ earned[c] = 0
  BY DEF Init, ConfigType
<1>3. Spent(c) = 0
  BY <1>2 DEF Spent
<1> QED
  BY <1>1, <1>3, FS_EmptySet

\* The limiter lies behind nothing but the log: every answer but its own 429 has
\* cost the client one request, hops over 127.0.0.1 included, and nobody pays
\* for others.
THEOREM EveryAnswerPaid == Spec => []Accounts
<1>1. Spec => []Books
  BY InitBooks, StepBooks, Inductive, PTL DEF Spec
<1>2. ASSUME IInv, Books PROVE Accounts
  <2> SUFFICES ASSUME NEW c \in Clients PROVE Cardinality(Served(c)) <= Spent(c)
    BY <1>2 DEF Accounts, Books
  <2>1. Served(c) \in SUBSET Staying(c) /\ Staying(c) \in SUBSET Ids
    BY DEF Served, Staying, Charged
  <2>2. /\ Cardinality(Served(c)) \in Nat /\ Cardinality(Staying(c)) \in Nat
        /\ Cardinality(Served(c)) <= Cardinality(Staying(c))
    BY <2>1, FiniteBooks
  <2>3. Cardinality(Staying(c)) <= Spent(c) /\ Spent(c) \in Int
    BY <1>2, SpentType DEF Books, IInv
  <2> QED
    BY <2>2, <2>3
<1> QED
  BY <1>1, <1>2, Inductive, PTL

-----------------------------------------------------------------------------
(* No request goes back.                                                   *)

\* The places in their order.
LEMMA Places ==
  /\ Place("none") = 0 /\ Place("limit") = 2 /\ Place("cors") = 3 /\ Place("auth") = 4
  /\ Place("referer") = 5 /\ Place("timeout") = 6 /\ Place("security") = 7
  /\ Place("handler") = 8 /\ Place("fetching") = 9 /\ Place("done") = 10 /\ Place("dropped") = 10
BY Depths, TheLayers DEF Place

LEMMA Stays ==
  ASSUME NEW r, req'[r] = req[r], at'[r] = at[r], answer'[r] = answer[r], legs'[r] = legs[r]
  PROVE  GoesOn(r)
BY DEF GoesOn

\* Nothing else changes when r goes from one place to a later one.
LEMMA Moves ==
  ASSUME TypeOK, NEW r \in Ids, NEW to, Place(at[r]) < Place(to), at' = [at EXCEPT ![r] = to],
         req' = req \/ (at[r] = "none" /\ \A s \in Ids \ {r} : req'[s] = req[s]),
         \A s \in Ids \ {r} : answer'[s] = answer[s] /\ legs'[s] = legs[s],
         NEW s \in Ids
  PROVE  GoesOn(s)
<1>1. at'[r] = to /\ (s # r => at'[s] = at[s])
  BY DEF TypeOK
<1>2. CASE s = r
  BY <1>1, <1>2 DEF GoesOn
<1>3. CASE s # r
  BY <1>1, <1>3, Stays
<1> QED
  BY <1>2, <1>3

LEMMA AnswerGoesOn ==
  ASSUME TypeOK, NEW r \in Ids, at[r] \notin {"none", "done", "dropped"},
         NEW l, NEW status, Answer(r, l, status), NEW s \in Ids
  PROVE  GoesOn(s)
<1>1. Place(at[r]) < Place("done")
  BY Places, TheLayers DEF TypeOK
<1>2. \A t \in Ids \ {r} : answer'[t] = answer[t] /\ legs'[t] = legs[t]
  BY DEF Answer, TypeOK
<1> QED
  BY <1>1, <1>2, Moves DEF Answer

LEMMA ProceedGoesOn ==
  ASSUME TypeOK, NEW r \in Ids, at[r] \in {"limit", "cors", "auth", "referer", "timeout", "security"},
         Proceed(r), NEW s \in Ids
  PROVE  GoesOn(s)
<1>1. Place(at[r]) < Place(Inward(at[r]))
  BY Places, InwardOrder
<1> QED
  BY <1>1, Moves DEF Proceed

LEMMA InboundGoesOn ==
  ASSUME TypeOK, NEW r \in Ids, Inbound(r), NEW s \in Ids
  PROVE  GoesOn(s)
<1>1. CASE Throttle(r) \/ Preflight(r) \/ Unauthorized(r) \/ Forbid(r)
  BY <1>1, AnswerGoesOn DEF Throttle, Preflight, Unauthorized, Forbid
<1>2. CASE Admit(r) \/ PassCors(r) \/ Authenticate(r) \/ PassReferer(r) \/ Enter(r)
  BY <1>2, ProceedGoesOn DEF Admit, PassCors, Authenticate, PassReferer, Enter
<1> QED
  BY <1>1, <1>2 DEF Inbound

LEMMA HandlerGoesOn ==
  ASSUME TypeOK, NEW r \in Ids, Handler(r) \/ Expire(r) \/ Disconnect(r), NEW s \in Ids
  PROVE  GoesOn(s)
<1>1. CASE Respond(r) \/ Compose(r) \/ Expire(r)
  BY <1>1, AnswerGoesOn DEF Respond, Compose, Expire
<1>2. CASE StartFetches(r)
  <2>1. Place(at[r]) < Place("fetching")
    BY <1>2, Places DEF StartFetches
  <2>2. \A t \in Ids \ {r} : answer'[t] = answer[t] /\ legs'[t] = legs[t]
    BY <1>2 DEF StartFetches, TypeOK
  <2> QED
    BY <1>2, <2>1, <2>2, Moves DEF StartFetches
<1>3. CASE Disconnect(r)
  <2>1. Place(at[r]) < Place("dropped")
    BY <1>3, Places, TheLayers DEF Disconnect, TypeOK
  <2>2. \A t \in Ids \ {r} : answer'[t] = answer[t] /\ legs'[t] = legs[t]
    BY <1>3 DEF Disconnect, TypeOK
  <2> QED
    BY <1>3, <2>1, <2>2, Moves DEF Disconnect
<1> QED
  BY <1>1, <1>2, <1>3 DEF Handler

\* A leg that ends or begins to wait goes on, wherever its request is.
LEMMA LegMoves ==
  ASSUME TypeOK, NEW r \in Ids, NEW l \in Legs, NEW to, SetLeg(r, l, to),
         LegPlace(legs[r][l]) < LegPlace(to), NEW s \in Ids,
         at'[s] = at[s], req'[s] = req[s]
  PROVE  GoesOn(s)
<1>1. \A m \in Legs : legs'[s][m] = IF s = r /\ m = l THEN to ELSE legs[s][m]
  BY DEF SetLeg, TypeOK
<1> QED
  BY <1>1 DEF SetLeg, GoesOn

LEMMA LegGoesOn ==
  ASSUME IInv, NEW r \in Ids, NEW l \in Legs, LegStep(r, l), NEW s \in Ids
  PROVE  GoesOn(s)
<1>0. TypeOK
  BY DEF IInv
<1>1. CASE FarEnds(r, l) \/ HopRefused(r, l) \/ HopAnswered(r, l) \/ HopTimesOut(r, l)
  <2>1. PICK to \in {"ok", "failed"} : SetLeg(r, l, to)
    BY <1>1 DEF FarEnds, HopRefused, HopAnswered, HopTimesOut
  <2>2. legs[r][l] \in {"fetching", "connecting", "waiting"} /\ UNCHANGED <<req, at>>
    BY <1>1 DEF FarEnds, HopRefused, HopAnswered, HopTimesOut
  <2>3. LegPlace(legs[r][l]) < LegPlace(to)
    BY <2>2 DEF LegPlace
  <2> QED
    BY <1>0, <2>1, <2>2, <2>3, LegMoves
<1>2. CASE HopArrives(r, l)
  <2> DEFINE h == Hop(r, l)
  <2>1. /\ legs[r][l] = "connecting" /\ SetLeg(r, l, "waiting")
        /\ at' = [at EXCEPT ![h] = "limit"] /\ req' = [req EXCEPT ![h] = HopRequest(config, req[r])]
    BY <1>2, InwardOrder DEF HopArrives
  <2>2. h \in Ids /\ at[h] = "none" /\ at[r] = "fetching"
    BY <2>1, HopOfAny DEF IInv, LegsAgree, NoLegs
  <2> HIDE DEF h
  <2>3. LegPlace(legs[r][l]) < LegPlace("waiting")
    BY <2>1 DEF LegPlace
  <2>4. CASE s = h
    <3>1. at[s] = "none" /\ at'[s] = "limit"
      BY <1>0, <2>1, <2>2, <2>4 DEF TypeOK
    <3> QED
      BY <3>1, Places DEF GoesOn
  <2>5. CASE s # h
    <3>1. at'[s] = at[s] /\ req'[s] = req[s]
      BY <1>0, <2>1, <2>2, <2>5 DEF TypeOK
    <3> QED
      BY <1>0, <2>1, <2>3, <3>1, LegMoves
  <2> QED
    BY <2>4, <2>5
<1> QED
  BY <1>1, <1>2 DEF LegStep

\* One request is one way through the stack of create_app: whatever times out,
\* disconnects or shuts down meanwhile, no layer sees it twice, it gets no
\* second answer, and no leg of it ends twice.
THEOREM OneWay == Spec => NoWayBack
<1>1. ASSUME IInv, [Next]_vars, NEW s \in Ids
      PROVE  GoesOn(s)
  <2>0. TypeOK
    BY <1>1 DEF IInv
  <2>1. ASSUME NEW c \in Callers, Arrive(c)
        PROVE  GoesOn(s)
    <3> DEFINE r == <<c>>
    <3>1. r \in Ids
      BY NamesAreIds
    <3>2. /\ at[r] = "none" /\ at' = [at EXCEPT ![r] = "limit"]
          /\ UNCHANGED <<answer, legs>> /\ \E q \in Requests : req' = [req EXCEPT ![r] = q]
      BY <2>1, InwardOrder DEF Arrive
    <3> HIDE DEF r
    <3>3. Place(at[r]) < Place("limit")
      BY <3>2, Places
    <3>4. \A t \in Ids \ {r} : req'[t] = req[t]
      BY <2>0, <3>2 DEF TypeOK
    <3> QED
      BY <2>0, <3>1, <3>2, <3>3, <3>4, Moves
  <2>2. ASSUME NEW r \in Ids, Inbound(r) \/ Handler(r) \/ Expire(r) \/ Disconnect(r)
        PROVE  GoesOn(s)
    BY <2>0, <2>2, InboundGoesOn, HandlerGoesOn
  <2>3. ASSUME NEW r \in Ids, NEW l \in Legs, LegStep(r, l)
        PROVE  GoesOn(s)
    BY <1>1, <2>3, LegGoesOn
  <2>4. CASE (\E c \in Clients : Refill(c)) \/ Shutdown \/ UNCHANGED vars
    BY <2>4, Stays DEF Refill, Shutdown, vars
  <2> QED
    BY <1>1, <2>1, <2>2, <2>3, <2>4 DEF Next
<1>2. IInv /\ [Next]_vars => [\A r \in Ids : GoesOn(r)]_vars
  BY <1>1
<1> QED
  BY <1>2, Inductive, PTL DEF Spec, NoWayBack

-----------------------------------------------------------------------------
(* Hops and their signatures.                                              *)

\* A step that leaves the requests that have arrived as they are.
LEMMA SameRequests ==
  ASSUME IInv, HopsAgree, config' = config, req' = req,
         \A s \in Ids : at'[s] # "none" => at[s] # "none",
         \A s \in Ids : answer'[s] # None /\ answer'[s].status = 401 =>
                          answer'[s] = answer[s] \/ ~Authentic(config, req[s])
  PROVE  HopsAgree'
BY DEF HopsAgree

\* An answer other than 401, or a 401 where it is due.
LEMMA AnswerHops ==
  ASSUME IInv, HopsAgree, NEW r \in Ids, NEW l, NEW status, Answer(r, l, status), at[r] # "none",
         status = 401 => ~Authentic(config, req[r])
  PROVE  HopsAgree'
<1> DEFINE a == [status |-> status, by |-> l, headers |-> Headers(config, req[r], l)]
<1>1. /\ at' = [at EXCEPT ![r] = "done"] /\ answer' = [answer EXCEPT ![r] = a]
      /\ config' = config /\ req' = req
  BY DEF Answer
<1>2. a.status = status
  OBVIOUS
<1> HIDE DEF a
<1>3. at \in [Ids -> (LayerNames \ {"logging"}) \cup {"none", "fetching", "done", "dropped"}]
      /\ answer \in [Ids -> Responses \cup {None}]
  BY DEF IInv, TypeOK
<1>4. answer'[r] = a /\ \A s \in Ids : s # r => at'[s] = at[s] /\ answer'[s] = answer[s]
  BY <1>1, <1>3
<1>5. \A s \in Ids : at'[s] # "none" => at[s] # "none"
  BY <1>4
<1>6. \A s \in Ids : answer'[s] # None /\ answer'[s].status = 401 =>
                       answer'[s] = answer[s] \/ ~Authentic(config, req[s])
  BY <1>2, <1>4
<1> QED
  BY <1>1, <1>5, <1>6, SameRequests

\* No step, but an arrival, changes requests.
LEMMA QuietHops ==
  ASSUME IInv, HopsAgree, config' = config, req' = req, answer' = answer,
         NEW r \in Ids, NEW to, at[r] # "none",
         at' = [at EXCEPT ![r] = to] \/ at' = at
  PROVE  HopsAgree'
<1>1. at \in [Ids -> (LayerNames \ {"logging"}) \cup {"none", "fetching", "done", "dropped"}]
  BY DEF IInv, TypeOK
<1>2. \A s \in Ids : at'[s] # "none" => at[s] # "none"
  BY <1>1
<1> QED
  BY <1>2, SameRequests

LEMMA ArriveHops ==
  ASSUME IInv, HopsAgree, NEW c \in Callers, Arrive(c)
  PROVE  HopsAgree'
<1> DEFINE r == <<c>>
<1>1. PICK q \in Requests : req' = [req EXCEPT ![r] = q]
  BY DEF Arrive
<1>2. /\ at[r] = "none" /\ at' = [at EXCEPT ![r] = "limit"]
      /\ config' = config /\ answer' = answer
  BY InwardOrder DEF Arrive
<1>3. /\ at \in [Ids -> (LayerNames \ {"logging"}) \cup {"none", "fetching", "done", "dropped"}]
      /\ req \in [Ids -> RequestType \cup {None}]
  BY DEF IInv, TypeOK
<1>4. r \in Ids /\ ~IsHop(r)
  BY NamesAreIds, TupleLengths, NameAssumption
<1> HIDE DEF r
<1>5. \A s \in Ids : s # r => at'[s] = at[s] /\ req'[s] = req[s]
  BY <1>1, <1>2, <1>3
<1>6. answer[r] = None
  BY <1>2, <1>4 DEF IInv, OnItsWay
<1>7. ASSUME NEW s \in Ids, IsHop(s), at'[s] # "none"
      PROVE  req'[s] = HopRequest(config, req'[Outer(s)])
  <2>1. s # r /\ at[s] # "none"
    BY <1>4, <1>5, <1>7
  <2>2. Outer(s) \in Ids /\ LegOf(s) \in Legs /\ Hop(Outer(s), LegOf(s)) = s
    BY <1>7, OuterNames
  <2>3. Outer(s) # r
    BY <1>2, <1>4, <2>1, <2>2 DEF IInv, LegsAgree
  <2> QED
    BY <1>5, <1>7, <2>1, <2>2, <2>3 DEF HopsAgree
<1>8. ASSUME NEW s \in Ids, answer[s] # None, answer[s].status = 401
      PROVE  ~Authentic(config, req'[s])
  BY <1>5, <1>6, <1>8 DEF HopsAgree
<1> QED
  BY <1>2, <1>7, <1>8 DEF HopsAgree

LEMMA HopArrivesHops ==
  ASSUME IInv, HopsAgree, NEW r \in Ids, NEW l \in Legs, HopArrives(r, l)
  PROVE  HopsAgree'
<1> DEFINE h == Hop(r, l)
           q == HopRequest(config, req[r])
<1>1. /\ legs[r][l] = "connecting" /\ req' = [req EXCEPT ![h] = q]
      /\ at' = [at EXCEPT ![h] = "limit"] /\ config' = config /\ answer' = answer
  BY InwardOrder DEF HopArrives, SetLeg
<1>2. /\ at \in [Ids -> (LayerNames \ {"logging"}) \cup {"none", "fetching", "done", "dropped"}]
      /\ req \in [Ids -> RequestType \cup {None}]
  BY DEF IInv, TypeOK
<1>3. at[r] = "fetching" /\ ~IsHop(r)
  BY <1>1 DEF IInv, LegsAgree, NoLegs, AtMostOneHop
<1>4. Len(r) # 3
  BY <1>3, Lengths DEF IsHop
<1>5. h \in Ids /\ IsHop(h) /\ h # r /\ Outer(h) = r
  BY <1>4, HopNames, Zenon
<1>6. at[h] = "none"
  BY <1>1 DEF IInv, LegsAgree
<1>7. q = HopRequest(config, req[r])
  OBVIOUS
<1> HIDE DEF h, q
<1>8. req'[h] = q /\ \A s \in Ids : s # h => at'[s] = at[s] /\ req'[s] = req[s]
  BY <1>1, <1>2, <1>5
<1>9. answer[h] = None
  BY <1>5, <1>6 DEF IInv, OnItsWay
<1>10. ASSUME NEW s \in Ids, IsHop(s), at'[s] # "none"
       PROVE  req'[s] = HopRequest(config, req'[Outer(s)])
  <2>1. CASE s = h
    BY <1>5, <1>7, <1>8, <2>1
  <2>2. CASE s # h
    <3>1. at[s] # "none" /\ Outer(s) \in Ids
      BY <1>8, <1>10, <2>2, OuterNames
    <3>2. Outer(s) # h
      BY <1>5, <1>10, <3>1, OuterNames, OuterIsNoHop DEF IInv, AtMostOneHop
    <3> QED
      BY <1>8, <1>10, <2>2, <3>1, <3>2 DEF HopsAgree
  <2> QED
    BY <2>1, <2>2
<1>11. ASSUME NEW s \in Ids, answer[s] # None, answer[s].status = 401
       PROVE  ~Authentic(config, req'[s])
  BY <1>8, <1>9, <1>11 DEF HopsAgree
<1> QED
  BY <1>1, <1>10, <1>11 DEF HopsAgree

LEMMA InitHops == Init => HopsAgree
<1> SUFFICES ASSUME Init PROVE HopsAgree
  OBVIOUS
<1>1. \A r \in Ids : at[r] = "none" /\ answer[r] = None
  BY DEF Init
<1> QED
  BY <1>1 DEF HopsAgree

LEMMA InboundHops ==
  ASSUME IInv, HopsAgree, NEW r \in Ids, Inbound(r)
  PROVE  HopsAgree'
<1>1. CASE Throttle(r)
  BY <1>1, AnswerHops DEF Throttle
<1>2. CASE Preflight(r)
  BY <1>2, AnswerHops DEF Preflight
<1>3. CASE Unauthorized(r)
  BY <1>3, AnswerHops DEF Unauthorized
<1>4. CASE Forbid(r)
  BY <1>4, AnswerHops DEF Forbid
<1>5. CASE Admit(r) \/ PassCors(r) \/ Authenticate(r) \/ PassReferer(r) \/ Enter(r)
  <2>1. at[r] # "none" /\ Proceed(r)
    BY <1>5 DEF Admit, PassCors, Authenticate, PassReferer, Enter
  <2> QED
    BY <2>1, QuietHops DEF Proceed
<1> QED
  BY <1>1, <1>2, <1>3, <1>4, <1>5 DEF Inbound

LEMMA HandlerHops ==
  ASSUME IInv, HopsAgree, NEW r \in Ids, Handler(r) \/ Expire(r) \/ Disconnect(r)
  PROVE  HopsAgree'
<1>1. CASE Respond(r)
  <2>1. at[r] = "handler"
    BY <1>1 DEF Respond
  <2>2. req[r] \in RequestType
    BY <2>1 DEF IInv, OnItsWay
  <2>3. 401 \notin Statuses(req[r])
    BY <2>2 DEF Statuses, RequestType, Paths, Methods
  <2>4. PICK status \in Statuses(req[r]) : Answer(r, "handler", status)
    BY <1>1 DEF Respond
  <2> QED
    BY <2>1, <2>3, <2>4, AnswerHops
<1>2. CASE StartFetches(r)
  BY <1>2, QuietHops DEF StartFetches
<1>3. CASE Compose(r)
  <2>1. PICK status \in {200, 400, 404, 500} : Answer(r, "handler", status)
    BY <1>3 DEF Compose
  <2>2. at[r] # "none" /\ status # 401
    BY <1>3 DEF Compose
  <2> QED
    BY <2>1, <2>2, AnswerHops
<1>4. CASE Expire(r)
  BY <1>4, AnswerHops DEF Expire
<1>5. CASE Disconnect(r)
  BY <1>5, QuietHops DEF Disconnect
<1> QED
  BY <1>1, <1>2, <1>3, <1>4, <1>5 DEF Handler

LEMMA StepHops == IInv /\ HopsAgree /\ [Next]_vars => HopsAgree'
<1> SUFFICES ASSUME IInv, HopsAgree, [Next]_vars PROVE HopsAgree'
  OBVIOUS
<1>1. ASSUME req' = req, at' = at, answer' = answer, config' = config PROVE HopsAgree'
  BY <1>1, SameRequests
<1>2. ASSUME NEW c \in Callers, Arrive(c) PROVE HopsAgree'
  BY <1>2, ArriveHops
<1>3. ASSUME NEW r \in Ids, Inbound(r) \/ Handler(r) \/ Expire(r) \/ Disconnect(r) PROVE HopsAgree'
  BY <1>3, InboundHops, HandlerHops
<1>4. ASSUME NEW r \in Ids, NEW l \in Legs, LegStep(r, l) PROVE HopsAgree'
  <2>1. CASE HopArrives(r, l)
    BY <2>1, HopArrivesHops
  <2>2. CASE FarEnds(r, l) \/ HopRefused(r, l) \/ HopAnswered(r, l) \/ HopTimesOut(r, l)
    BY <1>1, <2>2 DEF FarEnds, HopRefused, HopAnswered, HopTimesOut, SetLeg
  <2> QED
    BY <1>4, <2>1, <2>2 DEF LegStep
<1>5. ASSUME NEW c \in Clients, Refill(c) PROVE HopsAgree'
  BY <1>1, <1>5 DEF Refill
<1>6. CASE Shutdown
  BY <1>1, <1>6 DEF Shutdown
<1>7. CASE UNCHANGED vars
  BY <1>1, <1>7 DEF vars
<1> QED
  BY <1>2, <1>3, <1>4, <1>5, <1>6, <1>7 DEF Next

LEMMA HopsSigned == IInv /\ HopsAgree => HopsVerify
<1> SUFFICES ASSUME IInv, HopsAgree, NEW r \in Ids, IsHop(r), answer[r] # None, answer[r].status = 401,
                    config.secret, req[Outer(r)].url.query # None, Plain(req[Outer(r)].url.query)
             PROVE  FALSE
  BY DEF HopsVerify
<1> DEFINE q == req[Outer(r)]
<1>1. at[r] # "none"
  BY DEF IInv, OnItsWay
<1>2. req[r] = HopRequest(config, q) /\ ~Authentic(config, req[r])
  BY <1>1 DEF HopsAgree
<1>3. q \in RequestType
  <2>1. Outer(r) \in Ids /\ LegOf(r) \in Legs /\ Hop(Outer(r), LegOf(r)) = r
    BY OuterNames
  <2>2. at[Outer(r)] # "none"
    BY <1>1, <2>1 DEF IInv, LegsAgree
  <2> QED
    BY <2>1, <2>2 DEF IInv, OnItsWay
<1>4. q.url.path \in Paths /\ q.url.query \in Queries
  BY <1>3 DEF RequestType, SelfUrls
<1>5. Verifies(q.url.path, Sign(q.url.path, q.url.query, Now), Now)
  <2>1. Now <= Now + Ttl /\ Now \in Int
    BY TextAssumption
  <2> QED
    BY <1>4, <2>1, SignedVerifies
<1>6. config.auth
  BY <1>2 DEF Authentic
<1>7. req[r].path = q.url.path /\ req[r].query = Sign(q.url.path, q.url.query, Now)
  BY <1>2, <1>6 DEF HopRequest
<1> QED
  BY <1>2, <1>5, <1>7 DEF Authentic

LEMMA HopsHold == Spec => []HopsAgree
<1>1. IInv /\ HopsAgree /\ [Next]_vars => HopsAgree'
  BY StepHops
<1> QED
  BY <1>1, InitHops, Inductive, PTL DEF Spec

\* The two sides of a signature agree: with a secret, no hop whose query is
\* free of the text "expires=" is refused by auth_middleware, whatever else the
\* URL holds and however long the query is.
THEOREM SignedHops == Spec => []HopsVerify
<1> QED
  BY HopsHold, HopsSigned, Inductive, PTL

\* What client.rs:201 says holds of every configuration and request for which
\* sign_loopback_url has something to sign with and to sign: the hops of such a
\* server are never refused by its own authentication.
THEOREM SignedHopsPass == Spec => [](Signable => HopsAuthorised)
<1>1. ASSUME IInv, HopsAgree, Signable, NEW r \in Ids, IsHop(r), answer[r] # None
      PROVE  answer[r].status # 401
  <2>1. SUFFICES ASSUME answer[r].status = 401 PROVE FALSE
    OBVIOUS
  <2>2. config.auth
    BY <1>1, <2>1 DEF HopsAgree, Authentic
  <2>3. at[r] # "none"
    BY <1>1 DEF IInv, OnItsWay
  <2>4. Outer(r) \in Ids /\ LegOf(r) \in Legs /\ Hop(Outer(r), LegOf(r)) = r
    BY <1>1, OuterNames
  <2>5. at[Outer(r)] # "none" /\ ~IsHop(Outer(r))
    BY <1>1, <2>3, <2>4, OuterIsNoHop DEF IInv, LegsAgree, AtMostOneHop
  <2>6. HopsVerify
    BY <1>1, HopsSigned
  <2> QED
    BY <1>1, <2>1, <2>2, <2>4, <2>5, <2>6 DEF Signable, HopsVerify
<1>2. IInv /\ HopsAgree => (Signable => HopsAuthorised)
  BY <1>1 DEF HopsAuthorised
<1> QED
  BY <1>2, HopsHold, Inductive, PTL
=============================================================================
