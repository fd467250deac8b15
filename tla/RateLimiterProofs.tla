--------------------------- MODULE RateLimiterProofs ---------------------------
(***************************************************************************)
(* The safety of RateLimiter, for any number of clients and requests, any  *)
(* quota and window, with Redis failing or not.                            *)
(***************************************************************************)
EXTENDS RateLimiter, FiniteSetTheorems, TLAPS

------------------------------------------------------------------------------
(* The inductive invariant *)

Counted == {"expire", "ttl", "fallback"}

\* Requests the open window has counted and will let through.
InFlight(i) == {r \in Requests :
  Ip[r] = i /\ era[r] = "open" /\ pc[r] \in Counted /\ value[r] <= Max}

\* Requests of the open window that its second limiter may yet count.
Owing(i) == {r \in Requests :
  /\ Ip[r] = i /\ era[r] = "open"
  /\ (layer[r] = 1 /\ pc[r] \in Counted) \/ (layer[r] = 2 /\ pc[r] = "incr")}

\* Where a request of the open window stands: its key is there, its value was the key's,
\* and it comes to INCR again for the second limiter, or because that was sent again.
Placed ==
  \A r \in Requests :
    /\ pc[r] = "idle" => era[r] = "none"
    /\ era[r] = "open" =>
         /\ count[Ip[r]] > 0 /\ value[r] <= count[Ip[r]]
         /\ pc[r] = "incr" => layer[r] = 2 \/ Ip[r] \in resent

\* What passed and what will pass had values of their own, up to the count and the quota.
Quota ==
  \A i \in Ips :
    /\ passed[i] + Cardinality(InFlight(i)) <= Max
    /\ passed[i] + Cardinality(InFlight(i)) <= count[i]

\* A request is charged twice at most, where no INCR was sent again.
Charge ==
  \A i \in Ips \ resent :
    asked[i] = Max + 1 \/ count[i] + Cardinality(Owing(i)) <= 2 * asked[i]

\* A client that is refused faces a full counter that will expire.
Refused == \A i \in locked : ttl[i] > 0 /\ count[i] = Max + 1

IInv == TypeOK /\ Placed /\ Quota /\ Charge /\ Refused

------------------------------------------------------------------------------
(* Lemmas *)

LEMMA Numbers == Max \in Nat /\ Max >= 1 /\ Window \in Nat /\ Window >= 1
  BY RateLimiterAssumption

LEMMA Subsets == \A i : InFlight(i) \subseteq Requests /\ Owing(i) \subseteq Requests
                     /\ InFlight(i)' \subseteq Requests /\ Owing(i)' \subseteq Requests
  BY DEF InFlight, Owing

\* How much smaller or larger a set of requests gets.
LEMMA Shrinks ==
  ASSUME NEW S \in SUBSET Requests, NEW T, T \subseteq S
  PROVE  Cardinality(S) \in Nat /\ Cardinality(T) \in Nat /\ Cardinality(T) <= Cardinality(S)
<1>1. IsFiniteSet(S)
  BY FS_Subset, RateLimiterAssumption
<1>2. IsFiniteSet(T) /\ Cardinality(T) <= Cardinality(S)
  BY <1>1, FS_Subset
<1>3. QED BY <1>1, <1>2, FS_CardinalityType

LEMMA Grows ==
  ASSUME NEW S \in SUBSET Requests, NEW r \in Requests, NEW T, T \subseteq S \cup {r}
  PROVE  Cardinality(S) \in Nat /\ Cardinality(T) \in Nat /\ Cardinality(T) <= Cardinality(S) + 1
<1>1. IsFiniteSet(S)
  BY FS_Subset, RateLimiterAssumption
<1>2. Cardinality(S \cup {r}) <= Cardinality(S) + 1 /\ Cardinality(S) \in Nat
  <2>1. Cardinality(S) \in Nat
    BY <1>1, FS_CardinalityType
  <2>2. Cardinality(S \cup {r}) = Cardinality(S) \/ Cardinality(S \cup {r}) = Cardinality(S) + 1
    BY <1>1, FS_AddElement
  <2>3. QED BY <2>1, <2>2
<1>3. Cardinality(T) \in Nat /\ Cardinality(T) <= Cardinality(S \cup {r})
      /\ Cardinality(S \cup {r}) \in Nat
  BY Shrinks
<1>4. QED BY <1>2, <1>3

LEMMA Loses ==
  ASSUME NEW S \in SUBSET Requests, NEW r \in S, NEW T, T \subseteq S \ {r}
  PROVE  Cardinality(S) \in Nat /\ Cardinality(T) \in Nat /\ Cardinality(T) + 1 <= Cardinality(S)
<1>1. IsFiniteSet(S)
  BY FS_Subset, RateLimiterAssumption
<1>2. Cardinality(S \ {r}) = Cardinality(S) - 1 /\ Cardinality(S) \in Nat
  BY <1>1, FS_RemoveElement, FS_CardinalityType
<1>3. Cardinality(T) \in Nat /\ Cardinality(T) <= Cardinality(S \ {r})
      /\ Cardinality(S \ {r}) \in Nat
  BY Shrinks
<1>4. QED BY <1>2, <1>3

\* The two counts of a client that no step touches, or that a step only makes smaller.
LEMMA QuotaKept ==
  ASSUME TypeOK, Quota, NEW i \in Ips, InFlight(i)' \subseteq InFlight(i),
         passed'[i] = passed[i], count'[i] = count[i]
  PROVE  /\ passed'[i] + Cardinality(InFlight(i)') <= Max
         /\ passed'[i] + Cardinality(InFlight(i)') <= count'[i]
<1>1. Cardinality(InFlight(i)') \in Nat /\ Cardinality(InFlight(i)) \in Nat
      /\ Cardinality(InFlight(i)') <= Cardinality(InFlight(i))
  BY Subsets, Shrinks
<1>2. passed[i] + Cardinality(InFlight(i)) <= Max /\ passed[i] + Cardinality(InFlight(i)) <= count[i]
      /\ passed[i] \in Nat /\ count[i] \in Nat /\ Max \in Nat
  BY Numbers DEF Quota, TypeOK
<1>3. QED BY <1>1, <1>2

LEMMA ChargeKept ==
  ASSUME TypeOK, Charge, NEW i \in Ips \ resent, Owing(i)' \subseteq Owing(i),
         asked'[i] = asked[i], count'[i] = count[i]
  PROVE  asked'[i] = Max + 1 \/ count'[i] + Cardinality(Owing(i)') <= 2 * asked'[i]
<1>1. Cardinality(Owing(i)') \in Nat /\ Cardinality(Owing(i)) \in Nat
      /\ Cardinality(Owing(i)') <= Cardinality(Owing(i))
  BY Subsets, Shrinks
<1>2. asked[i] = Max + 1 \/ count[i] + Cardinality(Owing(i)) <= 2 * asked[i]
  BY DEF Charge
<1>3. count[i] \in Nat /\ asked[i] \in Nat
  BY Numbers DEF TypeOK
<1>4. QED BY <1>1, <1>2, <1>3

LEMMA InitIInv == Init => IInv
<1> SUFFICES ASSUME Init PROVE IInv
  OBVIOUS
<1>1. TypeOK
  BY Numbers DEF Init, TypeOK
<1>2. \A i : InFlight(i) = {} /\ Owing(i) = {}
  BY DEF Init, InFlight, Owing, Counted
<1>3. Cardinality({}) = 0
  BY FS_EmptySet
<1>4. Placed /\ Quota /\ Charge /\ Refused
  BY <1>2, <1>3, Numbers DEF Init, Placed, Quota, Charge, Refused
<1>5. QED BY <1>1, <1>4 DEF IInv

\* A request that leaves, or goes on to the second limiter.
LEMMA AdmitEffect ==
  ASSUME TypeOK, NEW r \in Requests, pc[r] # "idle", Admit(r)
  PROVE  /\ pc' \in [Requests -> {"idle", "incr", "expire", "ttl", "fallback"}]
         /\ layer' \in [Requests -> {1, 2}]
         /\ value' \in [Requests -> 0 .. Max + 1]
         /\ era' \in [Requests -> {"none", "open", "past"}]
         /\ \A q \in Requests \ {r} : pc'[q] = pc[q] /\ layer'[q] = layer[q]
                                      /\ value'[q] = value[q] /\ era'[q] = era[q]
         /\ value'[r] = 0
         /\ \/ pc'[r] = "idle" /\ era'[r] = "none"
            \/ pc'[r] = "incr" /\ layer[r] = 1 /\ layer'[r] = 2 /\ era'[r] = era[r]
  BY Numbers, RateLimiterAssumption DEF TypeOK, Admit, Leave, Goto

\* A request whose command is served moves alone.
Alone(r) ==
  \A q \in Requests \ {r} : pc'[q] = pc[q] /\ layer'[q] = layer[q]
                            /\ value'[q] = value[q] /\ era'[q] = era[q]

LEMMA OthersKept ==
  ASSUME NEW r \in Requests, Alone(r), NEW i, i # Ip[r]
  PROVE  InFlight(i)' = InFlight(i) /\ Owing(i)' = Owing(i)
  BY DEF Alone, InFlight, Owing

LEMMA OneMoves ==
  ASSUME NEW r \in Requests, Alone(r)
  PROVE  /\ InFlight(Ip[r])' \subseteq InFlight(Ip[r]) \cup {r}
         /\ Owing(Ip[r])' \subseteq Owing(Ip[r]) \cup {r}
         /\ r \notin InFlight(Ip[r])' => InFlight(Ip[r])' \subseteq InFlight(Ip[r]) \ {r}
         /\ r \notin Owing(Ip[r])' => Owing(Ip[r])' \subseteq Owing(Ip[r]) \ {r}
  BY DEF Alone, InFlight, Owing

------------------------------------------------------------------------------
(* The invariant is inductive *)

LEMMA IncrKeeps == ASSUME IInv, NEW r \in Requests, Incr(r) PROVE IInv'
<1> USE Numbers, RateLimiterAssumption DEF IInv
<1> DEFINE i == Ip[r]
<1>1. /\ i \in Ips /\ pc[r] = "incr" /\ count[i] \in 0 .. Max + 1 /\ asked[i] \in 0 .. Max + 1
      /\ passed[i] \in Nat
  <2>1. i \in Ips
    OBVIOUS
  <2>2. count[i] \in 0 .. Max + 1 /\ asked[i] \in 0 .. Max + 1 /\ passed[i] \in 0 .. Max + 1
    BY <2>1 DEF TypeOK
  <2>3. pc[r] = "incr"
    BY DEF Incr
  <2>4. QED BY <2>1, <2>2, <2>3
<1>2. /\ count' = [count EXCEPT ![i] = Cap(count[i] + 1)]
      /\ count'[i] = Cap(count[i] + 1) /\ value'[r] = count'[i]
      /\ era'[r] = "open" /\ pc'[r] = "expire" /\ layer' = layer
      /\ asked' = [asked EXCEPT ![i] = IF era[r] = "open" THEN @ ELSE Cap(@ + 1)]
      /\ UNCHANGED <<nx, ttl, passed, resent, cut, locked>>
  BY DEF Incr, Goto, TypeOK
<1>3. Alone(r)
  BY DEF Incr, Goto, TypeOK, Alone
<1>4. /\ \/ count[i] + 1 <= Max /\ count'[i] = count[i] + 1
         \/ count[i] >= Max /\ count'[i] = Max + 1
      /\ count'[i] \in 0 .. Max + 1 /\ count'[i] >= count[i] /\ count'[i] > 0
  BY <1>1, <1>2 DEF Cap
<1>5. asked'[i] \in 0 .. Max + 1
      /\ (era[r] # "open" => asked'[i] = Max + 1 \/ asked'[i] = asked[i] + 1)
      /\ (era[r] = "open" => asked'[i] = asked[i])
      /\ \A j \in Ips \ {i} : asked'[j] = asked[j]
  BY <1>1, <1>2 DEF Cap, TypeOK
<1>6. TypeOK'
  <2>1. count' \in [Ips -> 0 .. Max + 1] /\ asked' \in [Ips -> 0 .. Max + 1]
    BY <1>2, <1>4, <1>5 DEF TypeOK
  <2>2. value' \in [Requests -> 0 .. Max + 1] /\ era' \in [Requests -> {"none", "open", "past"}]
        /\ pc' \in [Requests -> {"idle", "incr", "expire", "ttl", "fallback"}]
    <3>1. value' = [value EXCEPT ![r] = count'[i]] /\ era' = [era EXCEPT ![r] = "open"]
          /\ pc' = [pc EXCEPT ![r] = "expire"]
      BY DEF Incr, Goto
    <3>2. QED BY <1>4, <3>1 DEF TypeOK
  <2>3. QED BY <1>2, <2>1, <2>2 DEF TypeOK
<1>7. Placed'
  <2>1. \A j \in Ips : count'[j] >= count[j]
    BY <1>2, <1>4 DEF TypeOK
  <2>2. QED BY <1>2, <1>3, <1>4, <2>1 DEF Placed, Alone, TypeOK
<1>8. Quota'
  <2> SUFFICES ASSUME NEW j \in Ips
               PROVE  /\ passed'[j] + Cardinality(InFlight(j)') <= Max
                      /\ passed'[j] + Cardinality(InFlight(j)') <= count'[j]
    BY DEF Quota
  <2>1. CASE j # i
    BY <1>2, <1>3, <2>1, OthersKept, QuotaKept DEF TypeOK
  <2>2. CASE j = i
    <3>1. passed[i] + Cardinality(InFlight(i)) <= Max
          /\ passed[i] + Cardinality(InFlight(i)) <= count[i]
      BY <1>1 DEF Quota
    <3>2. CASE count[i] + 1 <= Max /\ count'[i] = count[i] + 1
      <4>1. Cardinality(InFlight(i)) \in Nat /\ Cardinality(InFlight(i)') \in Nat
            /\ Cardinality(InFlight(i)') <= Cardinality(InFlight(i)) + 1
        BY <1>3, OneMoves, Subsets, Grows
      <4>2. QED BY <1>1, <1>2, <2>2, <3>1, <3>2, <4>1
    <3>3. CASE count[i] >= Max /\ count'[i] = Max + 1
      <4>1. r \notin InFlight(i)'
        BY <1>2, <3>3 DEF InFlight
      <4>2. Cardinality(InFlight(i)) \in Nat /\ Cardinality(InFlight(i)') \in Nat
            /\ Cardinality(InFlight(i)') <= Cardinality(InFlight(i))
        BY <1>3, <4>1, OneMoves, Subsets, Shrinks
      <4>3. QED BY <1>1, <1>2, <2>2, <3>1, <3>3, <4>2
    <3>4. QED BY <1>4, <3>2, <3>3
  <2>3. QED BY <2>1, <2>2
<1>9. Charge'
  <2> SUFFICES ASSUME NEW j \in Ips \ resent
               PROVE  asked'[j] = Max + 1 \/ count'[j] + Cardinality(Owing(j)') <= 2 * asked'[j]
    BY <1>2 DEF Charge
  <2>1. CASE j # i
    BY <1>2, <1>3, <1>5, <2>1, OthersKept, ChargeKept DEF TypeOK
  <2>2. CASE j = i
    <3>1. asked[i] = Max + 1 \/ count[i] + Cardinality(Owing(i)) <= 2 * asked[i]
      BY <2>2 DEF Charge
    <3>2. count'[i] <= count[i] + 1 /\ count'[i] \in Nat
      BY <1>1, <1>4
    <3>3. CASE era[r] = "open"
      <4>1. r \in Owing(i) /\ r \notin Owing(i)'
        BY <1>1, <1>2, <2>2, <3>3 DEF Owing, Placed, Counted
      <4>2. Cardinality(Owing(i)) \in Nat /\ Cardinality(Owing(i)') \in Nat
            /\ Cardinality(Owing(i)') + 1 <= Cardinality(Owing(i))
        BY <1>3, <4>1, OneMoves, Subsets, Loses
      <4>3. QED BY <1>1, <1>5, <2>2, <3>1, <3>2, <3>3, <4>2
    <3>4. CASE era[r] # "open"
      <4>1. Cardinality(Owing(i)) \in Nat /\ Cardinality(Owing(i)') \in Nat
            /\ Cardinality(Owing(i)') <= Cardinality(Owing(i)) + 1
        BY <1>3, OneMoves, Subsets, Grows
      <4>2. asked'[i] = Max + 1 \/ asked'[i] = asked[i] + 1
        BY <1>5, <3>4
      <4>3. asked[i] = Max + 1 => asked'[i] = Max + 1
        BY <1>5, <4>2
      <4>4. QED BY <1>1, <2>2, <3>1, <3>2, <4>1, <4>2, <4>3
    <3>5. QED BY <3>3, <3>4
  <2>3. QED BY <2>1, <2>2
<1>10. Refused'
  <2>1. \A j \in Ips : count[j] = Max + 1 => count'[j] = Max + 1
    BY <1>2, <1>4 DEF TypeOK
  <2>2. QED BY <1>2, <2>1 DEF Refused, TypeOK
<1>11. QED BY <1>6, <1>7, <1>8, <1>9, <1>10

\* Where nothing is counted, and nobody enters the two sets.
LEMMA SetsShrink ==
  ASSUME TypeOK, Quota, Charge, UNCHANGED <<count, asked, passed>>, resent \subseteq resent',
         \A i \in Ips : InFlight(i)' \subseteq InFlight(i),
         \A i \in Ips \ resent' : Owing(i)' \subseteq Owing(i)
  PROVE  Quota' /\ Charge'
<1>1. Quota'
  BY QuotaKept DEF Quota
<1>2. ASSUME NEW i \in Ips \ resent'
      PROVE  asked'[i] = Max + 1 \/ count'[i] + Cardinality(Owing(i)') <= 2 * asked'[i]
  BY <1>2, ChargeKept
<1>3. Charge'
  BY <1>2 DEF Charge
<1>4. QED BY <1>1, <1>3

\* A key that expires still does.
LEMMA RefusedKept ==
  ASSUME Refused, TypeOK, locked' = locked, count' = count,
         \A i \in Ips : ttl[i] > 0 => ttl'[i] > 0
  PROVE  Refused'
  BY DEF Refused, TypeOK

LEMMA ArriveKeeps == ASSUME IInv, NEW r \in Requests, Arrive(r) PROVE IInv'
<1> USE DEF IInv
<1>1. /\ pc[r] = "idle" /\ pc' = [pc EXCEPT ![r] = "incr"] /\ era[r] = "none"
      /\ UNCHANGED <<redis, layer, value, era, ghosts>>
  BY DEF Arrive, Goto, Placed
<1> USE DEF redis, ghosts
<1>2. TypeOK'
  BY <1>1 DEF TypeOK
<1>3. Placed'
  BY <1>1 DEF Placed, TypeOK
<1>4. \A i \in Ips : InFlight(i)' \subseteq InFlight(i) /\ Owing(i)' \subseteq Owing(i)
  BY <1>1 DEF InFlight, Owing, TypeOK, Counted
<1>5. Quota' /\ Charge'
  BY <1>1, <1>4, SetsShrink
<1>6. Refused'
  BY <1>1, RefusedKept
<1>7. QED BY <1>2, <1>3, <1>5, <1>6

LEMMA ExpireKeeps == ASSUME IInv, NEW r \in Requests, Expire(r) PROVE IInv'
<1> USE DEF IInv
<1>1. /\ pc[r] = "expire" /\ pc' = [pc EXCEPT ![r] = "ttl"]
      /\ UNCHANGED <<nx, count, layer, value, era, ghosts>>
      /\ ttl' = ttl \/ (ttl' = [ttl EXCEPT ![Ip[r]] = Window])
  BY DEF Expire, Goto
<1> USE DEF ghosts
<1>2. ttl' \in [Ips -> 0 .. Window] /\ \A i \in Ips : ttl[i] > 0 => ttl'[i] > 0
  BY <1>1, Numbers DEF TypeOK
<1>3. TypeOK'
  BY <1>1, <1>2 DEF TypeOK
<1>4. Placed'
  BY <1>1 DEF Placed, TypeOK
<1>5. \A i \in Ips : InFlight(i)' \subseteq InFlight(i) /\ Owing(i)' \subseteq Owing(i)
  BY <1>1 DEF InFlight, Owing, TypeOK, Counted
<1>6. Quota' /\ Charge'
  BY <1>1, <1>5, SetsShrink
<1>7. Refused'
  BY <1>1, <1>2, RefusedKept
<1>8. QED BY <1>3, <1>4, <1>6, <1>7

\* The end of the middleware: a request that passes leaves room for what it takes of the
\* quota, and one that is refused has seen the counter full.
LEMMA DecideKeeps ==
  ASSUME IInv, NEW r \in Requests, pc[r] \in Counted, Decide(r),
         UNCHANGED <<nx, count, asked, resent>>,
         ttl' \in [Ips -> 0 .. Window], \A i \in Ips : ttl[i] > 0 => ttl'[i] > 0,
         cut' \subseteq Ips, era[r] = "open" => ttl'[Ip[r]] > 0 \/ Ip[r] \in cut'
  PROVE  IInv'
<1> USE DEF IInv
<1> DEFINE i == Ip[r]
<1>1. i \in Ips /\ pc[r] # "idle"
  BY RateLimiterAssumption DEF Counted
<1>2. value[r] \in 0 .. Max + 1 /\ count[i] \in 0 .. Max + 1 /\ passed[i] \in 0 .. Max + 1
  BY <1>1 DEF TypeOK
\* Where the request goes.
<1>3. /\ pc' \in [Requests -> {"idle", "incr", "expire", "ttl", "fallback"}]
      /\ layer' \in [Requests -> {1, 2}]
      /\ value' \in [Requests -> 0 .. Max + 1]
      /\ era' \in [Requests -> {"none", "open", "past"}]
      /\ Alone(r) /\ value'[r] = 0
      /\ \/ pc'[r] = "idle" /\ era'[r] = "none"
         \/ pc'[r] = "incr" /\ layer[r] = 1 /\ layer'[r] = 2 /\ era'[r] = era[r]
  <2>1. CASE Over(r)
    <3>1. Leave(r)
      BY <2>1 DEF Decide
    <3>2. QED BY <3>1, Numbers DEF Leave, Goto, TypeOK, Alone
  <2>2. CASE ~Over(r)
    BY <1>1, <2>2, AdmitEffect DEF Decide, Alone
  <2>3. QED BY <2>1, <2>2
\* What is counted.
<1>4. \/ /\ value[r] > Max \/ era[r] # "open"
         /\ passed' = passed
      \/ /\ value[r] <= Max /\ era[r] = "open"
         /\ passed' = [passed EXCEPT ![i] = Cap(passed[i] + 1)]
  BY <1>2, Numbers DEF Decide, Over
<1>5. \/ locked' = locked
      \/ value[r] > Max /\ era[r] = "open" /\ locked' = locked \cup ({i} \ cut')
  BY DEF Decide, Over
<1>6. r \notin InFlight(i)' /\ (r \notin Owing(i) => r \notin Owing(i)')
  <2>1. r \notin InFlight(i)'
    BY <1>3 DEF InFlight, Counted
  <2>2. r \in Owing(i)' => r \in Owing(i)
    BY <1>3 DEF Owing, Counted
  <2>3. QED BY <2>1, <2>2
<1>7. Quota'
  <2> SUFFICES ASSUME NEW j \in Ips
               PROVE  /\ passed'[j] + Cardinality(InFlight(j)') <= Max
                      /\ passed'[j] + Cardinality(InFlight(j)') <= count'[j]
    BY DEF Quota
  <2>1. InFlight(j)' \subseteq InFlight(j)
    BY <1>3, <1>6, OthersKept, OneMoves
  <2>2. CASE passed'[j] = passed[j]
    BY <2>1, <2>2, QuotaKept
  <2>3. CASE j = i /\ value[r] <= Max /\ era[r] = "open" /\ passed'[i] = Cap(passed[i] + 1)
    <3>1. r \in InFlight(i) /\ InFlight(i)' \subseteq InFlight(i) \ {r}
      BY <1>3, <1>6, <2>3, OneMoves DEF InFlight
    <3>2. Cardinality(InFlight(i)) \in Nat /\ Cardinality(InFlight(i)') \in Nat
          /\ Cardinality(InFlight(i)') + 1 <= Cardinality(InFlight(i))
      BY <3>1, Subsets, Loses
    <3>3. passed[i] + Cardinality(InFlight(i)) <= Max
          /\ passed[i] + Cardinality(InFlight(i)) <= count[i]
      BY <1>1 DEF Quota
    <3>4. passed'[i] = passed[i] + 1
      BY <1>2, <2>3, <3>2, <3>3, Numbers DEF Cap
    <3>5. QED BY <1>2, <2>3, <3>2, <3>3, <3>4, Numbers
  <2>4. QED BY <1>4, <2>2, <2>3 DEF TypeOK
<1>8. Charge'
  <2> SUFFICES ASSUME NEW j \in Ips \ resent
               PROVE  asked'[j] = Max + 1 \/ count'[j] + Cardinality(Owing(j)') <= 2 * asked'[j]
    BY DEF Charge
  <2>1. Owing(j)' \subseteq Owing(j)
    BY <1>3, <1>6, OthersKept, OneMoves
  <2>2. QED BY <2>1, ChargeKept
<1>9. TypeOK'
  <2>1. passed' \in [Ips -> 0 .. Max + 1]
    <3>1. Cap(passed[i] + 1) \in 0 .. Max + 1
      BY <1>2, Numbers DEF Cap
    <3>2. QED BY <1>4, <3>1 DEF TypeOK
  <2>2. locked' \subseteq Ips
    BY <1>1, <1>5 DEF TypeOK
  <2>3. QED BY <1>3, <2>1, <2>2 DEF TypeOK
<1>10. Placed'
  <2> SUFFICES ASSUME NEW q \in Requests
               PROVE  /\ pc'[q] = "idle" => era'[q] = "none"
                      /\ era'[q] = "open" =>
                           /\ count[Ip[q]] > 0 /\ value'[q] <= count[Ip[q]]
                           /\ pc'[q] = "incr" => layer'[q] = 2 \/ Ip[q] \in resent
    BY DEF Placed
  <2>1. CASE q = r
    <3>1. era[r] = "open" => count[i] > 0
      BY DEF Placed
    <3>2. QED BY <1>2, <1>3, <2>1, <3>1
  <2>2. CASE q # r
    BY <1>3, <2>2 DEF Placed, Alone
  <2>3. QED BY <2>1, <2>2
<1>11. Refused'
  <2> SUFFICES ASSUME NEW j \in locked' PROVE ttl'[j] > 0 /\ count'[j] = Max + 1
    BY DEF Refused
  <2>1. CASE j \in locked
    BY <2>1 DEF Refused, TypeOK
  <2>2. CASE j = i /\ j \notin cut' /\ value[r] > Max /\ era[r] = "open"
    <3>1. value[r] <= count[i]
      BY <2>2 DEF Placed
    <3>2. count[i] = Max + 1
      BY <1>2, <2>2, <3>1, Numbers
    <3>3. QED BY <2>2, <3>2
  <2>3. QED BY <1>5, <2>1, <2>2
<1>12. QED BY <1>7, <1>8, <1>9, <1>10, <1>11

LEMMA TtlKeeps == ASSUME IInv, NEW r \in Requests, Ttl(r) PROVE IInv'
<1>1. /\ pc[r] = "ttl" /\ UNCHANGED <<nx, count, ttl, asked, resent, cut>>
      /\ TypeOK /\ Placed /\ Quota /\ Charge /\ Refused
  BY DEF Ttl, redis, IInv
<1>2. CASE /\ pc' = [pc EXCEPT ![r] = "fallback"]
           /\ UNCHANGED <<layer, value, era, passed, locked>>
  <2>1. TypeOK'
    BY <1>1, <1>2 DEF TypeOK
  <2>2. Placed'
    BY <1>1, <1>2 DEF Placed, TypeOK
  <2>3. \A i \in Ips : InFlight(i)' \subseteq InFlight(i) /\ Owing(i)' \subseteq Owing(i)
    BY <1>1, <1>2 DEF InFlight, Owing, TypeOK, Counted
  <2>4. Quota' /\ Charge'
    BY <1>1, <1>2, <2>3, SetsShrink
  <2>5. Refused'
    BY <1>1, <1>2, RefusedKept
  <2>6. QED BY <2>1, <2>2, <2>4, <2>5 DEF IInv
<1>3. CASE ~(count[Ip[r]] > 0 /\ ttl[Ip[r]] = 0) /\ Decide(r)
  <2>1. era[r] = "open" => ttl'[Ip[r]] > 0
    <3>1. Ip[r] \in Ips
      BY RateLimiterAssumption
    <3>2. ttl[Ip[r]] \in 0 .. Window /\ (era[r] = "open" => count[Ip[r]] > 0)
      BY <1>1, <3>1 DEF TypeOK, Placed
    <3>3. QED BY <1>1, <1>3, <3>2, Numbers
  <2>2. ttl' \in [Ips -> 0 .. Window] /\ cut' \subseteq Ips
    BY <1>1 DEF TypeOK
  <2>3. QED BY <1>1, <1>3, <2>1, <2>2, DecideKeeps DEF Counted
<1>4. QED BY <1>2, <1>3 DEF Ttl, Goto

\* A full TTL.
LEMMA RearmedExpires ==
  ASSUME TypeOK, NEW j \in Ips
  PROVE  /\ Rearmed(j) \in [Ips -> 0 .. Window]
         /\ \A i \in Ips : ttl[i] > 0 => Rearmed(j)[i] > 0
         /\ count[j] > 0 => Rearmed(j)[j] > 0
  BY Numbers DEF TypeOK, Rearmed

LEMMA FallbackKeeps == ASSUME IInv, NEW r \in Requests, Fallback(r) PROVE IInv'
<1>1. /\ pc[r] = "fallback" /\ ttl' = Rearmed(Ip[r]) /\ Decide(r)
      /\ UNCHANGED <<nx, count, asked, resent, cut>>
  BY DEF Fallback
<1>2. Ip[r] \in Ips /\ TypeOK /\ cut' \subseteq Ips
  BY <1>1, RateLimiterAssumption DEF IInv, TypeOK
<1>3. era[r] = "open" => count[Ip[r]] > 0
  BY DEF IInv, Placed
<1>4. QED BY <1>1, <1>2, <1>3, RearmedExpires, DecideKeeps DEF Counted

LEMMA CutOffKeeps == ASSUME IInv, NEW r \in Requests, CutOff(r) PROVE IInv'
<1>1. /\ pc[r] \in Counted /\ Decide(r)
      /\ UNCHANGED <<nx, count, ttl, asked, resent>>
      /\ cut' = IF era[r] = "open" THEN cut \cup {Ip[r]} ELSE cut
  BY DEF CutOff, redis, Counted
<1>2. Ip[r] \in Ips /\ ttl' \in [Ips -> 0 .. Window] /\ cut' \subseteq Ips
  BY <1>1, RateLimiterAssumption DEF IInv, TypeOK
<1>3. QED BY <1>1, <1>2, DecideKeeps

LEMMA FailOpenKeeps == ASSUME IInv, NEW r \in Requests, FailOpen(r) PROVE IInv'
<1> DEFINE i == Ip[r]
<1>1. /\ pc[r] # "idle" /\ Admit(r) /\ UNCHANGED <<nx, count, ghosts>>
      /\ ttl' = ttl \/ ttl' = Rearmed(i)
      /\ TypeOK /\ Placed /\ Quota /\ Charge /\ Refused /\ i \in Ips
  BY RateLimiterAssumption DEF FailOpen, IInv
<1>2. ttl' \in [Ips -> 0 .. Window] /\ \A j \in Ips : ttl[j] > 0 => ttl'[j] > 0
  <2>1. ttl \in [Ips -> 0 .. Window]
    BY <1>1 DEF TypeOK
  <2>2. QED BY <1>1, <2>1, RearmedExpires
<1>3. /\ pc' \in [Requests -> {"idle", "incr", "expire", "ttl", "fallback"}]
      /\ layer' \in [Requests -> {1, 2}]
      /\ value' \in [Requests -> 0 .. Max + 1]
      /\ era' \in [Requests -> {"none", "open", "past"}]
      /\ Alone(r) /\ value'[r] = 0
      /\ \/ pc'[r] = "idle" /\ era'[r] = "none"
         \/ pc'[r] = "incr" /\ layer[r] = 1 /\ layer'[r] = 2 /\ era'[r] = era[r]
  BY <1>1, AdmitEffect DEF Alone
<1>4. TypeOK'
  BY <1>1, <1>2, <1>3 DEF TypeOK, ghosts
<1>5. Placed'
  <2> SUFFICES ASSUME NEW q \in Requests
               PROVE  /\ pc'[q] = "idle" => era'[q] = "none"
                      /\ era'[q] = "open" =>
                           /\ count[Ip[q]] > 0 /\ value'[q] <= count[Ip[q]]
                           /\ pc'[q] = "incr" => layer'[q] = 2 \/ Ip[q] \in resent
    BY <1>1 DEF Placed, ghosts
  <2>1. CASE q = r
    <3>1. (era[r] = "open" => count[i] > 0) /\ count[i] \in 0 .. Max + 1
      BY <1>1 DEF Placed, TypeOK
    <3>2. QED BY <1>3, <2>1, <3>1, Numbers
  <2>2. CASE q # r
    BY <1>1, <1>3, <2>2 DEF Placed, Alone
  <2>3. QED BY <2>1, <2>2
<1>6. ASSUME NEW j \in Ips
      PROVE  InFlight(j)' \subseteq InFlight(j) /\ (j \notin resent => Owing(j)' \subseteq Owing(j))
  <2>1. CASE j # i
    BY <1>3, <2>1, OthersKept
  <2>2. CASE j = i
    <3>1. r \notin InFlight(i)'
      BY <1>3 DEF InFlight, Counted
    <3>2. r \in Owing(i)' /\ i \notin resent => r \in Owing(i)
      BY <1>1, <1>3 DEF Owing, Counted, Placed, TypeOK
    <3>3. QED BY <1>3, <2>2, <3>1, <3>2, OneMoves
  <2>3. QED BY <2>1, <2>2
<1>7. Quota' /\ Charge'
  BY <1>1, <1>6, SetsShrink DEF ghosts
<1>8. Refused'
  BY <1>1, <1>2, RefusedKept DEF ghosts
<1>9. QED BY <1>4, <1>5, <1>7, <1>8 DEF IInv

LEMMA ResendKeeps == ASSUME IInv, NEW r \in Requests, Resend(r) PROVE IInv'
<1>1. /\ pc[r] \in {"expire", "ttl"} /\ pc' = [pc EXCEPT ![r] = "incr"]
      /\ resent' = IF era[r] = "open" THEN resent \cup {Ip[r]} ELSE resent
      /\ UNCHANGED <<nx, count, ttl, layer, value, era, asked, passed, cut, locked>>
      /\ TypeOK /\ Placed /\ Quota /\ Charge /\ Refused /\ Ip[r] \in Ips
  BY RateLimiterAssumption DEF Resend, Goto, redis, IInv
<1>2. TypeOK'
  BY <1>1 DEF TypeOK
<1>3. Placed'
  BY <1>1 DEF Placed, TypeOK
<1>4. \A i \in Ips : InFlight(i)' \subseteq InFlight(i)
  BY <1>1 DEF InFlight, TypeOK, Counted
<1>5. \A i \in Ips \ resent' : Owing(i)' \subseteq Owing(i)
  BY <1>1 DEF Owing, TypeOK, Counted
<1>6. Quota' /\ Charge'
  BY <1>1, <1>4, <1>5, SetsShrink
<1>7. Refused'
  BY <1>1, RefusedKept
<1>8. QED BY <1>2, <1>3, <1>6, <1>7 DEF IInv

\* The end of a window starts everything of its clients anew.
LEMMA SecondKeeps == ASSUME IInv, Second PROVE IInv'
<1> DEFINE over == {i \in Ips : ttl[i] = 1}
<1>1. /\ count' = [i \in Ips |-> IF i \in over THEN 0 ELSE count[i]]
      /\ asked' = [i \in Ips |-> IF i \in over THEN 0 ELSE asked[i]]
      /\ passed' = [i \in Ips |-> IF i \in over THEN 0 ELSE passed[i]]
      /\ resent' = resent \ over /\ cut' = cut \ over /\ locked' = locked \ over
      /\ era' = [r \in Requests |->
           IF Ip[r] \in over /\ era[r] = "open" THEN "past" ELSE era[r]]
      /\ ttl' = [i \in Ips |-> IF ttl[i] > 0 THEN ttl[i] - 1 ELSE 0]
      /\ UNCHANGED <<nx, pc, layer, value>>
  BY DEF Second
<1>2. TypeOK /\ Placed /\ Quota /\ Charge /\ Refused
  BY DEF IInv
<1>3. TypeOK'
  <2>1. /\ count' \in [Ips -> 0 .. Max + 1] /\ asked' \in [Ips -> 0 .. Max + 1]
        /\ passed' \in [Ips -> 0 .. Max + 1]
    BY <1>1, <1>2, Numbers DEF TypeOK
  <2>2. ttl' \in [Ips -> 0 .. Window]
    BY <1>1, <1>2, Numbers DEF TypeOK
  <2>3. era' \in [Requests -> {"none", "open", "past"}]
    BY <1>1, <1>2 DEF TypeOK
  <2>4. QED BY <1>1, <1>2, <2>1, <2>2, <2>3 DEF TypeOK
<1>4. Placed'
  BY <1>1, <1>2, RateLimiterAssumption DEF Placed, TypeOK
<1>5. ASSUME NEW i \in Ips
      PROVE  /\ i \in over => InFlight(i)' = {} /\ Owing(i)' = {}
             /\ i \notin over => InFlight(i)' = InFlight(i) /\ Owing(i)' = Owing(i)
  BY <1>1 DEF InFlight, Owing
<1>6. Cardinality({}) = 0
  BY FS_EmptySet
<1>7. Quota'
  <2> SUFFICES ASSUME NEW i \in Ips
               PROVE  /\ passed'[i] + Cardinality(InFlight(i)') <= Max
                      /\ passed'[i] + Cardinality(InFlight(i)') <= count'[i]
    BY DEF Quota
  <2>1. CASE i \in over
    <3>1. passed'[i] = 0 /\ count'[i] = 0 /\ Cardinality(InFlight(i)') = 0
      BY <1>1, <1>5, <1>6, <2>1
    <3>2. QED BY <3>1, Numbers
  <2>2. CASE i \notin over
    <3>1. passed'[i] = passed[i] /\ count'[i] = count[i] /\ InFlight(i)' \subseteq InFlight(i)
      BY <1>1, <1>5, <2>2
    <3>2. QED BY <1>2, <3>1, QuotaKept
  <2>3. QED BY <2>1, <2>2
<1>8. Charge'
  <2> SUFFICES ASSUME NEW i \in Ips \ resent'
               PROVE  asked'[i] = Max + 1 \/ count'[i] + Cardinality(Owing(i)') <= 2 * asked'[i]
    BY DEF Charge
  <2>1. CASE i \in over
    <3>1. asked'[i] = 0 /\ count'[i] = 0 /\ Cardinality(Owing(i)') = 0
      BY <1>1, <1>5, <1>6, <2>1
    <3>2. QED BY <3>1
  <2>2. CASE i \notin over
    <3>1. /\ i \in Ips \ resent /\ asked'[i] = asked[i] /\ count'[i] = count[i]
          /\ Owing(i)' \subseteq Owing(i)
      BY <1>1, <1>5, <2>2
    <3>2. QED BY <1>2, <3>1, ChargeKept
  <2>3. QED BY <2>1, <2>2
<1>9. Refused'
  BY <1>1, <1>2, Numbers DEF Refused, TypeOK
<1>10. QED BY <1>3, <1>4, <1>7, <1>8, <1>9 DEF IInv

LEMMA CrashKeeps == ASSUME IInv, Crash PROVE IInv'
<1>1. /\ pc' = [r \in Requests |-> "idle"] /\ layer' = [r \in Requests |-> 1]
      /\ value' = [r \in Requests |-> 0] /\ era' = [r \in Requests |-> "none"]
      /\ UNCHANGED <<nx, count, ttl, asked, passed, resent, cut, locked>>
      /\ TypeOK /\ Placed /\ Quota /\ Charge /\ Refused
  BY DEF Crash, redis, ghosts, IInv
<1>2. TypeOK'
  BY <1>1, Numbers DEF TypeOK
<1>3. Placed'
  BY <1>1 DEF Placed
<1>4. \A i \in Ips : InFlight(i)' \subseteq InFlight(i) /\ Owing(i)' \subseteq Owing(i)
  BY <1>1 DEF InFlight, Owing
<1>5. Quota' /\ Charge'
  BY <1>1, <1>4, SetsShrink
<1>6. Refused'
  BY <1>1, RefusedKept
<1>7. QED BY <1>2, <1>3, <1>5, <1>6 DEF IInv

LEMMA StepIInv == IInv /\ [Next]_vars => IInv'
<1> SUFFICES ASSUME IInv, [Next]_vars PROVE IInv'
  OBVIOUS
<1>1. ASSUME NEW r \in Requests, Arrive(r) PROVE IInv'
  BY <1>1, ArriveKeeps
<1>2. ASSUME NEW r \in Requests, Step(r) PROVE IInv'
  BY <1>2, IncrKeeps, ExpireKeeps, TtlKeeps, FallbackKeeps, FailOpenKeeps, ResendKeeps,
     CutOffKeeps DEF Step
<1>3. CASE Second
  BY <1>3, SecondKeeps
<1>4. CASE Crash
  BY <1>4, CrashKeeps
<1>5. CASE UNCHANGED vars
  <2>1. \A i : InFlight(i)' = InFlight(i) /\ Owing(i)' = Owing(i)
    BY <1>5 DEF vars, request, InFlight, Owing
  <2>2. QED
    BY <1>5, <2>1 DEF vars, redis, request, ghosts, IInv, TypeOK, Placed, Quota, Charge, Refused
<1>6. QED BY <1>1, <1>2, <1>3, <1>4, <1>5 DEF Next

------------------------------------------------------------------------------
(* Theorems *)

\* Every state satisfies the invariant.
THEOREM Invariance == Spec => []IInv
<1>1. QED BY InitIInv, StepIInv, PTL DEF Spec

\* The types.
THEOREM TypeCorrect == Spec => []TypeOK
<1>1. IInv => TypeOK
  BY DEF IInv
<1>2. QED BY Invariance, <1>1, PTL

\* No interleaving of a client's requests lets more than RATE_LIMIT_MAX of its passages
\* through by their count.
THEOREM WithinQuota == Spec => []QuotaHeld
<1>1. IInv => QuotaHeld
  <2> SUFFICES ASSUME IInv, NEW i \in Ips PROVE passed[i] <= Max
    BY DEF QuotaHeld
  <2>1. Cardinality(InFlight(i)) \in Nat
    BY Subsets, Shrinks
  <2>2. passed[i] + Cardinality(InFlight(i)) <= Max /\ passed[i] \in Nat
    BY Numbers DEF IInv, Quota, TypeOK
  <2>3. QED BY <2>1, <2>2, Numbers
<1>2. QED BY Invariance, <1>1, PTL

\* A 429 is the answer of a window that ends, with EXPIRE NX or without it.
THEOREM EveryRefusalEnds == Spec => []RefusalHasAnEnd
<1>1. IInv => RefusalHasAnEnd
  BY DEF IInv, Refused, RefusalHasAnEnd
<1>2. QED BY Invariance, <1>1, PTL

\* Mounted twice, the limiter refuses nobody before half of RATE_LIMIT_MAX requests.
THEOREM HalfTheQuota == Spec => []RefusedOverHalfTheQuota
<1>1. IInv => RefusedOverHalfTheQuota
  <2> SUFFICES ASSUME IInv, NEW i \in locked \ resent PROVE 2 * asked[i] > Max
    BY DEF RefusedOverHalfTheQuota
  <2>1. i \in Ips /\ count[i] = Max + 1 /\ asked[i] \in Nat
    BY Numbers DEF IInv, TypeOK, Refused
  <2>2. Cardinality(Owing(i)) \in Nat
    BY Subsets, Shrinks
  <2>3. asked[i] = Max + 1 \/ count[i] + Cardinality(Owing(i)) <= 2 * asked[i]
    BY <2>1 DEF IInv, Charge
  <2>4. QED BY <2>1, <2>2, <2>3, Numbers
<1>2. QED BY Invariance, <1>1, PTL

------------------------------------------------------------------------------
(* The limiter decides as FixedWindow does *)

\* A command after which nobody has more or less to be told.
LEMMA DecisionsStay ==
  ASSUME UNCHANGED <<value, era>>,
         \A q \in Requests : pc'[q] \in {"idle", "incr"} <=> pc[q] \in {"idle", "incr"}
  PROVE  UNCHANGED decided
  BY DEF decided, Over

LEMMA DecisionTold ==
  ASSUME NEW r \in Requests, Alone(r), pc'[r] \in {"idle", "incr"}
  PROVE  decided' = [decided EXCEPT ![r] = "none"]
  BY DEF decided, Over, Alone

\* The one INCR counts the passage and decides it.
LEMMA IncrCounts == ASSUME TypeOK, NEW r \in Requests, Incr(r) PROVE Limit!Count(r)
<1> DEFINE i == Ip[r]
<1>1. i \in Ips /\ count[i] \in 0 .. Max + 1 /\ Max \in Nat
  BY RateLimiterAssumption DEF TypeOK
<1>2. /\ pc[r] = "incr" /\ pc' = [pc EXCEPT ![r] = "expire"]
      /\ count' = [count EXCEPT ![i] = Cap(count[i] + 1)]
      /\ value' = [value EXCEPT ![r] = count'[i]]
      /\ era' = [era EXCEPT ![r] = "open"]
      /\ passed' = passed
  BY DEF Incr, Goto
<1> HIDE DEF i
<1>3. Cap(count[i] + 1) = IF count[i] > Max THEN count[i] ELSE count[i] + 1
  BY <1>1 DEF Cap
<1>4. count' = [count EXCEPT ![i] = IF count[i] > Max THEN @ ELSE @ + 1]
  BY <1>2, <1>3
<1>5. value'[r] = Cap(count[i] + 1)
  BY <1>1, <1>2 DEF TypeOK
<1>6. Cap(count[i] + 1) > Max <=> ~ (count[i] < Max)
  BY <1>1, <1>3
<1>7. decided' = [decided EXCEPT ![r] = IF count[i] < Max THEN "admit" ELSE "refuse"]
  <2>1. pc'[r] = "expire" /\ era'[r] = "open"
    BY <1>2 DEF TypeOK
  <2>2. \A q \in Requests \ {r} : pc'[q] = pc[q] /\ value'[q] = value[q] /\ era'[q] = era[q]
    BY <1>2 DEF TypeOK
  <2>3. Over(r)' <=> ~ (count[i] < Max)
    BY <1>5, <1>6 DEF Over
  <2>4. QED BY <2>1, <2>2, <2>3 DEF decided, Over
<1>8. decided[r] = "none"
  BY <1>2 DEF decided
<1>9. QED BY <1>2, <1>4, <1>7, <1>8 DEF Limit!Count, i

\* Whatever way the pipeline has ended, its client is told what the INCR decided.  That the
\* quota has room for one more that is let through is in Quota.
LEMMA DecideTells ==
  ASSUME IInv, NEW r \in Requests, pc[r] \in Counted, Decide(r), UNCHANGED count
  PROVE  Limit!LetThrough(r) \/ Limit!TurnAway(r)
<1>1. TypeOK /\ Quota
  BY DEF IInv
<1>2. Leave(r) => Alone(r) /\ pc'[r] = "idle"
  BY <1>1 DEF Leave, Goto, Alone, TypeOK
<1>3. Admit(r) => Alone(r) /\ pc'[r] \in {"idle", "incr"}
  BY <1>1, AdmitEffect DEF Counted, Alone
<1>4. Leave(r) \/ Admit(r)
  BY DEF Decide
<1>5. Limit!Tell(r)
  BY <1>2, <1>3, <1>4, DecisionTold DEF Limit!Tell
<1>6. decided[r] = IF era[r] # "open" THEN "late" ELSE IF Over(r) THEN "refuse" ELSE "admit"
  BY DEF decided, Counted
<1>7. CASE Over(r) \/ era[r] # "open"
  <2>1. passed' = passed
    BY <1>7 DEF Decide
  <2>2. QED BY <1>5, <1>6, <1>7, <2>1 DEF Limit!TurnAway
<1>8. CASE ~Over(r) /\ era[r] = "open"
  <2> DEFINE i == Ip[r]
             n == Cardinality(InFlight(i))
  <2>1. passed' = [passed EXCEPT ![i] = Cap(@ + 1)]
    BY <1>8 DEF Decide
  <2>2. i \in Ips /\ passed[i] \in 0 .. Max + 1 /\ Max \in Nat
    BY <1>1, RateLimiterAssumption DEF TypeOK
  <2>3. passed[i] + n <= Max
    BY <1>1, <2>2 DEF Quota
  <2>4. r \in InFlight(i)
    <3>1. value[r] \in 0 .. Max + 1
      BY <1>1 DEF TypeOK
    <3>2. value[r] <= Max
      BY <1>8, <2>2, <3>1 DEF Over
    <3>3. QED BY <1>8, <3>2 DEF InFlight
  <2>5. n \in Nat /\ n >= 1
    <3>1. InFlight(i) \in SUBSET Requests
      BY DEF InFlight
    <3>2. Cardinality({}) + 1 <= n /\ n \in Nat
      BY <2>4, <3>1, Loses
    <3>3. QED BY <3>2, FS_EmptySet
  <2> HIDE DEF n, i
  <2>6. Cap(passed[i] + 1) = passed[i] + 1
    BY <2>2, <2>3, <2>5 DEF Cap
  <2>7. passed' = [passed EXCEPT ![i] = @ + 1]
    BY <2>1, <2>6
  <2>8. QED BY <1>5, <1>6, <1>8, <2>7 DEF Limit!LetThrough, i
<1>9. QED BY <1>7, <1>8

\* A passage that Redis fails is not decided, or nobody is told.
LEMMA FailureDrops ==
  ASSUME IInv, NEW r \in Requests, FailOpen(r) \/ Resend(r) PROVE [Limit!Next]_(Limit!windowVars)
<1>1. TypeOK
  BY DEF IInv
<1>2. /\ RedisFails /\ pc[r] # "idle" /\ pc'[r] \in {"idle", "incr"}
      /\ Alone(r) /\ UNCHANGED <<count, passed>>
  <2>1. CASE FailOpen(r)
    BY <1>1, <2>1, AdmitEffect DEF FailOpen, ghosts, Alone
  <2>2. CASE Resend(r)
    BY <1>1, <2>2 DEF Resend, Goto, redis, Alone, TypeOK
  <2>3. QED BY <2>1, <2>2
<1>3. Limit!Tell(r) /\ passed' = passed
  BY <1>2, DecisionTold DEF Limit!Tell
<1>4. CASE decided[r] = "none"
  <2>1. decided' = decided
    BY <1>3, <1>4 DEF Limit!Tell, decided
  <2>2. QED BY <1>2, <2>1 DEF Limit!windowVars
<1>5. CASE decided[r] # "none"
  BY <1>2, <1>3, <1>5 DEF Limit!Drop, Limit!Next
<1>6. QED BY <1>4, <1>5

LEMMA SecondEnds == ASSUME TypeOK, Second PROVE Limit!Next
<1> DEFINE over == {i \in Ips : ttl[i] = 1}
<1>1. /\ count' = [i \in Ips |-> IF i \in over THEN 0 ELSE count[i]]
      /\ passed' = [i \in Ips |-> IF i \in over THEN 0 ELSE passed[i]]
      /\ era' = [q \in Requests |-> IF Ip[q] \in over /\ era[q] = "open" THEN "past" ELSE era[q]]
      /\ UNCHANGED <<pc, value>>
  BY DEF Second
<1>2. over \in SUBSET Ips
  OBVIOUS
<1> HIDE DEF over
<1>3. decided' = [q \in Requests |->
        IF Ip[q] \in over /\ decided[q] # "none" THEN "late" ELSE decided[q]]
  BY <1>1 DEF decided, Over
<1>4. Limit!WindowsEnd(over)
  BY <1>1, <1>3 DEF Limit!WindowsEnd
<1>5. QED BY <1>2, <1>4 DEF Limit!Next

LEMMA StepAtomic == ASSUME IInv, [Next]_vars PROVE [Limit!Next]_(Limit!windowVars)
<1> USE DEF Limit!windowVars
<1>1. TypeOK
  BY DEF IInv
<1>2. ASSUME NEW r \in Requests, UNCHANGED <<count, passed, value, era>>,
             pc' = [pc EXCEPT ![r] = pc'[r]],
             pc[r] \in {"idle", "incr"} <=> pc'[r] \in {"idle", "incr"}
      PROVE  UNCHANGED Limit!windowVars
  <2>1. \A q \in Requests : pc'[q] \in {"idle", "incr"} <=> pc[q] \in {"idle", "incr"}
    BY <1>1, <1>2 DEF TypeOK
  <2>2. QED BY <1>2, <2>1, DecisionsStay
<1>3. ASSUME NEW r \in Requests, Arrive(r) PROVE UNCHANGED Limit!windowVars
  BY <1>1, <1>2, <1>3 DEF Arrive, Goto, redis, ghosts, TypeOK
<1>4. ASSUME NEW r \in Requests, Expire(r) PROVE UNCHANGED Limit!windowVars
  BY <1>1, <1>2, <1>4 DEF Expire, Goto, ghosts, TypeOK
<1>5. ASSUME NEW r \in Requests, Incr(r) PROVE Limit!Next
  BY <1>1, <1>5, IncrCounts DEF Limit!Next
<1>6. ASSUME NEW r \in Requests, pc[r] \in Counted, Decide(r), UNCHANGED count
      PROVE  Limit!Next
  BY <1>6, DecideTells DEF Limit!Next
<1>7. ASSUME NEW r \in Requests, Ttl(r) PROVE [Limit!Next]_(Limit!windowVars)
  <2>1. pc[r] = "ttl" /\ UNCHANGED count
    BY <1>7 DEF Ttl, redis
  <2>2. CASE Goto(r, "fallback") /\ UNCHANGED <<value, era, passed>>
    BY <1>1, <1>2, <2>1, <2>2 DEF Goto, TypeOK
  <2>3. CASE Decide(r)
    BY <1>6, <2>1, <2>3 DEF Counted
  <2>4. QED BY <1>7, <2>2, <2>3 DEF Ttl
<1>8. ASSUME NEW r \in Requests, Fallback(r) \/ CutOff(r) PROVE Limit!Next
  BY <1>6, <1>8 DEF Fallback, CutOff, redis, Counted
<1>9. CASE Crash
  <2>1. decided' = [r \in Requests |-> "none"] /\ UNCHANGED <<count, passed>>
    BY <1>9 DEF Crash, decided, redis, ghosts
  <2>2. QED BY <2>1 DEF Limit!Die, Limit!Next
<1>10. CASE UNCHANGED vars
  BY <1>10, DecisionsStay DEF vars, redis, request, ghosts
<1>11. QED
  BY <1>1, <1>3, <1>4, <1>5, <1>7, <1>8, <1>9, <1>10, FailureDrops, SecondEnds DEF Next, Step

\* RateLimiter implements FixedWindow: the interleaved commands, the window that a late
\* EXPIRE opens, the fallback and the failures show a client nothing that an atomic counter
\* would not.
THEOREM Implementation == Spec => AdmitsAtomically
<1>1. Init => Limit!Init
  BY DEF Init, Limit!Init, decided
<1>2. QED BY <1>1, StepAtomic, Invariance, PTL DEF Spec, AdmitsAtomically, Limit!Spec

================================================================================
