----------------------------- MODULE Base62Proofs ------------------------------
(***************************************************************************)
(* What the alias generator computes, for every identifier and every base. *)
(* tlapm cannot use the library's induction theorems (they take an         *)
(* operator), so each induction is an argument about a least               *)
(* counterexample, and each recursive function is built from its finite    *)
(* parts.                                                                  *)
(***************************************************************************)
EXTENDS MCBase62, FiniteSetTheorems, WellFoundedInduction, TLAPS

------------------------------------------------------------------------------
(* Arithmetic *)

\* Induction over the naturals, as the least counterexample: the intervals 0 .. n of
\* the set's members are finite sets, and strict inclusion of those is well-founded.
LEMMA LeastElement ==
  ASSUME NEW T, T \subseteq Nat, T # {} PROVE \E n \in T : \A m \in T : n <= m
<1> DEFINE Below == {0 .. n : n \in T}
<1>1. IsWellFoundedOn(StrictSubsetOrdering(Nat), FiniteSubsetsOf(Nat))
  BY FS_StrictSubsetOrderingWellFounded
<1>2. Below \subseteq FiniteSubsetsOf(Nat) /\ Below # {}
  <2>1. ASSUME NEW n \in T PROVE 0 .. n \subseteq Nat /\ IsFiniteSet(0 .. n)
    BY FS_Interval
  <2>2. QED BY <2>1 DEF FiniteSubsetsOf
<1> HIDE DEF Below
<1>3. PICK b \in Below : \A c \in Below : ~ (<<c, b>> \in StrictSubsetOrdering(Nat))
  BY <1>1, <1>2, WFMin
<1>4. PICK n \in T : b = 0 .. n
  BY <1>3 DEF Below
<1>5. ASSUME NEW m \in T, m < n PROVE FALSE
  <2>1. /\ 0 .. m \subseteq 0 .. n /\ 0 .. n \subseteq Nat
        /\ n \in 0 .. n /\ n \notin 0 .. m
    BY <1>5
  <2>2. <<0 .. m, 0 .. n>> \in StrictSubsetOrdering(Nat)
    BY <2>1 DEF StrictSubsetOrdering
  <2>3. 0 .. m \in Below
    BY DEF Below
  <2>4. QED BY <1>3, <1>4, <2>2, <2>3
<1>6. QED BY <1>5

LEMMA Division ==
  ASSUME NEW n \in Nat
  PROVE  /\ n \div Base \in Nat /\ n % Base \in 0 .. Base - 1
         /\ n = Base * (n \div Base) + (n % Base)
         /\ n # 0 => n \div Base < n
<1>1. n \div Base \in Nat /\ n % Base \in 0 .. Base - 1
  BY BaseAssumption
<1>2. n = Base * (n \div Base) + (n % Base)
  BY BaseAssumption
<1>3. n # 0 => n \div Base < n
  BY BaseAssumption
<1>4. QED BY <1>1, <1>2, <1>3

LEMMA DivisionUnique ==
  ASSUME NEW n \in Nat, NEW q \in Nat, NEW r \in 0 .. Base - 1, n = Base * q + r
  PROVE  q = n \div Base /\ r = n % Base
  BY BaseAssumption

\* The digit that is added, or the carry.
LEMMA Successor ==
  ASSUME NEW n \in Nat
  PROVE  \/ (n + 1) \div Base = n \div Base /\ (n + 1) % Base = (n % Base) + 1
         \/ (n + 1) \div Base = (n \div Base) + 1 /\ (n + 1) % Base = 0
<1> DEFINE q == n \div Base
           r == n % Base
<1>1. n = Base * q + r /\ q \in Nat /\ r \in 0 .. Base - 1
  BY Division
<1> HIDE DEF q, r
<1>2. n + 1 \in Nat
  OBVIOUS
<1>3. CASE r # Base - 1
  <2>1. r + 1 \in 0 .. Base - 1 /\ n + 1 = Base * q + (r + 1)
    BY <1>1, <1>3, BaseAssumption
  <2>2. q = (n + 1) \div Base /\ r + 1 = (n + 1) % Base
    BY <1>1, <1>2, <2>1, DivisionUnique
  <2>3. QED BY <2>2 DEF q, r
<1>4. CASE r = Base - 1
  <2>1. 0 \in 0 .. Base - 1 /\ q + 1 \in Nat /\ n + 1 = Base * (q + 1) + 0
    BY <1>1, <1>4, BaseAssumption
  <2>2. q + 1 = (n + 1) \div Base /\ 0 = (n + 1) % Base
    BY <1>2, <2>1, DivisionUnique
  <2>3. QED BY <2>2 DEF q, r
<1>5. QED BY <1>3, <1>4

LEMMA DivisionMonotone ==
  ASSUME NEW n \in Nat, NEW x \in Nat PROVE n >= Base * x <=> n \div Base >= x
  BY BaseAssumption

------------------------------------------------------------------------------
(* Digits is the function its equation says *)

\* g is Digits up to n.
Encodes(g, n) ==
  g = [i \in 0 .. n |-> IF i = 0 THEN <<>> ELSE Append(g[i \div Base], i % Base)]

LEMMA EncodesExists == ASSUME NEW n \in Nat PROVE \E g : Encodes(g, n)
<1> DEFINE T == {m \in Nat : ~ \E g : Encodes(g, m)}
<1> SUFFICES ASSUME T # {} PROVE FALSE
  OBVIOUS
<1>1. PICK m \in T : \A k \in T : m <= k
  <2>1. T \subseteq Nat
    OBVIOUS
  <2> HIDE DEF T
  <2>2. QED BY <2>1, LeastElement
<1>2. CASE m = 0
  <2>1. Encodes([i \in 0 .. 0 |-> <<>>], 0)
    BY DEF Encodes
  <2>2. QED BY <1>1, <1>2, <2>1
<1>3. CASE m # 0
  <2>1. m \in Nat /\ m - 1 \in Nat /\ m - 1 \notin T
    BY <1>1, <1>3
  <2>2. PICK g : Encodes(g, m - 1)
    BY <2>1
  <2> DEFINE digits == Append(g[m \div Base], m % Base)
             h == [i \in 0 .. m |-> IF i = m THEN digits ELSE g[i]]
  <2>3. ASSUME NEW i \in 0 .. m
        PROVE  h[i] = IF i = 0 THEN <<>> ELSE Append(h[i \div Base], i % Base)
    <3>1. CASE i = 0
      <4>1. 0 \in 0 .. m - 1 /\ 0 \in 0 .. m
        BY <2>1
      <4>2. g[0] = <<>>
        BY <2>2, <4>1 DEF Encodes
      <4> HIDE DEF digits
      <4>3. h[0] = <<>>
        BY <1>3, <4>1, <4>2
      <4>4. QED BY <3>1, <4>3
    <3>2. CASE i # 0
      <4> DEFINE q == i \div Base
      <4>1. i \in Nat /\ q \in Nat /\ q < i
        BY <3>2, Division
      <4> HIDE DEF q
      <4>2. q \in 0 .. m /\ q # m
        BY <2>1, <4>1
      <4>3. h[q] = g[q]
        BY <4>2
      <4>4. CASE i = m
        BY <3>2, <4>3, <4>4 DEF q
      <4>5. CASE i # m
        <5>1. i \in 0 .. m - 1
          BY <2>1, <4>5
        <5>2. g[i] = Append(g[i \div Base], i % Base)
          BY <2>2, <3>2, <5>1 DEF Encodes
        <5>3. QED BY <3>2, <4>3, <4>5, <5>2 DEF q
      <4>6. QED BY <4>4, <4>5
    <3>3. QED BY <3>1, <3>2
  <2>4. Encodes(h, m)
    <3> HIDE DEF digits
    <3>1. QED BY <2>3 DEF Encodes
  <2>5. QED BY <1>1, <2>4
<1>4. QED BY <1>2, <1>3

LEMMA EncodesAgree ==
  ASSUME NEW n \in Nat, NEW m \in Nat, NEW g, Encodes(g, n), NEW h, Encodes(h, m),
         NEW i \in 0 .. n, i <= m
  PROVE  g[i] = h[i]
<1> DEFINE T == {k \in 0 .. n : k <= m /\ g[k] # h[k]}
<1> SUFFICES ASSUME T # {} PROVE FALSE
  OBVIOUS
<1>1. PICK k \in T : \A j \in T : k <= j
  <2>1. T \subseteq Nat
    OBVIOUS
  <2> HIDE DEF T
  <2>2. QED BY <2>1, LeastElement
<1>2. k \in 0 .. n /\ k \in 0 .. m /\ g[k] # h[k]
  BY <1>1
<1>3. k # 0
  BY <1>2 DEF Encodes
<1> DEFINE q == k \div Base
<1>4. k \in Nat /\ q \in Nat /\ q < k
  BY <1>2, <1>3, Division
<1>5. g[k] = Append(g[q], k % Base) /\ h[k] = Append(h[q], k % Base)
  BY <1>2, <1>3 DEF Encodes
<1> HIDE DEF q
<1>6. q \in 0 .. n /\ q <= m /\ q \notin T
  <2>1. q \in 0 .. n /\ q <= m
    BY <1>2, <1>4
  <2>2. ASSUME q \in T PROVE FALSE
    <3>1. k <= q
      BY <1>1, <2>2
    <3>2. QED BY <1>4, <3>1
  <2>3. QED BY <2>1, <2>2
<1>7. QED BY <1>2, <1>5, <1>6

\* The loop's equation, for every identifier.
LEMMA DigitsEquation ==
  ASSUME NEW n \in Nat
  PROVE  Digits[n] = IF n = 0 THEN <<>> ELSE Append(Digits[n \div Base], n % Base)
<1> DEFINE Part(k) == CHOOSE g : Encodes(g, k)
           f == [k \in Nat |-> Part(k)[k]]
<1>1. ASSUME NEW k \in Nat PROVE Encodes(Part(k), k)
  BY <1>1, EncodesExists
<1> HIDE DEF Part
<1>2. ASSUME NEW k \in Nat
      PROVE  f[k] = IF k = 0 THEN <<>> ELSE Append(f[k \div Base], k % Base)
  <2>1. Encodes(Part(k), k) /\ k \in 0 .. k
    BY <1>1
  <2>2. CASE k = 0
    BY <2>1, <2>2 DEF Encodes
  <2>3. CASE k # 0
    <3> DEFINE q == k \div Base
    <3>1. q \in Nat /\ q < k
      BY <2>3, Division
    <3>2. Part(k)[k] = Append(Part(k)[q], k % Base)
      BY <2>1, <2>3 DEF Encodes
    <3> HIDE DEF q
    <3>3. Encodes(Part(q), q) /\ q \in 0 .. k /\ q <= q
      BY <1>1, <3>1
    <3>4. Part(k)[q] = Part(q)[q]
      BY <2>1, <3>1, <3>3, EncodesAgree
    <3>5. f[k] = Append(f[q], k % Base)
      BY <3>1, <3>2, <3>4
    <3>6. QED BY <2>3, <3>5 DEF q
  <2>4. QED BY <2>2, <2>3
<1> HIDE DEF f
<1>3. f = [k \in Nat |-> IF k = 0 THEN <<>> ELSE Append(f[k \div Base], k % Base)]
  BY <1>2 DEF f
<1>4. Digits = [k \in Nat |-> IF k = 0 THEN <<>> ELSE Append(Digits[k \div Base], k % Base)]
  BY <1>3 DEF Digits
<1>5. QED BY <1>4

LEMMA DigitsType == ASSUME NEW n \in Nat PROVE Digits[n] \in Seq(0 .. Base - 1)
<1> DEFINE T == {m \in Nat : Digits[m] \notin Seq(0 .. Base - 1)}
<1> SUFFICES ASSUME T # {} PROVE FALSE
  OBVIOUS
<1>1. PICK m \in T : \A k \in T : m <= k
  <2>1. T \subseteq Nat
    OBVIOUS
  <2> HIDE DEF T
  <2>2. QED BY <2>1, LeastElement
<1>2. m \in Nat /\ Digits[m] \notin Seq(0 .. Base - 1)
  BY <1>1
<1>3. m # 0
  <2>1. <<>> \in Seq(0 .. Base - 1)
    OBVIOUS
  <2>2. Digits[0] = <<>>
    BY DigitsEquation
  <2>3. QED BY <1>2, <2>1, <2>2
<1> DEFINE q == m \div Base
           r == m % Base
<1>4. q \in Nat /\ q < m /\ r \in 0 .. Base - 1
  BY <1>2, <1>3, Division
<1>5. Digits[m] = Append(Digits[q], r)
  BY <1>2, <1>3, DigitsEquation
<1> HIDE DEF q, r
<1>6. Digits[q] \in Seq(0 .. Base - 1)
  <2>1. ASSUME q \in T PROVE FALSE
    <3>1. m <= q
      BY <1>1, <2>1
    <3>2. QED BY <1>2, <1>4, <3>1
  <2>2. QED BY <1>4, <2>1
<1>7. QED BY <1>2, <1>4, <1>5, <1>6

LEMMA SeqSubset ==
  ASSUME NEW D, NEW E, D \subseteq E, NEW s \in Seq(D) PROVE s \in Seq(E)
  OBVIOUS

LEMMA DigitsNat == ASSUME NEW n \in Nat PROVE Digits[n] \in Seq(Nat)
<1>1. 0 .. Base - 1 \subseteq Nat
  BY BaseAssumption
<1>2. QED BY <1>1, DigitsType, SeqSubset

------------------------------------------------------------------------------
(* decodeAlias reads an alias from left to right *)

\* g is what decodeAlias has decoded of the first n characters.
Decodes(g, s, n) ==
  g = [i \in 0 .. n |-> IF i = 0 THEN 0 ELSE g[i - 1] * Base + s[i]]

LEMMA DecodesExists == ASSUME NEW s, NEW n \in Nat PROVE \E g : Decodes(g, s, n)
<1> DEFINE T == {m \in Nat : ~ \E g : Decodes(g, s, m)}
<1> SUFFICES ASSUME T # {} PROVE FALSE
  OBVIOUS
<1>1. PICK m \in T : \A k \in T : m <= k
  <2>1. T \subseteq Nat
    OBVIOUS
  <2> HIDE DEF T
  <2>2. QED BY <2>1, LeastElement
<1>2. CASE m = 0
  <2>1. Decodes([i \in 0 .. 0 |-> 0], s, 0)
    BY DEF Decodes
  <2>2. QED BY <1>1, <1>2, <2>1
<1>3. CASE m # 0
  <2>1. m \in Nat /\ m - 1 \in Nat /\ m - 1 \notin T
    BY <1>1, <1>3
  <2>2. PICK g : Decodes(g, s, m - 1)
    BY <2>1
  <2> DEFINE more == g[m - 1] * Base + s[m]
             h == [i \in 0 .. m |-> IF i = m THEN more ELSE g[i]]
  <2>3. ASSUME NEW i \in 0 .. m
        PROVE  h[i] = IF i = 0 THEN 0 ELSE h[i - 1] * Base + s[i]
    <3>1. CASE i = m
      <4>1. h[m - 1] = g[m - 1] /\ h[m] = more
        <5> HIDE DEF more
        <5>1. QED BY <2>1
      <4>2. QED BY <1>3, <3>1, <4>1
    <3>2. CASE i # m
      <4>1. i \in 0 .. m - 1
        BY <2>1, <3>2
      <4>2. g[i] = IF i = 0 THEN 0 ELSE g[i - 1] * Base + s[i]
        BY <2>2, <4>1 DEF Decodes
      <4> HIDE DEF more
      <4>3. h[i] = g[i] /\ (i # 0 => h[i - 1] = g[i - 1])
        BY <2>1, <4>1
      <4>4. QED BY <4>2, <4>3
    <3>3. QED BY <3>1, <3>2
  <2>4. Decodes(h, s, m)
    <3> HIDE DEF more
    <3>1. QED BY <2>3 DEF Decodes
  <2>5. QED BY <1>1, <2>4
<1>4. QED BY <1>2, <1>3

\* What is decoded of a common prefix is the same.
LEMMA DecodesAgree ==
  ASSUME NEW n \in Nat, NEW m \in Nat, NEW s, NEW t, NEW g, NEW h,
         Decodes(g, s, n), Decodes(h, t, m), NEW k \in 0 .. n, k <= m,
         \A i \in 1 .. k : s[i] = t[i]
  PROVE  g[k] = h[k]
<1> DEFINE T == {i \in 0 .. k : g[i] # h[i]}
<1> SUFFICES ASSUME T # {} PROVE FALSE
  OBVIOUS
<1>1. PICK i \in T : \A j \in T : i <= j
  <2>1. T \subseteq Nat
    OBVIOUS
  <2> HIDE DEF T
  <2>2. QED BY <2>1, LeastElement
<1>2. i \in 0 .. n /\ i \in 0 .. m /\ g[i] # h[i]
  BY <1>1
<1>3. i # 0
  BY <1>2 DEF Decodes
<1>4. i - 1 \in 0 .. k /\ s[i] = t[i]
  BY <1>1, <1>3
<1>5. g[i - 1] = h[i - 1]
  <2>1. i - 1 \notin T
    BY <1>1, <1>3
  <2>2. QED BY <1>4, <2>1
<1>6. g[i] = g[i - 1] * Base + s[i] /\ h[i] = h[i - 1] * Base + t[i]
  BY <1>2, <1>3 DEF Decodes
<1>7. QED BY <1>2, <1>4, <1>5, <1>6

LEMMA DecodeIs ==
  ASSUME NEW s, Len(s) \in Nat
  PROVE  \E g : Decodes(g, s, Len(s)) /\ decodeAlias(s) = g[Len(s)]
<1> DEFINE g == CHOOSE g : g = [i \in 0 .. Len(s) |->
                  IF i = 0 THEN 0 ELSE g[i - 1] * Base + s[i]]
<1>1. decodeAlias(s) = g[Len(s)]
  BY DEF decodeAlias
<1>2. Decodes(g, s, Len(s))
  BY DecodesExists DEF Decodes
<1>3. QED BY <1>1, <1>2

\* One more character shifts the number by a digit.
LEMMA DecodeAppend ==
  ASSUME NEW s \in Seq(Nat), NEW d \in Nat
  PROVE  decodeAlias(Append(s, d)) = decodeAlias(s) * Base + d
<1> DEFINE t == Append(s, d)
           n == Len(s)
<1>1. n \in Nat /\ Len(t) = n + 1 /\ t[n + 1] = d /\ \A i \in 1 .. n : s[i] = t[i]
  OBVIOUS
<1>2. PICK g : Decodes(g, s, n) /\ decodeAlias(s) = g[n]
  BY <1>1, DecodeIs
<1> HIDE DEF t
<1>3. PICK h : Decodes(h, t, n + 1) /\ decodeAlias(t) = h[n + 1]
  <2>1. Len(t) \in Nat
    BY <1>1
  <2>2. QED BY <1>1, <2>1, DecodeIs
<1> HIDE DEF n
<1>4. g[n] = h[n]
  <2>1. n + 1 \in Nat /\ n \in 0 .. n /\ n <= n + 1
    BY <1>1
  <2>2. QED BY <1>1, <1>2, <1>3, <2>1, DecodesAgree
<1>5. h[n + 1] = h[n] * Base + d
  <2>1. n + 1 \in 0 .. n + 1 /\ n + 1 # 0 /\ (n + 1) - 1 = n
    BY <1>1
  <2>2. h[n + 1] = h[(n + 1) - 1] * Base + t[n + 1]
    BY <1>3, <2>1 DEF Decodes
  <2>3. QED BY <1>1, <2>1, <2>2
<1>6. QED BY <1>2, <1>3, <1>4, <1>5 DEF t

LEMMA DecodeEmpty == decodeAlias(<<>>) = 0
<1>1. Len(<<>>) = 0 /\ 0 \in 0 .. 0
  OBVIOUS
<1>2. PICK g : Decodes(g, <<>>, 0) /\ decodeAlias(<<>>) = g[0]
  BY <1>1, DecodeIs
<1>3. QED BY <1>1, <1>2 DEF Decodes

------------------------------------------------------------------------------
(* The order of the aliases, and their length *)

\* What follows two aliases does not change their order.
LEMMA ShortLexAppend ==
  ASSUME NEW s \in Seq(Nat), NEW t \in Seq(Nat), NEW a, NEW b, ShortLex(s, t)
  PROVE  ShortLex(Append(s, a), Append(t, b))
<1> DEFINE x == Append(s, a)
           y == Append(t, b)
<1>1. /\ Len(s) \in Nat /\ Len(x) = Len(s) + 1 /\ \A i \in 1 .. Len(s) : x[i] = s[i]
      /\ Len(t) \in Nat /\ Len(y) = Len(t) + 1 /\ \A i \in 1 .. Len(t) : y[i] = t[i]
  OBVIOUS
<1> HIDE DEF x, y
<1>2. CASE Len(s) < Len(t)
  BY <1>1, <1>2 DEF ShortLex, x, y
<1>3. CASE Len(s) = Len(t) /\ \E i \in 1 .. Len(s) :
             s[i] < t[i] /\ \A j \in 1 .. i - 1 : s[j] = t[j]
  <2>1. PICK i \in 1 .. Len(s) : s[i] < t[i] /\ \A j \in 1 .. i - 1 : s[j] = t[j]
    BY <1>3
  <2>2. Len(x) = Len(y) /\ i \in 1 .. Len(x) /\ x[i] < y[i]
    BY <1>1, <1>3, <2>1
  <2>3. ASSUME NEW j \in 1 .. i - 1 PROVE x[j] = y[j]
    <3>1. j \in 1 .. Len(s) /\ j \in 1 .. Len(t)
      BY <1>1, <1>3
    <3>2. s[j] = t[j]
      BY <2>1
    <3>3. QED BY <1>1, <3>1, <3>2
  <2>4. ShortLex(x, y)
    BY <2>2, <2>3 DEF ShortLex
  <2>5. QED BY <2>4 DEF x, y
<1>4. QED BY <1>2, <1>3 DEF ShortLex

LEMMA ShortLexLast ==
  ASSUME NEW s \in Seq(Nat), NEW a \in Nat, NEW b \in Nat, a < b
  PROVE  ShortLex(Append(s, a), Append(s, b))
<1> DEFINE x == Append(s, a)
           y == Append(s, b)
           n == Len(s) + 1
<1>1. /\ n \in Nat /\ Len(x) = n /\ Len(y) = n /\ x[n] = a /\ y[n] = b
      /\ \A i \in 1 .. n - 1 : x[i] = s[i] /\ y[i] = s[i]
  OBVIOUS
<1> HIDE DEF x, y, n
<1>2. n \in 1 .. Len(x)
  BY <1>1 DEF n
<1>3. ShortLex(x, y)
  BY <1>1, <1>2 DEF ShortLex
<1>4. QED BY <1>3 DEF x, y

LEMMA DigitsOrdered == ASSUME NEW n \in Nat PROVE ShortLex(Digits[n], Digits[n + 1])
<1> DEFINE T == {m \in Nat : ~ ShortLex(Digits[m], Digits[m + 1])}
<1> SUFFICES ASSUME T # {} PROVE FALSE
  OBVIOUS
<1>1. PICK m \in T : \A k \in T : m <= k
  <2>1. T \subseteq Nat
    OBVIOUS
  <2> HIDE DEF T
  <2>2. QED BY <2>1, LeastElement
<1>2. m \in Nat /\ m + 1 \in Nat /\ m + 1 # 0 /\ ~ ShortLex(Digits[m], Digits[m + 1])
  BY <1>1
<1> DEFINE q == m \div Base
           r == m % Base
           p == (m + 1) \div Base
           u == (m + 1) % Base
<1>3. q \in Nat /\ r \in Nat /\ p \in Nat /\ u \in Nat /\ (m # 0 => q < m)
  BY <1>2, Division, BaseAssumption
<1>4. Digits[m + 1] = Append(Digits[p], u)
  BY <1>2, DigitsEquation
<1>5. m # 0 => Digits[m] = Append(Digits[q], r)
  BY <1>2, DigitsEquation
<1>6. (p = q /\ u = r + 1) \/ (p = q + 1 /\ u = 0)
  BY <1>2, Successor
<1> HIDE DEF q, r, p, u
<1>7. CASE m = 0
  <2>1. Digits[m] = <<>>
    BY <1>7, DigitsEquation
  <2>2. Digits[p] \in Seq(Nat)
    BY <1>3, DigitsNat
  <2> DEFINE s == Digits[p]
  <2>3. Len(<<>>) < Len(Append(s, u))
    <3> HIDE DEF s
    <3>1. QED BY <2>2 DEF s
  <2>4. QED BY <1>2, <1>4, <2>1, <2>3 DEF ShortLex
<1>8. CASE m # 0 /\ p = q /\ u = r + 1
  <2>1. Digits[q] \in Seq(Nat) /\ r < u
    BY <1>3, <1>8, DigitsNat
  <2>2. ShortLex(Append(Digits[q], r), Append(Digits[q], u))
    BY <1>3, <2>1, ShortLexLast
  <2>3. QED BY <1>2, <1>4, <1>5, <1>8, <2>2
<1>9. CASE m # 0 /\ p = q + 1
  <2>1. q \notin T
    <3>1. ASSUME q \in T PROVE FALSE
      <4>1. m <= q
        BY <1>1, <3>1
      <4>2. QED BY <1>2, <1>3, <1>9, <4>1
    <3>2. QED BY <3>1
  <2>2. ShortLex(Digits[q], Digits[p])
    BY <1>3, <1>9, <2>1
  <2>3. Digits[q] \in Seq(Nat) /\ Digits[p] \in Seq(Nat)
    BY <1>3, DigitsNat
  <2>4. ShortLex(Append(Digits[q], r), Append(Digits[p], u))
    BY <2>2, <2>3, ShortLexAppend
  <2>5. QED BY <1>2, <1>4, <1>5, <1>9, <2>4
<1>10. QED BY <1>6, <1>7, <1>8, <1>9

\* The alias is one character longer than that of the identifier without its last digit.
LEMMA LengthEquation ==
  ASSUME NEW n \in Nat
  PROVE  /\ Len(Digits[n]) \in Nat
         /\ n # 0 => Len(Digits[n]) = Len(Digits[n \div Base]) + 1
         /\ Len(Digits[n]) = 0 <=> n = 0
<1>1. Digits[n] \in Seq(Nat)
  BY DigitsNat
<1> DEFINE q == n \div Base
           s == Digits[q]
<1>2. n # 0 => Digits[n] = Append(Digits[q], n % Base)
  BY DigitsEquation
<1>3. s \in Seq(Nat)
  <2>1. q \in Nat
    BY Division
  <2>2. QED BY <2>1, DigitsNat
<1>4. n = 0 => Digits[n] = <<>>
  BY DigitsEquation
<1> HIDE DEF s
<1>5. Len(s) \in Nat /\ Len(Append(s, n % Base)) = Len(s) + 1
  BY <1>3
<1>6. QED BY <1>1, <1>2, <1>4, <1>5 DEF s

------------------------------------------------------------------------------
(* Theorems *)

\* decodeAlias takes every alias back to the identifier it was generated from.
THEOREM DecodesEveryAlias == \A n \in Nat : decodeAlias(generateAlias(n)) = n
<1> DEFINE T == {m \in Nat : decodeAlias(Digits[m]) # m}
<1>1. T = {}
  <2> SUFFICES ASSUME T # {} PROVE FALSE
    OBVIOUS
  <2>1. PICK m \in T : \A k \in T : m <= k
    <3>1. T \subseteq Nat
      OBVIOUS
    <3> HIDE DEF T
    <3>2. QED BY <3>1, LeastElement
  <2>2. m \in Nat /\ decodeAlias(Digits[m]) # m
    BY <2>1
  <2>3. m # 0
    BY <2>2, DigitsEquation, DecodeEmpty
  <2> DEFINE q == m \div Base
             r == m % Base
  <2>4. q \in Nat /\ q < m /\ r \in 0 .. Base - 1 /\ m = Base * q + r
    BY <2>2, <2>3, Division
  <2>5. Digits[m] = Append(Digits[q], r)
    BY <2>2, <2>3, DigitsEquation
  <2> HIDE DEF q, r
  <2>6. decodeAlias(Digits[q]) = q
    <3>1. ASSUME q \in T PROVE FALSE
      <4>1. m <= q
        BY <2>1, <3>1
      <4>2. QED BY <2>2, <2>4, <4>1
    <3>2. QED BY <2>4, <3>1
  <2>7. decodeAlias(Digits[m]) = q * Base + r
    <3>1. Digits[q] \in Seq(Nat) /\ r \in Nat
      <4>1. r \in Nat
        BY <2>4, BaseAssumption
      <4>2. QED BY <2>4, <4>1, DigitsNat
    <3>2. QED BY <2>5, <2>6, <3>1, DecodeAppend
  <2>8. q * Base = Base * q
    BY <2>4, BaseAssumption
  <2>9. QED BY <2>2, <2>4, <2>7, <2>8
<1>2. decodeAlias(<<0>>) = 0
  <2>1. <<>> \in Seq(Nat) /\ Append(<<>>, 0) = <<0>>
    OBVIOUS
  <2>2. decodeAlias(<<0>>) = decodeAlias(<<>>) * Base + 0
    BY <2>1, DecodeAppend
  <2>3. QED BY <2>2, DecodeEmpty, BaseAssumption
<1>3. QED BY <1>1, <1>2 DEF generateAlias

\* No two identifiers share an alias.
THEOREM AliasesDiffer ==
  \A n, m \in Nat : generateAlias(n) = generateAlias(m) => n = m
  BY DecodesEveryAlias

\* As a function on the values of the sequence, generateAlias is what UrlService assumes of
\* its constant AliasOf.
THEOREM GeneratorIsAdmissible ==
  ASSUME NEW Ids, Ids \subseteq Nat,
         NEW AliasOf, AliasOf = [i \in Ids |-> generateAlias(i)]
  PROVE  /\ AliasOf \in [Ids -> Seq(0 .. Base - 1) \ {<<>>}]
         /\ \A i, j \in Ids : AliasOf[i] = AliasOf[j] => i = j
<1>1. ASSUME NEW n \in Nat PROVE generateAlias(n) \in Seq(0 .. Base - 1) \ {<<>>}
  <2>1. CASE n = 0
    <3>1. 0 \in 0 .. Base - 1
      BY BaseAssumption
    <3>2. QED BY <2>1, <3>1 DEF generateAlias
  <2>2. CASE n # 0
    <3>1. Digits[n] \in Seq(0 .. Base - 1)
      BY DigitsType
    <3>2. Digits[n] # <<>>
      BY <2>2, LengthEquation
    <3>3. QED BY <2>2, <3>1, <3>2 DEF generateAlias
  <2>3. QED BY <2>1, <2>2
<1>2. AliasOf \in [Ids -> Seq(0 .. Base - 1) \ {<<>>}]
  BY <1>1
<1>3. ASSUME NEW i \in Ids, NEW j \in Ids, AliasOf[i] = AliasOf[j] PROVE i = j
  <2>1. generateAlias(i) = generateAlias(j) /\ i \in Nat /\ j \in Nat
    BY <1>3
  <2>2. QED BY <2>1, AliasesDiffer
<1>4. QED BY <1>2, <1>3

\* The alias of the next identifier is strictly greater.
THEOREM AliasesOrdered == \A n \in Nat : ShortLex(generateAlias(n), generateAlias(n + 1))
<1> SUFFICES ASSUME NEW n \in Nat PROVE ShortLex(generateAlias(n), generateAlias(n + 1))
  OBVIOUS
<1>1. n + 1 \in Nat /\ generateAlias(n + 1) = Digits[n + 1]
  BY DEF generateAlias
<1>2. CASE n # 0
  BY <1>1, <1>2, DigitsOrdered DEF generateAlias
<1>3. CASE n = 0
  <2>1. 1 \div Base = 0 /\ 1 % Base = 1
    <3>1. 1 \in Nat /\ 0 \in Nat /\ 1 \in 0 .. Base - 1 /\ 1 = Base * 0 + 1
      BY BaseAssumption
    <3>2. QED BY <3>1, DivisionUnique
  <2>2. Digits[1] = Append(Digits[0], 1) /\ Digits[0] = <<>>
    <3>1. Digits[1] = Append(Digits[1 \div Base], 1 % Base)
      <4> DEFINE one == 1
      <4>1. one \in Nat /\ one # 0
        OBVIOUS
      <4> HIDE DEF one
      <4>2. Digits[one] = Append(Digits[one \div Base], one % Base)
        BY <4>1, DigitsEquation
      <4>3. QED BY <4>2 DEF one
    <3>2. Digits[0] = <<>>
      BY DigitsEquation
    <3>3. QED BY <2>1, <3>1, <3>2
  <2>3. generateAlias(n) = Append(<<>>, 0) /\ generateAlias(n + 1) = Append(<<>>, 1)
    BY <1>1, <1>3, <2>2 DEF generateAlias
  <2>4. <<>> \in Seq(Nat) /\ 0 \in Nat /\ 1 \in Nat /\ 0 < 1
    OBVIOUS
  <2>5. ShortLex(Append(<<>>, 0), Append(<<>>, 1))
    BY <2>4, ShortLexLast
  <2>6. QED BY <2>3, <2>5
<1>4. QED BY <1>2, <1>3

\* From Base ^ 3 on, and only from there, an alias has four characters.
THEOREM RoutableExactlyFromCube ==
  \A n \in Nat : Len(generateAlias(n)) >= 4 <=> n >= Base * Base * Base
<1> SUFFICES ASSUME NEW n \in Nat
             PROVE  Len(generateAlias(n)) >= 4 <=> n >= Base * Base * Base
  OBVIOUS
<1> DEFINE a == n \div Base
           b == a \div Base
           c == b \div Base
<1>1. a \in Nat /\ b \in Nat /\ c \in Nat
  BY Division
<1>2. Base \in Nat /\ Base > 1 /\ Base * Base \in Nat /\ Base * Base * Base = Base * (Base * Base)
  BY BaseAssumption
<1>3. n >= Base * Base * Base <=> a >= Base * Base
  BY <1>2, DivisionMonotone
<1>4. a >= Base * Base <=> b >= Base
  BY <1>1, <1>2, DivisionMonotone
<1>5. b >= Base <=> c >= 1
  <2>1. b >= Base * 1 <=> c >= 1
    BY <1>1, DivisionMonotone
  <2>2. QED BY <1>2, <2>1
<1>6. /\ n # 0 => Len(Digits[n]) = Len(Digits[a]) + 1
      /\ a # 0 => Len(Digits[a]) = Len(Digits[b]) + 1
      /\ b # 0 => Len(Digits[b]) = Len(Digits[c]) + 1
      /\ Len(Digits[n]) \in Nat /\ Len(Digits[a]) \in Nat
      /\ Len(Digits[b]) \in Nat /\ Len(Digits[c]) \in Nat
      /\ Len(Digits[n]) = 0 <=> n = 0
      /\ Len(Digits[a]) = 0 <=> a = 0
      /\ Len(Digits[b]) = 0 <=> b = 0
      /\ Len(Digits[c]) = 0 <=> c = 0
  BY <1>1, LengthEquation
<1>7. (n = 0 => a = 0) /\ (a = 0 => b = 0) /\ (b = 0 => c = 0)
  BY BaseAssumption
<1> HIDE DEF a, b, c
<1>8. Len(Digits[n]) >= 4 <=> c >= 1
  BY <1>1, <1>6, <1>7
<1>9. n = 0 => Len(generateAlias(n)) = 1
  BY DEF generateAlias
<1>10. n # 0 => generateAlias(n) = Digits[n]
  BY DEF generateAlias
<1> DEFINE cube == Base * Base * Base
<1>11. n >= cube <=> c >= 1
  BY <1>3, <1>4, <1>5
<1> HIDE DEF cube
<1>12. Len(generateAlias(n)) >= 4 <=> c >= 1
  <2>1. CASE n = 0
    BY <1>1, <1>7, <1>9, <2>1
  <2>2. CASE n # 0
    BY <1>8, <1>10, <2>2
  <2>3. QED BY <2>1, <2>2
<1>13. QED BY <1>11, <1>12 DEF cube

------------------------------------------------------------------------------
(* The walk of MCBase62 *)

\* The inductive invariant: the walk visits identifiers.
IdInNat == id \in Nat

\* It is kept by every step of the walk.
LEMMA WalkInNat == Spec => []IdInNat
<1>1. Init => IdInNat
  BY DEF Init, IdInNat
<1>2. IdInNat /\ [Next]_id => IdInNat'
  <2> SUFFICES ASSUME IdInNat, [Next]_id PROVE IdInNat'
    OBVIOUS
  <2>1. ASSUME NEW d \in SampledDigits, id' = id * Base + d PROVE IdInNat'
    <3>1. d \in Nat /\ id \in Nat
      BY SampleAssumption DEF IdInNat
    <3>2. QED BY <2>1, <3>1, BaseAssumption DEF IdInNat
  <2>2. CASE UNCHANGED id
    BY <2>2 DEF IdInNat
  <2>3. QED BY <2>1, <2>2 DEF Next
<1>3. QED BY <1>1, <1>2, PTL DEF Spec

\* Wherever the walk stands, whatever the base and the sample of digits: decodeAlias inverts
\* generateAlias.
THEOREM RoundTrips == Spec => []RoundTrip
<1>1. IdInNat => RoundTrip
  BY DecodesEveryAlias DEF RoundTrip, IdInNat
<1>2. QED BY WalkInNat, <1>1, PTL

\* The alias of the identifier it stands at comes before that of the next one.
THEOREM WalkOrdered == Spec => []Ordered
<1>1. IdInNat => Ordered
  BY AliasesOrdered DEF Ordered, IdInNat
<1>2. QED BY WalkInNat, <1>1, PTL

\* The route's schema takes an alias as soon as its identifier has reached Base ^ 3.
THEOREM WalkRoutable == Spec => []RoutableFromCube
<1>1. IdInNat => RoutableFromCube
  BY RoutableExactlyFromCube DEF RoutableFromCube, IdInNat
<1>2. QED BY WalkInNat, <1>1, PTL

================================================================================
