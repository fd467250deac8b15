------------------------------- MODULE MCBase62 -------------------------------
(***************************************************************************)
(* Walks the identifiers digit by digit, so that every combination of the  *)
(* sampled digits (the ends of the three ranges 0-9, a-z, A-Z, where the   *)
(* carries are) is reached up to MaxId, TLC's integers' share of bigint.   *)
(***************************************************************************)
EXTENDS Base62

CONSTANTS SampledDigits, MaxId

ASSUME SampleAssumption == SampledDigits \subseteq Nat

VARIABLE id

Init == id = 0

Next == \E d \in SampledDigits : id * Base + d <= MaxId /\ id' = id * Base + d

Spec == Init /\ [][Next]_id

\* Shorter aliases first, aliases of one length in the order of the charset.
ShortLex(a, b) ==
  \/ Len(a) < Len(b)
  \/ /\ Len(a) = Len(b)
     /\ \E i \in 1 .. Len(a) :
          a[i] < b[i] /\ \A j \in 1 .. i - 1 : a[j] = b[j]

\* decodeAlias maps an alias back to the identifier it was generated from
\* ("mapping aliases back to primary records", aliasGenerator.ts:50).
RoundTrip == decodeAlias(generateAlias(id)) = id

\* The alias of the next identifier is strictly greater, so no two identifiers
\* share an alias: what the unique index and UrlService's assumption rest on.
Ordered == ShortLex(generateAlias(id), generateAlias(id + 1))

\* The aliases aliasSchema takes back, of at least 4 characters (shortener.ts:21), are
\* those of the identifiers from 62^3 on: the first 238327 links the service hands out
\* cannot be followed, and every later one can.
RoutableFromCube == Len(generateAlias(id)) >= 4 <=> id >= Base * Base * Base

================================================================================
