-------------------------------- MODULE Base62 --------------------------------
(***************************************************************************)
(* The alias generator, src/src/utils/hashing/aliasGenerator.ts.  A        *)
(* character is its index in BASE62_CHARSET, an alias a sequence of        *)
(* indices; Base stands for BASE62_CHARSET.length.                         *)
(***************************************************************************)
EXTENDS Naturals, Sequences

CONSTANT Base

ASSUME BaseAssumption == Base \in Nat \ {0, 1}

\* The loop of generateAlias: the remainder goes in front of what is encoded of
\* the smaller digits, so the digits of n \div Base come before it.
Digits[n \in Nat] ==
  IF n = 0 THEN <<>> ELSE Append(Digits[n \div Base], n % Base)

\* Mutant: the digit is put behind the ones already there.
ReversedDigits[n \in Nat] ==
  IF n = 0 THEN <<>> ELSE <<n % Base>> \o ReversedDigits[n \div Base]

Backwards(id) == IF id = 0 THEN <<0>> ELSE ReversedDigits[id]

\* Mutant: the loop stops one digit early.
Truncated(id) == IF id < Base THEN <<id>> ELSE Tail(Digits[id])

generateAlias(id) == IF id = 0 THEN <<0>> ELSE Digits[id]

decodeAlias(alias) ==
  LET decoded[i \in 0 .. Len(alias)] ==
        IF i = 0 THEN 0 ELSE decoded[i - 1] * Base + alias[i]
  IN  decoded[Len(alias)]

================================================================================
