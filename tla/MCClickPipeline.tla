--------------------------- MODULE MCClickPipeline ----------------------------
(***************************************************************************)
(* Small instances of ClickPipeline: which clicks are of which kind.       *)
(***************************************************************************)
EXTENDS ClickPipeline, TLC

CONSTANTS c1, c2, bad, garbage, poison, t1, t2, v1, v2, d1

MCKind == [c \in Clicks |->
  CASE c = bad -> "malformed" [] c = garbage -> "garbled"
    [] c = poison -> "unstorable" [] OTHER -> "good"]

\* Nothing tells two good clicks, two calls or two workers apart.
MCSymmetry ==
  Permutations({c1, c2}) \cup Permutations(Trackers) \cup Permutations(Workers)

================================================================================
