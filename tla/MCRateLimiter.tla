---------------------------- MODULE MCRateLimiter -----------------------------
(***************************************************************************)
(* Small instances of RateLimiter: two API requests of one client at a     *)
(* time, which may come again and again.                                   *)
(***************************************************************************)
EXTENDS RateLimiter

CONSTANTS r1, r2, here

MCIp == [r \in Requests |-> here]
MCPassages == [r \in Requests |-> 2]

================================================================================
