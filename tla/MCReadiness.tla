----------------------------- MODULE MCReadiness -------------------------------
(***************************************************************************)
(* Small instances of Readiness.                                           *)
(***************************************************************************)
EXTENDS Readiness

CONSTANTS p1, p2, u1, k1, k2

================================================================================
