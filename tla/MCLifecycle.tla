----------------------------- MODULE MCLifecycle ------------------------------
(***************************************************************************)
(* Small instances of Lifecycle.                                           *)
(***************************************************************************)
EXTENDS Lifecycle

CONSTANTS w1, w2

================================================================================
