------------------------------ MODULE MCTeardown -------------------------------
(***************************************************************************)
(* Small instances of Teardown.                                            *)
(***************************************************************************)
EXTENDS Teardown

CONSTANTS r1, r2, r3

================================================================================
