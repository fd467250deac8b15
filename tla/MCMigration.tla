----------------------------- MODULE MCMigration -------------------------------
(***************************************************************************)
(* Small instances of Migration: DB_POOL_MAX is 1 in one of the replicas.  *)
(***************************************************************************)
EXTENDS Migration

CONSTANTS p1, p2, p3

MCPoolMax == [r \in Replicas |-> IF r = p3 THEN 1 ELSE 2]

================================================================================
