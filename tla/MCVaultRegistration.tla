------------------------ MODULE MCVaultRegistration ------------------------
(***************************************************************************)
(* Two requests at a time and two transactions, one of which may be another *)
(* account's create_pool with the same short_code.  No symmetry: the run    *)
(* checks liveness too.                                                     *)
(***************************************************************************)
EXTENDS VaultRegistration

CONSTANTS r1, r2, t1, t2, other

=============================================================================
