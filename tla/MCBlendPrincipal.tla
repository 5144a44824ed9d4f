-------------------------- MODULE MCBlendPrincipal --------------------------
(***************************************************************************)
(* Two submits at a time and three transactions of one box.  Amounts and    *)
(* interest are large enough for the proportion of a withdrawal to differ   *)
(* from its amount by more than what truncation loses.                      *)
(***************************************************************************)
EXTENDS BlendPrincipal, TLC

CONSTANTS r1, r2, t1, t2, t3

Symmetric == Permutations(Requests) \cup Permutations(Txs)

=============================================================================
