----------------------------- MODULE MCFamilyBox -----------------------------
(***************************************************************************)
(* Two boxes.  The new one is what the page creates: the creator weighs 2,  *)
(* the high threshold, the other signer 1.  In the old one the creator      *)
(* weighs 1 and two relatives weigh 2, so that the removal rules matter.    *)
(***************************************************************************)
EXTENDS FamilyBox, TLC

CONSTANTS creator, ana, beto, r1, r2, e1

MCNewSigners == [w \in Wallets |-> IF w = creator THEN 2 ELSE IF w = ana THEN 1 ELSE 0]
MCOldSigners == [w \in Wallets |-> IF w = creator THEN 1 ELSE 2]

MCAsked == (Wallets \X {0, 1}) \cup {<<creator, 2>>}
MCOldAsked == {<<ana, 0>>, <<ana, 1>>, <<beto, 0>>}
MCAddAndRemove == (Wallets \ {creator}) \X {0, 1}

Symmetric == Permutations(Requests)

=============================================================================
