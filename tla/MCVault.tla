------------------------------ MODULE MCVault ------------------------------
(***************************************************************************)
(* A small vault: two pools, two wallets, two assets.  MaxI128 is small     *)
(* enough for the checked additions to overflow, and the constructor is     *)
(* offered valid tables, one that admits a single asset, one that names an  *)
(* asset twice, and invalid ones.                                           *)
(*                                                                          *)
(* The leaderboard call reads a map of donors and writes nothing, so a      *)
(* behaviour is either one of the other calls, or the sort of one map: four *)
(* donors with credits 0..3, all orders and all ties.                       *)
(***************************************************************************)
EXTENDS Vault, Leaderboard

CONSTANTS c1, c2, w1, w2, xlm, usdc

VARIABLE visit

MCConstructorArgs ==
  { <<<<xlm, usdc>>, <<1, 2>>>>,
    <<<<xlm>>, <<1>>>>,
    <<<<usdc, usdc>>, <<1, 2>>>>,
    <<<<xlm, usdc>>, <<1>>>>,
    <<<<xlm, usdc>>, <<1, -1>>>> }

MCFunding ==
  [a \in Assets |-> [w \in Wallets |-> IF w = w1 /\ a = xlm THEN 2 ELSE 1]]

MCInit ==
  /\ Init /\ BoardInit
  /\ visit \in IF credit = [d \in 1..N |-> 0] THEN {"calls", "sort"} ELSE {"sort"}

MCNext ==
  /\ visit' = visit
  /\ \/ visit = "calls" /\ Next /\ UNCHANGED boardVars
     \/ visit = "sort" /\ BoardNext /\ UNCHANGED vars

MCSpec == MCInit /\ [][MCNext]_<<vars, boardVars, visit>>

=============================================================================
