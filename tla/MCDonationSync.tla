--------------------------- MODULE MCDonationSync ---------------------------
(***************************************************************************)
(* Two overlapping GETs, pages of two operations, and one operation of      *)
(* each kind that the filters tell apart: donations in an asset with and    *)
(* one without a reference rate, a payment without the memo, one that       *)
(* leaves the wallet and one the creator sends to the pool.                 *)
(***************************************************************************)
EXTENDS DonationSync

CONSTANTS r1, r2, xlm, other, donor

Op(from, to, memo, asset) ==
  [type |-> "payment", from |-> from, to |-> to, memo |-> memo, asset |-> asset, amount |-> 1]

MCOperations ==
  { Op(donor, Wallet, ShortCode, xlm),
    Op(donor, Wallet, ShortCode, other),
    Op(donor, Wallet, "", xlm),
    Op(Wallet, donor, ShortCode, xlm),
    Op(Creator, Wallet, ShortCode, xlm),
    [Op(donor, Wallet, ShortCode, xlm) EXCEPT !.type = "create_account"] }

MCRates == [a \in Assets |-> IF a = xlm THEN 1 ELSE 0]

=============================================================================
