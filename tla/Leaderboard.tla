---------------------------- MODULE Leaderboard ----------------------------
(***************************************************************************)
(* donors_sorted_desc (vault_contract/src/lib.rs), the insertion sort that  *)
(* turns a pool's map of donors into its leaderboard, one comparison per    *)
(* step.  Donor d is the d-th key of the map, so 1..N is the order in which *)
(* Map::iter hands the entries out; positions count from 1.                 *)
(***************************************************************************)
EXTENDS Integers

CONSTANTS
  N,          \* donors in the map
  Credits     \* the equivalents tried

ASSUME SizeAssumption == N \in Nat
ASSUME CreditAssumption == Credits \subseteq Int

VARIABLES
  credit,   \* the map: what each donor is credited with
  entries,  \* the Vec: entries[p] is the donor in place p
  i,        \* the outer loop: entries 1..i are being put in order
  j         \* the inner loop: the place the new entry has sunk to

boardVars == <<credit, entries, i, j>>

BoardInit ==
  /\ credit \in [1..N -> Credits]
  /\ entries = [p \in 1..N |-> p]
  /\ i = 1
  /\ j = 1

OutOfOrderLoose(p) == credit[entries[p - 1]] <= credit[entries[p]]
OutOfOrder(p) == credit[entries[p - 1]] < credit[entries[p]]

Sinking == j > 1 /\ OutOfOrder(j)

SwappedOnce(p) == [entries EXCEPT ![p - 1] = entries[p]]
Swapped(p) == [q \in 1..N |-> IF q = p - 1 THEN entries[p]
                              ELSE IF q = p THEN entries[p - 1] ELSE entries[q]]

Sink ==
  /\ Sinking
  /\ entries' = Swapped(j)
  /\ j' = j - 1
  /\ UNCHANGED <<credit, i>>

NextEntry ==
  /\ ~ Sinking
  /\ i < N
  /\ i' = i + 1
  /\ j' = i + 1
  /\ UNCHANGED <<credit, entries>>

BoardNext == Sink \/ NextEntry

BoardSpec == BoardInit /\ [][BoardNext]_boardVars

Done == ~ Sinking /\ i >= N

----------------------------------------------------------------------------
\* Nobody is listed twice or left out.
Listed ==
  /\ credit \in [1..N -> Credits]
  /\ entries \in [1..N -> 1..N]
  /\ \A p, q \in 1..N : entries[p] = entries[q] => p = q
  /\ i \in Nat /\ j \in Nat
  /\ 1 <= j /\ j <= i /\ (i > 1 => i <= N)

\* The order the leaderboard promises ("de mayor a menor aporte", lib.rs
\* 252-254): the larger credit first, and equal credits in the map's order.
Ahead(d, e) == credit[d] > credit[e] \/ (credit[d] = credit[e] /\ d < e)

Ranked == Done => \A p, q \in 1..N : p < q => Ahead(entries[p], entries[q])

=============================================================================
