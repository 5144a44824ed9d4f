------------------------------- MODULE Escrow -------------------------------
(***************************************************************************)
(* What the vault promises, without its bookkeeping: a set of pots, each    *)
(* with an owner fixed when it is opened, and one purse per asset that      *)
(* holds the tokens of all the pots together.  Money enters a pot together  *)
(* with the purse and leaves both together; no step touches two pots.       *)
(***************************************************************************)
EXTENDS Integers, FiniteSets, Functions

CONSTANTS Pots, Owners, Assets, Amounts

\* What the constants of an escrow must satisfy.
FiniteEscrow ==
  /\ IsFiniteSet(Pots)
  /\ Amounts \subseteq Nat \ {0}

VARIABLES
  owner,  \* a function from the opened pots to their owners
  pot,    \* pot[p][a]: what the owner of p may still take out in asset a
  held    \* held[a]: the tokens of asset a in the common purse

escrowVars == <<owner, pot, held>>

\* Pots and purse hold naturals, every opened pot has an owner.
TypeOK ==
  /\ DOMAIN owner \in SUBSET Pots
  /\ owner \in [DOMAIN owner -> Owners]
  /\ pot \in [Pots -> [Assets -> Nat]]
  /\ held \in [Assets -> Nat]

Init ==
  /\ owner = [p \in {} |-> 0]
  /\ pot = [p \in Pots |-> [a \in Assets |-> 0]]
  /\ held = [a \in Assets |-> 0]

Open(p, w) ==
  /\ p \notin DOMAIN owner
  /\ owner' = [q \in DOMAIN owner \cup {p} |-> IF q = p THEN w ELSE owner[q]]
  /\ UNCHANGED <<pot, held>>

Put(p, a, n) ==
  /\ p \in DOMAIN owner
  /\ pot' = [pot EXCEPT ![p][a] = @ + n]
  /\ held' = [held EXCEPT ![a] = @ + n]
  /\ UNCHANGED owner

\* The owner may send the money to any account, the purse itself included: then
\* the pot is emptied and the tokens stay in the purse, owed to nobody.
Take(p, a, n) ==
  /\ p \in DOMAIN owner
  /\ n <= pot[p][a]
  /\ pot' = [pot EXCEPT ![p][a] = @ - n]
  /\ held' \in {held, [held EXCEPT ![a] = @ - n]}
  /\ UNCHANGED owner

\* Anybody may send tokens straight to the purse: they belong to no pot.
Gift(a, n) ==
  /\ held' = [held EXCEPT ![a] = @ + n]
  /\ UNCHANGED <<owner, pot>>

Next ==
  \/ \E p \in Pots, w \in Owners : Open(p, w)
  \/ \E p \in Pots, a \in Assets, n \in Amounts : Put(p, a, n) \/ Take(p, a, n)
  \/ \E a \in Assets, n \in Amounts : Gift(a, n)

Spec == Init /\ [][Next]_escrowVars

----------------------------------------------------------------------------
Owed(a) == SumFunctionOnSet([p \in Pots |-> pot[p][a]], Pots)

(* The purse can pay every pot out at the same time, in every asset.        *)
Solvent == \A a \in Assets : Owed(a) <= held[a]

=============================================================================
