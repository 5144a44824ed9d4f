------------------------------- MODULE Vault -------------------------------
(***************************************************************************)
(* The community vault, a Soroban contract (vault_contract/src/lib.rs).     *)
(*                                                                          *)
(* All the pools' donations sit in ONE token balance of the contract per    *)
(* asset; what belongs to which pool is bookkeeping in the contract's       *)
(* storage.  A call either completes or panics, and a panic rolls the whole *)
(* transaction back, token transfer included, so every entry point is one   *)
(* atomic action whose guard is the conjunction of the call's checks.       *)
(*                                                                          *)
(* Abstractions: addresses and short codes are elements of finite sets; a   *)
(* Map<K, i128> is a total function whose absent keys are 0 (the code reads *)
(* every one of them with unwrap_or(0) and stores only positive values);    *)
(* storage TTL and rent are left out.  i128 arithmetic is checked           *)
(* (overflow-checks = true): a sum or product above MaxI128 panics.         *)
(***************************************************************************)
EXTENDS Integers, Sequences, FiniteSets, Functions

CONSTANTS
  ShortCodes,       \* keys of the Pools map
  Wallets,          \* accounts that may sign: owners, donors, recipients
  VaultAddress,     \* env.current_contract_address()
  Assets,           \* token contracts that exist; the constructor admits some
  MaxI128,          \* largest i128
  ConstructorArgs,  \* the argument pairs <<assets, rates>> tried
  Amounts,          \* the amounts tried in deposit, withdraw and transfer
  Goals,            \* the goals tried in create_pool
  Initials,         \* the initial_equivalents tried in create_pool
  Funding           \* what each wallet holds of each asset at the start

Accounts == Wallets \cup {VaultAddress}

ASSUME FiniteAssumption ==
  IsFiniteSet(ShortCodes) /\ IsFiniteSet(Wallets) /\ IsFiniteSet(Assets)
ASSUME AddressAssumption == VaultAddress \notin Wallets
ASSUME WidthAssumption == MaxI128 \in Nat
ASSUME InputAssumption ==
  /\ ConstructorArgs \subseteq Seq(Assets) \X Seq(Int)
  /\ Amounts \subseteq Int
  /\ Goals \subseteq Int
  /\ Initials \subseteq Int
ASSUME FundingAssumption == Funding \in [Assets -> [Wallets -> Nat]]

VARIABLES
  initialised,  \* DataKey::Rates is in storage
  rates,        \* DataKey::Rates, 0 for an asset that is not admitted
  pools,        \* DataKey::Pools, a function on the registered short codes
  balance       \* the tokens' own ledgers: balance[asset][account]

vars == <<initialised, rates, pools, balance>>

Pool == [owner: Wallets, goal: Nat, initial: Nat,
         donated: [Assets -> Nat], withdrawn: [Assets -> Nat],
         donors: [Wallets -> Nat]]

\* The contract's storage and the tokens' ledgers: nothing is ever negative, and every
\* rate in storage is one the constructor accepted.
TypeOK ==
  /\ initialised \in BOOLEAN
  /\ rates \in [Assets -> Nat]
  /\ DOMAIN pools \in SUBSET ShortCodes
  /\ pools \in [DOMAIN pools -> Pool]
  /\ balance \in [Assets -> [Accounts -> Nat]]

Init ==
  /\ initialised = FALSE
  /\ rates = [a \in Assets |-> 0]
  /\ pools = [c \in {} |-> 0]
  /\ balance = [a \in Assets |-> [x \in Accounts |->
                  IF x = VaultAddress THEN 0 ELSE Funding[a][x]]]

----------------------------------------------------------------------------
(* Helpers of the contract *)

Fits(n) == n <= MaxI128

\* rate_for: the call panics unless the vault has rates and admits the asset.
Admitted(a) == initialised /\ rates[a] > 0

\* equivalent_of.  Every term is non-negative, so the running sum of the loop
\* stays within i128 exactly when the total does.
EquivalentNet(pool, table) ==
  pool.initial + SumFunctionOnSet(
    [a \in Assets |-> (pool.donated[a] - pool.withdrawn[a]) * table[a]], Assets)
EquivalentAt(pool, table) ==
  pool.initial + SumFunctionOnSet([a \in Assets |-> pool.donated[a] * table[a]], Assets)

Equivalent(pool) == EquivalentAt(pool, rates)

\* What pool_info reports as available.
Available(c, a) ==
  IF c \in DOMAIN pools THEN pools[c].donated[a] - pools[c].withdrawn[a] ELSE 0

\* pool_info's complete, and the test deposit makes before it takes money.
Complete(pool) == pool.goal > 0 /\ Equivalent(pool) >= pool.goal

\* The token contract: no overdraft, nothing negative.
Moved(ledger, from, to, n) ==
  [x \in Accounts |-> ledger[x] - (IF x = from THEN n ELSE 0) + (IF x = to THEN n ELSE 0)]

Transfer(a, from, to, n) ==
  /\ 0 <= n /\ n <= balance[a][from]
  /\ balance' = [balance EXCEPT ![a] = Moved(balance[a], from, to, n)]

----------------------------------------------------------------------------
(* Entry points *)

NotInitialisedNever == TRUE
NotInitialised == ~initialised

ValidRatesUnchecked(assets, table) == Len(assets) = Len(table)
ValidRates(assets, table) ==
  /\ Len(assets) = Len(table)
  /\ \A i \in 1..Len(table) : table[i] > 0

\* Later entries of the list overwrite earlier ones, as map.set does.
RateTable(assets, table) ==
  [a \in Assets |->
     LET places == {i \in 1..Len(assets) : assets[i] = a}
     IN  IF places = {} THEN 0
         ELSE table[CHOOSE i \in places : \A j \in places : j <= i]]

Constructor(assets, table) ==
  /\ NotInitialised
  /\ ValidRates(assets, table)
  /\ initialised' = TRUE
  /\ rates' = RateTable(assets, table)
  /\ UNCHANGED <<pools, balance>>

UnusedCodeNever(c) == TRUE
UnusedCode(c) == c \notin DOMAIN pools

CreatePool(c, owner, goal, initial) ==
  /\ goal >= 0 /\ initial >= 0
  /\ UnusedCode(c)
  /\ pools' = [d \in DOMAIN pools \cup {c} |->
                 IF d # c THEN pools[d]
                 ELSE [owner |-> owner, goal |-> goal, initial |-> initial,
                       donated   |-> [a \in Assets |-> 0],
                       withdrawn |-> [a \in Assets |-> 0],
                       donors    |-> [w \in Wallets |-> 0]]]
  /\ UNCHANGED <<initialised, rates, balance>>

\* With no goal the && of the code never computes the equivalent, so it cannot
\* overflow there.
AcceptsDonations(pool) ==
  pool.goal > 0 => Fits(Equivalent(pool)) /\ Equivalent(pool) < pool.goal

CreditInTokens(a, n) == n
Credit(a, n) == n * rates[a]

WithDonation(pool, donor, a, n) ==
  [pool EXCEPT !.donated = [pool.donated EXCEPT ![a] = @ + n],
               !.donors = [pool.donors EXCEPT ![donor] = @ + Credit(a, n)]]

Deposit(c, donor, a, n) ==
  /\ n > 0
  /\ Admitted(a)
  /\ c \in DOMAIN pools
  /\ pools[c].owner # donor
  /\ AcceptsDonations(pools[c])
  /\ Transfer(a, donor, VaultAddress, n)
  /\ Fits(pools[c].donated[a] + n)
  /\ Fits(pools[c].donors[donor] + Credit(a, n))
  /\ pools' = [pools EXCEPT ![c] = WithDonation(pools[c], donor, a, n)]
  /\ UNCHANGED <<initialised, rates>>

WithinDonatedOnce(pool, a, n) == n <= pool.donated[a]
WithinDonated(pool, a, n) ==
  /\ Fits(pool.withdrawn[a] + n)
  /\ pool.withdrawn[a] + n <= pool.donated[a]

WithWithdrawal(pool, a, n) ==
  [pool EXCEPT !.withdrawn = [pool.withdrawn EXCEPT ![a] = @ + n]]

\* What the contract and the token together require of a withdrawal.
MayWithdraw(c, owner, a, n) ==
  /\ n > 0
  /\ Admitted(a)
  /\ c \in DOMAIN pools
  /\ pools[c].owner = owner
  /\ WithinDonated(pools[c], a, n)
  /\ n <= balance[a][VaultAddress]

Withdraw(c, owner, a, to, n) ==
  /\ MayWithdraw(c, owner, a, n)
  /\ Transfer(a, VaultAddress, to, n)
  /\ pools' = [pools EXCEPT ![c] = WithWithdrawal(pools[c], a, n)]
  /\ UNCHANGED <<initialised, rates>>

\* Outside the contract: anybody may send tokens to anybody, the vault included.
DirectTransfer(a, from, to, n) ==
  /\ n > 0
  /\ Transfer(a, from, to, n)
  /\ UNCHANGED <<initialised, rates, pools>>

Next ==
  \/ \E args \in ConstructorArgs : Constructor(args[1], args[2])
  \/ \E c \in ShortCodes, w \in Wallets, g \in Goals, i \in Initials : CreatePool(c, w, g, i)
  \/ \E c \in ShortCodes, w \in Wallets, a \in Assets, n \in Amounts :
        \/ Deposit(c, w, a, n)
        \/ \E to \in Accounts : Withdraw(c, w, a, to, n)
  \/ \E a \in Assets, w \in Wallets, to \in Accounts, n \in Amounts :
        DirectTransfer(a, w, to, n)

Spec == Init /\ [][Next]_vars

----------------------------------------------------------------------------
(* Properties *)

\* The contract holds, in every asset, at least what all its pools together may
\* still withdraw, although the balance is shared and owners may withdraw to the
\* vault's own address.  A pool that took out more than its own donations has no
\* claim, but does not lend its debt to the others.  (The cap of lib.rs 38-42.)
Claim(c, a) == IF Available(c, a) > 0 THEN Available(c, a) ELSE 0
Owed(a) == SumFunctionOnSet([c \in ShortCodes |-> Claim(c, a)], ShortCodes)
Solvent == \A a \in Assets : Owed(a) <= balance[a][VaultAddress]

\* "el owner las retira cuando quiere, al momento" (lib.rs 3-4): whatever
\* pool_info reports as available can be withdrawn by the owner, in one call and
\* in that state: the asset is still admitted, the checked additions do not
\* overflow, the tokens are there, whether the pool is complete or not.
FundsNeverStuck ==
  \A c \in DOMAIN pools, a \in Assets :
    Available(c, a) > 0 => MayWithdraw(c, pools[c].owner, a, Available(c, a))

\* The leaderboard accounts for the whole progress of the pool: what its donors
\* are credited with, plus the migrated progress, is the equivalent that closes
\* the goal.  Two maps updated by the same call, and rates read at other times.
Credited(c) == SumFunctionOnSet(pools[c].donors, Wallets)
LeaderboardConserved ==
  \A c \in DOMAIN pools : pools[c].initial + Credited(c) = Equivalent(pools[c])

\* A pool that reached its goal stays closed for ever: no later call adds to its
\* donations or its leaderboard, and no withdrawal reopens it (lib.rs 7-8, 35-36).
GoalCloses ==
  [][\A c \in DOMAIN pools :
       Complete(pools[c]) => /\ c \in DOMAIN pools' /\ Complete(pools[c])'
                             /\ pools'[c].donated = pools[c].donated
                             /\ pools'[c].donors = pools[c].donors]_vars

\* Every step of the vault is a step of an escrow with one pot per pool: it
\* touches one pool at most, the owner of a pool never changes, and tokens move
\* with the bookkeeping.
E == INSTANCE Escrow WITH
       Pots <- ShortCodes, Owners <- Wallets, Amounts <- {n \in Amounts : n > 0},
       owner <- [c \in DOMAIN pools |-> pools[c].owner],
       pot <- [c \in ShortCodes |-> [a \in Assets |-> Available(c, a)]],
       held <- [a \in Assets |-> balance[a][VaultAddress]]
EscrowSpec == E!Spec

=============================================================================
