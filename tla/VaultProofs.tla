---------------------------- MODULE VaultProofs ----------------------------
(***************************************************************************)
(* The vault, for any number of pools, wallets and assets and any width of  *)
(* its integers.  Solvency is not proved on the vault's bookkeeping: the    *)
(* vault implements the escrow, and the escrow is solvent.                  *)
(***************************************************************************)
EXTENDS Vault, SumTheorems

\* What every pool's maps satisfy besides their types: nothing is withdrawn that
\* was not donated, only admitted assets were donated, and the totals fit i128.
PoolsOK ==
  \A c \in DOMAIN pools, a \in Assets :
    /\ pools[c].withdrawn[a] <= pools[c].donated[a]
    /\ Fits(pools[c].donated[a])
    /\ pools[c].donated[a] > 0 => Admitted(a)

VInv == TypeOK /\ PoolsOK /\ LeaderboardConserved

\* A non-empty set of places has a last one: the entry of the constructor's list
\* that wins.
LEMMA LastPlaceExists ==
  ASSUME NEW n \in Nat, NEW P \in SUBSET (1..n), P # {}
  PROVE  \E i \in P : \A j \in P : j <= i
<1> DEFINE S == 1..n
           above(k) == {i \in S : i > k}
           D == {above(k) : k \in P}
<1>1. IsFiniteSet(S)
  BY FS_Interval
<1>2. PICK T \in D : \A U \in D : U \subseteq T => U = T
  <2>1. D \in SUBSET SUBSET S /\ D # {}
    OBVIOUS
  <2> HIDE DEF D, S
  <2> QED BY <1>1, <2>1, MinimalSubset
<1>3. PICK m \in P : T = above(m)
  OBVIOUS
<1>4. ASSUME NEW j \in P, m < j PROVE FALSE
  <2>1. above(j) \in D /\ above(j) \subseteq above(m)
    BY <1>4
  <2>2. j \in above(m) /\ j \notin above(j)
    BY <1>4
  <2> QED BY <1>2, <1>3, <2>1, <2>2
<1>5. QED
  BY <1>4

\* Every admitted asset gets the positive rate of its last entry, the others 0.
LEMMA RateTableType ==
  ASSUME NEW args \in ConstructorArgs, ValidRates(args[1], args[2])
  PROVE  RateTable(args[1], args[2]) \in [Assets -> Nat]
<1> DEFINE assets == args[1]
           table == args[2]
<1>1. assets \in Seq(Assets) /\ table \in Seq(Int) /\ Len(assets) = Len(table)
  BY InputAssumption DEF ValidRates
<1> SUFFICES ASSUME NEW a \in Assets PROVE RateTable(assets, table)[a] \in Nat
  BY DEF RateTable
<1> DEFINE places == {i \in 1..Len(assets) : assets[i] = a}
           last == CHOOSE i \in places : \A j \in places : j <= i
<1>2. CASE places = {}
  BY <1>2 DEF RateTable
<1>3. CASE places # {}
  <2>1. Len(assets) \in Nat /\ places \in SUBSET (1..Len(assets))
    BY <1>1
  <2>2. \E i \in places : \A j \in places : j <= i
    <3> HIDE DEF places
    <3> QED BY <1>3, <2>1, LastPlaceExists
  <2>3. last \in places
    <3> HIDE DEF places
    <3> QED BY <2>2
  <2>4. last \in 1..Len(table)
    BY <1>1, <2>3
  <2>5. table[last] \in Nat
    <3>1. table[last] \in Int
      <4> HIDE DEF last, table
      <4> QED BY <1>1, <2>4
    <3>2. table[last] > 0
      BY <2>4 DEF ValidRates
    <3> QED BY <3>1, <3>2
  <2>6. RateTable(assets, table)[a] = table[last]
    BY <1>3 DEF RateTable
  <2> QED BY <2>5, <2>6
<1>4. QED
  BY <1>2, <1>3

\* What a token transfer does to the balances, the transfer to oneself included.
LEMMA TransferEffect ==
  ASSUME TypeOK, NEW a \in Assets, NEW from \in Accounts, NEW to \in Accounts,
         NEW n \in Nat, Transfer(a, from, to, n)
  PROVE  /\ balance' \in [Assets -> [Accounts -> Nat]]
         /\ \A b \in Assets : b # a => balance'[b] = balance[b]
         /\ from # to => /\ balance'[a][from] = balance[a][from] - n
                         /\ balance'[a][to] = balance[a][to] + n
         /\ \A x \in Accounts \ {from, to} : balance'[a][x] = balance[a][x]
         /\ from = to => \A x \in Accounts : balance'[a][x] = balance[a][x]
<1> DEFINE ledger == Moved(balance[a], from, to, n)
<1>1. n <= balance[a][from] /\ balance[a] \in [Accounts -> Nat]
  BY DEF TypeOK, Transfer
<1>2. ledger \in [Accounts -> Nat]
  BY <1>1 DEF Moved
<1>3. balance' = [balance EXCEPT ![a] = ledger]
  BY DEF Transfer
<1>4. /\ balance' \in [Assets -> [Accounts -> Nat]]
      /\ \A b \in Assets : b # a => balance'[b] = balance[b]
      /\ balance'[a] = ledger
  <2> HIDE DEF ledger
  <2> QED BY <1>2, <1>3 DEF TypeOK
<1>5. QED
  BY <1>1, <1>4 DEF Moved

\* What a deposit and a withdrawal do to the one pool they touch.
LEMMA DepositEffect ==
  ASSUME TypeOK, NEW c \in ShortCodes, NEW w \in Wallets, NEW a \in Assets,
         NEW n \in Amounts, Deposit(c, w, a, n)
  PROVE  /\ n \in Nat /\ n > 0
         /\ c \in DOMAIN pools
         /\ WithDonation(pools[c], w, a, n) \in Pool
         /\ pools' = [pools EXCEPT ![c] = WithDonation(pools[c], w, a, n)]
<1>1. n \in Nat /\ n > 0
  BY InputAssumption DEF Deposit
<1>2. c \in DOMAIN pools /\ pools[c] \in Pool
  BY DEF Deposit, TypeOK
<1>3. Credit(a, n) \in Nat
  BY <1>1 DEF Credit, TypeOK
<1>4. [pools[c].donated EXCEPT ![a] = @ + n] \in [Assets -> Nat]
  BY <1>1, <1>2 DEF Pool
<1>5. [pools[c].donors EXCEPT ![w] = @ + Credit(a, n)] \in [Wallets -> Nat]
  BY <1>2, <1>3 DEF Pool
<1>6. WithDonation(pools[c], w, a, n) \in Pool
  BY <1>2, <1>4, <1>5 DEF WithDonation, Pool
<1>7. QED
  BY <1>1, <1>2, <1>6 DEF Deposit

\* A withdrawal changes one pool's withdrawn amounts and nothing else of it.
LEMMA WithdrawEffect ==
  ASSUME TypeOK, NEW c \in ShortCodes, NEW w \in Wallets, NEW a \in Assets,
         NEW to \in Accounts, NEW n \in Amounts, Withdraw(c, w, a, to, n)
  PROVE  /\ n \in Nat /\ n > 0
         /\ c \in DOMAIN pools
         /\ WithWithdrawal(pools[c], a, n) \in Pool
         /\ pools' = [pools EXCEPT ![c] = WithWithdrawal(pools[c], a, n)]
<1>1. n \in Nat /\ n > 0
  BY InputAssumption DEF Withdraw, MayWithdraw
<1>2. c \in DOMAIN pools /\ pools[c] \in Pool
  BY DEF Withdraw, MayWithdraw, TypeOK
<1>3. [pools[c].withdrawn EXCEPT ![a] = @ + n] \in [Assets -> Nat]
  BY <1>1, <1>2 DEF Pool
<1>4. WithWithdrawal(pools[c], a, n) \in Pool
  BY <1>2, <1>3 DEF WithWithdrawal, Pool
<1>5. QED
  BY <1>1, <1>2, <1>4 DEF Withdraw

\* The undeployed vault has its types.
LEMMA TypeInit == Init => TypeOK
<1>1. \A a \in Assets, x \in Accounts : x # VaultAddress => Funding[a][x] \in Nat
  BY FundingAssumption DEF Accounts
<1>2. Init => balance \in [Assets -> [Accounts -> Nat]]
  BY <1>1 DEF Init
<1>3. Init => DOMAIN pools = {} /\ pools \in [DOMAIN pools -> Pool]
  BY DEF Init
<1>4. Init => rates \in [Assets -> Nat]
  BY DEF Init
<1>5. Init => initialised \in BOOLEAN
  BY DEF Init
<1>6. QED
  BY <1>2, <1>3, <1>4, <1>5 DEF TypeOK

\* Every entry point keeps the types, i.e. no amount or balance becomes negative.
LEMMA TypeNext == TypeOK /\ [Next]_vars => TypeOK'
<1> SUFFICES ASSUME TypeOK, [Next]_vars PROVE TypeOK'
  OBVIOUS
<1>1. ASSUME NEW args \in ConstructorArgs, Constructor(args[1], args[2]) PROVE TypeOK'
  BY <1>1, RateTableType DEF Constructor, TypeOK
<1>2. ASSUME NEW c \in ShortCodes, NEW w \in Wallets, NEW g \in Goals, NEW i \in Initials,
             CreatePool(c, w, g, i)
      PROVE  TypeOK'
  <2>1. g \in Nat /\ i \in Nat
    BY <1>2, InputAssumption DEF CreatePool
  <2>2. pools' \in [DOMAIN pools \cup {c} -> Pool]
    BY <1>2, <2>1 DEF CreatePool, TypeOK, Pool
  <2> QED BY <1>2, <2>2 DEF CreatePool, TypeOK
<1>3. ASSUME NEW c \in ShortCodes, NEW w \in Wallets, NEW a \in Assets, NEW n \in Amounts,
             Deposit(c, w, a, n)
      PROVE  TypeOK'
  <2>1. balance' \in [Assets -> [Accounts -> Nat]]
    BY <1>3, DepositEffect, TransferEffect DEF Deposit, Accounts
  <2>2. DOMAIN pools' = DOMAIN pools /\ pools' \in [DOMAIN pools -> Pool]
    BY <1>3, DepositEffect DEF TypeOK
  <2> QED BY <1>3, <2>1, <2>2 DEF Deposit, TypeOK
<1>4. ASSUME NEW c \in ShortCodes, NEW w \in Wallets, NEW a \in Assets, NEW n \in Amounts,
             NEW to \in Accounts, Withdraw(c, w, a, to, n)
      PROVE  TypeOK'
  <2>1. balance' \in [Assets -> [Accounts -> Nat]]
    BY <1>4, WithdrawEffect, TransferEffect DEF Withdraw, Accounts
  <2>2. DOMAIN pools' = DOMAIN pools /\ pools' \in [DOMAIN pools -> Pool]
    BY <1>4, WithdrawEffect DEF TypeOK
  <2> QED BY <1>4, <2>1, <2>2 DEF Withdraw, TypeOK
<1>5. ASSUME NEW a \in Assets, NEW w \in Wallets, NEW to \in Accounts, NEW n \in Amounts,
             DirectTransfer(a, w, to, n)
      PROVE  TypeOK'
  <2>1. n \in Nat
    BY <1>5, InputAssumption DEF DirectTransfer
  <2>2. balance' \in [Assets -> [Accounts -> Nat]]
    BY <1>5, <2>1, TransferEffect DEF DirectTransfer, Accounts
  <2> QED BY <1>5, <2>2 DEF DirectTransfer, TypeOK
<1>6. CASE UNCHANGED vars
  BY <1>6 DEF vars, TypeOK
<1>7. QED
  BY <1>1, <1>2, <1>3, <1>4, <1>5, <1>6 DEF Next

\* Every reachable state is well typed.
THEOREM VaultTypeCorrect == Spec => []TypeOK
BY TypeInit, TypeNext, PTL DEF Spec


----------------------------------------------------------------------------
(* The bookkeeping invariant *)

\* The sum that EquivalentAt adds up, as a function.
Weighted(pool, table) == [a \in Assets |-> pool.donated[a] * table[a]]

\* Each term of equivalent_of is a natural.
LEMMA WeightedType ==
  ASSUME NEW pool \in Pool, NEW table \in [Assets -> Nat]
  PROVE  \A a \in Assets : Weighted(pool, table)[a] \in Nat
<1> SUFFICES ASSUME NEW a \in Assets PROVE pool.donated[a] * table[a] \in Nat
  BY DEF Weighted
<1>1. pool.donated[a] \in Nat /\ table[a] \in Nat
  BY DEF Pool
<1>2. QED
  BY <1>1

\* equivalent_of is the migrated progress plus a sum of naturals.
LEMMA EquivalentType ==
  ASSUME NEW pool \in Pool, NEW table \in [Assets -> Nat]
  PROVE  /\ EquivalentAt(pool, table) \in Nat
         /\ EquivalentAt(pool, table)
              = pool.initial + SumFunctionOnSet(Weighted(pool, table), Assets)
         /\ SumFunctionOnSet(Weighted(pool, table), Assets) \in Nat
<1>1. SumFunctionOnSet(Weighted(pool, table), Assets) \in Nat
  BY WeightedType, FiniteAssumption, SumNat
<1>2. EquivalentAt(pool, table) = pool.initial + SumFunctionOnSet(Weighted(pool, table), Assets)
  BY DEF EquivalentAt, Weighted
<1>3. QED
  BY <1>1, <1>2 DEF Pool

\* A pool nothing was donated to is worth its migrated progress, whatever the rates.
LEMMA EquivalentUntouched ==
  ASSUME NEW pool \in Pool, NEW table \in [Assets -> Nat],
         \A a \in Assets : pool.donated[a] = 0
  PROVE  EquivalentAt(pool, table) = pool.initial
<1>1. \A a \in Assets : Weighted(pool, table)[a] = 0
  BY DEF Weighted
<1>2. SumFunctionOnSet(Weighted(pool, table), Assets) = 0
  BY <1>1, FiniteAssumption, SumZero
<1>3. QED
  BY <1>2, EquivalentType DEF Pool

IsDonation(pool, new, table, w, a, n, credit) ==
  /\ credit = n * table[a]
  /\ new.initial = pool.initial
  /\ new.donated = [pool.donated EXCEPT ![a] = @ + n]
  /\ new.donors = [pool.donors EXCEPT ![w] = @ + credit]

\* A donation raises the equivalent and the donor's credit by the same amount.
LEMMA DonationBalanced ==
  ASSUME NEW pool \in Pool, NEW table \in [Assets -> Nat], NEW new \in Pool,
         NEW w \in Wallets, NEW a \in Assets, NEW n \in Nat, NEW credit \in Nat,
         IsDonation(pool, new, table, w, a, n, credit)
  PROVE  /\ EquivalentAt(new, table) = EquivalentAt(pool, table) + credit
         /\ SumFunctionOnSet(new.donors, Wallets)
              = SumFunctionOnSet(pool.donors, Wallets) + credit
<1>1. /\ pool.donated \in [Assets -> Nat] /\ pool.donors \in [Wallets -> Nat]
      /\ pool.initial \in Nat /\ credit \in Int
      /\ IsFiniteSet(Assets) /\ IsFiniteSet(Wallets)
  BY FiniteAssumption DEF Pool
<1>2. SumFunctionOnSet(Weighted(new, table), Assets)
        = SumFunctionOnSet(Weighted(pool, table), Assets) + credit
  <2> DEFINE f == Weighted(pool, table)
             g == Weighted(new, table)
  <2>1. \A b \in Assets : f[b] \in Int
    BY WeightedType
  <2>2. ASSUME NEW b \in Assets PROVE g[b] = IF b = a THEN f[b] + credit ELSE f[b]
    <3>1. CASE b # a
      BY <1>1, <3>1 DEF Weighted, IsDonation
    <3>2. CASE b = a
      <4>1. g[b] = (pool.donated[a] + n) * table[a] /\ f[b] = pool.donated[a] * table[a]
        BY <1>1, <3>2 DEF Weighted, IsDonation
      <4>2. pool.donated[a] \in Nat /\ table[a] \in Nat
        BY <1>1
      <4>3. credit = n * table[a]
        BY DEF IsDonation
      <4> QED BY <4>1, <4>2, <4>3, <3>2
    <3> QED BY <3>1, <3>2
  <2>3. IsFiniteSet(Assets) /\ credit \in Int
    BY <1>1
  <2> HIDE DEF f, g
  <2>4. SumFunctionOnSet(g, Assets) = SumFunctionOnSet(f, Assets) + credit
    BY <2>1, <2>2, <2>3, SumChange
  <2> QED BY <2>4 DEF f, g
<1>3. EquivalentAt(new, table) = EquivalentAt(pool, table) + credit
  BY <1>1, <1>2, EquivalentType DEF IsDonation
<1>4. SumFunctionOnSet(new.donors, Wallets) = SumFunctionOnSet(pool.donors, Wallets) + credit
  <2> DEFINE f == pool.donors
             g == new.donors
  <2>1. \A x \in Wallets : f[x] \in Int
    BY <1>1
  <2>2. \A x \in Wallets : g[x] = IF x = w THEN f[x] + credit ELSE f[x]
    BY <1>1 DEF IsDonation
  <2>3. IsFiniteSet(Wallets) /\ credit \in Int
    BY <1>1
  <2> HIDE DEF f, g
  <2>4. SumFunctionOnSet(g, Wallets) = SumFunctionOnSet(f, Wallets) + credit
    BY <2>1, <2>2, <2>3, SumChange
  <2> QED BY <2>4 DEF f, g
<1>5. QED
  BY <1>3, <1>4

Balanced(pool, table) ==
  pool.initial + SumFunctionOnSet(pool.donors, Wallets) = EquivalentAt(pool, table)

\* A pool nobody donated to, just created or waiting for the constructor.
LEMMA UntouchedBalanced ==
  ASSUME NEW pool \in Pool, NEW table \in [Assets -> Nat],
         \A a \in Assets : pool.donated[a] = 0, \A w \in Wallets : pool.donors[w] = 0
  PROVE  Balanced(pool, table)
<1>1. SumFunctionOnSet(pool.donors, Wallets) = 0
  BY FiniteAssumption, SumZero
<1>2. pool.initial \in Nat
  BY DEF Pool
<1>3. QED
  BY <1>1, <1>2, EquivalentUntouched DEF Balanced

\* Before the constructor runs nothing was donated, so the rates it stores do not
\* change what any pool is worth.
LEMMA ConstructorPreserves ==
  ASSUME VInv, TypeOK', NEW args \in ConstructorArgs, Constructor(args[1], args[2])
  PROVE  VInv'
<1>1. /\ TypeOK /\ PoolsOK /\ LeaderboardConserved /\ ~initialised /\ pools' = pools
  BY DEF VInv, Constructor, NotInitialised
<1>2. ASSUME NEW c \in DOMAIN pools, NEW a \in Assets
      PROVE  pools[c].donated[a] = 0 /\ pools[c].withdrawn[a] = 0
  <2>1. pools[c].donated[a] \in Nat /\ pools[c].withdrawn[a] \in Nat
    BY <1>1 DEF TypeOK, Pool
  <2>2. /\ pools[c].withdrawn[a] <= pools[c].donated[a]
        /\ pools[c].donated[a] > 0 => Admitted(a)
    BY <1>1 DEF PoolsOK
  <2> QED BY <1>1, <2>1, <2>2 DEF Admitted
<1>3. PoolsOK'
  <2> SUFFICES ASSUME NEW c \in DOMAIN pools, NEW a \in Assets
               PROVE  0 <= 0 /\ Fits(pools[c].donated[a]) /\ ~ (0 > 0)
    BY <1>1, <1>2 DEF PoolsOK, Fits
  <2> QED BY <1>1 DEF PoolsOK
<1>4. ASSUME NEW c \in DOMAIN pools PROVE Balanced(pools[c], rates')
  <2>1. pools[c] \in Pool /\ rates \in [Assets -> Nat] /\ rates' \in [Assets -> Nat]
    BY <1>1 DEF TypeOK
  <2>2. /\ EquivalentAt(pools[c], rates) = pools[c].initial
        /\ EquivalentAt(pools[c], rates') = pools[c].initial
    BY <1>2, <2>1, EquivalentUntouched
  <2>3. pools[c].initial + SumFunctionOnSet(pools[c].donors, Wallets) = EquivalentAt(pools[c], rates)
    BY <1>1 DEF LeaderboardConserved, Credited, Equivalent
  <2> QED BY <2>2, <2>3 DEF Balanced
<1>5. LeaderboardConserved'
  BY <1>1, <1>4 DEF LeaderboardConserved, Credited, Equivalent, Balanced
<1>6. QED
  BY <1>3, <1>5 DEF VInv

\* A new pool starts with nothing donated and nobody credited.
LEMMA CreatePoolPreserves ==
  ASSUME VInv, TypeOK', NEW c \in ShortCodes, NEW w \in Wallets, NEW g \in Goals,
         NEW i \in Initials, CreatePool(c, w, g, i)
  PROVE  VInv'
<1>1. /\ TypeOK /\ PoolsOK /\ LeaderboardConserved
      /\ initialised' = initialised /\ rates' = rates
      /\ DOMAIN pools' = DOMAIN pools \cup {c} /\ c \notin DOMAIN pools
      /\ \A d \in DOMAIN pools : pools'[d] = pools[d]
  BY DEF VInv, CreatePool, UnusedCode
<1>2. /\ pools'[c].donated = [a \in Assets |-> 0]
      /\ pools'[c].withdrawn = [a \in Assets |-> 0]
      /\ pools'[c].donors = [x \in Wallets |-> 0]
  BY DEF CreatePool
<1>3. PoolsOK'
  <2>1. ASSUME NEW a \in Assets
        PROVE  /\ pools'[c].withdrawn[a] <= pools'[c].donated[a]
               /\ Fits(pools'[c].donated[a])
               /\ ~ (pools'[c].donated[a] > 0)
    BY <1>2, WidthAssumption DEF Fits
  <2>2. ASSUME NEW d \in DOMAIN pools, NEW a \in Assets
        PROVE  /\ pools'[d].withdrawn[a] <= pools'[d].donated[a]
               /\ Fits(pools'[d].donated[a])
               /\ pools'[d].donated[a] > 0 => Admitted(a)'
    BY <1>1 DEF PoolsOK, Admitted
  <2> QED BY <1>1, <2>1, <2>2 DEF PoolsOK
<1>4. ASSUME NEW d \in DOMAIN pools' PROVE Balanced(pools'[d], rates')
  <2>1. CASE d = c
    <3>1. pools'[c] \in Pool /\ rates' \in [Assets -> Nat]
      BY <1>1 DEF TypeOK
    <3> QED BY <1>2, <2>1, <3>1, UntouchedBalanced
  <2>2. CASE d # c
    BY <1>1, <2>2 DEF LeaderboardConserved, Credited, Equivalent, Balanced
  <2> QED BY <2>1, <2>2
<1>5. LeaderboardConserved'
  BY <1>4 DEF LeaderboardConserved, Credited, Equivalent, Balanced
<1>6. QED
  BY <1>3, <1>5 DEF VInv

\* The two maps a deposit updates grow together.
LEMMA DepositPreserves ==
  ASSUME VInv, TypeOK', NEW c \in ShortCodes, NEW w \in Wallets, NEW a \in Assets,
         NEW n \in Amounts, Deposit(c, w, a, n)
  PROVE  VInv'
<1> DEFINE new == WithDonation(pools[c], w, a, n)
<1>1. /\ TypeOK /\ PoolsOK /\ LeaderboardConserved
      /\ initialised' = initialised /\ rates' = rates /\ Admitted(a)
      /\ Fits(pools[c].donated[a] + n)
  BY DEF VInv, Deposit
<1>2. /\ n \in Nat /\ c \in DOMAIN pools /\ new \in Pool /\ pools[c] \in Pool
      /\ rates \in [Assets -> Nat] /\ DOMAIN pools' = DOMAIN pools
      /\ pools'[c] = new /\ \A d \in DOMAIN pools : d # c => pools'[d] = pools[d]
  BY <1>1, DepositEffect DEF TypeOK
<1>3. /\ new.donated = [pools[c].donated EXCEPT ![a] = @ + n]
      /\ new.donors = [pools[c].donors EXCEPT ![w] = @ + Credit(a, n)]
      /\ new.withdrawn = pools[c].withdrawn /\ new.initial = pools[c].initial
  BY <1>2 DEF WithDonation, Pool
<1>4. PoolsOK'
  <2>1. ASSUME NEW d \in DOMAIN pools, NEW b \in Assets, d # c \/ b # a
        PROVE  /\ pools'[d].withdrawn[b] = pools[d].withdrawn[b]
               /\ pools'[d].donated[b] = pools[d].donated[b]
    BY <1>2, <1>3, <2>1 DEF Pool
  <2>2. /\ pools'[c].withdrawn[a] = pools[c].withdrawn[a]
        /\ pools'[c].donated[a] = pools[c].donated[a] + n
        /\ pools[c].donated[a] \in Nat /\ pools[c].withdrawn[a] \in Nat
    BY <1>2, <1>3 DEF Pool
  <2>3. pools'[c].withdrawn[a] <= pools'[c].donated[a] /\ Fits(pools'[c].donated[a])
    BY <1>1, <1>2, <2>2 DEF PoolsOK
  <2>4. \A b \in Assets : Admitted(b)' <=> Admitted(b)
    BY <1>1 DEF Admitted
  <2> QED BY <1>1, <1>2, <2>1, <2>3, <2>4 DEF PoolsOK
<1>5. Balanced(new, rates)
  <2>1. Credit(a, n) \in Nat /\ Credit(a, n) = n * rates[a]
    BY <1>2 DEF Credit
  <2>2. IsDonation(pools[c], new, rates, w, a, n, Credit(a, n))
    BY <1>3, <2>1 DEF IsDonation
  <2> HIDE DEF new
  <2>3. /\ EquivalentAt(new, rates) = EquivalentAt(pools[c], rates) + Credit(a, n)
        /\ SumFunctionOnSet(new.donors, Wallets)
             = SumFunctionOnSet(pools[c].donors, Wallets) + Credit(a, n)
    BY <1>2, <2>1, <2>2, DonationBalanced
  <2>4. pools[c].initial + SumFunctionOnSet(pools[c].donors, Wallets) = EquivalentAt(pools[c], rates)
    BY <1>1, <1>2 DEF LeaderboardConserved, Credited, Equivalent
  <2>5. /\ pools[c].initial \in Int
        /\ \A x \in Wallets : pools[c].donors[x] \in Nat
    BY <1>2 DEF Pool
  <2>6. SumFunctionOnSet(pools[c].donors, Wallets) \in Nat
    BY <2>5, FiniteAssumption, SumNat
  <2> QED BY <1>3, <2>1, <2>3, <2>4, <2>5, <2>6 DEF Balanced, new
<1>6. ASSUME NEW d \in DOMAIN pools' PROVE Balanced(pools'[d], rates')
  <2>1. CASE d = c
    BY <1>1, <1>2, <1>5, <2>1
  <2>2. CASE d # c
    BY <1>1, <1>2, <2>2 DEF LeaderboardConserved, Credited, Equivalent, Balanced
  <2> QED BY <2>1, <2>2
<1>7. LeaderboardConserved'
  BY <1>6 DEF LeaderboardConserved, Credited, Equivalent, Balanced
<1>8. QED
  BY <1>4, <1>7 DEF VInv

\* A withdrawal stays within what was donated and touches neither side of the
\* leaderboard's equation.
LEMMA WithdrawPreserves ==
  ASSUME VInv, TypeOK', NEW c \in ShortCodes, NEW w \in Wallets, NEW a \in Assets,
         NEW to \in Accounts, NEW n \in Amounts, Withdraw(c, w, a, to, n)
  PROVE  VInv'
<1> DEFINE new == WithWithdrawal(pools[c], a, n)
<1>1. /\ TypeOK /\ PoolsOK /\ LeaderboardConserved
      /\ initialised' = initialised /\ rates' = rates
      /\ WithinDonated(pools[c], a, n)
  BY DEF VInv, Withdraw, MayWithdraw
<1>2. /\ n \in Nat /\ c \in DOMAIN pools /\ pools[c] \in Pool /\ DOMAIN pools' = DOMAIN pools
      /\ pools'[c] = new /\ \A d \in DOMAIN pools : d # c => pools'[d] = pools[d]
  BY <1>1, WithdrawEffect DEF TypeOK
<1>3. /\ new.withdrawn = [pools[c].withdrawn EXCEPT ![a] = @ + n]
      /\ new.donated = pools[c].donated /\ new.donors = pools[c].donors
      /\ new.initial = pools[c].initial
  BY <1>2 DEF WithWithdrawal, Pool
<1>4. PoolsOK'
  <2>1. ASSUME NEW d \in DOMAIN pools, NEW b \in Assets, d # c \/ b # a
        PROVE  /\ pools'[d].withdrawn[b] = pools[d].withdrawn[b]
               /\ pools'[d].donated[b] = pools[d].donated[b]
    BY <1>2, <1>3, <2>1 DEF Pool
  <2>2. /\ pools'[c].withdrawn[a] <= pools'[c].donated[a]
        /\ pools'[c].donated[a] = pools[c].donated[a]
    BY <1>1, <1>2, <1>3 DEF WithinDonated, Pool
  <2>3. \A b \in Assets : Admitted(b)' <=> Admitted(b)
    BY <1>1 DEF Admitted
  <2> QED BY <1>1, <1>2, <2>1, <2>2, <2>3 DEF PoolsOK
<1>5. ASSUME NEW d \in DOMAIN pools' PROVE Balanced(pools'[d], rates')
  <2>1. Balanced(pools[d], rates)
    BY <1>1, <1>2 DEF LeaderboardConserved, Credited, Equivalent, Balanced
  <2>2. CASE d = c
    BY <1>1, <1>2, <1>3, <2>1, <2>2 DEF Balanced, EquivalentAt
  <2>3. CASE d # c
    BY <1>1, <1>2, <2>1, <2>3
  <2> QED BY <2>2, <2>3
<1>6. LeaderboardConserved'
  BY <1>5 DEF LeaderboardConserved, Credited, Equivalent, Balanced
<1>7. QED
  BY <1>4, <1>6 DEF VInv

\* The undeployed vault satisfies the bookkeeping invariant.
LEMMA InvInit == Init => VInv
<1>1. Init => PoolsOK /\ LeaderboardConserved
  BY DEF Init, PoolsOK, LeaderboardConserved
<1>2. QED
  BY <1>1, TypeInit DEF VInv

\* Every entry point keeps the bookkeeping invariant.
LEMMA InvNext == VInv /\ [Next]_vars => VInv'
<1> SUFFICES ASSUME VInv, [Next]_vars PROVE VInv'
  OBVIOUS
<1>1. TypeOK'
  BY TypeNext DEF VInv
<1>2. ASSUME UNCHANGED <<initialised, rates, pools>> PROVE VInv'
  BY <1>1, <1>2 DEF VInv, PoolsOK, LeaderboardConserved, Admitted, Credited, Equivalent
<1>3. ASSUME NEW a \in Assets, NEW w \in Wallets, NEW to \in Accounts, NEW n \in Amounts,
             DirectTransfer(a, w, to, n)
      PROVE  VInv'
  BY <1>2, <1>3 DEF DirectTransfer
<1>4. CASE UNCHANGED vars
  BY <1>2, <1>4 DEF vars
<1>5. QED
  BY <1>1, <1>3, <1>4, ConstructorPreserves, CreatePoolPreserves, DepositPreserves,
     WithdrawPreserves DEF Next

\* The bookkeeping invariant holds in every reachable state of the vault.
LEMMA VaultInvariant == Spec => []VInv
BY InvInit, InvNext, PTL DEF Spec

\* The donors' credits and the migrated progress always add up to the progress
\* that closes the goal, for every set of rates the constructor accepted.
THEOREM VaultLeaderboardConserved == Spec => []LeaderboardConserved
<1>1. VInv => LeaderboardConserved
  BY DEF VInv
<1>2. QED
  BY <1>1, VaultInvariant, PTL

----------------------------------------------------------------------------
(* The vault implements the escrow *)

Pot(c) == [a \in Assets |-> Available(c, a)]
Pots == [c \in ShortCodes |-> Pot(c)]
Held == [a \in Assets |-> balance[a][VaultAddress]]
Owner == [c \in DOMAIN pools |-> pools[c].owner]

\* Two tables of pots that differ in one entry, as EXCEPT writes it.
LEMMA OnePotChanged ==
  ASSUME NEW f \in [ShortCodes -> [Assets -> Int]], NEW g \in [ShortCodes -> [Assets -> Int]],
         NEW c \in ShortCodes, NEW a \in Assets, NEW v \in Int,
         \A x \in ShortCodes, b \in Assets : g[x][b] = IF x = c /\ b = a THEN v ELSE f[x][b]
  PROVE  g = [f EXCEPT ![c] = [f[c] EXCEPT ![a] = v]]
<1> DEFINE h == [f EXCEPT ![c] = [f[c] EXCEPT ![a] = v]]
<1>1. h \in [ShortCodes -> [Assets -> Int]]
  OBVIOUS
<1>2. \A x \in ShortCodes, b \in Assets : h[x][b] = IF x = c /\ b = a THEN v ELSE f[x][b]
  OBVIOUS
<1>3. ASSUME NEW x \in ShortCodes PROVE g[x] = h[x]
  <2>1. g[x] \in [Assets -> Int] /\ h[x] \in [Assets -> Int]
    BY <1>1
  <2>2. \A b \in Assets : g[x][b] = h[x][b]
    BY <1>2
  <2> HIDE DEF h
  <2> QED BY <2>1, <2>2
<1>4. QED
  BY <1>1, <1>3

\* What is available in the pots, and that withdrawing never owes a pot less than
\* nothing: PoolsOK.
PotsOK == Pots \in [ShortCodes -> [Assets -> Nat]]

\* No pool has withdrawn more than it was donated: the pots are naturals.
LEMMA PotsType == VInv => PotsOK
<1> SUFFICES ASSUME VInv PROVE PotsOK
  OBVIOUS
<1>1. ASSUME NEW c \in ShortCodes, NEW a \in Assets PROVE Available(c, a) \in Nat
  <2>1. CASE c \in DOMAIN pools
    <3>1. pools[c].donated[a] \in Nat /\ pools[c].withdrawn[a] \in Nat
      BY <2>1 DEF VInv, TypeOK, Pool
    <3>2. pools[c].withdrawn[a] <= pools[c].donated[a]
      BY <2>1 DEF VInv, PoolsOK
    <3> QED BY <2>1, <3>1, <3>2 DEF Available
  <2>2. CASE c \notin DOMAIN pools
    BY <2>2 DEF Available
  <2> QED BY <2>1, <2>2
<1>2. QED
  BY <1>1 DEF PotsOK, Pots, Pot

\* So a pool's claim is exactly what pool_info reports as available.
LEMMA ClaimIsAvailable ==
  ASSUME VInv, NEW c \in ShortCodes, NEW a \in Assets
  PROVE  Claim(c, a) = Available(c, a)
<1>1. Available(c, a) \in Nat
  BY PotsType DEF PotsOK, Pots, Pot
<1>2. QED
  BY <1>1 DEF Claim

\* The same of the next state.
LEMMA PotsTypeNext == VInv' => PotsOK'
BY PotsType, PTL

\* The initial vault is the empty escrow.
LEMMA RefinesInit == Init => E!Init
<1> SUFFICES ASSUME Init PROVE E!Init
  OBVIOUS
<1>1. Owner = [p \in {} |-> 0]
  BY DEF Owner, Init
<1>2. Pots = [c \in ShortCodes |-> [a \in Assets |-> 0]]
  BY DEF Pots, Pot, Available, Init
<1>3. Held = [a \in Assets |-> 0]
  BY DEF Held, Init, Accounts
<1>4. QED
  BY <1>1, <1>2, <1>3 DEF E!Init, Owner, Pots, Pot, Held

\* The entry points, seen from the escrow.  Constructor changes none of its
\* variables; DirectTransfer is a Gift when the vault receives it.
LEMMA CreatePoolOpens ==
  ASSUME VInv, VInv', NEW c \in ShortCodes, NEW w \in Wallets, NEW g \in Goals,
         NEW i \in Initials, CreatePool(c, w, g, i)
  PROVE  E!Open(c, w)
<1>1. /\ c \notin DOMAIN pools /\ DOMAIN pools' = DOMAIN pools \cup {c}
      /\ \A d \in DOMAIN pools : pools'[d] = pools[d]
      /\ pools'[c].owner = w
      /\ \A a \in Assets : pools'[c].donated[a] = 0 /\ pools'[c].withdrawn[a] = 0
      /\ balance' = balance
  BY DEF CreatePool, UnusedCode
<1>2. Owner' = [d \in DOMAIN Owner \cup {c} |-> IF d = c THEN w ELSE Owner[d]]
  BY <1>1 DEF Owner
<1>3. ASSUME NEW d \in ShortCodes, NEW a \in Assets PROVE Available(d, a)' = Available(d, a)
  <2>1. CASE d = c
    BY <1>1, <2>1 DEF Available
  <2>2. CASE d # c
    BY <1>1, <2>2 DEF Available
  <2> QED BY <2>1, <2>2
<1>4. Pots' = Pots
  BY <1>3 DEF Pots, Pot
<1>5. Held' = Held
  BY <1>1 DEF Held
<1>6. c \notin DOMAIN Owner
  BY <1>1 DEF Owner
<1>7. QED
  BY <1>2, <1>4, <1>5, <1>6 DEF E!Open, Owner, Pots, Pot, Held

\* A deposit puts the amount into the pool's pot and into the purse.
LEMMA DepositPuts ==
  ASSUME VInv, VInv', NEW c \in ShortCodes, NEW w \in Wallets, NEW a \in Assets,
         NEW n \in Amounts, Deposit(c, w, a, n)
  PROVE  E!Put(c, a, n)
<1> DEFINE new == WithDonation(pools[c], w, a, n)
<1>0. TypeOK /\ TypeOK'
  BY DEF VInv
<1>1. /\ n \in Nat /\ c \in DOMAIN pools /\ new \in Pool /\ pools[c] \in Pool
      /\ DOMAIN pools' = DOMAIN pools
      /\ pools'[c] = new /\ \A d \in DOMAIN pools : d # c => pools'[d] = pools[d]
  BY <1>0, DepositEffect DEF TypeOK
<1>2. /\ new.donated = [pools[c].donated EXCEPT ![a] = @ + n]
      /\ new.withdrawn = pools[c].withdrawn /\ new.owner = pools[c].owner
  BY <1>1 DEF WithDonation, Pool
<1>3. Owner' = Owner
  BY <1>1, <1>2 DEF Owner
<1>4. Pots' = [Pots EXCEPT ![c] = [Pots[c] EXCEPT ![a] = Pots[c][a] + n]]
  <2>1. ASSUME NEW d \in ShortCodes, NEW b \in Assets
        PROVE  Available(d, b)' = IF d = c /\ b = a THEN Available(c, a) + n ELSE Available(d, b)
    <3>1. CASE d = c
      <4>1. /\ pools[c].donated[b] \in Nat /\ pools[c].withdrawn[b] \in Nat
            /\ pools'[c].withdrawn[b] = pools[c].withdrawn[b]
            /\ pools'[c].donated[b] = IF b = a THEN pools[c].donated[b] + n ELSE pools[c].donated[b]
        BY <1>1, <1>2 DEF Pool
      <4> HIDE DEF new
      <4> QED BY <1>1, <3>1, <4>1 DEF Available
    <3>2. CASE d # c
      BY <1>1, <3>2 DEF Available
    <3> QED BY <3>1, <3>2
  <2>2. /\ Pots \in [ShortCodes -> [Assets -> Int]] /\ Pots' \in [ShortCodes -> [Assets -> Int]]
        /\ Pots[c][a] + n \in Int
    BY <1>1, PotsType, PotsTypeNext DEF PotsOK
  <2>3. \A d \in ShortCodes, b \in Assets :
           Pots'[d][b] = IF d = c /\ b = a THEN Pots[c][a] + n ELSE Pots[d][b]
    BY <2>1 DEF Pots, Pot
  <2> QED BY <2>2, <2>3, OnePotChanged
<1>5. Held' = [Held EXCEPT ![a] = Held[a] + n]
  <2>1. /\ w \in Accounts /\ VaultAddress \in Accounts /\ w # VaultAddress
        /\ Transfer(a, w, VaultAddress, n)
    BY AddressAssumption DEF Accounts, Deposit
  <2>2. /\ balance'[a][VaultAddress] = balance[a][VaultAddress] + n
        /\ \A b \in Assets : b # a => balance'[b] = balance[b]
    BY <1>0, <1>1, <2>1, TransferEffect
  <2> QED BY <2>2 DEF Held
<1>6. c \in DOMAIN Owner
  BY <1>1 DEF Owner
<1>7. QED
  BY <1>3, <1>4, <1>5, <1>6 DEF E!Put, Owner, Pots, Pot, Held

\* A withdrawal takes the amount out of the pot, and out of the purse unless the
\* owner sends it to the vault's own address.
LEMMA WithdrawTakes ==
  ASSUME VInv, VInv', NEW c \in ShortCodes, NEW w \in Wallets, NEW a \in Assets,
         NEW to \in Accounts, NEW n \in Amounts, Withdraw(c, w, a, to, n)
  PROVE  E!Take(c, a, n)
<1> DEFINE new == WithWithdrawal(pools[c], a, n)
<1>0. TypeOK /\ TypeOK'
  BY DEF VInv
<1>1. /\ n \in Nat /\ c \in DOMAIN pools /\ new \in Pool /\ pools[c] \in Pool
      /\ DOMAIN pools' = DOMAIN pools
      /\ pools'[c] = new /\ \A d \in DOMAIN pools : d # c => pools'[d] = pools[d]
  BY <1>0, WithdrawEffect DEF TypeOK
<1>2. /\ new.withdrawn = [pools[c].withdrawn EXCEPT ![a] = @ + n]
      /\ new.donated = pools[c].donated /\ new.owner = pools[c].owner
  BY <1>1 DEF WithWithdrawal, Pool
<1>3. Owner' = Owner
  BY <1>1, <1>2 DEF Owner
<1>4. Pots' = [Pots EXCEPT ![c] = [Pots[c] EXCEPT ![a] = Pots[c][a] - n]]
  <2>1. ASSUME NEW d \in ShortCodes, NEW b \in Assets
        PROVE  Available(d, b)' = IF d = c /\ b = a THEN Available(c, a) - n ELSE Available(d, b)
    <3>1. CASE d = c
      <4>1. /\ pools[c].donated[b] \in Nat /\ pools[c].withdrawn[b] \in Nat
            /\ pools'[c].donated[b] = pools[c].donated[b]
            /\ pools'[c].withdrawn[b]
                 = IF b = a THEN pools[c].withdrawn[b] + n ELSE pools[c].withdrawn[b]
        BY <1>1, <1>2 DEF Pool
      <4> HIDE DEF new
      <4> QED BY <1>1, <3>1, <4>1 DEF Available
    <3>2. CASE d # c
      BY <1>1, <3>2 DEF Available
    <3> QED BY <3>1, <3>2
  <2>2. /\ Pots \in [ShortCodes -> [Assets -> Int]] /\ Pots' \in [ShortCodes -> [Assets -> Int]]
        /\ Pots[c][a] - n \in Int
    BY <1>1, PotsType, PotsTypeNext DEF PotsOK
  <2>3. \A d \in ShortCodes, b \in Assets :
           Pots'[d][b] = IF d = c /\ b = a THEN Pots[c][a] - n ELSE Pots[d][b]
    BY <2>1 DEF Pots, Pot
  <2> QED BY <2>2, <2>3, OnePotChanged
<1>5. Held' \in {Held, [Held EXCEPT ![a] = Held[a] - n]}
  <2>1. VaultAddress \in Accounts /\ Transfer(a, VaultAddress, to, n)
    BY DEF Accounts, Withdraw
  <2>2. /\ \A b \in Assets : b # a => balance'[b] = balance[b]
        /\ to # VaultAddress => balance'[a][VaultAddress] = balance[a][VaultAddress] - n
        /\ to = VaultAddress => balance'[a][VaultAddress] = balance[a][VaultAddress]
    BY <1>0, <1>1, <2>1, TransferEffect
  <2>3. CASE to = VaultAddress
    BY <2>2, <2>3 DEF Held
  <2>4. CASE to # VaultAddress
    BY <2>2, <2>4 DEF Held
  <2> QED BY <2>3, <2>4
<1>6. n <= Pots[c][a]
  <2>1. pools[c].withdrawn[a] + n <= pools[c].donated[a]
    BY DEF Withdraw, MayWithdraw, WithinDonated
  <2>2. pools[c].donated[a] \in Nat /\ pools[c].withdrawn[a] \in Nat
    BY <1>1 DEF Pool
  <2> QED BY <1>1, <2>1, <2>2 DEF Pots, Pot, Available
<1>7. c \in DOMAIN Owner
  BY <1>1 DEF Owner
<1>8. QED
  BY <1>3, <1>4, <1>5, <1>6, <1>7 DEF E!Take, Owner, Pots, Pot, Held

\* A direct transfer to the vault is a gift; any other one is a stutter.
LEMMA TransferGives ==
  ASSUME VInv, VInv', NEW a \in Assets, NEW w \in Wallets, NEW to \in Accounts,
         NEW n \in Amounts, DirectTransfer(a, w, to, n)
  PROVE  E!Gift(a, n) \/ UNCHANGED <<Owner, Pots, Held>>
<1>0. TypeOK
  BY DEF VInv
<1>1. /\ n \in Nat /\ w \in Accounts /\ VaultAddress \in Accounts /\ w # VaultAddress
      /\ Transfer(a, w, to, n) /\ pools' = pools
  BY AddressAssumption, InputAssumption DEF DirectTransfer, Accounts
<1>2. Owner' = Owner /\ Pots' = Pots
  BY <1>1 DEF Owner, Pots, Pot, Available
<1>3. \A b \in Assets : b # a => balance'[b] = balance[b]
  BY <1>0, <1>1, TransferEffect
<1>4. CASE to = VaultAddress
  <2>1. balance'[a][VaultAddress] = balance[a][VaultAddress] + n
    BY <1>0, <1>1, <1>4, TransferEffect
  <2>2. Held' = [Held EXCEPT ![a] = Held[a] + n]
    BY <1>3, <2>1 DEF Held
  <2> QED BY <1>2, <2>2 DEF E!Gift, Owner, Pots, Pot, Held
<1>5. CASE to # VaultAddress
  <2>1. balance'[a][VaultAddress] = balance[a][VaultAddress]
    BY <1>0, <1>1, <1>5, TransferEffect
  <2>2. Held' = Held
    BY <1>3, <2>1 DEF Held
  <2> QED BY <1>2, <2>2
<1>6. QED
  BY <1>4, <1>5

\* Every step of the vault is a step of the escrow or leaves it unchanged.
LEMMA RefinesNext == VInv /\ VInv' /\ [Next]_vars => [E!Next]_(E!escrowVars)
<1> SUFFICES ASSUME VInv, VInv', [Next]_vars PROVE [E!Next]_(E!escrowVars)
  OBVIOUS
<1>1. ASSUME UNCHANGED <<Owner, Pots, Held>> PROVE UNCHANGED E!escrowVars
  BY <1>1 DEF E!escrowVars, Owner, Pots, Pot, Held
<1>2. ASSUME NEW args \in ConstructorArgs, Constructor(args[1], args[2])
      PROVE  UNCHANGED <<Owner, Pots, Held>>
  BY <1>2 DEF Constructor, Owner, Pots, Pot, Held, Available
<1>3. ASSUME NEW c \in ShortCodes, NEW w \in Wallets, NEW g \in Goals, NEW i \in Initials,
             CreatePool(c, w, g, i)
      PROVE  E!Next
  BY <1>3, CreatePoolOpens DEF E!Next
<1>4. ASSUME NEW c \in ShortCodes, NEW w \in Wallets, NEW a \in Assets, NEW n \in Amounts,
             Deposit(c, w, a, n)
      PROVE  E!Next
  <2>1. n > 0
    BY <1>4 DEF Deposit
  <2> QED BY <1>4, <2>1, DepositPuts DEF E!Next
<1>5. ASSUME NEW c \in ShortCodes, NEW w \in Wallets, NEW a \in Assets, NEW to \in Accounts,
             NEW n \in Amounts, Withdraw(c, w, a, to, n)
      PROVE  E!Next
  <2>1. n > 0
    BY <1>5 DEF Withdraw, MayWithdraw
  <2> QED BY <1>5, <2>1, WithdrawTakes DEF E!Next
<1>6. ASSUME NEW a \in Assets, NEW w \in Wallets, NEW to \in Accounts, NEW n \in Amounts,
             DirectTransfer(a, w, to, n)
      PROVE  E!Next \/ UNCHANGED <<Owner, Pots, Held>>
  <2>1. n > 0
    BY <1>6 DEF DirectTransfer
  <2> QED BY <1>6, <2>1, TransferGives DEF E!Next
<1>7. CASE UNCHANGED vars
  BY <1>1, <1>7 DEF vars, Owner, Pots, Pot, Held, Available
<1>8. QED
  BY <1>1, <1>2, <1>3, <1>4, <1>5, <1>6, <1>7 DEF Next

\* Seen through its pools' availability and its token balance, every behaviour of
\* the contract is a behaviour of the escrow.
THEOREM VaultImplementsEscrow == Spec => EscrowSpec
BY RefinesInit, RefinesNext, VaultInvariant, PTL DEF Spec, EscrowSpec, E!Spec

----------------------------------------------------------------------------
(* The escrow is solvent *)

\* Taking money out must not overdraw the purse, which needs solvency, and solvency
\* needs the types: they are one invariant of the escrow.
OwedIn(a) == SumFunctionOnSet([p \in ShortCodes |-> Pots[p][a]], ShortCodes)
HeldOK == Held \in [Assets -> Nat]
EInv == PotsOK /\ HeldOK /\ \A a \in Assets : OwedIn(a) <= Held[a]

\* What the escrow calls owed is the sum of the pots.
LEMMA EscrowOwed == ASSUME NEW a \in Assets PROVE E!Owed(a) = OwedIn(a)
<1>1. ASSUME NEW f, NEW S PROVE E!SumFunctionOnSet(f, S) = SumFunctionOnSet(f, S)
  BY DEF E!SumFunctionOnSet, E!FoldFunctionOnSet, E!MapThenFoldSet,
     SumFunctionOnSet, FoldFunctionOnSet, MapThenFoldSet
<1> QED
  BY <1>1 DEF E!Owed, OwedIn, Pots, Pot

\* The sum of the pots of one asset, after one pot changed by d.
LEMMA OwedChange ==
  ASSUME PotsOK, NEW p \in ShortCodes, NEW a \in Assets, NEW d \in Int,
         \A q \in ShortCodes : Pots'[q][a] = IF q = p THEN Pots[q][a] + d ELSE Pots[q][a]
  PROVE  OwedIn(a)' = OwedIn(a) + d
<1> DEFINE f == [q \in ShortCodes |-> Pots[q][a]]
           g == [q \in ShortCodes |-> Pots'[q][a]]
<1>1. \A q \in ShortCodes : f[q] \in Int
  BY DEF PotsOK
<1>2. \A q \in ShortCodes : g[q] = IF q = p THEN f[q] + d ELSE f[q]
  OBVIOUS
<1> HIDE DEF f, g
<1>3. SumFunctionOnSet(g, ShortCodes) = SumFunctionOnSet(f, ShortCodes) + d
  BY <1>1, <1>2, SumChange, FiniteAssumption
<1>4. QED
  BY <1>3 DEF OwedIn, f, g

\* An asset whose pots did not change is owed the same.
LEMMA OwedSame ==
  ASSUME NEW a \in Assets, \A q \in ShortCodes : Pots'[q][a] = Pots[q][a]
  PROVE  OwedIn(a)' = OwedIn(a)
<1>1. [q \in ShortCodes |-> Pots'[q][a]] = [q \in ShortCodes |-> Pots[q][a]]
  OBVIOUS
<1>2. QED
  BY <1>1 DEF OwedIn

\* What is owed is a natural, and no pot holds more than what is owed in all.
LEMMA OwedType ==
  ASSUME PotsOK, NEW a \in Assets
  PROVE  /\ OwedIn(a) \in Nat
         /\ \A p \in ShortCodes : Pots[p][a] <= OwedIn(a)
<1> DEFINE f == [q \in ShortCodes |-> Pots[q][a]]
<1>1. \A q \in ShortCodes : f[q] \in Nat
  BY DEF PotsOK
<1>2. /\ SumFunctionOnSet(f, ShortCodes) \in Nat
      /\ \A p \in ShortCodes : f[p] <= SumFunctionOnSet(f, ShortCodes)
  <2> HIDE DEF f
  <2> QED BY <1>1, SumNat, SumBoundsMember, FiniteAssumption
<1>3. QED
  BY <1>2 DEF OwedIn

\* The empty escrow owes nothing.
LEMMA EscrowInit == E!Init => EInv
<1> SUFFICES ASSUME E!Init PROVE EInv
  OBVIOUS
<1>1. Pots = [c \in ShortCodes |-> [a \in Assets |-> 0]] /\ Held = [a \in Assets |-> 0]
  BY DEF E!Init, Pots, Pot, Held
<1>2. ASSUME NEW a \in Assets PROVE OwedIn(a) = 0
  <2> DEFINE f == [q \in ShortCodes |-> Pots[q][a]]
  <2>1. \A q \in ShortCodes : f[q] = 0
    BY <1>1
  <2>2. SumFunctionOnSet(f, ShortCodes) = 0
    <3> HIDE DEF f
    <3> QED BY <2>1, SumZero, FiniteAssumption
  <2>3. QED
    BY <2>2 DEF OwedIn
<1>3. QED
  BY <1>1, <1>2 DEF EInv, PotsOK, HeldOK

\* Every step of the escrow keeps the purse able to pay: money enters and leaves a pot
\* together with the purse.
LEMMA EscrowNext == EInv /\ [E!Next]_(E!escrowVars) => EInv'
<1> SUFFICES ASSUME EInv, [E!Next]_(E!escrowVars) PROVE EInv'
  OBVIOUS
<1>0. PotsOK /\ HeldOK /\ \A a \in Assets : OwedIn(a) <= Held[a]
  BY DEF EInv
<1>1. \A n \in Amounts : n > 0 => n \in Nat /\ -n \in Int
  BY InputAssumption
<1>2. CASE UNCHANGED <<Pots, Held>>
  BY <1>0, <1>2, OwedSame DEF EInv, PotsOK, HeldOK
<1>3. ASSUME NEW p \in ShortCodes, NEW a \in Assets, NEW n \in Amounts, n > 0, E!Put(p, a, n)
      PROVE  EInv'
  <2>1. /\ Pots' = [Pots EXCEPT ![p] = [Pots[p] EXCEPT ![a] = Pots[p][a] + n]]
        /\ Held' = [Held EXCEPT ![a] = Held[a] + n]
    BY <1>3 DEF E!Put, Pots, Pot, Held
  <2>2. PotsOK' /\ HeldOK'
    BY <1>0, <1>1, <1>3, <2>1 DEF PotsOK, HeldOK
  <2>3. OwedIn(a)' = OwedIn(a) + n /\ Held'[a] = Held[a] + n
    <3>1. \A q \in ShortCodes : Pots'[q][a] = IF q = p THEN Pots[q][a] + n ELSE Pots[q][a]
      BY <1>0, <2>1 DEF PotsOK
    <3>2. OwedIn(a)' = OwedIn(a) + n
      BY <1>0, <1>1, <1>3, <3>1, OwedChange
    <3> QED BY <1>0, <2>1, <3>2 DEF HeldOK
  <2>4. ASSUME NEW b \in Assets, b # a PROVE OwedIn(b)' = OwedIn(b) /\ Held'[b] = Held[b]
    <3>1. \A q \in ShortCodes : Pots'[q][b] = Pots[q][b]
      BY <1>0, <2>1, <2>4 DEF PotsOK
    <3> QED BY <1>0, <2>1, <2>4, <3>1, OwedSame DEF HeldOK
  <2>5. \A b \in Assets : (OwedIn(b) <= Held[b])'
    BY <1>0, <1>1, <1>3, <2>3, <2>4, OwedType DEF HeldOK
  <2> QED BY <2>2, <2>5 DEF EInv
<1>4. ASSUME NEW p \in ShortCodes, NEW a \in Assets, NEW n \in Amounts, n > 0, E!Take(p, a, n)
      PROVE  EInv'
  <2>1. /\ Pots' = [Pots EXCEPT ![p] = [Pots[p] EXCEPT ![a] = Pots[p][a] - n]]
        /\ Held' \in {Held, [Held EXCEPT ![a] = Held[a] - n]}
        /\ n <= Pots[p][a]
    BY <1>4 DEF E!Take, Pots, Pot, Held
  <2>2. n <= Held[a]
    BY <1>0, <1>1, <1>4, <2>1, OwedType DEF PotsOK, HeldOK
  <2>3. PotsOK' /\ HeldOK'
    BY <1>0, <1>1, <1>4, <2>1, <2>2 DEF PotsOK, HeldOK
  <2>4. OwedIn(a)' = OwedIn(a) - n /\ Held'[a] \in {Held[a], Held[a] - n}
    <3>1. \A q \in ShortCodes : Pots'[q][a] = IF q = p THEN Pots[q][a] + (-n) ELSE Pots[q][a]
      BY <1>0, <1>1, <1>4, <2>1 DEF PotsOK
    <3>2. OwedIn(a)' = OwedIn(a) + (-n)
      BY <1>0, <1>1, <1>4, <3>1, OwedChange
    <3> QED BY <1>0, <1>1, <1>4, <2>1, <3>2, OwedType DEF HeldOK
  <2>5. ASSUME NEW b \in Assets, b # a PROVE OwedIn(b)' = OwedIn(b) /\ Held'[b] = Held[b]
    <3>1. \A q \in ShortCodes : Pots'[q][b] = Pots[q][b]
      BY <1>0, <2>1, <2>5 DEF PotsOK
    <3> QED BY <1>0, <2>1, <2>5, <3>1, OwedSame DEF HeldOK
  <2>6. \A b \in Assets : (OwedIn(b) <= Held[b])'
    BY <1>0, <1>1, <1>4, <2>4, <2>5, OwedType DEF HeldOK
  <2> QED BY <2>3, <2>6 DEF EInv
<1>5. ASSUME NEW a \in Assets, NEW n \in Amounts, n > 0, E!Gift(a, n) PROVE EInv'
  <2>1. Pots' = Pots /\ Held' = [Held EXCEPT ![a] = Held[a] + n]
    BY <1>5 DEF E!Gift, Pots, Pot, Held
  <2>2. PotsOK' /\ HeldOK'
    BY <1>0, <1>1, <1>5, <2>1 DEF PotsOK, HeldOK
  <2>3. ASSUME NEW b \in Assets PROVE OwedIn(b)' = OwedIn(b) /\ Held[b] <= Held'[b]
    BY <1>0, <1>1, <1>5, <2>1, OwedSame DEF HeldOK
  <2>4. \A b \in Assets : (OwedIn(b) <= Held[b])'
    BY <1>0, <2>2, <2>3, OwedType DEF HeldOK
  <2> QED BY <2>2, <2>4 DEF EInv
<1>6. ASSUME NEW p \in ShortCodes, NEW w \in Wallets, E!Open(p, w) PROVE UNCHANGED <<Pots, Held>>
  BY <1>6 DEF E!Open, Pots, Pot, Held
<1>7. CASE UNCHANGED E!escrowVars
  BY <1>2, <1>7 DEF E!escrowVars, Pots, Pot, Held
<1> QED
  BY <1>2, <1>3, <1>4, <1>5, <1>6, <1>7 DEF E!Next

\* The purse of an escrow always covers every pot at once, for any number of pots,
\* owners and assets, whoever opens, fills and empties them.
THEOREM EscrowSolvency == EscrowSpec => []E!Solvent
<1>1. EInv => E!Solvent
  BY EscrowOwed DEF EInv, E!Solvent, Held
<1>2. QED
  BY <1>1, EscrowInit, EscrowNext, PTL DEF EscrowSpec, E!Spec

----------------------------------------------------------------------------
(* What follows from the escrow *)

\* The vault's tokens cover every pool at once, for any number of pools, wallets
\* and assets, although they all share one balance: the escrow is solvent.
THEOREM VaultSolvent == Spec => []Solvent
<1>1. VInv /\ E!Solvent => Solvent
  <2> SUFFICES ASSUME VInv, E!Solvent, NEW a \in Assets PROVE Owed(a) <= Held[a]
    BY DEF Solvent, Held
  <2>1. [p \in ShortCodes |-> Pots[p][a]] = [c \in ShortCodes |-> Claim(c, a)]
    BY ClaimIsAvailable DEF Pots, Pot
  <2> QED BY <2>1, EscrowOwed DEF E!Solvent, OwedIn, Owed, Held
<1>2. QED
  BY <1>1, EscrowSolvency, VaultImplementsEscrow, VaultInvariant, PTL

\* In every reachable state the owner can take out, in one call, whatever the
\* contract reports as available.
THEOREM VaultFundsNeverStuck == Spec => []FundsNeverStuck
<1>1. VInv /\ Solvent => FundsNeverStuck
  <2> SUFFICES ASSUME VInv, Solvent, NEW c \in DOMAIN pools, NEW a \in Assets,
                      Available(c, a) > 0
               PROVE  MayWithdraw(c, pools[c].owner, a, Available(c, a))
    BY DEF FundsNeverStuck
  <2> DEFINE f == [d \in ShortCodes |-> Claim(d, a)]
  <2>1. c \in ShortCodes /\ pools[c] \in Pool
    BY DEF VInv, TypeOK
  <2>2. /\ pools[c].donated[a] \in Nat /\ pools[c].withdrawn[a] \in Nat
        /\ Available(c, a) = pools[c].donated[a] - pools[c].withdrawn[a]
    BY <2>1 DEF Pool, Available
  <2>3. Fits(pools[c].donated[a]) /\ Admitted(a)
    BY <2>2 DEF VInv, PoolsOK
  <2>4. f[c] <= SumFunctionOnSet(f, ShortCodes) /\ SumFunctionOnSet(f, ShortCodes) \in Nat
    <3>1. \A d \in ShortCodes : f[d] \in Nat
      BY ClaimIsAvailable, PotsType DEF PotsOK, Pots, Pot
    <3> HIDE DEF f
    <3> QED BY <2>1, <3>1, FiniteAssumption, SumBoundsMember, SumNat
  <2>5. SumFunctionOnSet(f, ShortCodes) <= balance[a][VaultAddress]
    BY DEF Solvent, Owed
  <2>6. f[c] = Available(c, a) /\ balance[a][VaultAddress] \in Nat
    BY <2>1, ClaimIsAvailable DEF VInv, TypeOK, Accounts
  <2>7. Available(c, a) <= balance[a][VaultAddress]
    <3> HIDE DEF f
    <3> QED BY <2>2, <2>4, <2>5, <2>6
  <2>8. WithinDonated(pools[c], a, Available(c, a))
    BY <2>2, <2>3 DEF WithinDonated
  <2> QED BY <2>3, <2>7, <2>8 DEF MayWithdraw
<1>2. QED
  BY <1>1, VaultInvariant, VaultSolvent, PTL

\* A deposit never reaches a complete pool, a withdrawal never reopens one, and
\* the constructor changes no pool's progress.
THEOREM VaultGoalCloses == Spec => GoalCloses
<1> DEFINE Closed(c) == /\ c \in DOMAIN pools' /\ Complete(pools[c])'
                        /\ pools'[c].donated = pools[c].donated
                        /\ pools'[c].donors = pools[c].donors
<1>1. ASSUME VInv, VInv', [Next]_vars, NEW c \in DOMAIN pools, Complete(pools[c])
      PROVE  Closed(c)
  <2>1. /\ TypeOK /\ TypeOK' /\ c \in ShortCodes /\ pools[c] \in Pool
        /\ rates \in [Assets -> Nat] /\ rates' \in [Assets -> Nat]
        /\ pools[c].goal > 0 /\ Equivalent(pools[c]) >= pools[c].goal
    BY <1>1 DEF VInv, TypeOK, Complete
  <2>2. ASSUME c \in DOMAIN pools', rates' = rates, pools'[c].goal = pools[c].goal,
               pools'[c].initial = pools[c].initial,
               pools'[c].donated = pools[c].donated, pools'[c].donors = pools[c].donors
        PROVE  Closed(c)
    BY <2>1, <2>2 DEF Complete, Equivalent, EquivalentAt
  <2>3. ASSUME NEW args \in ConstructorArgs, Constructor(args[1], args[2]) PROVE Closed(c)
    <3>1. ~initialised /\ pools' = pools
      BY <2>3 DEF Constructor, NotInitialised
    <3>2. \A a \in Assets : pools[c].donated[a] = 0
      <4>1. \A a \in Assets : pools[c].donated[a] \in Nat /\ ~ (pools[c].donated[a] > 0)
        BY <1>1, <2>1, <3>1 DEF VInv, PoolsOK, Admitted, Pool
      <4> QED BY <4>1
    <3>3. EquivalentAt(pools[c], rates) = EquivalentAt(pools[c], rates')
      BY <2>1, <3>2, EquivalentUntouched
    <3> QED BY <1>1, <2>1, <3>1, <3>3 DEF Complete, Equivalent
  <2>4. ASSUME NEW d \in ShortCodes, NEW w \in Wallets, NEW g \in Goals, NEW i \in Initials,
               CreatePool(d, w, g, i)
        PROVE  Closed(c)
    BY <1>1, <2>2, <2>4 DEF CreatePool, UnusedCode
  <2>5. ASSUME NEW d \in ShortCodes, NEW w \in Wallets, NEW a \in Assets, NEW n \in Amounts,
               Deposit(d, w, a, n)
        PROVE  Closed(c)
    <3>1. d # c
      <4>1. Equivalent(pools[c]) \in Nat /\ pools[c].goal \in Nat
        BY <2>1, EquivalentType DEF Equivalent, Pool
      <4> QED BY <2>1, <2>5, <4>1 DEF Deposit, AcceptsDonations
    <3>2. pools'[c] = pools[c] /\ c \in DOMAIN pools' /\ rates' = rates
      BY <1>1, <2>1, <2>5, <3>1, DepositEffect DEF Deposit
    <3> QED BY <2>2, <3>2
  <2>6. ASSUME NEW d \in ShortCodes, NEW w \in Wallets, NEW a \in Assets, NEW to \in Accounts,
               NEW n \in Amounts, Withdraw(d, w, a, to, n)
        PROVE  Closed(c)
    <3>1. c \in DOMAIN pools' /\ rates' = rates
      BY <1>1, <2>1, <2>6, WithdrawEffect DEF Withdraw
    <3>2. CASE d # c
      <4>1. pools'[c] = pools[c]
        BY <1>1, <2>1, <2>6, <3>2, WithdrawEffect
      <4> QED BY <2>2, <3>1, <4>1
    <3>3. CASE d = c
      <4>1. pools'[c] = WithWithdrawal(pools[c], a, n)
        BY <1>1, <2>1, <2>6, <3>3, WithdrawEffect
      <4>2. /\ pools'[c].goal = pools[c].goal /\ pools'[c].initial = pools[c].initial
            /\ pools'[c].donated = pools[c].donated /\ pools'[c].donors = pools[c].donors
        BY <2>1, <4>1 DEF WithWithdrawal, Pool
      <4> QED BY <2>2, <3>1, <4>2
    <3> QED BY <3>2, <3>3
  <2>7. ASSUME UNCHANGED <<rates, pools>> PROVE Closed(c)
    BY <1>1, <2>2, <2>7
  <2>8. ASSUME NEW a \in Assets, NEW w \in Wallets, NEW to \in Accounts, NEW n \in Amounts,
               DirectTransfer(a, w, to, n)
        PROVE  Closed(c)
    BY <2>7, <2>8 DEF DirectTransfer
  <2>9. CASE UNCHANGED vars
    BY <2>7, <2>9 DEF vars
  <2>10. QED
    BY <1>1, <2>3, <2>4, <2>5, <2>6, <2>8, <2>9 DEF Next
<1>2. VInv /\ VInv' /\ [Next]_vars => [\A c \in DOMAIN pools : Complete(pools[c]) => Closed(c)]_vars
  BY <1>1
<1>3. QED
  BY <1>2, VaultInvariant, PTL DEF Spec, GoalCloses

=============================================================================
