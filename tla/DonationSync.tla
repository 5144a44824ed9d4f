---------------------------- MODULE DonationSync ----------------------------
(***************************************************************************)
(* Donations that go straight to a pool's wallet, and the progress that     *)
(* the backend keeps of them in the pool's row (pools/stellar_client.py).   *)
(*                                                                          *)
(* The ledger is the list of payment operations that touch the wallet; it   *)
(* only grows.  The row keeps a count, a total per asset and a cursor, and  *)
(* every GET of the pool reads the operations after the cursor, page by     *)
(* page, inside a transaction that holds the row's lock.  Horizon may fail  *)
(* or the worker may die at any page: the transaction is rolled back.       *)
(*                                                                          *)
(* Amounts are integers (the code adds Decimals), the memo of the parent    *)
(* transaction is a field of the operation, and a paging token is the       *)
(* operation's position.  goal = 0 stands for a pool without a goal.        *)
(***************************************************************************)
EXTENDS Integers, Sequences, FiniteSets, Functions

CONSTANTS
  Requests,     \* concurrent GETs of the pool
  Operations,   \* the payment operations that may appear on the ledger
  Wallet,       \* the pool's wallet_address
  Creator,      \* the pool's creator
  ShortCode,    \* the pool's short_code, the memo of its donations
  Assets,       \* asset keys, code:issuer
  Rates,        \* XLM reference rate of an asset, 0 if it has none
  Goal,
  PageSize,     \* SYNC_PAGE_SIZE
  FeedLimit,    \* limit of the donations feed
  MaxHistory,   \* bound: operations before the pool is created
  MaxLedger,    \* bound: operations altogether
  MaxFailures   \* bound: requests that fail

ASSUME SyncAssumption ==
  /\ IsFiniteSet(Assets)
  /\ Rates \in [Assets -> Nat]
  /\ Goal \in Nat
  /\ PageSize \in Nat \ {0}
  /\ \A op \in Operations : op.asset \in Assets /\ op.amount \in Nat \ {0}

VARIABLES
  ledger,    \* the wallet's payment operations, oldest first
  start,     \* donations_synced_cursor to be: read before the row is created
  created,   \* the pool's row exists
  pool,      \* the row's cached progress: count, total, cursor
  request,   \* request[r]: what the GET holds in memory
  failures   \* how many requests failed

vars == <<ledger, start, created, pool, request, failures>>

PaymentLike == {"payment", "path_payment_strict_send", "path_payment_strict_receive"}
SelfSenders == {Creator, Wallet}

Progress == [count : Nat, total : [Assets -> Nat], cursor : Nat]

\* What the ledger, the row and the requests in progress may hold.
TypeOK ==
  /\ ledger \in Seq(Operations)
  /\ start \in {-1} \cup (0..Len(ledger))
  /\ created \in BOOLEAN
  /\ pool \in Progress /\ pool.cursor <= Len(ledger)
  /\ DOMAIN request = Requests
  /\ \A r \in Requests :
        /\ request[r].at \in {"idle", "syncing", "saving"}
        /\ request[r].row \in Progress /\ request[r].row.cursor <= Len(ledger)
  /\ failures \in Nat

Nothing == [count |-> 0, total |-> [a \in Assets |-> 0], cursor |-> 0]
Idle == [at |-> "idle", row |-> Nothing]

Init ==
  /\ ledger = <<>>
  /\ start = -1
  /\ created = FALSE
  /\ pool = Nothing
  /\ request = [r \in Requests |-> Idle]
  /\ failures = 0

----------------------------------------------------------------------------
(* The ledger and the creation of the pool *)

\* Nobody knows the short_code before the row that generates it exists.
Pay(op) ==
  /\ Len(ledger) < IF created THEN MaxLedger ELSE MaxHistory
  /\ op.memo = ShortCode => created
  /\ ledger' = Append(ledger, op)
  /\ UNCHANGED <<start, created, pool, request, failures>>

\* get_latest_horizon_cursor: no record yet is no cursor, the start of the ledger.
ReadStart ==
  /\ start = -1
  /\ start' = Len(ledger)
  /\ UNCHANGED <<ledger, created, pool, request, failures>>

\* PoolCreateView.post, some operations later.
Create ==
  /\ start # -1 /\ ~ created
  /\ created' = TRUE
  /\ pool' = [Nothing EXCEPT !.cursor = start]
  /\ UNCHANGED <<ledger, start, request, failures>>

----------------------------------------------------------------------------
(* The sync *)

Incoming(op) == op.type \in PaymentLike /\ op.to = Wallet /\ op.from \notin SelfSenders
Donation(op) == Incoming(op) /\ op.memo = ShortCode

Page(cursor) == {k \in (cursor + 1)..(cursor + PageSize) : k <= Len(ledger)}
PageDonations(cursor) == {k \in Page(cursor) : Donation(ledger[k])}

\* What the donations of a set of places add up to, asset by asset.
Given(places) ==
  [a \in Assets |->
     SumFunctionOnSet([k \in places |-> IF ledger[k].asset = a THEN ledger[k].amount ELSE 0],
                      places)]

\* The cursor moves to the page's last operation, counted or not.
AfterIncoming(cursor) ==
  LET seen == {k \in Page(cursor) : Incoming(ledger[k])}
  IN  IF seen = {} THEN cursor ELSE CHOOSE k \in seen : \A l \in seen : l <= k
AfterFullPage(cursor) == cursor + PageSize
After(cursor) == cursor + Cardinality(Page(cursor))

AddedAfresh(row, donations) ==
  [count |-> Cardinality(donations), total |-> Given(donations), cursor |-> After(row.cursor)]
Added(row, donations) ==
  LET given == Given(donations)
  IN  [count  |-> row.count + Cardinality(donations),
       total  |-> [a \in Assets |-> row.total[a] + given[a]],
       cursor |-> After(row.cursor)]

UnlockedAlways == TRUE
Unlocked == \A r \in Requests : request[r].at = "idle"

\* get_pool_with_synced_progress: select_for_update, then the row as committed.
Begin(r) ==
  /\ created
  /\ request[r].at = "idle"
  /\ Unlocked
  /\ request' = [request EXCEPT ![r] = [at |-> "syncing", row |-> pool]]
  /\ UNCHANGED <<ledger, start, created, pool, failures>>

\* One page: a short or empty one is the last.
FetchPage(r) ==
  LET row == request[r].row
      last == Cardinality(Page(row.cursor)) < PageSize
  IN  /\ request[r].at = "syncing"
      /\ request' = [request EXCEPT ![r] =
           [at  |-> IF last THEN "saving" ELSE "syncing",
            row |-> IF Page(row.cursor) = {} THEN row
                    ELSE Added(row, PageDonations(row.cursor))]]
      /\ UNCHANGED <<ledger, start, created, pool, failures>>

SavedWithoutCursor(row) == [row EXCEPT !.cursor = pool.cursor]
Saved(row) == row

Save(r) ==
  /\ request[r].at = "saving"
  /\ pool' = Saved(request[r].row)
  /\ request' = [request EXCEPT ![r] = Idle]
  /\ UNCHANGED <<ledger, start, created, failures>>

\* StellarUnavailableError, or the worker dies: nothing of the row was written.
Fail(r) ==
  /\ request[r].at # "idle"
  /\ failures < MaxFailures
  /\ failures' = failures + 1
  /\ request' = [request EXCEPT ![r] = Idle]
  /\ UNCHANGED <<ledger, start, created, pool>>

Next ==
  \/ \E op \in Operations : Pay(op)
  \/ ReadStart \/ Create
  \/ \E r \in Requests : Begin(r) \/ FetchPage(r) \/ Save(r) \/ Fail(r)

Spec == Init /\ [][Next]_vars

\* The pool's page is open somewhere: it polls, and the server works on requests.
Polling == WF_vars(\E r \in Requests : Begin(r) \/ FetchPage(r) \/ Save(r))
FairSpec == Spec /\ WF_vars(ReadStart) /\ WF_vars(Create) /\ Polling

----------------------------------------------------------------------------
(* What the pool's page shows *)

RatesComplete(total) == \A a \in Assets : total[a] > 0 => Rates[a] > 0
XlmEquivalent(total) == SumFunctionOnSet([a \in Assets |-> total[a] * Rates[a]], Assets)

\* progress_summary: fail-closed when an asset has no reference rate.
Completed(total) == Goal > 0 /\ RatesComplete(total) /\ XlmEquivalent(total) >= Goal

\* fetch_pool_donations reads the newest operations and filters them itself.
FeedIncomingAny(op) == op.type \in PaymentLike /\ op.to = Wallet
FeedIncoming(op) == op.type \in PaymentLike /\ op.to = Wallet /\ op.from \notin SelfSenders
Feed ==
  {k \in 1..Len(ledger) : /\ k > Len(ledger) - FeedLimit
                          /\ FeedIncoming(ledger[k]) /\ ledger[k].memo = ShortCode}

----------------------------------------------------------------------------
(* Properties *)

Donations(n) == {k \in 1..n : Donation(ledger[k])}

\* The cached progress is the ledger's: every donation up to the cursor counted
\* once and nothing else, whatever requests overlapped or failed, and although the
\* cursor was read before the pool existed.  (models.py 30-36: it can be rebuilt
\* from the ledger at any time.)
CountedOnce ==
  created => /\ pool.count = Cardinality(Donations(pool.cursor))
             /\ pool.total = Given(Donations(pool.cursor))

\* The feed and the progress apply "exactamente el mismo criterio"
\* (stellar_client.py 147-150): the feed shows no donation that a finished sync
\* has not counted.
FeedCounted ==
  created /\ pool.cursor = Len(ledger) => Cardinality(Feed) <= pool.count

\* Progress never goes back: a slow GET does not overwrite a faster one's totals.
ProgressKept ==
  [][created => /\ pool.cursor <= pool'.cursor /\ pool.count <= pool'.count
                /\ \A a \in Assets : pool.total[a] <= pool'.total[a]]_vars

\* A completed pool reopens only because somebody gave an asset without a rate,
\* the fail-closed case that progress_summary documents.
CompletionKept ==
  [][Completed(pool.total) => Completed(pool'.total) \/ ~ RatesComplete(pool'.total)]_vars

\* Every operation is eventually behind the cursor, also on a wallet whose pages
\* are full of unrelated payments, as long as failures stop.
EventuallySynced ==
  \A n \in 1..MaxLedger : (Len(ledger) >= n) ~> (created /\ pool.cursor >= n)

=============================================================================
