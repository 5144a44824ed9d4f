# Estellares Remesa: TLA+ models, checks and proofs

Estellares Remesa sends money on the Stellar testnet and adds two ways of
pooling it: *community pools* (a collection anybody may give to, classic on a
wallet or held by a Soroban contract) and *family boxes* (a Stellar multisig
account with roles and limits that a Django backend adds to it).  This
directory models the parts whose state is shared between people, requests and
the network, checks them with TLC and proves their main invariants with TLAPS.

## 1. The system

| component | state | operations | talks to |
|---|---|---|---|
| Vault contract, `vault_contract/src/lib.rs` | `Rates`, `Pools` (owner, goal, donated/withdrawn per asset, donors), the contract's token balances | `constructor`, `create_pool`, `deposit`, `withdraw`, reads | token contracts, atomically |
| Donation sync, `pools/stellar_client.py` | the `Pool` row: count, total per asset, cursor | `PoolCreateView`, every `GET` of a pool, the feed | Horizon, page by page, under the row lock |
| Vault registration, `pools/views.py`, `vault_client.py` | `Pool.vault_registered` | register build, submit | Soroban RPC: simulate, send, poll |
| Vault gateway, same files | none | builds and submits of donations and withdrawals, `state`, `leaderboard` | Soroban RPC |
| Family box, `family_pools/views.py`, `stellar_client.py` | the `FamilyPool` row: snapshot of signers, roles, depositors, limits; on the ledger: weights, thresholds, sequence number | set-signer and withdrawal builds and submits, member views, limits | Horizon; browsers that collect signatures |
| Family setup, the same and `FamilyPoolPage.tsx` | an ephemeral key in the page, then the row | CreateAccount, SetOptions, confirm | Horizon, Freighter |
| Blend savings, `blend_client.py` | `blend_principal` | supply and withdraw builds, submit | Blend through Soroban RPC |
| Scheduled payments, `payments/views.py`, `ProfilePage.tsx` | rules in the database; the list and one `busyId` in the page | create, pause, paid, remove, list | database |
| Wallet session, `WalletContext.tsx`, `freighter.ts` | `publicKey`, its copy in `localStorage`, balances | detect, connect, disconnect, follow Freighter on focus | Freighter, Horizon |
| Send page, `SendPage.tsx`, `horizon.ts` | the form, the quote shown, the step of an attempt | quote, build, sign, submit, retry | Horizon, Freighter, metadata and quote views |
| Pool page, `PoolDetailPage.tsx` | the row and the contract as last read, the stepper of the donation | load, poll, reconcile, donate, withdraw, open a trustline, retry | the pool views, Freighter |
| Family page, `FamilyPoolPage.tsx`, `storage.ts` | list and tab, the dashboard, one pending slot in `localStorage` | eight kinds of handlers over a build, a signature, a submit and their follow-ups | the family views, Freighter |
| History page, `HistoryPage.tsx` | the payments loaded, a cursor | load, load more | `payments/stellar_client.py` |

What makes it hard: a handler reads its row when the request begins, calls the
network one or more times and saves at the end, and other requests run in
between; only two places take a row lock (the donation sync and the update of
the Blend principal).  A transaction is built against one configuration, signed
by several people over days and applied under another.  An answer can be lost
after its effect, and polling gives up on transactions that are applied later.
In the contract calls are atomic, and the difficulty is the arithmetic over one
balance shared by every pool.  In the browser a handler goes on after every
`await` in a page that has moved on: its form is gone, another box is shown, the
session is of another account or closed, and answers that were asked for earlier
arrive later; some effects cancel theirs and some do not.

What makes each component correct, in a sentence:

* contract: the shared balance covers what all pools may still withdraw, nobody's
  money gets stuck, a closed goal stays closed, the leaderboard adds up;
* sync: every donation is counted once, and eventually;
* registration: the flag tells the truth and catches up with the chain, and the
  progress a pool had goes with it;
* family box: somebody (the creator, in a box the page makes) can always edit the
  multisig, limits in force decide, powers end with membership, one member's edit
  leaves the others alone;
* Blend savings: the capital in the row follows the operations Blend confirmed, a
  withdrawal takes the same share of it as of the position;
* browser: what is shown, and above all what a button would sign, belongs to the
  account, the box and the form it is shown with; what was tried twice happens
  once; the buttons and the mode of a page come back by themselves.

`PROJECT.json` lists the components left out with the reason, and under
"hazards" each place in the code where one of this can go wrong.

## 2. The modules

| module | models | shape |
|---|---|---|
| `Vault` | the contract | one action per entry point; a call that panics is rolled back, so its checks are the guard |
| `Escrow` | what the contract promises, with no bookkeeping: pots, owners, one purse | abstract; `Vault` implements it (`EscrowSpec`) |
| `Leaderboard` | `donors_sorted_desc` | one step per iteration of the inner or outer loop |
| `DonationSync` | pool creation, sync, feed, `progress_summary`, the polling page | requests with the row in memory; the lock is the guard of `Begin` |
| `VaultRegistration` | register build, submit, polling, reconciliation, the owner who retries | requests and transactions with a fate; composed with the contract's `create_pool` in `Apply` |
| `FamilyBox` | ledger account, row, browsers and handlers of one box | requests with a snapshot; the ledger's rules in `Accepted` |
| `BlendPrincipal` | Blend builds, `BlendSubmitView`, sending and polling, `compute_updated_principal`, the interest shown | requests with what they read; the account's sequence number decides what may be applied |
| `WalletSession` | the session of the browser and Freighter | what is asked is a record on its way; every page extends it |
| `SendPage` | form, quotes, attempts to pay, the sequence numbers and time bounds behind them | the quote's debounce and its cancellation; an attempt outlives its form |
| `FamilySetup` | `CreateFamilyForm`, the three setup endpoints, the account on the ledger | a creation is a record with its step; any step may lose its answer |
| `FamilyPage` | list, tabs, dashboard, its buttons, `submitOrKeep` and the slot | a handler is a record with its step, its box and its document |
| `PoolPage` | the effects of the page that read the row, the contract and the donor's trustlines; donation, withdrawal, trustline, retry | reads on their way hold what the server had when it was asked |
| `HistoryPage` | the pages of a history | the same, by account and cursor |
| `Recurring` | the panel of scheduled payments and the views behind it | a request reads its rule and saves it in two steps |
| `App` | the routes: one page at a time under one session | each page is an `INSTANCE`; a behaviour is one visit |
| `SumTheorems`, `VaultProofs` (the escrow's too), `LeaderboardProofs`, `DonationSyncProofs`, `VaultRegistrationProofs`, `FamilyBoxProofs`, `BlendPrincipalProofs`, `AppProofs` | theorems | section 5 |
| `MC*` | instances for TLC | section 4 |

Conventions.  A request is a record whose `at` names what its handler does next,
together with what it has read so far; `Idle` is a worker without a request.
What the network does is an action of its own.  An operator whose name extends
another's and says how it differs (`WithinDonatedOnce` beside `WithinDonated`)
is the same definition with a plausible mistake; `PROJECT.json` pairs them with
the property that notices, and no specification uses them.

How the state corresponds to the code:

* `Vault`: `rates` and `pools` are the contract's two storage keys, with maps as
  total functions that are 0 where the code's `unwrap_or(0)` is; `balance` is
  the tokens' own ledgers.  i128 is checked arithmetic with the largest value
  `MaxI128`.  Rent and TTL are left out.  Checks whose order cannot be observed,
  because any of them rolls the call back, are unordered conjuncts.
* `DonationSync`: `ledger` is what Horizon lists for the wallet, a paging token
  is a place in it, `pool` is the committed row, `request[r].row` what a GET
  holds under `select_for_update`.  `FetchPage` is one turn of the loop of
  `_sync_pool_donations`.  `Fail` is any Horizon error or a dead worker: the
  transaction rolls back.
* `VaultRegistration`: `contract` is the entry of one short code, `tx` the
  transactions built for it and their fate on the network, `flag` the row's
  `vault_registered`.  `floor` is a history variable: what the wallet had
  received when the registration was asked for.
* `FamilyBox`: `signers` and `sequence` are the ledger account, `row` and `limit`
  the `FamilyPool` row, `envelope` what browsers keep while signatures are
  collected.  `Configuring.row` is the snapshot that `get_object_or_404` read.
  Only XLM withdrawals and one limit are modelled; the limits per asset obey the
  same comparison.  `doubted` and `weakened` are history: the ledger's signers changed
  and nobody was going to save them, with no submit rereading the account alone since;
  a relative who reached the high threshold was lowered below it.
* `BlendPrincipal`: `position` is the value `get_position` computes from bTokens
  and `b_rate`, `principal` the row's `blend_principal`, `sequence` the sequence
  number of the box's account, which its other transactions use up too.
  `request[r].value` is `value_before`; `tx[t]` the transaction a submit parses
  (`parse_submit_request`) and its fate.  Amounts are natural numbers of
  0.0000001 XLM.  The fraction of `compute_updated_principal` is a `Decimal` of 28
  digits and the product is truncated, so a product that should be a whole number
  may come out one unit lower (3 x 1/3 is 0.9999999): `Remaining` is a set of the
  outcomes.  `capital`, `accrued`, `misread`, `applied` and `recorded` are history:
  what the capital would be if each operation updated it when it was applied, the
  interest so far, and the orders the properties compare.  `BlendSubmitView` does not
  compare the account of a transaction with the box (views.py 922-944,
  `parse_submit_request`), so `tx[t].account` may be another one: such a transaction
  leaves the box's position alone and is recorded in its row like any other.
* `WalletSession`: `active` is the account in Freighter, `publicKey` and `stored`
  the session and `localStorage`; `lookups` are the `getActiveAccount` calls on
  their way with who asked, `asking` the balances on theirs.  The focus listener
  does not cancel, so `Deliver` of an old answer sets the key again.
* `SendPage`: `form` holds what the guards look at, the destination by what
  Horizon knows of it.  `Cancelled` is the cleanup of the quote's effect.
  `attempt[k].fate` is what the network did with its transaction; `open` is
  history, the undecided attempts of that account when it was built.
* `FamilySetup`: `creation[b]` is the handler that holds the key of `b`,
  `account[b]` the ledger's weights and thresholds, `listed[b]` the row.  The
  `master` weight is the creation key's.  `ConfirmFails` leaves the row in place
  too: a second confirmation that meets the unique key answers 500 (views.py 270).
* `FamilyPage`: `page` is `FamilyContent`, `dash` the dashboard's state.  A handler
  carries the box, the account and the dashboard it was started in: what it sets
  after that dashboard is gone is lost (`Hosted`), what it stores or tells the page
  is not.  Submits answer with any of the outcomes the page tells apart; which one
  is the backend's matter, in `FamilyBox` and `BlendPrincipal`.  The note of a
  deposit is saved after the payment, and its failure is ignored (776).  What is shown
  of a box is three parts (`Parts`: balance, Blend, payments), which a load asks for one
  after the other; `dash.money[part]` is the box that a part is of, or null.
  `refreshPoolMoney` of a handler shows the first two, in two steps.
* `PoolPage`: `contract` and `row` are the truth, `vault` and `detail` what the page
  has of them.  `timer` is the twelve seconds of the first load.  A read is a record
  with who asked and what the server had then.  `progress` is what `progress_summary`
  says of the wallet's payments, as far as the page's `completed` tells it apart: short of
  the goal, reached, not known for an asset without rate, or the same with the goal reached
  by XLM.  `opening` is `openTrustline` on its way.  The ranking of donors and whether
  the pool's wallet has the trustline (271-293) are shown and disable nothing: left out.
* `HistoryPage`: the operations of an account are numbered, and some of them are
  payments.  A page is the operations after a cursor, cut where Horizon cuts it, of
  which the payments are shown; it may be short, or empty, with more to come.  A page
  has at least one operation, as the serializer demands (`payments/serializers.py` 60).
* `Recurring`: `call[k].copy` is the rule as its request read it; `stale` marks, for
  the property, a save over a row that changed after it was read.
* `App`: pages that are not open hold fixed values and take no step, so the state
  spaces of the visits add up instead of multiplying.

## 3. Fairness

Three specifications have it.

* `FairSpec` of `DonationSync`: weak fairness of creation and of "some request
  advances".  `PoolDetailPage.tsx` polls as long as the page is open and the
  server works on what it began; nothing is assumed of a particular request, and
  failures are bounded by `MaxFailures` (an outage that ends).
* `OwnerSpec` of `VaultRegistration`: weak fairness of a request that was begun
  (the polling loop is bounded, so every request ends), strong fairness of
  `BuildBegin`: the owner presses "Reintentar registro" again and again while the
  page offers it (`CreatePoolPage.tsx`, `retryRegistration`), although other
  requests may occupy the worker in between.  No fairness of the network:
  `Apply` need not happen, and `RegistrationReconciled` starts from a contract
  that has the pool.
* `Spec` of `App` (`MCFairness` restricts each part to the visits whose bounds leave
  room for it).  `Attended`: the window gets the focus again and again and Freighter
  answers; `SessionSettles` needs a focus after the user's last change.  `Served`: a
  request of the family page is answered or fails, and a window of Freighter is
  signed, refused or closed; `BusyEnds` says nothing of a window left open.
  `Answered`: a poll of the pool page is answered.  Strong fairness of `Poll`: the
  page is visible again and again, though not always, when its fifteen seconds
  pass.  Nothing is assumed of the order of answers, of users pressing a button, or
  of the network applying anything.

## 4. What TLC checks

| run | instance | shows |
|---|---|---|
| `vault` | 2 pools, 2 wallets, 2 assets, `MaxI128 = 3`, amounts 0-2, goals and initial progress that reach the goal and overflow; or the sort of 4 donors with credits 0-3 | type, `Solvent`, `FundsNeverStuck`, `LeaderboardConserved`, `GoalCloses`, refinement of `Escrow`; `Listed`, `Ranked`: the result is a permutation in descending order, ties in the map's order |
| `donation_sync` | 2 requests, pages of 2, at most 4 operations of 6 kinds, one of them before the pool, 1 failure | `CountedOnce`, `FeedCounted`, `ProgressKept`, `CompletionKept`, `EventuallySynced` |
| `vault_registration` | 2 requests, 2 transactions, a rival account, 1 donation, 1 failure | `FlagTruthful`, `ProgressCarried`, `RegistrationReconciled` |
| `family_row` | 3 wallets, the box the page makes (creator 2, another 1), 1 request at a time, 1 envelope, 3 sequence numbers | `CreatorCanEdit`, `PowerOnlyForMembers`, `LimitHolds`, `OthersUntouched` |
| `family_old_box` | creator 1, two relatives 2, both may be removed and one lowered, edits of its row, 2 requests, 1 envelope, 1 fault, 2 sequence numbers | `SomeoneCanEdit`, `SnapshotFresh` |
| `blend` | 2 submits, 3 transactions, of the box or of another account, supplies of 4, withdrawals of 4 and 6, 4 of interest, 1 other transaction, 1 failure, 3 recorded updates | `ValueStillHolds`, `CapitalTracked` |
| `browser` | 2 accounts of one Freighter, 14 visits to the 7 pages (below), 2 attempts, 2 handlers, 2 donations, 2 polls on their way, 4 operations, 2 rules and 3 requests about them, at most 2 changes of account, 1 reload, 1 lost answer | `QuoteFresh`, `PaidOnce`, `BoxesGoverned`, `FollowUpMatches`, `MoneySettled`, `StepperHonest`, `HistoryContiguous`, `RulesKept`; `SessionSettles`, `BusyEnds`, `ModeSettles` |
| `progress_carried`, `family_power`, `family_edits`, `family_overlap`, `blend_interest` | the same modules with the case that matters | violated, see below |

Why these bounds. `vault`: interference between pools takes two pools and one shared
asset; a mistake in a product of rates takes two assets with different rates; `MaxI128 =
3` puts the overflow of every sum and product within reach of two calls. The leaderboard
call writes nothing, so `MCVault` walks its sort beside the other calls and not between
them. `donation_sync`: a double count takes two requests, the end of a page takes more
operations than a page holds, a cursor that stands still takes a page with no donation.
`vault_registration`: a late application takes a request that gave up and a second one;
a duplicate takes two transactions. `family_row` keeps requests one after the other
because what happens when they overlap is `family_edits` and `family_overlap`; builds
and signatures of envelopes still interleave with them. `family_old_box` has them
overlap: two removals that add up take two requests, a row that stays behind takes one
lost answer or two submits that overlap, and putting it right takes a second
transaction. `blend`: a value that is stale takes another operation between its reading
and the effect; a proportion that differs from the amount by more than truncation loses
takes interest as large as the supply.

The visits of `browser`. All pages at once, with
every kind of step, is out of reach, so `MCApp` divides what can happen on a page by
what the properties relate. `session`: only the session, with all it can do. `typing`:
everything one may type while quotes are on their way, one attempt; `paying`: two
attempts from one form, with a change of account and the form mounted again. `setup`:
the whole creation of a box. `signers`: two overlapping handlers that change signers or
sign, on a family with a transaction of the first box in the slot; `all`: every button
with one handler and a change of account, on a family where one box is of the old kind;
`money`: what is shown of the boxes while two deposits are made, in different tabs too.
`reading`: the page of a pool while row and contract change and polls overlap, no
button; `donating` and `withdrawing`: the buttons, with the row as it is; `filling`: one
donation while others pay, so that the goal is reached in each of the ways `completed`
knows. `history`: pages, payments and other operations, one change of account. `rules`:
three buttons on two existing rules; `profile`: two buttons, new rules too, and one of a
change of account, a reload or a lost answer. What each leaves out is a conjunct of
`Within`. Interference takes two handlers, a late answer takes one that overtakes it, a
wrong owner takes two accounts or boxes; a third of any of them meets the same guards
again.

Deadlock is not checked: every instance may stop when its bounded ledger is full
and, in the sort, when it is done.

The violated runs each state what a text of the repository says:

* `progress_carried`: `_current_vault_equivalent` must not make up an
  `initial_equivalent`, but an asset without reference rate makes the total
  `None` and the pool is registered with 0.
* `family_power`: a wallet that does not belong to the box has no power
  (`family_power`), but a removal whose reread failed leaves its role in the row,
  and the next submit refreshes the signers alone.
* `family_overlap`: after a change of signers the backend reads the account again, and
  "the next addition or listing synchronizes against the ledger again"
  (`family_pools/views.py` 629-630, `stellar_client.py` 18).  Two submits that overlap
  read it in one order and save in the other (636-670, no lock): no answer is lost, every
  request has ended, and the row still has the older signers.  The listing (285-299)
  reads no ledger, so only another change of signers puts it right.
* `family_edits`: `MemberRoleView` changes one wallet's permissions, but saves
  whole fields it read when the request began.
* `blend_interest`: the repository's README (100-102) says that principal and
  interest are "read directly from Blend's contract"; the principal is a field of
  the row, and a supply that is applied after its submit gave up polling is never
  added to it, so the page shows all of it as interest.

The properties of the family box name their exceptions too:

* `SnapshotFresh`: the row may be behind (`doubted`) from a change that nobody saves, or
  that another submit may save over, until a submit has read the account with no other
  between the answer of Horizon and its save.
* `SomeoneCanEdit`: the rules of `build_set_signer_tx` and `submit_set_signer`
  (`stellar_client.py` 634-659) look at removals and at the creator; a relative who alone
  reaches the threshold may be lowered below it (`weakened`), and then a box whose creator
  is weak may be left with nobody.

`CapitalTracked` is stated for operations recorded once, in the order they were
applied.  Otherwise the code does not keep it: the row lock orders updates as the
workers reach it, and an envelope that is sent again while its first submit still
polls is counted twice.

The properties of the browser name their exceptions, because the code has them:

* `StepperHonest`: a donor without the trustline leaves the stepper in "building" for
  good (`PoolDetailPage.tsx` 489-501, 527-533), and a read that fails after the payment
  was confirmed shows an error and the form again, though it was paid (517-524,
  558-562).
* `BusyEnds`: "Activar poder del creator" starts its handler without a `finally`
  (`FamilyPoolPage.tsx` 1791-1799): the dashboard stays disabled until it is replaced.
* `FollowUpMatches`: the follow-up is state of a dashboard and the slot is one for all
  boxes, so success of any transaction takes the follow-up of the last change of
  signers with it, when a dashboard that is gone put that transaction in the slot or
  only signed it there. The second of these takes three handlers and three accounts,
  which is more than the run has: the attempt to prove the property found it. The
  comment of 640-642 says that it survives the flow of pending signatures; the last
  signature is another account's, in a dashboard that has none.
* `MoneySettled`: `refreshPoolMoney` of a handler is not cancelled, and shows the balance
  and the savings of the handler's box under the tab selected meanwhile, until the next
  load of that part.
* `HistoryContiguous`: a page on its way to the former account is appended to the new
  one's, as nothing cancels `load()`.
* `RulesKept`: `save()` writes the whole row; a pause and a payment that overlap undo
  one another, and a save after a removal inserts the rule again.
* `ModeSettles` is about rows that learn of the vault.  When the row never does, the
  effect of 253-269 asks again without a pause, since no GET sets the flag, whatever
  its comment (250-252) says.

Other disagreements met while modelling, which no run states: the repository's README
93-97 speaks of "thresholds that auto-adjust when signers are added/removed", and no
handler changes a threshold after the setup, and of withdrawals "that require
collecting signatures from several members", as does the page (203), while
`createPool` sets the medium threshold to 1 (430).  `models.py` 11-16 says the high
threshold is the sum of all weights; the code takes the largest
(`build_configure_signers_tx`).  A handler of a former dashboard may add its box to
the list of another account (`remember`), and refreshes the balances of its own
account under the new session.

## 5. What is proved

TLAPS proves the following for every value of the constants that satisfy the
named assumptions of the modules: every invariant and action property that a passing
run checks, and the refinement.

* **Escrow** (`EscrowSolvency`): a sum over pots moves with the purse.
  `SumTheorems` has the lemmas about sums over a finite set that this needs: a
  sum after one value changed, sums that are ordered pointwise.  The community
  modules define the sum through a fold, and no induction theorem of the library
  can be instantiated with an operator; the lemmas are derived from the fold's own
  recursive equation by taking a minimal counterexample among the subsets of a
  finite set.
* **Vault**: `VInv == TypeOK /\ PoolsOK /\ LeaderboardConserved` is inductive.
  `PoolsOK` is the strengthening: nothing is withdrawn that was not donated, the
  totals fit i128, and only admitted assets were donated; without it the
  constructor, called late, could change the equivalent of a pool that has
  donations.  From it follow `VaultTypeCorrect`, `VaultLeaderboardConserved` and
  `VaultImplementsEscrow` (every entry point is a step of the escrow or leaves
  pots, owners and purse alone).  `VaultSolvent` is the escrow's theorem carried
  through the refinement, and `VaultFundsNeverStuck` combines both: the money is
  there (`Solvent`), and neither sum of the check overflows (`PoolsOK`).
  `VaultGoalCloses` is an action property from the same invariant: donations are
  refused at the goal and withdrawals do not enter the equivalent.
* **Leaderboard** (`LeaderboardTypeCorrect`, `LeaderboardRanked`): while entry `i`
  sinks, all pairs among the first `i` places are in order except those whose lower
  place is the sinking one's.
* **Donation sync** (`SyncTypeCorrect`, `SyncCountsOnce`, `SyncFeedCounted`,
  `SyncKeepsProgress`, `SyncKeepsCompletion`): `CountedOnce` speaks of the row alone,
  and what is saved is a copy that a request worked on.  The invariant says that every
  such copy, too, is what the ledger holds up to its own cursor, and not behind the
  row; that one request works at a time (the lock); and that before the pool exists no
  operation carries its short code.  A page adds what it holds because its places
  follow the cursor without a gap and a sum over disjoint sets is the sum of the sums
  (`SumUnion`); completion is kept because sums are monotone (`SumMonotone`).
* **Vault registration** (`RegistrationTypeCorrect`, `RegistrationFlagTruthful`,
  `RegistrationCarriesProgress`): the contract's entry never changes once it is set, so
  a handler may act on what it read of it long ago; a submit is only ever about a
  transaction of the wallet, and one that succeeded is what set the entry.  It assumes
  that the wallet is not among the other accounts.  The third theorem assumes that
  every donation has a rate; without it the property is false (`progress_carried`).
* **Family box** (`BoxTypeCorrect`, `CreatorKeepsBox`, `SomeoneKeepsBox`,
  `LimitIsKept`): `IInv == TypeOK /\ Sequenced /\ StillApproved`. The backend checks
  its rules some time before the network applies a transaction. They still hold then,
  because every applied transaction uses up a sequence number, so a transaction that
  is still the next one was checked against the signers of now. The theorem assumes
  that the creator starts at the high threshold, which is what `createPool` gives it.
  `SomeoneKeepsBox` is about the other boxes: some wallet stays at the threshold
  whatever is asked for, with the one exception of `weakened`; it assumes only that the box
  starts with a wallet that reaches it.  `LimitIsKept` needs
  only that what a submit sends is within the limit that submit read (`WithinRead`):
  whatever limit was in force when the envelope was built or signed does not matter.
  `SnapshotIsFresh` assumes nothing about what overlaps: unless a change was missed, each
  submit between the answer of Horizon and its save holds the ledger's signers, or the
  row has them (`FreshInv == ~ doubted => Synced`), and a submit that rereads alone
  restores that.  The overlap that breaks the plain statement is the violated run
  `family_overlap`.  `PowerIsOfMembers` and `EditsLeaveOthers` are about handlers that do
  not overlap, and say so in their statement, since the code has no lock there and the
  runs `family_power` and `family_edits` show the properties broken without it: one
  handler at a time is between its read of the row and its save, and no answer was lost
  (`Calm`).  Then the row that is saved is the row that was read but for the wallet it is
  about (`SerialInv`).  Behaviours like that are what the run `family_row` has: one
  request at a time and no fault.
* **Blend** (`BlendTypeCorrect`, `BlendValueHolds`): `IInv == TypeOK /\ Sequenced /\
  Held /\ ValueStillHolds`.  No transaction is numbered beyond the next one, and a
  submit is about a transaction that was built; so a step that concerns the box either
  uses up a sequence number, and no withdrawal that was being sent can be applied any more,
  or moves the position only by interest, which the property allows for.  The type
  theorem holds the arithmetic: the quotient of the proportion and the unit that
  truncation loses never leave the natural numbers.
* **Blend, the capital** (`BlendCapitalTracked`): `capital` and `principal` are computed
  from two sequences that overlap, and when an operation is recorded the capital it
  was applied to is long gone.  `CapitalInv` says that there is an account of it
  (`Tracked`): functions that give the capital after each operation applied and the
  position that operation found, such that every submit that can still record holds
  that position (`Found`) and, as long as the records follow the order of the network,
  the row is in step with the account at the last record (`InStep`).  `Found` rests on
  `BlendValueHolds` and on `Prompt`, which says that interest sets `misread`.  The
  arithmetic is `Proportion`: two capitals that are `k` apart are no further apart
  after the same proportion, so truncation loses one unit per withdrawal and does not
  compound.
* **The browser** (`AppProofs`): a visit keeps its route, so a step of `App` is a step of
  the page that is open or a step of the session alone, and each page has an inductive
  invariant of its own.
  - *Send page* (`QuotesAreFresh`, `OneAttemptIsPaid`): the quotes on their way are of
    the form as it is; an attempt has the number after its account's, and what was
    undecided when it was built has that number too, if it is applied at all
    (`SendLedgerInv`).
  - *Setup* (`NewBoxesAreGoverned`): `BoxInv` ties where a creation is, lost or not, to
    which of three accounts the ledger has for it (none, bare, configured).
  - *History* (`HistoryHasNoHole`): while the account has not changed, one request at
    most is on its way, and no payment is between the last one shown and the operation
    that it goes on from (`Steady`).
  - *Scheduled payments* (`RulesAreKept`): a request that has read a rule holds a copy
    whose next day follows from the day noted, and what a request did stands unless a
    copy read before was saved over it (`CallSteady`, `Keeps`).
  - *Pool page* (`StepperIsHonest`): donations run one at a time, and the stepper tells of
    the last one where it is (`Tells`).
  - *Family page* (`FollowUpsMatch`, `MoneyIsSettled`): one handler at a time holds the
    buttons of a dashboard (`OneHolds`); a follow-up that is kept is of a handler on its
    way or of whatever transaction waits (`Waiting`), and a dashboard that is gone never
    holds a transaction of the one that is there (`Strangers`); loads are of the box
    shown (`Coherent`), and what a load or a handler has shown is followed by the next part
    in its order.
  - `AppTypeCorrect` puts the types of all pages together.

  Assumed: null stands for no account, box, row or document (`NullAssumption`), the
  creators of the boxes have accounts in this Freighter (`CreatorAssumption`), donations
  are numbered as they begin (`DonationAssumption`), bounds are numbers
  (`BoundAssumption`).  The runs evaluate all four.

Only model-checked: the liveness properties and everything under fairness
(`EventuallySynced`, `RegistrationReconciled`, `SessionSettles`, `BusyEnds`,
`ModeSettles`), which this prover does not reach.  What the five violated runs state is
false, and proved only under the conditions named above (`RegistrationCarriesProgress`,
`PowerIsOfMembers`, `EditsLeaveOthers`, and `SnapshotIsFresh` for what `SnapshotSynced`
says); nothing is proved of `InterestReal`.  No module
here uses a recursive operator.

## 6. What is not modelled

* Vault gateway: the builds of deposits and withdrawals, `amount_to_scaled` and what
  `parse_invoke` lets through.  The contract checks again whatever they build, and
  what the page sees of them is in `PoolPage`.
* Rows inserted once, keyed by a transaction's hash, with nothing to interleave: the
  metadata of payments, the notes of deposits; and the quote view, which is one call
  of Frankfurter.  Their use by the pages is modelled.
* The form of a new pool (`CreatePoolPage.tsx`) but for its registration, which is in
  `VaultRegistration`; the page that tracks a transaction reads one and shows it.
* The trustline envelopes of a family box on the server side, and limits per asset:
  one comparison each, as the XLM limit.
* `FamilyPage` and `FamilyBox` are two models of one protocol, from the page and from
  the server.  Their product is beyond the runs; each takes any answer the other may
  give.

* What the pool page shows beside the row and the contract: the ranking, the feed, whether
  the pool's wallet may receive the asset.

Left out for good: rendering, texts and formatting, contacts and labels, the
trust score, SEP-7 strings, settings, admin and migrations, the command-line
client and the smoke test: they keep no state that another part relies on.

## 7. Running

    tlc -workers 2 -config MCVault.cfg MCVault.tla
    tlapm VaultProofs.tla

`PROJECT.json` names the module, configuration and properties of each run, maps
every definition to the lines it models and pairs each checked property with a
mistake in the code that it catches.
