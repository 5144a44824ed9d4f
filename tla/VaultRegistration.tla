------------------------- MODULE VaultRegistration -------------------------
(***************************************************************************)
(* How a pool comes to be registered in the vault, and how the backend's    *)
(* row learns of it.  The register-build handler computes the progress the  *)
(* pool already has and simulates create_pool; the owner signs; the submit  *)
(* handler sends the transaction and polls for its fate.  Between any two   *)
(* steps other requests run, donations reach the wallet, the network        *)
(* applies or drops transactions, answers get lost and workers die.         *)
(*                                                                          *)
(* One pool.  Its wallet's sequence number is kept because a transaction    *)
(* is valid only while its own number is the next one.  Donations are       *)
(* counted in units of XLM-equivalent.  The row's flag is written with      *)
(* update_fields, so it is a variable of its own.                           *)
(***************************************************************************)
EXTENDS Integers, FiniteSets

CONSTANTS
  Requests,       \* requests the backend serves at the same time
  Txs,            \* bound: create_pool transactions built
  Wallet,         \* the pool's wallet_address
  Others,         \* accounts that call create_pool with this short_code on their own
  DonationKinds,  \* which of "rated" and "unrated" donations reach the wallet
  MaxDonated,     \* bound: donations to the wallet
  MaxSequence,    \* bound: the wallet's sequence number that other transactions reach
  MaxFailures     \* bound: calls that fail, workers that die

ASSUME RegistrationAssumption ==
  /\ Wallet \notin Others /\ Wallet # "nobody"
  /\ MaxDonated \in Nat /\ MaxFailures \in Nat

VARIABLES
  contract,   \* the contract's entry of this short_code
  sequence,   \* sequence number of the wallet's account
  tx,         \* tx[t]: a create_pool transaction and what became of it
  donated,    \* donations on the wallet's ledger
  unrated,    \* one of them is in an asset without a reference rate
  flag,       \* pool.vault_registered
  request,    \* request[r]: the handler that serves it
  failures

vars == <<contract, sequence, tx, donated, unrated, flag, request, failures>>

None == [owner |-> "nobody", initial |-> 0, floor |-> 0]
Idle == [at |-> "idle"]
Free == [fate |-> "free"]

Handlers ==
  [at : {"idle"}] \cup
  [at : {"check", "sync"}, floor : 0..MaxDonated] \cup
  [at : {"simulate"}, floor : 0..MaxDonated, historical : 0..MaxDonated] \cup
  [at : {"send", "poll", "timedOut", "confirmed"}, tx : Txs]

Transactions ==
  {Free} \cup
  [fate : {"built", "pending", "succeeded", "failed", "dead"}, owner : {Wallet} \cup Others,
   sequence : Nat, initial : 0..MaxDonated, floor : 0..MaxDonated]

\* What the contract, the transactions, the row and the handlers may hold.
TypeOK ==
  /\ contract \in {None} \cup [owner : {Wallet} \cup Others, initial : 0..MaxDonated,
                               floor : 0..MaxDonated]
  /\ sequence \in Nat
  /\ tx \in [Txs -> Transactions]
  /\ donated \in 0..MaxDonated /\ unrated \in BOOLEAN
  /\ flag \in BOOLEAN
  /\ request \in [Requests -> Handlers]
  /\ failures \in 0..MaxFailures

Init ==
  /\ contract = None
  /\ sequence = 0
  /\ tx = [t \in Txs |-> Free]
  /\ donated = 0
  /\ unrated = FALSE
  /\ flag = FALSE
  /\ request = [r \in Requests |-> Idle]
  /\ failures = 0

ledger == <<contract, sequence, donated, unrated>>

Goes(r, handler) == request' = [request EXCEPT ![r] = handler]
Failure == failures < MaxFailures /\ failures' = failures + 1

----------------------------------------------------------------------------
(* The ledger *)

\* Donations keep going to the wallet while the page is classic.
Donate(kind) ==
  /\ donated < MaxDonated
  /\ donated' = donated + 1
  /\ unrated' = (unrated \/ kind = "unrated")
  /\ UNCHANGED <<contract, sequence, tx, flag, request, failures>>

\* The wallet signs something else: what was built before is no longer valid.
OtherTransaction ==
  /\ sequence < MaxSequence
  /\ sequence' = sequence + 1
  /\ UNCHANGED <<contract, donated, unrated, tx, flag, request, failures>>

\* create_pool is open to everybody, with themselves as owner.
OthersBuild(t, o) ==
  /\ tx[t] = Free
  /\ tx' = [tx EXCEPT ![t] = [fate |-> "built", owner |-> o, sequence |-> 0,
                              initial |-> 0, floor |-> 0]]
  /\ UNCHANGED <<ledger, flag, request, failures>>

OthersSend(t) ==
  /\ tx[t].fate = "built" /\ tx[t].owner # Wallet
  /\ tx' = [tx EXCEPT ![t].fate = "pending"]
  /\ UNCHANGED <<ledger, flag, request, failures>>

Valid(t) == tx[t].owner = Wallet => tx[t].sequence = sequence + 1

\* A create_pool that finds the short_code taken fails and consumes its number.
Apply(t) ==
  /\ tx[t].fate = "pending" /\ Valid(t)
  /\ IF contract = None
     THEN /\ contract' = [owner |-> tx[t].owner, initial |-> tx[t].initial, floor |-> tx[t].floor]
          /\ tx' = [tx EXCEPT ![t].fate = "succeeded"]
     ELSE /\ tx' = [tx EXCEPT ![t].fate = "failed"]
          /\ UNCHANGED contract
  /\ sequence' = IF tx[t].owner = Wallet THEN tx[t].sequence ELSE sequence
  /\ UNCHANGED <<donated, unrated, flag, request, failures>>

\* The transaction's time bound (TRANSACTION_TIMEOUT_SECONDS) has passed.
Expire(t) ==
  /\ tx[t].fate \in {"built", "pending"}
  /\ tx' = [tx EXCEPT ![t].fate = "dead"]
  /\ UNCHANGED <<ledger, flag, request, failures>>

----------------------------------------------------------------------------
(* VaultRegisterBuildView.post *)

OnChainForAnyone == contract # None
OnChain == contract.owner = Wallet

\* The reconciliation comes before anything is built.
FirstStepSync == "sync"
FirstStep == "check"

\* The row is read once, when the request begins; a registered pool answers 409.
BuildBegin(r) ==
  /\ request[r] = Idle /\ ~ flag
  /\ Goes(r, [at |-> FirstStep, floor |-> donated])
  /\ UNCHANGED <<ledger, tx, flag, failures>>

\* _pool_registered_on_chain: reconcile, or go on.
Check(r) ==
  /\ request[r].at = "check"
  /\ flag' = (flag \/ OnChain)
  /\ Goes(r, IF OnChain THEN Idle ELSE [request[r] EXCEPT !.at = "sync"])
  /\ UNCHANGED <<ledger, tx, failures>>

\* Soroban does not answer: best-effort, as if the pool were not there.
CheckUnanswered(r) ==
  /\ request[r].at = "check"
  /\ Failure
  /\ Goes(r, [request[r] EXCEPT !.at = "sync"])
  /\ UNCHANGED <<ledger, tx, flag>>

\* _current_vault_equivalent: without a complete set of rates there is no total.
Historical == IF unrated THEN 0 ELSE donated

WithHistory(r, historical) ==
  [at |-> "simulate", floor |-> request[r].floor, historical |-> historical]

Sync(r) ==
  /\ request[r].at = "sync"
  /\ Goes(r, WithHistory(r, Historical))
  /\ UNCHANGED <<ledger, tx, flag, failures>>

\* Horizon does not answer: 503, no initial_equivalent is made up.
AfterOutageZero(r) == WithHistory(r, 0)
AfterOutageUnset(r) == [request[r] EXCEPT !.at = "simulate"]
AfterOutage(r) == Idle

SyncUnanswered(r) ==
  /\ request[r].at = "sync"
  /\ Failure
  /\ Goes(r, AfterOutage(r))
  /\ UNCHANGED <<ledger, tx, flag>>

\* build_create_pool_tx: the simulation panics when the short_code is taken.
Simulate(r) ==
  /\ request[r].at = "simulate"
  /\ Goes(r, Idle)
  /\ \/ /\ contract = None
        /\ \E t \in Txs :
             /\ tx[t] = Free
             /\ tx' = [tx EXCEPT ![t] =
                  [fate |-> "built", owner |-> Wallet, sequence |-> sequence + 1,
                   initial |-> request[r].historical, floor |-> request[r].floor]]
     \/ /\ contract # None \/ \A t \in Txs : tx[t] # Free
        /\ UNCHANGED tx
  /\ UNCHANGED <<ledger, flag, failures>>

----------------------------------------------------------------------------
(* VaultSubmitView.post with a create_pool, and submit_vault_tx *)

\* A signed transaction may be submitted again, from another tab or by a retry.
OwnedByWallet(t) == tx[t].owner = Wallet

SubmitBegin(r, t) ==
  /\ request[r] = Idle /\ ~ flag
  /\ tx[t] # Free /\ OwnedByWallet(t)
  /\ Goes(r, [at |-> "send", tx |-> t])
  /\ UNCHANGED <<ledger, tx, flag, failures>>

\* PENDING, or DUPLICATE when the network knows the transaction already.
SendAccepted(r) ==
  /\ request[r].at = "send"
  /\ LET t == request[r].tx IN
       /\ tx[t].fate # "built" \/ Valid(t)
       /\ tx[t].fate # "dead"
       /\ tx' = [tx EXCEPT ![t].fate = IF @ = "built" THEN "pending" ELSE @]
  /\ Goes(r, [request[r] EXCEPT !.at = "poll"])
  /\ UNCHANGED <<ledger, flag, failures>>

\* TRY_AGAIN_LATER is not ERROR: the code polls for a transaction nobody queued.
SendIgnored(r) ==
  /\ request[r].at = "send"
  /\ Goes(r, [request[r] EXCEPT !.at = "poll"])
  /\ UNCHANGED <<ledger, tx, flag, failures>>

\* ERROR: expired, or its sequence number is not the next one any more.
SendRejected(r) ==
  /\ request[r].at = "send"
  /\ tx[request[r].tx].fate = "dead" \/ ~ Valid(request[r].tx)
  /\ Goes(r, Idle)
  /\ UNCHANGED <<ledger, tx, flag, failures>>

\* The connection breaks; the network may have the transaction or not.
SendUnanswered(r) ==
  /\ request[r].at = "send"
  /\ Failure
  /\ tx' \in {tx, [tx EXCEPT ![request[r].tx].fate = IF @ = "built" THEN "pending" ELSE @]}
  /\ Goes(r, Idle)
  /\ UNCHANGED <<ledger, flag>>

PollSuccess(r) ==
  /\ request[r].at = "poll" /\ tx[request[r].tx].fate = "succeeded"
  /\ Goes(r, [request[r] EXCEPT !.at = "confirmed"])
  /\ UNCHANGED <<ledger, tx, flag, failures>>

PollFailed(r) ==
  /\ request[r].at = "poll" /\ tx[request[r].tx].fate = "failed"
  /\ Goes(r, Idle)
  /\ UNCHANGED <<ledger, tx, flag, failures>>

\* POLL_ATTEMPTS used up: the transaction may still be applied later.
PollTimeout(r) ==
  /\ request[r].at = "poll" /\ tx[request[r].tx].fate \notin {"succeeded", "failed"}
  /\ Goes(r, [request[r] EXCEPT !.at = "timedOut"])
  /\ UNCHANGED <<ledger, tx, flag, failures>>

\* VaultConfirmationTimeoutError: look at the contract before answering 503.
Reconcile(r) ==
  /\ request[r].at = "timedOut"
  /\ flag' = (flag \/ OnChain)
  /\ Goes(r, Idle)
  /\ UNCHANGED <<ledger, tx, failures>>

Confirm(r) ==
  /\ request[r].at = "confirmed"
  /\ flag' = TRUE
  /\ Goes(r, Idle)
  /\ UNCHANGED <<ledger, tx, failures>>

\* A lost poll answer or reconciliation query (503), or the worker dies.
Abandon(r) ==
  /\ request[r] # Idle
  /\ Failure
  /\ Goes(r, Idle)
  /\ UNCHANGED <<ledger, tx, flag>>

----------------------------------------------------------------------------
Build(r) == BuildBegin(r) \/ Check(r) \/ Sync(r) \/ Simulate(r)

Submit(r) ==
  \/ \E t \in Txs : SubmitBegin(r, t)
  \/ SendAccepted(r) \/ SendIgnored(r) \/ SendRejected(r)
  \/ PollSuccess(r) \/ PollFailed(r) \/ PollTimeout(r) \/ Reconcile(r) \/ Confirm(r)

Fault(r) ==
  CheckUnanswered(r) \/ SyncUnanswered(r) \/ SendUnanswered(r) \/ Abandon(r)

Network ==
  \/ \E kind \in DonationKinds : Donate(kind)
  \/ OtherTransaction
  \/ \E t \in Txs : \/ \E o \in Others : OthersBuild(t, o)
                    \/ OthersSend(t) \/ Apply(t) \/ Expire(t)

Next ==
  \/ Network
  \/ \E r \in Requests : Build(r) \/ Submit(r) \/ Fault(r)

Spec == Init /\ [][Next]_vars

\* A request that was begun is served to its end, and the owner presses
\* "Reintentar registro" while the page is classic.
Serving(r) == WF_vars(request[r] # Idle /\ (Build(r) \/ Submit(r)))
OwnerSpec == Spec /\ \A r \in Requests : Serving(r) /\ SF_vars(BuildBegin(r))

----------------------------------------------------------------------------
(* Properties *)

\* The row says "registered" only of a pool that the contract holds
\* with this wallet as owner, whoever registered the short_code and whatever the
\* handlers read before.  (VaultSubmitView: a SUCCESS is proof of execution.)
FlagTruthful == flag => contract.owner = Wallet

\* A pool that moves to the vault takes its progress with it: everything on the
\* wallet's ledger when the owner asked for the registration, and nothing made up.
\* (_current_vault_equivalent, views.py 210-214.)
ProgressCarried ==
  contract.owner = Wallet => contract.floor <= contract.initial /\ contract.initial <= donated

\* A registration that reached the ledger reaches the flag, although its answer was
\* lost or timed out, if the owner tries again and failures stop.
RegistrationReconciled == contract.owner = Wallet ~> flag

=============================================================================
