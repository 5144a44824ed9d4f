---------------------- MODULE VaultRegistrationProofs ----------------------
(***************************************************************************)
(* Why the row may trust what its handlers read: the contract's entry never *)
(* changes once it is set, a transaction that succeeded is the one that set *)
(* it, and a submit is only ever about a transaction of the wallet.         *)
(***************************************************************************)
EXTENDS VaultRegistration, TLAPS

Submitting == {"send", "poll", "timedOut", "confirmed"}

\* What a handler holds of a transaction is the wallet's, and what it confirmed ran.
Submits(handler) ==
  handler.at \in Submitting =>
    /\ tx[handler.tx].fate # "free" /\ tx[handler.tx].owner = Wallet
    /\ handler.at = "confirmed" => tx[handler.tx].fate = "succeeded"

Submitted == \A r \in Requests : Submits(request[r])

\* A create_pool of the wallet that succeeded is the contract's entry.
Registered ==
  \A t \in Txs : tx[t].fate = "succeeded" /\ tx[t].owner = Wallet => contract.owner = Wallet

IInv == TypeOK /\ Submitted /\ Registered /\ FlagTruthful

Owned ==
  [fate : {"built", "pending", "succeeded", "failed", "dead"}, owner : {Wallet} \cup Others,
   sequence : Nat, initial : 0..MaxDonated, floor : 0..MaxDonated]
Entries == [owner : {Wallet} \cup Others, initial : 0..MaxDonated, floor : 0..MaxDonated]

----------------------------------------------------------------------------
(* The shapes of what is stored *)

LEMMA HandlerShapes ==
  ASSUME NEW h \in Handlers
  PROVE  /\ h.at \in {"idle", "check", "sync", "simulate"} \cup Submitting
         /\ h.at = "idle" <=> h = Idle
         /\ h.at \in {"check", "sync"} =>
              h \in [at : {"check", "sync"}, floor : 0..MaxDonated]
         /\ h.at = "simulate" =>
              h \in [at : {"simulate"}, floor : 0..MaxDonated, historical : 0..MaxDonated]
         /\ h.at \in Submitting => h \in [at : Submitting, tx : Txs]
BY DEF Handlers, Idle, Submitting

LEMMA TransactionShapes ==
  ASSUME NEW x \in Transactions
  PROVE  /\ x.fate = "free" <=> x = Free
         /\ x.fate # "free" => x \in Owned
BY DEF Transactions, Free, Owned

----------------------------------------------------------------------------
(* What the steps have in common *)

\* A handler that goes on, and perhaps tells the row what the contract says.
LEMMA HandlerGoesOn ==
  ASSUME IInv, NEW r \in Requests, NEW h \in Handlers, Goes(r, h), Submits(h),
         UNCHANGED <<ledger, tx>>, flag' \in BOOLEAN, flag' => contract.owner = Wallet,
         failures' \in 0..MaxFailures
  PROVE  IInv'
<1>1. TypeOK'
  BY DEF IInv, TypeOK, Goes, ledger
<1>2. request' = [request EXCEPT ![r] = h] /\ request \in [Requests -> Handlers]
  BY DEF IInv, TypeOK, Goes
<1>3. Submitted'
  <2> SUFFICES ASSUME NEW q \in Requests PROVE Submits(request[q])'
    BY DEF Submitted
  <2>1. tx' = tx
    OBVIOUS
  <2>2. request'[q] = IF q = r THEN h ELSE request[q]
    BY <1>2
  <2>3. Submits(request[q])
    BY DEF IInv, Submitted
  <2> QED
    BY <2>1, <2>2, <2>3 DEF Submits
<1>4. Registered' /\ FlagTruthful'
  BY DEF IInv, Registered, FlagTruthful, ledger
<1> QED
  BY <1>1, <1>3, <1>4 DEF IInv

\* A transaction that is built, sent or given up; nothing is executed.
LEMMA TransactionMoves ==
  ASSUME IInv, NEW t \in Txs, NEW x \in Owned, x.fate # "succeeded",
         tx' = [tx EXCEPT ![t] = x], tx[t].fate # "succeeded",
         tx[t].fate # "free" => x.owner = tx[t].owner,
         UNCHANGED <<ledger, flag>>, request' \in [Requests -> Handlers],
         \A r \in Requests : request'[r] = request[r]
                             \/ (Submits(request'[r]) /\ request'[r].at # "confirmed"),
         failures' \in 0..MaxFailures
  PROVE  IInv'
<1>1. tx \in [Txs -> Transactions] /\ x \in Transactions
  BY DEF IInv, TypeOK, Transactions, Owned
<1>2. TypeOK'
  BY <1>1 DEF IInv, TypeOK, ledger
<1>3. Submitted'
  <2> SUFFICES ASSUME NEW r \in Requests PROVE Submits(request[r])'
    BY DEF Submitted
  <2>1. Submits(request'[r])
    BY DEF IInv, Submitted
  <2>2. x.fate # "free"
    BY DEF Owned
  <2>3. request'[r].at \in Submitting => request'[r].tx \in Txs
    BY HandlerShapes
  <2>4. SUFFICES ASSUME request'[r].at \in Submitting
                 PROVE  /\ tx'[request'[r].tx].fate # "free"
                        /\ tx'[request'[r].tx].owner = Wallet
                        /\ request'[r].at = "confirmed" => tx'[request'[r].tx].fate = "succeeded"
    BY DEF Submits
  <2>5. CASE request'[r].tx = t
    BY <1>1, <2>1, <2>2, <2>3, <2>4, <2>5 DEF Submits
  <2>6. CASE request'[r].tx # t
    BY <1>1, <2>1, <2>3, <2>4, <2>6 DEF Submits
  <2> QED
    BY <2>5, <2>6
<1>4. Registered'
  BY <1>1 DEF IInv, Registered, ledger
<1>5. FlagTruthful'
  BY DEF IInv, FlagTruthful, ledger
<1> QED
  BY <1>2, <1>3, <1>4, <1>5 DEF IInv

----------------------------------------------------------------------------
(* The steps *)

LEMMA RequestTyped ==
  ASSUME IInv, NEW r \in Requests
  PROVE  request[r] \in Handlers /\ Submits(request[r])
BY DEF IInv, TypeOK, Submitted

LEMMA IdleHandler == Idle \in Handlers /\ Submits(Idle)
BY DEF Idle, Handlers, Submits, Submitting

LEMMA BuildSteps ==
  ASSUME IInv, NEW r \in Requests, BuildBegin(r) \/ Check(r) \/ Sync(r)
  PROVE  IInv'
<1> USE RequestTyped, HandlerShapes, IdleHandler
<1>1. ASSUME BuildBegin(r) PROVE IInv'
  <2> DEFINE h == [at |-> "check", floor |-> donated]
  <2>1. h \in Handlers /\ Submits(h)
    BY DEF IInv, TypeOK, Handlers, Submits, Submitting
  <2>2. /\ Goes(r, h) /\ UNCHANGED <<ledger, tx, flag, failures>>
    BY <1>1 DEF BuildBegin, FirstStep
  <2>3. flag' \in BOOLEAN /\ (flag' => contract.owner = Wallet) /\ failures' \in 0..MaxFailures
    BY <2>2 DEF IInv, TypeOK, FlagTruthful
  <2> HIDE DEF h
  <2> QED
    BY <2>1, <2>2, <2>3, HandlerGoesOn
<1>2. ASSUME Check(r) PROVE IInv'
  <2> DEFINE h == IF OnChain THEN Idle ELSE [request[r] EXCEPT !.at = "sync"]
  <2>1. h \in Handlers /\ Submits(h)
    <3>1. request[r] \in [at : {"check", "sync"}, floor : 0..MaxDonated]
      BY <1>2 DEF Check
    <3>2. [request[r] EXCEPT !.at = "sync"] \in [at : {"check", "sync"}, floor : 0..MaxDonated]
      BY <3>1
    <3>3. [request[r] EXCEPT !.at = "sync"].at = "sync"
      BY <3>1
    <3> QED
      BY <3>2, <3>3 DEF Handlers, Submits, Submitting
  <2>2. Goes(r, h) /\ UNCHANGED <<ledger, tx, failures>> /\ flag' = (flag \/ OnChain)
    BY <1>2 DEF Check
  <2>3. flag' \in BOOLEAN /\ (flag' => contract.owner = Wallet) /\ failures' \in 0..MaxFailures
    BY <2>2 DEF IInv, TypeOK, FlagTruthful, OnChain
  <2>4. UNCHANGED <<ledger, tx>>
    BY <2>2
  <2> HIDE DEF h
  <2> QED
    BY <2>1, <2>2, <2>3, <2>4, HandlerGoesOn
<1>3. ASSUME Sync(r) PROVE IInv'
  <2> DEFINE h == WithHistory(r, Historical)
  <2>1. request[r] \in [at : {"check", "sync"}, floor : 0..MaxDonated]
    BY <1>3 DEF Sync
  <2>2. Historical \in 0..MaxDonated
    BY RegistrationAssumption DEF IInv, TypeOK, Historical
  <2>3. h \in Handlers /\ Submits(h)
    BY <2>1, <2>2 DEF WithHistory, Handlers, Submits, Submitting
  <2>4. Goes(r, h) /\ UNCHANGED <<ledger, tx, flag, failures>>
    BY <1>3 DEF Sync
  <2>5. flag' \in BOOLEAN /\ (flag' => contract.owner = Wallet) /\ failures' \in 0..MaxFailures
    BY <2>4 DEF IInv, TypeOK, FlagTruthful
  <2>6. UNCHANGED <<ledger, tx>>
    BY <2>4
  <2> HIDE DEF h
  <2> QED
    BY <2>3, <2>4, <2>5, <2>6, HandlerGoesOn
<1> QED
  BY <1>1, <1>2, <1>3

LEMMA SimulateStep == ASSUME IInv, NEW r \in Requests, Simulate(r) PROVE IInv'
<1>1. request[r] \in [at : {"simulate"}, floor : 0..MaxDonated, historical : 0..MaxDonated]
  BY RequestTyped, HandlerShapes DEF Simulate
<1>2. /\ Goes(r, Idle) /\ UNCHANGED <<ledger, flag, failures>>
  BY DEF Simulate
<1>3. /\ request' \in [Requests -> Handlers]
      /\ \A q \in Requests : request'[q] = request[q]
                             \/ (Submits(request'[q]) /\ request'[q].at # "confirmed")
  BY <1>2, IdleHandler DEF Goes, IInv, TypeOK, Idle
<1>4. flag' \in BOOLEAN /\ (flag' => contract.owner = Wallet) /\ failures' \in 0..MaxFailures
  BY <1>2 DEF IInv, TypeOK, FlagTruthful
<1>5. ASSUME UNCHANGED tx PROVE IInv'
  BY <1>2, <1>4, <1>5, IdleHandler, HandlerGoesOn
<1>6. ASSUME NEW t \in Txs, tx[t] = Free,
             tx' = [tx EXCEPT ![t] =
                  [fate |-> "built", owner |-> Wallet, sequence |-> sequence + 1,
                   initial |-> request[r].historical, floor |-> request[r].floor]]
      PROVE  IInv'
  <2> DEFINE x == [fate |-> "built", owner |-> Wallet, sequence |-> sequence + 1,
                   initial |-> request[r].historical, floor |-> request[r].floor]
  <2>1. x \in Owned /\ x.fate # "succeeded"
    BY <1>1 DEF Owned, IInv, TypeOK
  <2>2. tx[t].fate = "free"
    BY <1>6 DEF Free
  <2>3. tx' = [tx EXCEPT ![t] = x]
    BY <1>6
  <2>4. UNCHANGED <<ledger, flag>>
    BY <1>2
  <2> HIDE DEF x
  <2> QED
    BY <1>3, <1>4, <2>1, <2>2, <2>3, <2>4, TransactionMoves
<1> QED
  BY <1>5, <1>6 DEF Simulate

\* The handler's next step of a submit, about the same transaction.
LEMMA SameTransaction ==
  ASSUME IInv, NEW r \in Requests, request[r].at \in Submitting, NEW a \in Submitting,
         a = "confirmed" => tx[request[r].tx].fate = "succeeded"
  PROVE  /\ [request[r] EXCEPT !.at = a] \in Handlers
         /\ Submits([request[r] EXCEPT !.at = a])
         /\ [request[r] EXCEPT !.at = a].at = a
         /\ [request[r] EXCEPT !.at = a].tx = request[r].tx
<1>1. request[r] \in [at : Submitting, tx : Txs]
  BY RequestTyped, HandlerShapes
<1>2. /\ [request[r] EXCEPT !.at = a] \in [at : Submitting, tx : Txs]
      /\ [request[r] EXCEPT !.at = a].at = a
      /\ [request[r] EXCEPT !.at = a].tx = request[r].tx
  BY <1>1
<1>3. [request[r] EXCEPT !.at = a] \in Handlers
  BY <1>2 DEF Handlers, Submitting
<1>4. Submits(request[r])
  BY RequestTyped
<1> QED
  BY <1>2, <1>3, <1>4 DEF Submits

LEMMA PollSteps ==
  ASSUME IInv, NEW r \in Requests,
         \/ SendIgnored(r) \/ SendRejected(r) \/ PollSuccess(r) \/ PollFailed(r)
         \/ PollTimeout(r) \/ Reconcile(r) \/ Confirm(r)
  PROVE  IInv'
<1> DEFINE Next1(h) == h \in Handlers /\ Submits(h) /\ Goes(r, h)
<1>1. PICK h \in Handlers : Submits(h) /\ Goes(r, h)
  <2>1. ASSUME SendIgnored(r) PROVE Next1([request[r] EXCEPT !.at = "poll"])
    BY <2>1, SameTransaction DEF SendIgnored, Submitting
  <2>2. ASSUME PollSuccess(r) PROVE Next1([request[r] EXCEPT !.at = "confirmed"])
    BY <2>2, SameTransaction DEF PollSuccess, Submitting
  <2>3. ASSUME PollTimeout(r) PROVE Next1([request[r] EXCEPT !.at = "timedOut"])
    BY <2>3, SameTransaction DEF PollTimeout, Submitting
  <2>4. ASSUME SendRejected(r) \/ PollFailed(r) \/ Reconcile(r) \/ Confirm(r) PROVE Next1(Idle)
    BY <2>4, IdleHandler DEF SendRejected, PollFailed, Reconcile, Confirm
  <2> QED
    BY <2>1, <2>2, <2>3, <2>4
<1> HIDE DEF Next1
<1>2. UNCHANGED <<ledger, tx, failures>> /\ (flag' = flag \/ flag' = (flag \/ OnChain) \/ Confirm(r))
  BY DEF SendIgnored, SendRejected, PollSuccess, PollFailed, PollTimeout, Reconcile, Confirm
<1>3. Confirm(r) => contract.owner = Wallet /\ flag' = TRUE
  <2> SUFFICES ASSUME Confirm(r) PROVE contract.owner = Wallet /\ flag' = TRUE
    OBVIOUS
  <2>1. request[r].at = "confirmed" /\ flag' = TRUE
    BY DEF Confirm
  <2>2. request[r].tx \in Txs
    BY <2>1, RequestTyped, HandlerShapes DEF Submitting
  <2> QED
    BY <2>1, <2>2, RequestTyped DEF Submits, Submitting, IInv, Registered
<1>4. flag' \in BOOLEAN /\ (flag' => contract.owner = Wallet)
  <2>1. flag \in BOOLEAN /\ (flag => contract.owner = Wallet)
    BY DEF IInv, TypeOK, FlagTruthful
  <2>2. CASE flag' = flag
    BY <2>1, <2>2
  <2>3. CASE flag' = (flag \/ OnChain)
    BY <2>1, <2>3, Zenon DEF OnChain
  <2>4. CASE Confirm(r)
    BY <1>3, <2>4
  <2> QED
    BY <1>2, <2>2, <2>3, <2>4
<1>5. failures' \in 0..MaxFailures /\ UNCHANGED <<ledger, tx>>
  BY <1>2 DEF IInv, TypeOK
<1> QED
  BY <1>1, <1>4, <1>5, HandlerGoesOn


\* The network receives the transaction: it waits for its turn.
LEMMA Received ==
  ASSUME IInv, NEW t \in Txs, tx[t].fate # "free"
  PROVE  \/ tx[t].fate # "built"
         \/ /\ [tx[t] EXCEPT !.fate = "pending"] \in Owned
            /\ [tx[t] EXCEPT !.fate = "pending"].fate = "pending"
            /\ [tx[t] EXCEPT !.fate = "pending"].owner = tx[t].owner
<1>1. tx[t] \in Owned
  BY TransactionShapes DEF IInv, TypeOK
<1> QED
  BY <1>1 DEF Owned

LEMMA SendSteps ==
  ASSUME IInv, NEW r \in Requests, SendAccepted(r) \/ SendUnanswered(r)
  PROVE  IInv'
<1> DEFINE t == request[r].tx
           x == [tx[t] EXCEPT !.fate = "pending"]
<1>1. request[r].at = "send" /\ request[r].at \in Submitting
  BY DEF SendAccepted, SendUnanswered, Submitting
<1>2. t \in Txs /\ tx[t].fate # "free" /\ tx \in [Txs -> Transactions]
  BY <1>1, RequestTyped, HandlerShapes DEF Submits, IInv, TypeOK
<1>3. PICK h \in Handlers : Submits(h) /\ Goes(r, h) /\ h.at # "confirmed"
  <2>1. ASSUME SendAccepted(r) PROVE Goes(r, [request[r] EXCEPT !.at = "poll"])
    BY <2>1 DEF SendAccepted
  <2>2. ASSUME SendUnanswered(r) PROVE Goes(r, Idle) /\ Idle.at # "confirmed"
    BY <2>2 DEF SendUnanswered, Idle
  <2>3. "poll" \in Submitting
    BY DEF Submitting
  <2> QED
    BY <1>1, <2>1, <2>2, <2>3, SameTransaction, IdleHandler
<1>4. /\ request' \in [Requests -> Handlers]
      /\ \A q \in Requests : request'[q] = request[q]
                             \/ (Submits(request'[q]) /\ request'[q].at # "confirmed")
  BY <1>3 DEF Goes, IInv, TypeOK
<1>5. /\ UNCHANGED <<ledger, flag>> /\ failures' \in 0..MaxFailures
  BY RegistrationAssumption DEF SendAccepted, SendUnanswered, Failure, IInv, TypeOK
<1>6. tx' = tx \/ (tx[t].fate = "built" /\ tx' = [tx EXCEPT ![t] = x])
  <2>1. tx' = tx \/ tx' = [tx EXCEPT ![t].fate = IF @ = "built" THEN "pending" ELSE @]
    BY DEF SendAccepted, SendUnanswered
  <2>2. tx[t] \in Owned
    BY <1>2, TransactionShapes
  <2>3. CASE tx[t].fate = "built"
    BY <2>1, <2>3
  <2>4. CASE tx[t].fate # "built"
    <3>1. [tx[t] EXCEPT !.fate = tx[t].fate] = tx[t]
      BY <2>2 DEF Owned
    <3> QED
      BY <1>2, <2>1, <2>4, <3>1
  <2> QED
    BY <2>3, <2>4
<1> HIDE DEF t, x
<1>7. CASE tx' = tx
  <2>1. flag' \in BOOLEAN /\ (flag' => contract.owner = Wallet)
    BY <1>5 DEF IInv, TypeOK, FlagTruthful
  <2> QED
    BY <1>3, <1>5, <1>7, <2>1, HandlerGoesOn
<1>8. CASE tx[t].fate = "built" /\ tx' = [tx EXCEPT ![t] = x]
  <2>1. x \in Owned /\ x.fate = "pending" /\ x.owner = tx[t].owner
    BY <1>2, <1>8, Received DEF x
  <2> QED
    BY <1>2, <1>4, <1>5, <1>8, <2>1, TransactionMoves
<1> QED
  BY <1>6, <1>7, <1>8

LEMMA RequestFaults ==
  ASSUME IInv, NEW r \in Requests,
         CheckUnanswered(r) \/ SyncUnanswered(r) \/ Abandon(r)
  PROVE  IInv'
<1>1. PICK h \in Handlers : Submits(h) /\ Goes(r, h)
  <2>1. ASSUME CheckUnanswered(r)
        PROVE  LET h == [request[r] EXCEPT !.at = "sync"]
               IN  h \in Handlers /\ Submits(h) /\ Goes(r, h)
    <3> DEFINE h == [request[r] EXCEPT !.at = "sync"]
    <3>1. request[r] \in [at : {"check", "sync"}, floor : 0..MaxDonated]
      BY <2>1, RequestTyped, HandlerShapes DEF CheckUnanswered
    <3>2. h \in [at : {"check", "sync"}, floor : 0..MaxDonated] /\ h.at = "sync"
      BY <3>1
    <3>3. Goes(r, h)
      BY <2>1 DEF CheckUnanswered
    <3> QED
      BY <3>2, <3>3 DEF Handlers, Submits, Submitting
  <2>2. ASSUME SyncUnanswered(r) \/ Abandon(r) PROVE Goes(r, Idle)
    BY <2>2 DEF SyncUnanswered, Abandon, AfterOutage
  <2> QED
    BY <2>1, <2>2, IdleHandler
<1>2. /\ UNCHANGED <<ledger, tx, flag>> /\ failures' \in 0..MaxFailures
  BY RegistrationAssumption
  DEF CheckUnanswered, SyncUnanswered, Abandon, Failure, IInv, TypeOK
<1>3. flag' \in BOOLEAN /\ (flag' => contract.owner = Wallet)
  BY <1>2 DEF IInv, TypeOK, FlagTruthful
<1> QED
  BY <1>1, <1>2, <1>3, HandlerGoesOn

LEMMA SubmitBegins ==
  ASSUME IInv, NEW r \in Requests, NEW t \in Txs, SubmitBegin(r, t)
  PROVE  IInv'
<1> DEFINE h == [at |-> "send", tx |-> t]
<1>1. h \in Handlers /\ Submits(h)
  <2>1. tx[t].fate # "free"
    BY TransactionShapes DEF SubmitBegin, IInv, TypeOK
  <2> QED
    BY <2>1 DEF SubmitBegin, OwnedByWallet, Handlers, Submits, Submitting
<1>2. Goes(r, h) /\ UNCHANGED <<ledger, tx, flag, failures>>
  BY DEF SubmitBegin
<1>3. flag' \in BOOLEAN /\ (flag' => contract.owner = Wallet) /\ failures' \in 0..MaxFailures
  BY <1>2 DEF IInv, TypeOK, FlagTruthful
<1>4. UNCHANGED <<ledger, tx>>
  BY <1>2
<1> HIDE DEF h
<1> QED
  BY <1>1, <1>2, <1>3, <1>4, HandlerGoesOn

----------------------------------------------------------------------------
(* The network *)

LEMMA LedgerGrows ==
  ASSUME IInv, (\E kind \in DonationKinds : Donate(kind)) \/ OtherTransaction
  PROVE  IInv'
<1>1. UNCHANGED <<contract, tx, flag, request, failures>>
  BY DEF Donate, OtherTransaction
<1>2. sequence' \in Nat /\ donated' \in 0..MaxDonated
  BY RegistrationAssumption DEF Donate, OtherTransaction, IInv, TypeOK
<1>3. unrated' \in BOOLEAN
  <2>1. ASSUME NEW kind \in DonationKinds, Donate(kind) PROVE unrated' \in BOOLEAN
    <3>1. unrated' = (unrated \/ kind = "unrated")
      BY <2>1 DEF Donate
    <3> QED
      BY <3>1, Zenon
  <2>2. ASSUME OtherTransaction PROVE unrated' \in BOOLEAN
    BY <2>2 DEF OtherTransaction, IInv, TypeOK
  <2> QED
    BY <2>1, <2>2
<1> QED
  BY <1>1, <1>2, <1>3 DEF IInv, TypeOK, Submitted, Submits, Registered, FlagTruthful

LEMMA Unchanging ==
  ASSUME IInv, UNCHANGED <<request, failures>>
  PROVE  /\ request' \in [Requests -> Handlers] /\ failures' \in 0..MaxFailures
         /\ \A r \in Requests : request'[r] = request[r]
                             \/ (Submits(request'[r]) /\ request'[r].at # "confirmed")
BY DEF IInv, TypeOK

LEMMA OthersStep ==
  ASSUME IInv, NEW t \in Txs,
         (\E o \in Others : OthersBuild(t, o)) \/ OthersSend(t) \/ Expire(t)
  PROVE  IInv'
<1>1. /\ UNCHANGED <<ledger, flag>> /\ UNCHANGED <<request, failures>>
  BY DEF OthersBuild, OthersSend, Expire
<1>2. tx \in [Txs -> Transactions]
  BY DEF IInv, TypeOK
<1>3. ASSUME NEW o \in Others, OthersBuild(t, o) PROVE IInv'
  <2> DEFINE x == [fate |-> "built", owner |-> o, sequence |-> 0, initial |-> 0, floor |-> 0]
  <2>1. x \in Owned /\ x.fate # "succeeded"
    BY RegistrationAssumption DEF Owned
  <2>2. tx[t].fate = "free" /\ tx' = [tx EXCEPT ![t] = x]
    BY <1>3 DEF OthersBuild, Free
  <2> HIDE DEF x
  <2> QED
    BY <1>1, <2>1, <2>2, Unchanging, TransactionMoves
<1>4. ASSUME NEW a \in {"pending", "dead"}, tx[t].fate \in {"built", "pending"},
             tx' = [tx EXCEPT ![t].fate = a]
      PROVE  IInv'
  <2> DEFINE x == [tx[t] EXCEPT !.fate = a]
  <2>1. tx[t] \in Owned
    BY <1>2, <1>4, TransactionShapes
  <2>2. x \in Owned /\ x.fate # "succeeded" /\ x.owner = tx[t].owner
    BY <2>1 DEF Owned
  <2>3. tx' = [tx EXCEPT ![t] = x] /\ tx[t].fate # "succeeded"
    BY <1>4
  <2> HIDE DEF x
  <2> QED
    BY <1>1, <2>2, <2>3, Unchanging, TransactionMoves
<1>5. OthersSend(t) => IInv'
  BY <1>4 DEF OthersSend
<1>6. Expire(t) => IInv'
  BY <1>4 DEF Expire
<1> QED
  BY <1>3, <1>5, <1>6

\* The entry is set once; a wallet's transaction that succeeds is what sets it.
LEMMA ApplyStep == ASSUME IInv, NEW t \in Txs, Apply(t) PROVE IInv'
<1>1. /\ tx[t].fate = "pending" /\ tx \in [Txs -> Transactions] /\ tx[t] \in Owned
      /\ UNCHANGED <<donated, unrated, flag, request, failures>>
  BY TransactionShapes DEF Apply, IInv, TypeOK
<1>2. sequence' \in Nat
  BY <1>1 DEF Apply, Owned, IInv, TypeOK
<1>3. PICK a \in {"succeeded", "failed"} :
        /\ tx' = [tx EXCEPT ![t].fate = a]
        /\ a = "succeeded" => /\ contract = None
                              /\ contract' = [owner |-> tx[t].owner, initial |-> tx[t].initial,
                                              floor |-> tx[t].floor]
        /\ a = "failed" => contract' = contract
  BY DEF Apply
<1> DEFINE x == [tx[t] EXCEPT !.fate = a]
<1>4. x \in Owned /\ x.fate = a /\ x.owner = tx[t].owner
  BY <1>1 DEF Owned
<1>5. tx' = [tx EXCEPT ![t] = x] /\ x \in Transactions
  BY <1>3, <1>4 DEF Transactions, Owned
<1> HIDE DEF x
<1>6. contract.owner = Wallet => contract' = contract
  BY <1>3, RegistrationAssumption DEF None
<1>7. TypeOK'
  <2>1. contract' \in {None} \cup Entries
    BY <1>1, <1>3 DEF Owned, Entries, IInv, TypeOK
  <2>2. tx' \in [Txs -> Transactions]
    BY <1>1, <1>5
  <2> QED
    BY <1>1, <1>2, <2>1, <2>2 DEF IInv, TypeOK, Entries
<1>8. Submitted'
  <2> SUFFICES ASSUME NEW r \in Requests PROVE Submits(request[r])'
    BY DEF Submitted
  <2>1. /\ Submits(request[r]) /\ request' = request
        /\ request[r].at \in Submitting => request[r].tx \in Txs
    BY <1>1, RequestTyped, HandlerShapes
  <2> QED
    BY <1>1, <1>4, <1>5, <2>1 DEF Submits
<1>9. Registered'
  <2> SUFFICES ASSUME NEW s \in Txs, tx'[s].fate = "succeeded", tx'[s].owner = Wallet
               PROVE  contract'.owner = Wallet
    BY DEF Registered
  <2>1. CASE s = t
    BY <1>1, <1>3, <1>4, <1>5, <2>1
  <2>2. CASE s # t
    BY <1>1, <1>5, <1>6, <2>2 DEF IInv, Registered
  <2> QED
    BY <2>1, <2>2
<1>10. FlagTruthful'
  BY <1>1, <1>6 DEF IInv, FlagTruthful
<1> QED
  BY <1>7, <1>8, <1>9, <1>10 DEF IInv

----------------------------------------------------------------------------
(* The theorems *)

LEMMA Initially == Init => IInv
<1> SUFFICES ASSUME Init PROVE IInv
  OBVIOUS
<1>1. TypeOK
  <2>1. contract \in {None} \cup Entries
    BY DEF Init
  <2>2. tx \in [Txs -> Transactions] /\ request \in [Requests -> Handlers]
    <3>1. Free \in Transactions /\ Idle \in Handlers
      BY DEF Transactions, Handlers, Idle
    <3> QED
      BY <3>1 DEF Init
  <2>3. sequence \in Nat /\ donated \in 0..MaxDonated /\ failures \in 0..MaxFailures
    BY RegistrationAssumption DEF Init
  <2>4. unrated \in BOOLEAN /\ flag \in BOOLEAN
    BY DEF Init
  <2> QED
    BY <2>1, <2>2, <2>3, <2>4 DEF TypeOK, Entries
<1>2. Submitted /\ Registered /\ FlagTruthful
  BY DEF Init, Submitted, Submits, Submitting, Registered, FlagTruthful, Idle, Free
<1> QED
  BY <1>1, <1>2 DEF IInv

LEMMA NextKeeps == IInv /\ [Next]_vars => IInv'
<1> SUFFICES ASSUME IInv, [Next]_vars PROVE IInv'
  OBVIOUS
<1>1. ASSUME NEW t \in Txs,
             \/ \E o \in Others : OthersBuild(t, o)
             \/ OthersSend(t) \/ Apply(t) \/ Expire(t)
      PROVE  IInv'
  BY <1>1, OthersStep, ApplyStep
<1>2. ASSUME Network PROVE IInv'
  BY <1>1, <1>2, LedgerGrows DEF Network
<1>3. ASSUME NEW r \in Requests, Build(r) \/ Submit(r) \/ Fault(r) PROVE IInv'
  BY <1>3, BuildSteps, SimulateStep, SubmitBegins, SendSteps, PollSteps, RequestFaults
  DEF Build, Submit, Fault
<1>4. ASSUME UNCHANGED vars PROVE IInv'
  BY <1>4
  DEF vars, IInv, TypeOK, Submitted, Submits, Registered, FlagTruthful
<1> QED
  BY <1>2, <1>3, <1>4 DEF Next

LEMMA Invariance == Spec => []IInv
BY Initially, NextKeeps, PTL DEF Spec

\* Whatever the handlers read before they write, what is stored has its type.
THEOREM RegistrationTypeCorrect == Spec => []TypeOK
<1>1. IInv => TypeOK
  BY DEF IInv
<1> QED
  BY <1>1, Invariance, PTL

\* The row of a pool says "registered" only when the contract holds the pool with
\* its wallet as owner, for any number of overlapping requests and transactions and
\* whatever other accounts register (VaultSubmitView.post, VaultRegisterBuildView.post).
THEOREM RegistrationFlagTruthful == Spec => []FlagTruthful
<1>1. IInv => FlagTruthful
  BY DEF IInv
<1> QED
  BY <1>1, Invariance, PTL
----------------------------------------------------------------------------
(* The progress that goes with the pool, while every donation has a rate *)

\* A build knows no more progress than there is, and no less than when it began.
Reads(handler) ==
  /\ handler.at \in {"check", "sync", "simulate"} => handler.floor <= donated
  /\ handler.at = "simulate" => handler.floor <= handler.historical /\ handler.historical <= donated

Carries(x) == x.floor <= x.initial /\ x.initial <= donated

Progress ==
  /\ unrated = FALSE
  /\ \A r \in Requests : Reads(request[r])
  /\ \A t \in Txs : tx[t].fate # "free" /\ tx[t].owner = Wallet => Carries(tx[t])
  /\ ProgressCarried

\* What a step may do: the entry is set from a transaction, a transaction is built
\* with what its handler read or keeps its progress, and donations only grow.
LEMMA ProgressKept ==
  ASSUME IInv, IInv', Progress, donated <= donated', unrated' = FALSE,
         \/ contract' = contract
         \/ \E t \in Txs : /\ tx[t].fate # "free"
                          /\ contract' = [owner |-> tx[t].owner, initial |-> tx[t].initial,
                                          floor |-> tx[t].floor],
         \A t \in Txs : tx'[t].fate # "free" /\ tx'[t].owner = Wallet =>
            \/ Carries(tx'[t])
            \/ /\ tx[t].fate # "free" /\ tx[t].owner = Wallet
               /\ tx'[t].floor = tx[t].floor /\ tx'[t].initial = tx[t].initial,
         \A r \in Requests : request'[r] = request[r] \/ Reads(request'[r])
  PROVE  Progress'
<1> USE RegistrationAssumption
<1>1. /\ donated \in Nat /\ donated' \in Nat
      /\ contract \in {None} \cup Entries
      /\ \A t \in Txs : (tx[t].fate # "free" => tx[t] \in Owned)
                      /\ (tx'[t].fate # "free" => tx'[t] \in Owned)
  BY TransactionShapes DEF IInv, TypeOK, Entries
<1>2. ASSUME NEW r \in Requests PROVE Reads(request[r])'
  <2>1. Reads(request'[r])
    BY DEF Progress
  <2>2. request'[r] \in Handlers
    BY DEF IInv, TypeOK
  <2>3. /\ request'[r].at \in {"check", "sync", "simulate"} => request'[r].floor \in Nat
        /\ request'[r].at = "simulate" => request'[r].historical \in Nat
    BY <2>2, HandlerShapes
  <2> QED
    BY <1>1, <2>1, <2>3 DEF Reads
<1>3. ASSUME NEW t \in Txs, tx'[t].fate # "free", tx'[t].owner = Wallet
      PROVE  Carries(tx[t])'
  <2>1. tx'[t].floor \in Nat /\ tx'[t].initial \in Nat
    BY <1>1, <1>3 DEF Owned
  <2>2. tx'[t].floor <= tx'[t].initial /\ tx'[t].initial <= donated
    BY <1>3 DEF Progress, Carries
  <2> QED
    BY <1>1, <2>1, <2>2 DEF Carries
<1>4. ProgressCarried'
  <2>1. CASE contract' = contract
    <3> SUFFICES ASSUME contract.owner = Wallet
                 PROVE  contract.floor <= contract.initial /\ contract.initial <= donated'
      BY <2>1 DEF ProgressCarried
    <3>1. contract.floor <= contract.initial /\ contract.initial <= donated
      BY DEF Progress, ProgressCarried
    <3>2. contract.initial \in Nat
      BY <1>1 DEF None, Entries
    <3> QED
      BY <1>1, <3>1, <3>2
  <2>2. ASSUME NEW t \in Txs, tx[t].fate # "free",
               contract' = [owner |-> tx[t].owner, initial |-> tx[t].initial, floor |-> tx[t].floor]
        PROVE  ProgressCarried'
    <3> SUFFICES ASSUME tx[t].owner = Wallet
                 PROVE  tx[t].floor <= tx[t].initial /\ tx[t].initial <= donated'
      BY <2>2 DEF ProgressCarried
    <3>1. tx[t].floor <= tx[t].initial /\ tx[t].initial <= donated /\ tx[t].initial \in Nat
      BY <1>1, <2>2 DEF Progress, Carries, Owned
    <3> QED
      BY <1>1, <3>1
  <2> QED
    BY <2>1, <2>2
<1> QED
  BY <1>2, <1>3, <1>4 DEF Progress

\* Each step of a handler leaves it with progress that was read, or with none.
LEMMA HandlerReads ==
  ASSUME IInv, Progress, NEW r \in Requests, Build(r) \/ Submit(r) \/ Fault(r),
         IInv'
  PROVE  \A q \in Requests : request'[q] = request[q] \/ Reads(request'[q])
<1>1. /\ Reads(request[r]) /\ request[r] \in Handlers
      /\ \A q \in Requests : request[q] \in Handlers /\ request'[q] \in Handlers
      /\ request \in [Requests -> Handlers]
      /\ donated \in Nat
  BY RegistrationAssumption DEF Progress, IInv, TypeOK
<1>2. ASSUME NEW h, Goes(r, h), Reads(h)
      PROVE  \A q \in Requests : request'[q] = request[q] \/ Reads(request'[q])
  BY <1>1, <1>2 DEF Goes
<1>3. Reads(Idle)
  BY DEF Reads, Idle
<1>4. ASSUME NEW a \in Submitting, request[r].at \in Submitting
      PROVE  Reads([request[r] EXCEPT !.at = a])
  <2>1. request[r] \in [at : Submitting, tx : Txs]
    BY <1>1, <1>4, HandlerShapes
  <2> QED
    BY <1>4, <2>1 DEF Reads, Submitting
<1>5. ASSUME request[r].at \in {"check", "sync"}
      PROVE  /\ Reads([request[r] EXCEPT !.at = "sync"])
             /\ Reads(WithHistory(r, Historical))
  <2>1. request[r] \in [at : {"check", "sync"}, floor : 0..MaxDonated] /\ request[r].floor <= donated
    BY <1>1, <1>5, HandlerShapes DEF Reads
  <2>2. Historical = donated
    BY DEF Progress, Historical
  <2>3. Reads([request[r] EXCEPT !.at = "sync"])
    BY <2>1 DEF Reads
  <2>4. Reads(WithHistory(r, Historical))
    BY <1>1, <2>1, <2>2 DEF Reads, WithHistory
  <2> QED
    BY <2>3, <2>4
<1>6. ASSUME BuildBegin(r) \/ Check(r) \/ Sync(r) \/ CheckUnanswered(r)
      PROVE  \E h : Goes(r, h) /\ Reads(h)
  <2>1. ASSUME BuildBegin(r) PROVE \E h : Goes(r, h) /\ Reads(h)
    <3>1. Reads([at |-> "check", floor |-> donated])
      BY <1>1 DEF Reads
    <3> QED
      BY <2>1, <3>1 DEF BuildBegin, FirstStep
  <2>2. ASSUME Check(r) \/ Sync(r) \/ CheckUnanswered(r) PROVE \E h : Goes(r, h) /\ Reads(h)
    BY <1>3, <1>5, <2>2 DEF Check, Sync, CheckUnanswered
  <2> QED
    BY <1>6, <2>1, <2>2
<1>7. ASSUME SendAccepted(r) \/ SendIgnored(r) \/ PollSuccess(r) \/ PollTimeout(r)
      PROVE  \E h : Goes(r, h) /\ Reads(h)
  BY <1>4, <1>7 DEF SendAccepted, SendIgnored, PollSuccess, PollTimeout, Submitting
<1>8. ASSUME \/ SendRejected(r) \/ PollFailed(r) \/ Reconcile(r) \/ Confirm(r)
             \/ SyncUnanswered(r) \/ Abandon(r) \/ SendUnanswered(r) \/ Simulate(r)
      PROVE  Goes(r, Idle)
  BY <1>8 DEF SendRejected, PollFailed, Reconcile, Confirm, SyncUnanswered, Abandon,
              SendUnanswered, Simulate, AfterOutage
<1>9. ASSUME NEW t \in Txs, SubmitBegin(r, t) PROVE \E h : Goes(r, h) /\ Reads(h)
  <2>1. Reads([at |-> "send", tx |-> t])
    BY DEF Reads
  <2> QED
    BY <1>9, <2>1 DEF SubmitBegin
<1> QED
  BY <1>2, <1>3, <1>6, <1>7, <1>8, <1>9 DEF Build, Submit, Fault

\* Each transaction after a handler's step is as it was, or carries what was read.
LEMMA TransactionsCarry ==
  ASSUME IInv, Progress, NEW r \in Requests, Build(r) \/ Submit(r) \/ Fault(r)
  PROVE  \A t \in Txs : tx'[t].fate # "free" /\ tx'[t].owner = Wallet =>
            \/ Carries(tx'[t])
            \/ /\ tx[t].fate # "free" /\ tx[t].owner = Wallet
               /\ tx'[t].floor = tx[t].floor /\ tx'[t].initial = tx[t].initial
<1>1. tx \in [Txs -> Transactions] /\ \A t \in Txs : tx[t].fate = "built" => tx[t] \in Owned
  BY TransactionShapes DEF IInv, TypeOK
<1>2. ASSUME NEW s, tx' = [tx EXCEPT ![s].fate = IF @ = "built" THEN "pending" ELSE @],
             NEW t \in Txs, tx'[t].fate # "free", tx'[t].owner = Wallet
      PROVE  /\ tx[t].fate # "free" /\ tx[t].owner = Wallet
             /\ tx'[t].floor = tx[t].floor /\ tx'[t].initial = tx[t].initial
  <2>1. CASE s # t \/ tx[t].fate # "built"
    <3>1. tx[t].fate = "free" => tx'[t].fate = "free"
      BY <1>1, <1>2, <2>1
    <3> QED
      BY <1>1, <1>2, <2>1, <3>1
  <2>2. CASE s = t /\ tx[t].fate = "built"
    BY <1>1, <1>2, <2>2 DEF Owned
  <2> QED
    BY <2>1, <2>2
<1>3. ASSUME Simulate(r) PROVE tx' = tx \/ \E t \in Txs : tx' = [tx EXCEPT ![t] = tx'[t]] /\ Carries(tx'[t])
  <2>1. request[r].at = "simulate"
    BY <1>3 DEF Simulate
  <2>2. request[r].floor <= request[r].historical /\ request[r].historical <= donated
    BY <2>1 DEF Progress, Reads
  <2> QED
    BY <1>1, <1>3, <2>2 DEF Simulate, Carries
<1>4. \/ tx' = tx \/ Simulate(r)
      \/ tx' = [tx EXCEPT ![request[r].tx].fate = IF @ = "built" THEN "pending" ELSE @]
  BY DEF Build, Submit, Fault, BuildBegin, Check, Sync, SubmitBegin, SendAccepted, SendIgnored,
         SendRejected, PollSuccess, PollFailed, PollTimeout, Reconcile, Confirm,
         CheckUnanswered, SyncUnanswered, SendUnanswered, Abandon
<1> QED
  BY <1>1, <1>2, <1>3, <1>4

\* Each transaction after a step of the network too; no other account's is the wallet's.
LEMMA NetworkCarries ==
  ASSUME IInv, Progress, NEW t \in Txs,
         (\E o \in Others : OthersBuild(t, o)) \/ OthersSend(t) \/ Apply(t) \/ Expire(t)
  PROVE  \A s \in Txs : tx'[s].fate # "free" /\ tx'[s].owner = Wallet =>
            /\ tx[s].fate # "free" /\ tx[s].owner = Wallet
            /\ tx'[s].floor = tx[s].floor /\ tx'[s].initial = tx[s].initial
<1> SUFFICES ASSUME NEW s \in Txs, tx'[s].fate # "free", tx'[s].owner = Wallet
             PROVE  /\ tx[s].fate # "free" /\ tx[s].owner = Wallet
                    /\ tx'[s].floor = tx[s].floor /\ tx'[s].initial = tx[s].initial
  OBVIOUS
<1>1. tx \in [Txs -> Transactions]
  BY DEF IInv, TypeOK
<1>2. ASSUME NEW o \in Others, OthersBuild(t, o) PROVE s # t
  BY <1>1, <1>2, RegistrationAssumption DEF OthersBuild
<1>3. ASSUME OthersSend(t) \/ Apply(t) \/ Expire(t)
      PROVE  tx[t] \in Owned /\ \E a : tx' = [tx EXCEPT ![t].fate = a]
  <2>1. tx[t].fate # "free"
    BY <1>3 DEF OthersSend, Apply, Expire
  <2>2. tx[t] \in Owned
    BY <1>1, <2>1, TransactionShapes
  <2>3. \E a : tx' = [tx EXCEPT ![t].fate = a]
    BY <1>3 DEF OthersSend, Apply, Expire
  <2> QED
    BY <2>2, <2>3
<1>4. CASE s # t
  <2>1. tx'[s] = tx[s]
    BY <1>1, <1>3, <1>4 DEF OthersBuild
  <2> QED
    BY <2>1
<1>5. CASE s = t
  <2>1. tx[t] \in Owned /\ \E a : tx' = [tx EXCEPT ![t].fate = a]
    BY <1>2, <1>3, <1>5
  <2> QED
    BY <1>1, <1>5, <2>1 DEF Owned
<1> QED
  BY <1>4, <1>5

LEMMA ProgressStep ==
  ASSUME DonationKinds \subseteq {"rated"}, IInv, IInv', Progress, [Next]_vars
  PROVE  Progress'
<1>1. donated \in Nat /\ unrated = FALSE
  BY RegistrationAssumption DEF IInv, TypeOK, Progress
<1>2. ASSUME NEW r \in Requests, Build(r) \/ Submit(r) \/ Fault(r) PROVE Progress'
  <2>1. UNCHANGED ledger
    BY <1>2 DEF Build, Submit, Fault, BuildBegin, Check, Sync, Simulate, SubmitBegin,
         SendAccepted, SendIgnored, SendRejected, PollSuccess, PollFailed, PollTimeout, Reconcile,
         Confirm, CheckUnanswered, SyncUnanswered, SendUnanswered, Abandon
  <2>2. contract' = contract /\ donated <= donated' /\ unrated' = FALSE
    BY <1>1, <2>1 DEF ledger
  <2> QED
    BY <1>2, <2>2, HandlerReads, TransactionsCarry, ProgressKept
<1>3. ASSUME NEW t \in Txs,
             (\E o \in Others : OthersBuild(t, o)) \/ OthersSend(t) \/ Apply(t) \/ Expire(t)
      PROVE  Progress'
  <2>1. donated' = donated /\ unrated' = unrated /\ request' = request
    BY <1>3 DEF OthersBuild, OthersSend, Apply, Expire, ledger
  <2>2. \/ contract' = contract
        \/ /\ tx[t].fate # "free"
           /\ contract' = [owner |-> tx[t].owner, initial |-> tx[t].initial, floor |-> tx[t].floor]
    BY <1>3 DEF OthersBuild, OthersSend, Apply, Expire, ledger
  <2>3. donated <= donated' /\ unrated' = FALSE
    BY <1>1, <2>1
  <2>4. \A s \in Txs : tx'[s].fate # "free" /\ tx'[s].owner = Wallet =>
            /\ tx[s].fate # "free" /\ tx[s].owner = Wallet
            /\ tx'[s].floor = tx[s].floor /\ tx'[s].initial = tx[s].initial
    BY <1>3, NetworkCarries
  <2> QED
    BY <2>1, <2>2, <2>3, <2>4, ProgressKept
<1>4. ASSUME (\E kind \in DonationKinds : Donate(kind)) \/ OtherTransaction PROVE Progress'
  <2>1. UNCHANGED <<contract, tx, request>> /\ donated <= donated'
    BY <1>1, <1>4 DEF Donate, OtherTransaction
  <2>2. unrated' = FALSE
    BY <1>1, <1>4 DEF Donate, OtherTransaction
  <2> QED
    BY <2>1, <2>2, ProgressKept
<1>5. ASSUME UNCHANGED vars PROVE Progress'
  <2>1. /\ contract' = contract /\ tx' = tx /\ request' = request
        /\ donated <= donated' /\ unrated' = FALSE
    BY <1>1, <1>5 DEF vars
  <2> QED
    BY <2>1, ProgressKept
<1> QED
  BY <1>2, <1>3, <1>4, <1>5 DEF Next, Network

\* While every asset that is donated has a reference rate, a pool that moves to the
\* vault takes its whole progress with it, for any overlap of builds, submits,
\* donations and faults (_current_vault_equivalent, build_create_pool_tx).
THEOREM RegistrationCarriesProgress ==
  ASSUME DonationKinds \subseteq {"rated"}
  PROVE  Spec => []ProgressCarried
<1>1. Init => Progress
  <2> SUFFICES ASSUME Init PROVE Progress
    OBVIOUS
  <2>1. ProgressCarried
    BY RegistrationAssumption DEF Init, ProgressCarried, None
  <2> QED
    BY <2>1 DEF Init, Progress, Reads, Idle, Free
<1>2. IInv /\ IInv' /\ Progress /\ [Next]_vars => Progress'
  BY ProgressStep
<1>3. Progress => ProgressCarried
  BY DEF Progress
<1> QED
  BY <1>1, <1>2, <1>3, Invariance, PTL DEF Spec

=============================================================================
