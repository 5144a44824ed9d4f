--------------------------- MODULE BlendPrincipal ---------------------------
(***************************************************************************)
(* The savings of a family box in Blend (family_pools/blend_client.py and   *)
(* the Blend views).  Blend knows what the position is worth and not what   *)
(* was put in, so the row keeps the capital (blend_principal): a submit     *)
(* that withdraws reads the value of the position first, sends, polls for   *)
(* the fate of the transaction and updates the row under its lock.          *)
(*                                                                          *)
(* Amounts count units of 0.0000001 XLM.  The fraction of a withdrawal is   *)
(* a Decimal of 28 digits and the product is truncated, which may lose one  *)
(* unit of a product that should be exact (3 * (1/3) is 0.9999999).         *)
(***************************************************************************)
EXTENDS Integers, Sequences, FiniteSets

CONSTANTS
  Requests,     \* submits the backend serves at the same time
  Txs,          \* bound: Blend transactions built
  Supplies,     \* amounts the family puts in
  Withdraws,    \* amounts it takes out
  Interests,    \* what the position may gain at once
  MaxAccrued,   \* bound: interest altogether
  MaxSequence,  \* bound: the account's sequence number that other transactions reach
  MaxRecorded,  \* bound: updates of the row, resubmitted transactions included
  MaxFailures   \* bound: calls that fail, workers that die

ASSUME BlendAssumption ==
  /\ Supplies \cup Withdraws \cup Interests \subseteq Nat \ {0}
  /\ MaxAccrued \in Nat /\ MaxSequence \in Nat /\ MaxRecorded \in Nat /\ MaxFailures \in Nat

VARIABLES
  position,   \* what the position in Blend is worth
  sequence,   \* sequence number of the box's account
  tx,         \* tx[t]: a Blend transaction and what became of it
  principal,  \* FamilyPool.blend_principal
  request,    \* request[r]: the submit that is being served
  failures,
  accrued,    \* history: interest so far
  capital,    \* history: the capital, had every operation updated it as it was applied
  misread,    \* history: a withdrawal was prorated by another value than it found
  applied,    \* history: the transactions in the order the network applied them
  recorded    \* history: the transactions in the order the row was updated

network == <<position, sequence, accrued, capital, misread, applied>>
vars == <<network, tx, principal, request, failures, recorded>>

Idle == [at |-> "idle"]
Free == [fate |-> "free"]

Transactions ==
  [fate : {"built", "pending", "succeeded", "failed", "dead"}, kind : {"supply", "withdraw"},
   amount : Supplies \cup Withdraws, account : {"box", "elsewhere"}, sequence : Nat]
Handlers ==
  [at : {"value"}, tx : Txs] \cup
  [at : {"send", "poll", "record"}, tx : Txs, value : Nat, accrued : Nat]

\* The account, the transactions, the row and the handlers; the capital is never
\* negative, however much is taken out.
TypeOK ==
  /\ position \in Nat /\ sequence \in Nat /\ principal \in Nat
  /\ tx \in [Txs -> {Free} \cup Transactions]
  /\ request \in [Requests -> {Idle} \cup Handlers]
  /\ failures \in 0..MaxFailures
  /\ accrued \in Nat /\ capital \in Nat /\ misread \in BOOLEAN
  /\ applied \in Seq(Txs) /\ recorded \in Seq(Txs)

Init ==
  /\ position = 0 /\ sequence = 0 /\ principal = 0
  /\ tx = [t \in Txs |-> Free]
  /\ request = [r \in Requests |-> Idle]
  /\ failures = 0
  /\ accrued = 0 /\ capital = 0 /\ misread = FALSE
  /\ applied = <<>> /\ recorded = <<>>

Goes(r, handler) == request' = [request EXCEPT ![r] = handler]
Becomes(t, fate) == tx' = [tx EXCEPT ![t] = [tx[t] EXCEPT !.fate = fate]]
Failure == failures < MaxFailures /\ failures' = failures + 1

----------------------------------------------------------------------------
(* compute_updated_principal *)

Positive(n) == IF n > 0 THEN n ELSE 0

RemainingUnclamped(before, amount, value) ==
  IF value = 0 THEN {0} ELSE {(before * (value - amount)) \div value}
RemainingNominal(before, amount, value) == {Positive(before - amount)}

\* The same proportion goes from the capital as from the value of the position.
Remaining(before, amount, value) ==
  IF value = 0 THEN {0}
  ELSE LET product == before * Positive(value - amount)
           whole == product \div value
       IN  IF product > 0 /\ product % value = 0 THEN {whole - 1, whole} ELSE {whole}

Updated(before, operation, value) ==
  IF operation.kind = "supply" THEN {before + operation.amount}
  ELSE Remaining(before, operation.amount, value)

----------------------------------------------------------------------------
(* Blend and the network *)

Ahead(t) == tx[t].fate \in {"built", "pending"}
OfBox(t) == tx[t].account = "box"

\* A withdrawal of the box that was sent with a value, and is not decided.
Waiting(r) ==
  /\ request[r].at \in {"send", "poll"}
  /\ LET t == request[r].tx IN tx[t].kind = "withdraw" /\ OfBox(t) /\ Ahead(t)

Accrue(n) ==
  /\ position > 0 /\ accrued + n <= MaxAccrued
  /\ position' = position + n
  /\ accrued' = accrued + n
  /\ misread' = (misread \/ \E r \in Requests : Waiting(r))
  /\ UNCHANGED <<sequence, capital, applied, tx, principal, request, failures, recorded>>

\* A withdrawal to somebody, a change of signers.
OtherTransaction ==
  /\ sequence < MaxSequence
  /\ sequence' = sequence + 1
  /\ UNCHANGED <<position, accrued, capital, misread, applied, tx, principal, request,
                 failures, recorded>>

\* build_supply_tx and build_withdraw_from_blend_tx: the simulation refuses to
\* withdraw from an empty position.
Build(t, kind, amount) ==
  /\ tx[t] = Free
  /\ kind = "withdraw" => position > 0
  /\ tx' = [tx EXCEPT ![t] = [fate |-> "built", kind |-> kind, amount |-> amount,
                              account |-> "box", sequence |-> sequence + 1]]
  /\ UNCHANGED <<network, principal, request, failures, recorded>>

\* The same call of another account, another box's for instance: it names the box neither
\* as its source nor in its arguments, and has a sequence number of its own.
BuildElsewhere(t, kind, amount) ==
  /\ tx[t] = Free
  /\ tx' = [tx EXCEPT ![t] = [fate |-> "built", kind |-> kind, amount |-> amount,
                              account |-> "elsewhere", sequence |-> 0]]
  /\ UNCHANGED <<network, principal, request, failures, recorded>>

Expire(t) ==
  /\ Ahead(t)
  /\ Becomes(t, "dead")
  /\ UNCHANGED <<network, principal, request, failures, recorded>>

Valid(t) == OfBox(t) => tx[t].sequence = sequence + 1

\* Blend pays out at most what the position is worth.
Apply(t) ==
  /\ tx[t].fate = "pending" /\ OfBox(t) /\ Valid(t)
  /\ tx[t].kind = "withdraw" => position > 0
  /\ sequence' = tx[t].sequence
  /\ position' = IF tx[t].kind = "supply" THEN position + tx[t].amount
                 ELSE Positive(position - tx[t].amount)
  /\ capital' = IF tx[t].kind = "supply" THEN capital + tx[t].amount
                ELSE (capital * Positive(position - tx[t].amount)) \div position
  /\ applied' = Append(applied, t)
  /\ Becomes(t, "succeeded")
  /\ UNCHANGED <<accrued, misread, principal, request, failures, recorded>>

\* Not enough idle XLM, or nothing left in the position.
ApplyFailed(t) ==
  /\ tx[t].fate = "pending" /\ OfBox(t) /\ Valid(t)
  /\ sequence' = tx[t].sequence
  /\ Becomes(t, "failed")
  /\ UNCHANGED <<position, accrued, capital, misread, applied, principal, request, failures,
                 recorded>>

\* What another account does in Blend is nothing to the box.
ApplyElsewhere(t) ==
  /\ tx[t].fate = "pending" /\ ~ OfBox(t)
  /\ \E fate \in {"succeeded", "failed"} : Becomes(t, fate)
  /\ UNCHANGED <<network, principal, request, failures, recorded>>

----------------------------------------------------------------------------
(* BlendSubmitView.post, with submit_blend_tx and _poll_transaction *)

Sending(t, value) == [at |-> "send", tx |-> t, value |-> value, accrued |-> accrued]

\* parse_submit_request reads the operation and its amount from the transaction and not
\* whose it is: one of another account is sent and recorded like the box's.  Only a
\* withdrawal needs the value of the position.
SubmitBegin(r, t) ==
  /\ request[r] = Idle /\ tx[t] # Free
  /\ Len(recorded) + Cardinality({q \in Requests : request[q] # Idle}) < MaxRecorded
  /\ Goes(r, IF tx[t].kind = "withdraw" THEN [at |-> "value", tx |-> t] ELSE Sending(t, 0))
  /\ UNCHANGED <<network, tx, principal, failures, recorded>>

ValueBeforeAsCapital == principal
ValueBefore == position

\* A transaction that is submitted again may have been applied already.
ReadValue(r) ==
  /\ request[r].at = "value"
  /\ Goes(r, Sending(request[r].tx, ValueBefore))
  /\ misread' = (misread \/ ~ Ahead(request[r].tx))
  /\ UNCHANGED <<position, sequence, accrued, capital, applied, tx, principal, failures,
                 recorded>>

Polls(r) == Goes(r, [request[r] EXCEPT !.at = "poll"])

\* PENDING, or DUPLICATE when the network knows the transaction already.
SendAccepted(r) ==
  /\ request[r].at = "send"
  /\ LET t == request[r].tx IN
       /\ tx[t].fate = "pending" \/ (tx[t].fate = "built" /\ Valid(t))
       /\ Becomes(t, "pending")
  /\ Polls(r)
  /\ UNCHANGED <<network, principal, failures, recorded>>

\* TRY_AGAIN_LATER is not ERROR: the code polls, for a transaction that nobody queued
\* or that was applied a moment ago.
SendIgnored(r) ==
  /\ request[r].at = "send"
  /\ Polls(r)
  /\ UNCHANGED <<network, tx, principal, failures, recorded>>

\* ERROR: expired, out of sequence, or signatures are missing.
SendRejected(r) ==
  /\ request[r].at = "send"
  /\ Goes(r, Idle)
  /\ UNCHANGED <<network, tx, principal, failures, recorded>>

\* The connection breaks; the network may have the transaction or not.
SendUnanswered(r) ==
  /\ request[r].at = "send"
  /\ Failure
  /\ LET t == request[r].tx IN
       \/ tx' = tx
       \/ tx[t].fate = "built" /\ Becomes(t, "pending")
  /\ Goes(r, Idle)
  /\ UNCHANGED <<network, principal, recorded>>

PollSuccess(r) ==
  /\ request[r].at = "poll" /\ tx[request[r].tx].fate = "succeeded"
  /\ Goes(r, [request[r] EXCEPT !.at = "record"])
  /\ UNCHANGED <<network, tx, principal, failures, recorded>>

PollFailed(r) ==
  /\ request[r].at = "poll" /\ tx[request[r].tx].fate = "failed"
  /\ Goes(r, Idle)
  /\ UNCHANGED <<network, tx, principal, failures, recorded>>

\* POLL_ATTEMPTS used up: 503, and nothing is recorded whatever happens later.
PollTimeout(r) ==
  /\ request[r].at = "poll" /\ tx[request[r].tx].fate \notin {"succeeded", "failed"}
  /\ Goes(r, Idle)
  /\ UNCHANGED <<network, tx, principal, failures, recorded>>

\* The row is read again under select_for_update.
Record(r) ==
  /\ request[r].at = "record"
  /\ principal' \in Updated(principal, tx[request[r].tx], request[r].value)
  /\ recorded' = Append(recorded, request[r].tx)
  /\ Goes(r, Idle)
  /\ UNCHANGED <<network, tx, failures>>

\* Soroban does not answer a read (503), or the worker dies.
Abandon(r) ==
  /\ request[r] # Idle
  /\ Failure
  /\ Goes(r, Idle)
  /\ UNCHANGED <<network, tx, principal, recorded>>

----------------------------------------------------------------------------
Submit(r) ==
  \/ \E t \in Txs : SubmitBegin(r, t)
  \/ ReadValue(r) \/ SendAccepted(r) \/ SendIgnored(r) \/ SendRejected(r)
  \/ PollSuccess(r) \/ PollFailed(r) \/ PollTimeout(r) \/ Record(r)

Network ==
  \/ (\E n \in Interests : Accrue(n)) \/ OtherTransaction
  \/ \E t \in Txs : Expire(t) \/ Apply(t) \/ ApplyFailed(t) \/ ApplyElsewhere(t)

Builds(t) ==
  \/ \E amount \in Supplies : Build(t, "supply", amount) \/ BuildElsewhere(t, "supply", amount)
  \/ \E amount \in Withdraws : \/ Build(t, "withdraw", amount)
                               \/ BuildElsewhere(t, "withdraw", amount)

Next ==
  \/ Network
  \/ \E t \in Txs : Builds(t)
  \/ \E r \in Requests : Submit(r) \/ SendUnanswered(r) \/ Abandon(r)

Spec == Init /\ [][Next]_vars

----------------------------------------------------------------------------
(* Properties *)

\* BlendPositionView: interest_earned.
Interest == Positive(position - principal)

\* The value that a withdrawal is prorated by still holds, but for interest, when
\* the network applies the withdrawal: no other operation comes between the reading
\* and the effect.  (compute_updated_principal: "leido justo antes de este withdraw".)
ValueStillHolds ==
  \A r \in Requests :
    Waiting(r) /\ Valid(request[r].tx)
      => position = request[r].value + accrued - request[r].accrued

\* When the row was updated once for each operation, in their order, and each withdrawal
\* prorated by the value it found, the row has the capital but for one unit that
\* truncation loses per withdrawal: it never overstates it.  Of a row that recorded an
\* operation of another account, which is not among the applied, this says nothing.
\* (models.py 53-58: kept "en cada supply/withdraw confirmado"; two updates may overlap.)
Withdrawals(order) == {i \in DOMAIN order : tx[order[i]].kind = "withdraw"}
CapitalTracked ==
  recorded = applied /\ ~ misread
    => capital - principal \in 0..Cardinality(Withdrawals(recorded))

\* With no submit in progress, the page shows as interest no more than Blend ever
\* paid.  (README.md 100-102: "principal vs. interest earned, read directly from
\* Blend's contract (no made-up numbers in a database)".)
InterestReal == (\A r \in Requests : request[r] = Idle) => Interest <= accrued

=============================================================================
