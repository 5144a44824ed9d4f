------------------------ MODULE BlendPrincipalProofs ------------------------
(***************************************************************************)
(* Why a withdrawal from Blend may be prorated by a value that was read     *)
(* before it was sent.  Every operation of the box that is applied uses up  *)
(* a sequence number, so a withdrawal that can still be applied finds the   *)
(* position as its submit read it, but for the interest since then.         *)
(***************************************************************************)
EXTENDS BlendPrincipal, FiniteSetTheorems, SequenceTheorems, TLAPS

\* No transaction is numbered beyond the next one.
Sequenced == \A t \in Txs : tx[t] # Free => tx[t].sequence <= sequence + 1

\* A submit is about a transaction that was built.
Held == \A r \in Requests : request[r] # Idle => tx[request[r].tx] # Free

IInv == TypeOK /\ Sequenced /\ Held /\ ValueStillHolds

----------------------------------------------------------------------------
(* The arithmetic of the proportion *)

LEMMA Quotient ==
  ASSUME NEW product \in Nat, NEW value \in Nat \ {0}
  PROVE  /\ product \div value \in Nat
         /\ product > 0 /\ product % value = 0 => product \div value >= 1
<1> DEFINE whole == product \div value
           rest == product % value
<1>1. /\ whole \in Int /\ rest \in Int
      /\ product = value * whole + rest
      /\ 0 <= rest /\ rest < value
  OBVIOUS
<1> HIDE DEF whole, rest
<1>2. whole >= 0
  <2> SUFFICES ASSUME whole <= -1 PROVE FALSE
    BY <1>1
  <2>1. value * whole <= - value
    BY <1>1
  <2> QED
    BY <1>1, <2>1
<1>3. product > 0 /\ rest = 0 => whole # 0
  BY <1>1
<1> QED
  BY <1>1, <1>2, <1>3 DEF whole, rest

LEMMA PositiveTyped == ASSUME NEW n \in Int PROVE Positive(n) \in Nat
BY DEF Positive

LEMMA ProductTyped == ASSUME NEW a \in Nat, NEW b \in Nat PROVE a * b \in Nat
OBVIOUS

\* Whatever is taken out, a capital is left that is not negative.
LEMMA RemainingTyped ==
  ASSUME NEW before \in Nat, NEW amount \in Nat, NEW value \in Nat
  PROVE  Remaining(before, amount, value) \subseteq Nat
<1>1. CASE value = 0
  BY <1>1 DEF Remaining
<1>2. CASE value # 0
  <2> DEFINE product == before * Positive(value - amount)
             whole == product \div value
  <2>1. product \in Nat
    BY PositiveTyped, ProductTyped
  <2> HIDE DEF product
  <2>2. whole \in Nat /\ (product > 0 /\ product % value = 0 => whole >= 1)
    BY <1>2, <2>1, Quotient
  <2>3. Remaining(before, amount, value)
          = IF product > 0 /\ product % value = 0 THEN {whole - 1, whole} ELSE {whole}
    BY <1>2 DEF Remaining, product
  <2> HIDE DEF whole
  <2> QED
    BY <2>2, <2>3
<1> QED
  BY <1>1, <1>2

----------------------------------------------------------------------------
(* The shapes of what is stored *)

LEMMA Shapes ==
  ASSUME TypeOK, NEW r \in Requests
  PROVE  /\ request[r] # Idle => request[r].tx \in Txs
         /\ request[r].at \in {"value", "send", "poll", "record"} => request[r] # Idle
         /\ request[r].at \in {"send", "poll", "record"} =>
              request[r] \in [at : {"send", "poll", "record"}, tx : Txs, value : Nat,
                              accrued : Nat]
         /\ request[r] = Idle => request[r].at = "idle"
<1>1. request[r] \in {Idle} \cup Handlers
  BY DEF TypeOK
<1>2. CASE request[r] = Idle
  BY <1>2 DEF Idle
<1>3. CASE request[r] \in [at : {"value"}, tx : Txs]
  BY <1>3 DEF Idle
<1>4. CASE request[r] \in [at : {"send", "poll", "record"}, tx : Txs, value : Nat,
                           accrued : Nat]
  BY <1>4 DEF Idle
<1> QED
  BY <1>1, <1>2, <1>3, <1>4 DEF Handlers

LEMMA TxShapes ==
  ASSUME TypeOK, NEW t \in Txs
  PROVE  /\ tx[t] # Free <=> tx[t] \in Transactions
         /\ tx[t].fate # "free" => tx[t] # Free
         /\ tx[t] # Free => /\ tx[t].sequence \in Nat
                            /\ tx[t].amount \in Nat \ {0}
                            /\ tx[t].kind \in {"supply", "withdraw"}
<1>1. tx[t] \in {Free} \cup Transactions
  BY DEF TypeOK
<1>2. Free \notin Transactions /\ Free.fate = "free"
  <2>1. Free.fate = "free"
    BY DEF Free
  <2>2. \A u \in Transactions : u.fate # "free"
    BY DEF Transactions
  <2> QED
    BY <2>1, <2>2
<1>3. \A u \in Transactions : /\ u.sequence \in Nat
                              /\ u.amount \in Nat \ {0}
                              /\ u.kind \in {"supply", "withdraw"}
  BY BlendAssumption DEF Transactions
<1> QED
  BY <1>1, <1>2, <1>3

\* A step that moves one submit on.
LEMMA GoesTyped ==
  ASSUME TypeOK, NEW r \in Requests, NEW handler \in {Idle} \cup Handlers, Goes(r, handler)
  PROVE  /\ request' \in [Requests -> {Idle} \cup Handlers]
         /\ request'[r] = handler
         /\ \A q \in Requests \ {r} : request'[q] = request[q]
BY DEF TypeOK, Goes

\* A step that changes the fate of one transaction and nothing else of it.
LEMMA BecomesTyped ==
  ASSUME TypeOK, NEW t \in Txs, tx[t] # Free,
         NEW fate \in {"built", "pending", "succeeded", "failed", "dead"}, Becomes(t, fate)
  PROVE  /\ tx' \in [Txs -> {Free} \cup Transactions]
         /\ tx'[t] # Free /\ tx'[t].fate = fate
         /\ tx'[t].kind = tx[t].kind /\ tx'[t].sequence = tx[t].sequence
         /\ tx'[t].amount = tx[t].amount /\ tx'[t].account = tx[t].account
         /\ \A u \in Txs \ {t} : tx'[u] = tx[u]
<1>1. tx[t] \in Transactions
  BY TxShapes
<1> DEFINE changed == [tx[t] EXCEPT !.fate = fate]
<1>2. /\ changed \in Transactions
      /\ changed.fate = fate /\ changed.kind = tx[t].kind
      /\ changed.sequence = tx[t].sequence /\ changed.amount = tx[t].amount
      /\ changed.account = tx[t].account
  BY <1>1 DEF Transactions
<1>3. changed # Free
  <2>1. Free.fate = "free"
    BY DEF Free
  <2> QED
    BY <1>2, <2>1
<1> HIDE DEF changed
<1>4. tx' = [tx EXCEPT ![t] = changed]
  BY DEF Becomes, changed
<1>5. tx'[t] = changed /\ \A u \in Txs \ {t} : tx'[u] = tx[u]
  BY <1>4 DEF TypeOK
<1>6. tx' \in [Txs -> {Free} \cup Transactions]
  BY <1>2, <1>4 DEF TypeOK
<1> QED
  BY <1>2, <1>3, <1>5, <1>6

----------------------------------------------------------------------------
(* Type correctness, action by action *)

LEMMA InitTyped == Init => TypeOK
<1> SUFFICES ASSUME Init PROVE TypeOK
  OBVIOUS
<1>1. failures \in 0..MaxFailures
  BY BlendAssumption DEF Init
<1>2. tx \in [Txs -> {Free} \cup Transactions]
  BY DEF Init
<1>3. request \in [Requests -> {Idle} \cup Handlers]
  BY DEF Init
<1>4. applied \in Seq(Txs) /\ recorded \in Seq(Txs)
  BY DEF Init
<1>5. /\ position \in Nat /\ sequence \in Nat /\ principal \in Nat
      /\ accrued \in Nat /\ capital \in Nat /\ misread \in BOOLEAN
  BY DEF Init
<1> QED
  BY <1>1, <1>2, <1>3, <1>4, <1>5 DEF TypeOK

LEMMA TypedNetwork == TypeOK /\ Network => TypeOK'
<1> SUFFICES ASSUME TypeOK, Network PROVE TypeOK'
  OBVIOUS
<1>1. ASSUME NEW n \in Interests, Accrue(n) PROVE TypeOK'
  <2>1. n \in Nat
    BY BlendAssumption
  <2>2. position' \in Nat /\ accrued' \in Nat
    BY <1>1, <2>1 DEF Accrue, TypeOK
  <2>3. misread' \in BOOLEAN
    BY <1>1 DEF Accrue
  <2> QED
    BY <1>1, <2>2, <2>3 DEF Accrue, TypeOK
<1>2. CASE OtherTransaction
  BY <1>2 DEF OtherTransaction, TypeOK
<1>3. ASSUME NEW t \in Txs, Expire(t) PROVE TypeOK'
  <2>1. tx[t] # Free /\ Becomes(t, "dead")
    BY <1>3, TxShapes DEF Expire, Ahead
  <2>2. tx' \in [Txs -> {Free} \cup Transactions]
    BY <2>1, BecomesTyped
  <2> QED
    BY <1>3, <2>2 DEF Expire, TypeOK, network
<1>4. ASSUME NEW t \in Txs, Apply(t) PROVE TypeOK'
  <2>1. tx[t] # Free /\ Becomes(t, "succeeded")
    BY <1>4, TxShapes DEF Apply
  <2>2. tx' \in [Txs -> {Free} \cup Transactions]
    BY <2>1, BecomesTyped
  <2>3. tx[t].sequence \in Nat /\ tx[t].amount \in Nat /\ position \in Nat /\ capital \in Nat
    BY <2>1, TxShapes DEF TypeOK
  <2>4. Positive(position - tx[t].amount) \in Nat
    BY <2>3, PositiveTyped
  <2>5. position' \in Nat
    BY <1>4, <2>3, <2>4 DEF Apply
  <2>6. capital' \in Nat
    <3>1. CASE tx[t].kind = "supply"
      BY <1>4, <2>3, <3>1 DEF Apply
    <3>2. CASE tx[t].kind = "withdraw"
      <4>1. position \in Nat \ {0}
        BY <1>4, <2>3, <3>2 DEF Apply
      <4>2. capital * Positive(position - tx[t].amount) \in Nat
        BY <2>3, <2>4, ProductTyped
      <4>3. (capital * Positive(position - tx[t].amount)) \div position \in Nat
        BY <4>1, <4>2, Quotient
      <4> QED
        BY <1>4, <3>2, <4>3 DEF Apply
    <3> QED
      BY <2>1, <3>1, <3>2, TxShapes
  <2>7. applied' \in Seq(Txs)
    BY <1>4 DEF Apply, TypeOK
  <2> QED
    BY <1>4, <2>2, <2>3, <2>5, <2>6, <2>7 DEF Apply, TypeOK
<1>5. ASSUME NEW t \in Txs, ApplyFailed(t) PROVE TypeOK'
  <2>1. tx[t] # Free /\ Becomes(t, "failed")
    BY <1>5, TxShapes DEF ApplyFailed
  <2>2. tx' \in [Txs -> {Free} \cup Transactions] /\ tx[t].sequence \in Nat
    BY <2>1, BecomesTyped, TxShapes
  <2> QED
    BY <1>5, <2>2 DEF ApplyFailed, TypeOK
<1>6. ASSUME NEW t \in Txs, ApplyElsewhere(t) PROVE TypeOK'
  <2>1. tx[t] # Free /\ (Becomes(t, "succeeded") \/ Becomes(t, "failed"))
    BY <1>6, TxShapes DEF ApplyElsewhere
  <2>2. tx' \in [Txs -> {Free} \cup Transactions]
    BY <2>1, BecomesTyped
  <2> QED
    BY <1>6, <2>2 DEF ApplyElsewhere, TypeOK, network
<1> QED
  BY <1>1, <1>2, <1>3, <1>4, <1>5, <1>6 DEF Network

\* What a transaction is built as: the next one of the box, or one of another account.
Made(t, kind, amount) ==
  /\ tx[t] = Free /\ UNCHANGED <<network, principal, request, failures, recorded>>
  /\ \E account \in {"box", "elsewhere"}, number \in {0, sequence + 1} :
       tx' = [tx EXCEPT ![t] = [fate |-> "built", kind |-> kind, amount |-> amount,
                                account |-> account, sequence |-> number]]

LEMMA BuildsMake ==
  ASSUME NEW t \in Txs, Builds(t)
  PROVE  \E kind \in {"supply", "withdraw"}, amount \in Supplies \cup Withdraws :
           Made(t, kind, amount)
<1>1. ASSUME NEW kind, NEW amount, Build(t, kind, amount) PROVE Made(t, kind, amount)
  BY <1>1 DEF Build, Made
<1>2. ASSUME NEW kind, NEW amount, BuildElsewhere(t, kind, amount)
      PROVE  Made(t, kind, amount)
  BY <1>2 DEF BuildElsewhere, Made
<1> QED
  BY <1>1, <1>2 DEF Builds

LEMMA TypedBuild ==
  ASSUME TypeOK, NEW t \in Txs, NEW kind \in {"supply", "withdraw"},
         NEW amount \in Supplies \cup Withdraws, Made(t, kind, amount)
  PROVE  TypeOK'
<1>1. PICK account \in {"box", "elsewhere"}, number \in {0, sequence + 1} :
        tx' = [tx EXCEPT ![t] = [fate |-> "built", kind |-> kind, amount |-> amount,
                                 account |-> account, sequence |-> number]]
  BY DEF Made
<1> DEFINE built == [fate |-> "built", kind |-> kind, amount |-> amount,
                     account |-> account, sequence |-> number]
<1>2. built \in Transactions
  BY DEF Transactions, TypeOK
<1> HIDE DEF built
<1>3. tx' = [tx EXCEPT ![t] = built]
  BY <1>1 DEF built
<1>4. tx' \in [Txs -> {Free} \cup Transactions]
  BY <1>2, <1>3 DEF TypeOK
<1> QED
  BY <1>4 DEF Made, TypeOK, network

\* What is left when a submit ends: nothing but its worker.
LEMMA TypedEnd ==
  ASSUME TypeOK, NEW r \in Requests, Goes(r, Idle), UNCHANGED network,
         tx' \in [Txs -> {Free} \cup Transactions], principal' \in Nat,
         failures' \in 0..MaxFailures, recorded' \in Seq(Txs)
  PROVE  TypeOK'
<1>1. request' \in [Requests -> {Idle} \cup Handlers]
  BY GoesTyped
<1> QED
  BY <1>1 DEF TypeOK, network

LEMMA FailureTyped == ASSUME TypeOK, Failure PROVE failures' \in 0..MaxFailures
BY BlendAssumption DEF TypeOK, Failure

LEMMA TypedFault ==
  ASSUME TypeOK, NEW r \in Requests, SendUnanswered(r) \/ Abandon(r)
  PROVE  TypeOK'
<1>1. CASE SendUnanswered(r)
  <2> DEFINE t == request[r].tx
  <2>1. t \in Txs
    BY <1>1, Shapes DEF SendUnanswered
  <2> HIDE DEF t
  <2>2. tx' = tx \/ (tx[t].fate = "built" /\ Becomes(t, "pending"))
    BY <1>1 DEF SendUnanswered, t
  <2>3. tx[t].fate = "built" => tx[t] # Free
    BY <2>1, TxShapes
  <2>4. tx' \in [Txs -> {Free} \cup Transactions]
    BY <2>1, <2>2, <2>3, BecomesTyped DEF TypeOK
  <2>5. failures' \in 0..MaxFailures
    BY <1>1, FailureTyped DEF SendUnanswered
  <2>6. /\ Goes(r, Idle) /\ UNCHANGED network /\ principal' = principal
        /\ recorded' = recorded
    BY <1>1 DEF SendUnanswered
  <2> QED
    BY <2>4, <2>5, <2>6, TypedEnd DEF TypeOK
<1>2. CASE Abandon(r)
  <2>1. failures' \in 0..MaxFailures
    BY <1>2, FailureTyped DEF Abandon
  <2>2. /\ Goes(r, Idle) /\ UNCHANGED network /\ tx' = tx /\ principal' = principal
        /\ recorded' = recorded
    BY <1>2 DEF Abandon
  <2> QED
    BY <2>1, <2>2, TypedEnd DEF TypeOK
<1> QED
  BY <1>1, <1>2

LEMMA UpdatedTyped ==
  ASSUME TypeOK, NEW t \in Txs, tx[t] # Free, NEW value \in Nat
  PROVE  Updated(principal, tx[t], value) \subseteq Nat
<1>1. /\ principal \in Nat /\ tx[t].amount \in Nat
      /\ tx[t].kind \in {"supply", "withdraw"}
  BY TxShapes DEF TypeOK
<1>2. Remaining(principal, tx[t].amount, value) \subseteq Nat
  BY <1>1, RemainingTyped
<1> QED
  BY <1>1, <1>2 DEF Updated

LEMMA TypedSubmit ==
  ASSUME TypeOK, Held, NEW r \in Requests, Submit(r)
  PROVE  TypeOK'
<1>1. ASSUME NEW t \in Txs, SubmitBegin(r, t) PROVE TypeOK'
  <2> DEFINE handler == IF tx[t].kind = "withdraw" THEN [at |-> "value", tx |-> t]
                        ELSE Sending(t, 0)
  <2>1. handler \in {Idle} \cup Handlers
    BY DEF Handlers, Sending, TypeOK
  <2> HIDE DEF handler
  <2>2. Goes(r, handler)
    BY <1>1 DEF SubmitBegin, handler
  <2>3. request' \in [Requests -> {Idle} \cup Handlers]
    BY <2>1, <2>2, GoesTyped
  <2> QED
    BY <1>1, <2>3 DEF SubmitBegin, TypeOK, network
<1>2. CASE ReadValue(r)
  <2> DEFINE handler == Sending(request[r].tx, position)
  <2>1. handler \in Handlers
    BY <1>2, Shapes DEF ReadValue, Handlers, Sending, TypeOK
  <2> HIDE DEF handler
  <2>2. Goes(r, handler)
    BY <1>2 DEF ReadValue, ValueBefore, handler
  <2>3. request' \in [Requests -> {Idle} \cup Handlers]
    BY <2>1, <2>2, GoesTyped
  <2>4. misread' \in BOOLEAN
    BY <1>2 DEF ReadValue
  <2> QED
    BY <1>2, <2>3, <2>4 DEF ReadValue, TypeOK
<1>3. CASE SendAccepted(r) \/ SendIgnored(r)
  <2> DEFINE t == request[r].tx
  <2>1. request[r].at = "send"
    BY <1>3 DEF SendAccepted, SendIgnored
  <2>2. /\ [request[r] EXCEPT !.at = "poll"] \in Handlers
        /\ t \in Txs
    BY <2>1, Shapes DEF Handlers
  <2> HIDE DEF t
  <2>3. Goes(r, [request[r] EXCEPT !.at = "poll"])
    BY <1>3 DEF SendAccepted, SendIgnored, Polls
  <2>4. request' \in [Requests -> {Idle} \cup Handlers]
    BY <2>2, <2>3, GoesTyped
  <2>5. tx' = tx \/ (tx[t].fate \in {"built", "pending"} /\ Becomes(t, "pending"))
    BY <1>3 DEF SendAccepted, SendIgnored, t
  <2>6. tx[t].fate \in {"built", "pending"} => tx[t] # Free
    BY <2>2, TxShapes
  <2>7. tx' \in [Txs -> {Free} \cup Transactions]
    BY <2>2, <2>5, <2>6, BecomesTyped DEF TypeOK
  <2> QED
    BY <1>3, <2>4, <2>7 DEF SendAccepted, SendIgnored, TypeOK, network
<1>4. CASE SendRejected(r) \/ PollFailed(r) \/ PollTimeout(r)
  <2>1. Goes(r, Idle) /\ UNCHANGED <<network, tx, principal, failures, recorded>>
    BY <1>4 DEF SendRejected, PollFailed, PollTimeout
  <2> QED
    BY <2>1, TypedEnd DEF TypeOK
<1>5. CASE PollSuccess(r)
  <2>1. [request[r] EXCEPT !.at = "record"] \in Handlers
    BY <1>5, Shapes DEF PollSuccess, Handlers
  <2>2. Goes(r, [request[r] EXCEPT !.at = "record"])
    BY <1>5 DEF PollSuccess
  <2>3. request' \in [Requests -> {Idle} \cup Handlers]
    BY <2>1, <2>2, GoesTyped
  <2> QED
    BY <1>5, <2>3 DEF PollSuccess, TypeOK, network
<1>6. CASE Record(r)
  <2> DEFINE t == request[r].tx
             value == request[r].value
  <2>1. t \in Txs /\ value \in Nat /\ tx[t] # Free
    BY <1>6, Shapes DEF Record, Held
  <2>2. recorded' \in Seq(Txs)
    BY <1>6, <2>1 DEF Record, TypeOK, t
  <2> HIDE DEF t, value
  <2>3. principal' \in Updated(principal, tx[t], value)
    BY <1>6 DEF Record, t, value
  <2>4. principal' \in Nat
    BY <2>1, <2>3, UpdatedTyped
  <2>5. /\ Goes(r, Idle) /\ UNCHANGED network /\ tx' = tx /\ failures' = failures
    BY <1>6 DEF Record
  <2> QED
    BY <2>2, <2>4, <2>5, TypedEnd DEF TypeOK
<1> QED
  BY <1>1, <1>2, <1>3, <1>4, <1>5, <1>6 DEF Submit

LEMMA TypedNext == TypeOK /\ Held /\ [Next]_vars => TypeOK'
<1> SUFFICES ASSUME TypeOK, Held, [Next]_vars PROVE TypeOK'
  OBVIOUS
<1>1. CASE Network
  BY <1>1, TypedNetwork
<1>2. ASSUME NEW t \in Txs, Builds(t) PROVE TypeOK'
  BY <1>2, BuildsMake, TypedBuild
<1>4. ASSUME NEW r \in Requests, Submit(r) \/ SendUnanswered(r) \/ Abandon(r) PROVE TypeOK'
  BY <1>4, TypedSubmit, TypedFault
<1>5. CASE UNCHANGED vars
  BY <1>5 DEF vars, network, TypeOK
<1> QED
  BY <1>1, <1>2, <1>4, <1>5 DEF Next

----------------------------------------------------------------------------
(* What a step does to the account, to a transaction and to a submit *)

\* An applied transaction uses up a sequence number; otherwise the position only
\* gains what is counted as interest.
LEMMA NetworkKept ==
  TypeOK /\ [Next]_vars =>
    \/ sequence' = sequence + 1
    \/ sequence' = sequence /\ position' - accrued' = position - accrued
<1> SUFFICES ASSUME TypeOK, [Next]_vars
    PROVE \/ sequence' = sequence + 1
          \/ sequence' = sequence /\ position' - accrued' = position - accrued
  OBVIOUS
<1>1. CASE UNCHANGED <<position, sequence, accrued>>
  BY <1>1
<1>2. ASSUME NEW n \in Interests, Accrue(n)
      PROVE  sequence' = sequence /\ position' - accrued' = position - accrued
  BY <1>2, BlendAssumption DEF Accrue, TypeOK
<1>3. CASE OtherTransaction
  BY <1>3 DEF OtherTransaction
<1>4. ASSUME NEW t \in Txs, Expire(t) \/ ApplyElsewhere(t)
      PROVE  UNCHANGED <<position, sequence, accrued>>
  BY <1>4 DEF Expire, ApplyElsewhere, network
<1>5. ASSUME NEW t \in Txs, Apply(t) \/ ApplyFailed(t) PROVE sequence' = sequence + 1
  BY <1>5 DEF Apply, ApplyFailed, Valid
<1>6. ASSUME NEW t \in Txs, Builds(t) PROVE UNCHANGED <<position, sequence, accrued>>
  BY <1>6, BuildsMake DEF Made, network
<1>7. ASSUME NEW r \in Requests, Submit(r) \/ SendUnanswered(r) \/ Abandon(r)
      PROVE  UNCHANGED <<position, sequence, accrued>>
  BY <1>7 DEF Submit, SubmitBegin, ReadValue, SendAccepted, SendIgnored, SendRejected,
              PollSuccess, PollFailed, PollTimeout, Record, SendUnanswered, Abandon, network
<1>8. CASE UNCHANGED vars
  BY <1>8, <1>1 DEF vars, network
<1> QED
  BY <1>1, <1>2, <1>3, <1>4, <1>5, <1>6, <1>7, <1>8 DEF Next, Network

\* A transaction keeps its kind, amount and number, and what is decided stays decided.
LEMMA TxKept ==
  ASSUME TypeOK, [Next]_vars, NEW u \in Txs
  PROVE  /\ tx[u] # Free => /\ tx'[u] # Free
                            /\ tx'[u].kind = tx[u].kind
                            /\ tx'[u].amount = tx[u].amount
                            /\ tx'[u].sequence = tx[u].sequence
                            /\ tx'[u].account = tx[u].account
                            /\ tx'[u].fate \in {"built", "pending"} => Ahead(u)
                            /\ ~ Ahead(u) => tx'[u] = tx[u]
         /\ tx[u] = Free /\ tx'[u] # Free =>
              tx'[u].sequence \in {0, sequence + 1} /\ sequence' = sequence
<1> DEFINE Kept ==
      /\ tx[u] # Free => /\ tx'[u] # Free
                         /\ tx'[u].kind = tx[u].kind
                         /\ tx'[u].amount = tx[u].amount
                         /\ tx'[u].sequence = tx[u].sequence
                         /\ tx'[u].account = tx[u].account
                         /\ tx'[u].fate \in {"built", "pending"} => Ahead(u)
                         /\ ~ Ahead(u) => tx'[u] = tx[u]
      /\ tx[u] = Free /\ tx'[u] # Free =>
           tx'[u].sequence \in {0, sequence + 1} /\ sequence' = sequence
<1>1. ASSUME tx' = tx PROVE Kept
  BY <1>1 DEF Ahead
<1>2. ASSUME NEW t \in Txs, tx[t] # Free,
             NEW fate \in {"built", "pending", "succeeded", "failed", "dead"},
             Becomes(t, fate), Ahead(t)
      PROVE  Kept
  <2>1. /\ tx'[t] # Free /\ tx'[t].fate = fate
        /\ tx'[t].kind = tx[t].kind /\ tx'[t].sequence = tx[t].sequence
        /\ tx'[t].amount = tx[t].amount /\ tx'[t].account = tx[t].account
        /\ \A v \in Txs \ {t} : tx'[v] = tx[v]
    BY <1>2, BecomesTyped
  <2>2. CASE u = t
    BY <1>2, <2>1, <2>2
  <2>3. CASE u # t
    BY <2>1, <2>3 DEF Ahead
  <2> QED
    BY <2>2, <2>3
<1>3. ASSUME NEW t \in Txs, NEW kind, NEW amount, Made(t, kind, amount) PROVE Kept
  <2>0. PICK account \in {"box", "elsewhere"}, number \in {0, sequence + 1} :
          tx' = [tx EXCEPT ![t] = [fate |-> "built", kind |-> kind, amount |-> amount,
                                   account |-> account, sequence |-> number]]
    BY <1>3 DEF Made
  <2> DEFINE built == [fate |-> "built", kind |-> kind, amount |-> amount,
                       account |-> account, sequence |-> number]
  <2>1. built.sequence \in {0, sequence + 1}
    OBVIOUS
  <2> HIDE DEF built
  <2>2. tx[t] = Free /\ tx' = [tx EXCEPT ![t] = built] /\ sequence' = sequence
    BY <1>3, <2>0 DEF Made, built, network
  <2>3. tx'[t] = built /\ \A v \in Txs \ {t} : tx'[v] = tx[v]
    BY <2>2 DEF TypeOK
  <2> QED
    BY <2>1, <2>2, <2>3 DEF Ahead
<1> HIDE DEF Kept
<1>4. ASSUME NEW t \in Txs, Expire(t) \/ Apply(t) \/ ApplyFailed(t) \/ ApplyElsewhere(t)
      PROVE  Kept
  <2>1. tx[t] # Free /\ Ahead(t)
    BY <1>4, TxShapes DEF Expire, Apply, ApplyFailed, ApplyElsewhere, Ahead
  <2>2. Becomes(t, "dead") \/ Becomes(t, "succeeded") \/ Becomes(t, "failed")
    BY <1>4 DEF Expire, Apply, ApplyFailed, ApplyElsewhere
  <2> QED
    BY <1>2, <2>1, <2>2
<1>5. ASSUME NEW r \in Requests, SendAccepted(r) \/ SendUnanswered(r) PROVE Kept
  <2> DEFINE t == request[r].tx
  <2>1. t \in Txs
    BY <1>5, Shapes DEF SendAccepted, SendUnanswered
  <2> HIDE DEF t
  <2>2. tx' = tx \/ (tx[t].fate \in {"built", "pending"} /\ Becomes(t, "pending"))
    BY <1>5 DEF SendAccepted, SendUnanswered, t
  <2>3. CASE tx[t].fate \in {"built", "pending"} /\ Becomes(t, "pending")
    <3>1. tx[t] # Free /\ Ahead(t)
      BY <2>1, <2>3, TxShapes DEF Ahead
    <3> QED
      BY <1>2, <2>1, <2>3, <3>1
  <2> QED
    BY <1>1, <2>2, <2>3 DEF Kept
<1>6. ASSUME NEW r \in Requests, Submit(r) \/ Abandon(r), ~ SendAccepted(r) PROVE tx' = tx
  BY <1>6 DEF Submit, SubmitBegin, ReadValue, SendIgnored, SendRejected, PollSuccess,
              PollFailed, PollTimeout, Record, Abandon
<1>7. ASSUME \/ \E n \in Interests : Accrue(n)
             \/ OtherTransaction
             \/ UNCHANGED vars
      PROVE  tx' = tx
  BY <1>7 DEF Accrue, OtherTransaction, vars
<1>8. ASSUME tx' = tx PROVE Kept
  BY <1>1, <1>8 DEF Kept
<1>9. ASSUME NEW r \in Requests, Submit(r) \/ SendUnanswered(r) \/ Abandon(r) PROVE Kept
  <2>1. CASE SendAccepted(r) \/ SendUnanswered(r)
    BY <1>5, <2>1
  <2>2. CASE ~ (SendAccepted(r) \/ SendUnanswered(r))
    BY <1>6, <1>8, <1>9, <2>2
  <2> QED
    BY <2>1, <2>2
<1>10. ASSUME Network PROVE Kept
  BY <1>4, <1>7, <1>8, <1>10 DEF Network
<1>11. ASSUME UNCHANGED vars PROVE Kept
  BY <1>7, <1>8, <1>11
<1>12. Kept
  BY <1>3, <1>9, <1>10, <1>11, BuildsMake DEF Next
<1> QED
  BY <1>12 DEF Kept

\* What a step makes of a submit.
LEMMA RequestKept ==
  ASSUME TypeOK, Held, [Next]_vars, NEW q \in Requests
  PROVE  \/ request'[q] = request[q]
         \/ request[q].at = "send" /\ request'[q] = [request[q] EXCEPT !.at = "poll"]
         \/ request'[q] = Idle
         \/ \E t \in Txs : tx[t] # Free /\ request'[q] = [at |-> "value", tx |-> t]
         \/ /\ request[q].at = "poll" /\ tx[request[q].tx].fate = "succeeded"
            /\ tx' = tx /\ request'[q] = [request[q] EXCEPT !.at = "record"]
         \/ \E t \in Txs : /\ tx[t] # Free /\ tx[t].kind = "supply"
                           /\ request'[q] = Sending(t, 0)
         \/ /\ request[q].at = "value"
            /\ UNCHANGED <<position, accrued, tx, applied>>
            /\ misread' = (misread \/ ~ Ahead(request[q].tx))
            /\ request'[q] = Sending(request[q].tx, position)
<1> DEFINE Kept ==
      \/ request'[q] = request[q]
      \/ request[q].at = "send" /\ request'[q] = [request[q] EXCEPT !.at = "poll"]
      \/ request'[q] = Idle
      \/ \E t \in Txs : tx[t] # Free /\ request'[q] = [at |-> "value", tx |-> t]
      \/ /\ request[q].at = "poll" /\ tx[request[q].tx].fate = "succeeded"
         /\ tx' = tx /\ request'[q] = [request[q] EXCEPT !.at = "record"]
      \/ \E t \in Txs : /\ tx[t] # Free /\ tx[t].kind = "supply"
                        /\ request'[q] = Sending(t, 0)
      \/ /\ request[q].at = "value"
         /\ UNCHANGED <<position, accrued, tx, applied>>
         /\ misread' = (misread \/ ~ Ahead(request[q].tx))
         /\ request'[q] = Sending(request[q].tx, position)
<1>1. ASSUME request' = request PROVE Kept
  BY <1>1
<1>2. ASSUME NEW r \in Requests, r # q, NEW handler, Goes(r, handler) PROVE Kept
  BY <1>2 DEF Goes, TypeOK
<1>3. ASSUME NEW handler, Goes(q, handler) PROVE request'[q] = handler
  BY <1>3 DEF Goes, TypeOK
<1>4. ASSUME NEW t \in Txs, SubmitBegin(q, t) PROVE Kept
  <2>1. tx[t] # Free /\ tx[t].kind \in {"supply", "withdraw"}
    BY <1>4, TxShapes DEF SubmitBegin
  <2>2. CASE tx[t].kind = "withdraw"
    <3>1. request'[q] = [at |-> "value", tx |-> t]
      BY <1>3, <1>4, <2>2 DEF SubmitBegin
    <3> QED
      BY <2>1, <3>1
  <2>3. CASE tx[t].kind = "supply"
    <3>1. request'[q] = Sending(t, 0)
      BY <1>3, <1>4, <2>3 DEF SubmitBegin
    <3> QED
      BY <2>1, <2>3, <3>1
  <2> QED
    BY <2>1, <2>2, <2>3
<1>5. ASSUME ReadValue(q) PROVE Kept
  BY <1>3, <1>5 DEF ReadValue, ValueBefore
<1>6. ASSUME SendAccepted(q) \/ SendIgnored(q) PROVE Kept
  BY <1>3, <1>6 DEF SendAccepted, SendIgnored, Polls
<1>7. ASSUME PollSuccess(q) PROVE Kept
  BY <1>3, <1>7 DEF PollSuccess
<1>8. ASSUME \/ SendRejected(q) \/ PollFailed(q) \/ PollTimeout(q) \/ Record(q)
             \/ SendUnanswered(q) \/ Abandon(q)
      PROVE  Kept
  <2>1. Goes(q, Idle)
    BY <1>8 DEF SendRejected, PollFailed, PollTimeout, Record, SendUnanswered, Abandon
  <2> QED
    BY <1>3, <2>1
<1>9. ASSUME NEW r \in Requests, Submit(r) \/ SendUnanswered(r) \/ Abandon(r)
      PROVE  \E handler : Goes(r, handler)
  BY <1>9 DEF Submit, SubmitBegin, ReadValue, SendAccepted, SendIgnored, SendRejected,
              PollSuccess, PollFailed, PollTimeout, Record, SendUnanswered, Abandon, Polls
<1> HIDE DEF Kept
<1>10. ASSUME NEW r \in Requests, Submit(r) \/ SendUnanswered(r) \/ Abandon(r) PROVE Kept
  <2>1. CASE r = q
    BY <1>4, <1>5, <1>6, <1>7, <1>8, <1>10, <2>1 DEF Submit
  <2>2. CASE r # q
    BY <1>2, <1>9, <1>10, <2>2
  <2> QED
    BY <2>1, <2>2
<1>11. ASSUME Network \/ UNCHANGED vars PROVE Kept
  <2>1. request' = request
    BY <1>11 DEF Network, Accrue, OtherTransaction, Expire, Apply, ApplyFailed,
                 ApplyElsewhere, vars
  <2> QED
    BY <1>1, <2>1 DEF Kept
<1>12. ASSUME NEW t \in Txs, Builds(t) PROVE Kept
  <2>1. request' = request
    BY <1>12, BuildsMake DEF Made
  <2> QED
    BY <1>1, <2>1 DEF Kept
<1>13. Kept
  BY <1>10, <1>11, <1>12 DEF Next
<1> QED
  BY <1>13 DEF Kept

\* A submit that goes on is about a transaction that was there before the step.
LEMMA HeldBefore ==
  ASSUME TypeOK, Held, [Next]_vars, NEW q \in Requests, request'[q] # Idle
  PROVE  request'[q].tx \in Txs /\ tx[request'[q].tx] # Free
<1>1. request[q] # Idle => request[q].tx \in Txs /\ tx[request[q].tx] # Free
  BY Shapes DEF Held
<1>2. request[q].at \in {"value", "send"} => request[q] # Idle
  BY Shapes
<1>3. CASE request'[q] = request[q]
  BY <1>1, <1>3
<1>4. CASE request[q].at = "send" /\ request'[q] = [request[q] EXCEPT !.at = "poll"]
  <2>1. request'[q].tx = request[q].tx
    BY <1>4, Shapes
  <2> QED
    BY <1>1, <1>2, <1>4, <2>1
<1>5. CASE \E t \in Txs : /\ tx[t] # Free
                          /\ \/ request'[q] = Sending(t, 0)
                             \/ request'[q] = [at |-> "value", tx |-> t]
  BY <1>5 DEF Sending
<1>6. CASE request[q].at = "value" /\ request'[q] = Sending(request[q].tx, position)
  BY <1>1, <1>2, <1>6 DEF Sending
<1>7. CASE request[q].at = "poll" /\ request'[q] = [request[q] EXCEPT !.at = "record"]
  <2>1. request'[q].tx = request[q].tx /\ request[q] # Idle
    BY <1>7, Shapes
  <2> QED
    BY <1>1, <2>1
<1> QED
  BY <1>3, <1>4, <1>5, <1>6, <1>7, RequestKept

----------------------------------------------------------------------------
(* The invariant *)

LEMMA SequencedKept == IInv /\ [Next]_vars => Sequenced' /\ Held'
<1> SUFFICES ASSUME IInv, [Next]_vars PROVE Sequenced' /\ Held'
  OBVIOUS
<1> USE DEF IInv
<1>1. sequence \in Nat /\ (sequence' = sequence + 1 \/ sequence' = sequence)
  BY NetworkKept DEF TypeOK
<1>2. ASSUME NEW t \in Txs, tx'[t] # Free PROVE tx'[t].sequence <= sequence' + 1
  <2>1. CASE tx[t] = Free
    BY <1>1, <1>2, <2>1, TxKept
  <2>2. CASE tx[t] # Free
    <3>1. tx'[t].sequence = tx[t].sequence /\ tx[t].sequence \in Nat
      BY <2>2, TxKept, TxShapes
    <3>2. tx[t].sequence <= sequence + 1
      BY <2>2 DEF Sequenced
    <3> QED
      BY <1>1, <3>1, <3>2
  <2> QED
    BY <2>1, <2>2
<1>3. ASSUME NEW q \in Requests, request'[q] # Idle
      PROVE  request'[q].tx \in Txs /\ tx'[request'[q].tx] # Free
  BY <1>3, HeldBefore, TxKept
<1> QED
  BY <1>2, <1>3 DEF Sequenced, Held

LEMMA SameDifference ==
  ASSUME NEW p \in Nat, NEW a \in Nat, NEW q \in Nat, NEW b \in Nat,
         NEW value \in Nat, NEW then \in Nat, q - b = p - a, p = value + a - then
  PROVE  q = value + b - then
OBVIOUS

LEMMA ValueKept == IInv /\ [Next]_vars => ValueStillHolds'
<1> SUFFICES ASSUME IInv, [Next]_vars, NEW q \in Requests, Waiting(q)',
                    Valid(request[q].tx)'
             PROVE  position' = request'[q].value + accrued' - request'[q].accrued
  BY DEF ValueStillHolds
<1> USE DEF IInv
<1> DEFINE t == request'[q].tx
<1>1. /\ request'[q].at \in {"send", "poll"}
      /\ tx'[t].kind = "withdraw" /\ tx'[t].fate \in {"built", "pending"}
      /\ tx'[t].account = "box" /\ tx'[t].sequence = sequence' + 1
  BY DEF Waiting, Valid, Ahead, OfBox
<1>2. t \in Txs /\ tx[t] # Free
  <2>1. request'[q] # Idle
    BY <1>1 DEF Idle
  <2> QED
    BY <2>1, HeldBefore
<1> HIDE DEF t
<1>3. /\ tx[t].kind = "withdraw" /\ Ahead(t) /\ OfBox(t)
      /\ tx[t].sequence = sequence' + 1 /\ tx[t].sequence <= sequence + 1
  BY <1>1, <1>2, TxKept DEF Sequenced, OfBox
<1>4. sequence' = sequence /\ position' - accrued' = position - accrued
  BY <1>3, NetworkKept DEF TypeOK
<1>5. Valid(t)
  BY <1>3, <1>4 DEF Valid
<1>6. position' \in Nat /\ accrued' \in Nat /\ position \in Nat /\ accrued \in Nat
  BY TypedNext DEF TypeOK
<1>7. ASSUME request[q].at \in {"send", "poll"}, request[q].tx = t,
             request'[q].value = request[q].value, request'[q].accrued = request[q].accrued
      PROVE  position' = request'[q].value + accrued' - request'[q].accrued
  <2>1. Waiting(q)
    BY <1>3, <1>7 DEF Waiting
  <2>2. position = request[q].value + accrued - request[q].accrued
    BY <1>5, <1>7, <2>1 DEF ValueStillHolds
  <2>3. request[q].value \in Nat /\ request[q].accrued \in Nat
    BY <1>7, Shapes
  <2>4. position' - accrued' = position - accrued
    BY <1>4
  <2>5. position' = request[q].value + accrued' - request[q].accrued
    BY <1>6, <2>2, <2>3, <2>4, SameDifference
  <2> QED
    BY <1>7, <2>5
<1>8. CASE request'[q] = request[q]
  BY <1>1, <1>7, <1>8 DEF t
<1>9. CASE request[q].at = "send" /\ request'[q] = [request[q] EXCEPT !.at = "poll"]
  <2>1. /\ request'[q].tx = request[q].tx /\ request'[q].value = request[q].value
        /\ request'[q].accrued = request[q].accrued
    BY <1>9, Shapes
  <2> QED
    BY <1>7, <1>9, <2>1 DEF t
<1>10. CASE \E u \in Txs : /\ tx[u] # Free /\ tx[u].kind = "supply"
                           /\ request'[q] = Sending(u, 0)
  <2>1. PICK u \in Txs : tx[u].kind = "supply" /\ request'[q] = Sending(u, 0)
    BY <1>10
  <2>2. t = u
    BY <2>1 DEF t, Sending
  <2> QED
    BY <1>3, <2>1, <2>2
<1>11. CASE /\ position' = position /\ accrued' = accrued
            /\ request'[q] = Sending(request[q].tx, position)
  BY <1>6, <1>11 DEF Sending
<1>12. CASE request[q].at = "poll" /\ request'[q] = [request[q] EXCEPT !.at = "record"]
  <2>1. request'[q].at = "record"
    BY <1>12, Shapes
  <2> QED
    BY <1>1, <2>1
<1>13. CASE \E u \in Txs : request'[q] = [at |-> "value", tx |-> u]
  BY <1>1, <1>13
<1>14. request'[q] # Idle
  BY <1>1 DEF Idle
<1> QED
  BY <1>8, <1>9, <1>10, <1>11, <1>12, <1>13, <1>14, RequestKept

LEMMA IInvHolds == Spec => []IInv
<1>1. Init => IInv
  <2>1. Init => Sequenced /\ Held /\ ValueStillHolds
    BY DEF Init, Sequenced, Held, ValueStillHolds, Waiting, Idle
  <2> QED
    BY <2>1, InitTyped DEF IInv
<1>2. IInv /\ [Next]_vars => IInv'
  BY TypedNext, SequencedKept, ValueKept DEF IInv
<1> QED
  BY <1>1, <1>2, PTL DEF Spec

\* Amounts, the account, the transactions, the row and the submits keep their types;
\* in particular the capital in the row is never negative.  (compute_updated_principal)
THEOREM BlendTypeCorrect == Spec => []TypeOK
<1>1. IInv => TypeOK
  BY DEF IInv
<1> QED
  BY <1>1, IInvHolds, PTL

\* For any number of submits and transactions and any interest, the value that a
\* withdrawal is prorated by is what the network finds when it applies it, but for
\* the interest in between.  (BlendSubmitView: "el valor de la posicion ANTES de
\* ejecutarlo")
THEOREM BlendValueHolds == Spec => []ValueStillHolds
<1>1. IInv => ValueStillHolds
  BY DEF IInv
<1> QED
  BY <1>1, IInvHolds, PTL

----------------------------------------------------------------------------
(* The capital.  The row and the capital of the specification are computed    *)
(* from two sequences, recorded and applied, that overlap: the capital when    *)
(* an operation was applied is gone when it is recorded.  The invariant says   *)
(* that there is an account of it: a capital after each operation applied and  *)
(* the position that the operation found.                                      *)

\* What an operation makes of the capital when it finds the position at value.
After(before, operation, value) ==
  IF operation.kind = "supply" THEN before + operation.amount
  ELSE (before * Positive(value - operation.amount)) \div value

Account(capitals, values) ==
  /\ capitals \in [0..Len(applied) -> Nat]
  /\ values \in [1..Len(applied) -> Nat]
  /\ capitals[Len(applied)] = capital
  /\ \A i \in 1..Len(applied) :
       /\ capitals[i] = After(capitals[i - 1], tx[applied[i]], values[i])
       /\ tx[applied[i]].kind = "withdraw" => values[i] > 0

\* What is applied or recorded is decided.
Decided ==
  /\ \A i \in 1..Len(applied) : tx[applied[i]].fate = "succeeded"
  /\ \A i \in 1..Len(recorded) : tx[recorded[i]].fate = "succeeded"
  /\ \A r \in Requests : request[r].at = "record" => tx[request[r].tx].fate = "succeeded"

\* No interest came since a withdrawal that waits was valued.
Prompt == ~ misread => \A r \in Requests : Waiting(r) => request[r].accrued = accrued

\* A submit of a withdrawal that has read the position.
Valued(r) ==
  request[r].at \in {"send", "poll", "record"} /\ tx[request[r].tx].kind = "withdraw"

\* A submit holds the position that its withdrawal found.
Found(values) ==
  ~ misread => \A r \in Requests : Valued(r) =>
                 \A i \in 1..Len(applied) :
                   applied[i] = request[r].tx => values[i] = request[r].value

\* The row was updated for the first operations, in their order.
Follows ==
  /\ Len(recorded) <= Len(applied)
  /\ \A i \in 1..Len(recorded) : recorded[i] = applied[i]

\* Then the row has what the account says, but for what truncation lost.
InStep(capitals) ==
  ~ misread /\ Follows =>
    capitals[Len(recorded)] - principal \in 0..Cardinality(Withdrawals(recorded))

Accounted(capitals, values) == Account(capitals, values) /\ Found(values) /\ InStep(capitals)

Tracked ==
  \E capitals \in [0..Len(applied) -> Nat], values \in [1..Len(applied) -> Nat] :
    Accounted(capitals, values)

CapitalInv == IInv /\ Decided /\ Prompt /\ Tracked

----------------------------------------------------------------------------
(* What truncation loses *)

LEMMA DivisionFacts ==
  ASSUME NEW product \in Nat, NEW value \in Nat \ {0}
  PROVE  /\ product \div value \in Nat
         /\ value * (product \div value) <= product
         /\ product < value * (product \div value) + value
<1>1. product \div value \in Nat
  BY Quotient
<1> QED
  BY <1>1

LEMMA Monotone ==
  ASSUME NEW a \in Nat, NEW b \in Nat, a <= b, NEW n \in Nat PROVE a * n <= b * n
<1>1. PICK d \in Nat : b = a + d
  <2>1. b - a \in Nat /\ b = a + (b - a)
    OBVIOUS
  <2> QED
    BY <2>1
<1>2. b * n = a * n + d * n /\ d * n \in Nat /\ a * n \in Nat
  BY <1>1
<1> QED
  BY <1>2

\* Two capitals that are k apart are no further apart after the same proportion.
LEMMA Proportion ==
  ASSUME NEW upper \in Nat, NEW lower \in Nat, NEW k \in Nat,
         lower <= upper, upper <= lower + k,
         NEW value \in Nat \ {0}, NEW part \in Nat, part <= value
  PROVE  /\ (lower * part) \div value <= (upper * part) \div value
         /\ (upper * part) \div value <= (lower * part) \div value + k
<1> DEFINE high == upper * part
           low == lower * part
           H == high \div value
           L == low \div value
<1>1. high \in Nat /\ low \in Nat /\ k * part \in Nat /\ k * value \in Nat
  BY ProductTyped
<1>2. low <= high
  BY Monotone
<1>3. high <= low + k * part
  <2>1. upper * part <= (lower + k) * part
    BY Monotone
  <2>2. (lower + k) * part = lower * part + k * part
    OBVIOUS
  <2> QED
    BY <2>1, <2>2
<1>4. k * part <= k * value
  <2>1. part * k <= value * k
    BY Monotone
  <2> QED
    BY <2>1
<1> HIDE DEF high, low
<1>5. /\ H \in Nat /\ value * H <= high /\ high < value * H + value
      /\ L \in Nat /\ value * L <= low /\ low < value * L + value
  BY <1>1, DivisionFacts
<1> HIDE DEF H, L
<1>6. L <= H
  <2> SUFFICES ASSUME H + 1 <= L PROVE FALSE
    BY <1>5
  <2>1. (H + 1) * value <= L * value
    BY <1>5, Monotone
  <2>2. (H + 1) * value = value * H + value /\ L * value = value * L
    BY <1>5
  <2>3. value * H \in Nat /\ value * L \in Nat
    BY <1>5
  <2> QED
    BY <1>1, <1>2, <1>5, <2>1, <2>2, <2>3
<1>7. H <= L + k
  <2> SUFFICES ASSUME L + k + 1 <= H PROVE FALSE
    BY <1>5
  <2>1. (L + k + 1) * value <= H * value
    BY <1>5, Monotone
  <2>2. (L + k + 1) * value = value * L + k * value + value /\ H * value = value * H
    BY <1>5
  <2>3. value * H \in Nat /\ value * L \in Nat
    BY <1>5
  <2> QED
    BY <1>1, <1>3, <1>4, <1>5, <2>1, <2>2, <2>3
<1> QED
  BY <1>6, <1>7 DEF H, L, high, low

\* A withdrawal loses one unit more of the capital at most, and never adds to it.
LEMMA OneUnitLost ==
  ASSUME NEW upper \in Nat, NEW lower \in Nat, NEW k \in Nat,
         lower <= upper, upper <= lower + k,
         NEW value \in Nat \ {0}, NEW amount \in Nat,
         NEW rest \in Remaining(lower, amount, value)
  PROVE  (upper * Positive(value - amount)) \div value - rest \in 0..(k + 1)
<1> DEFINE part == Positive(value - amount)
           H == (upper * part) \div value
           L == (lower * part) \div value
<1>1. part \in Nat /\ part <= value
  BY DEF Positive
<1>2. rest = L \/ rest = L - 1
  BY DEF Remaining
<1> HIDE DEF part
<1>3. upper * part \in Nat /\ lower * part \in Nat
  BY <1>1, ProductTyped
<1>4. H \in Nat /\ L \in Nat
  BY <1>3, DivisionFacts
<1>5. L <= H /\ H <= L + k
  BY <1>1, Proportion
<1> HIDE DEF H, L
<1>6. H - rest \in 0..(k + 1)
  BY <1>2, <1>4, <1>5
<1> QED
  BY <1>6 DEF H, part

LEMMA WithdrawalsFinite ==
  ASSUME NEW order \in Seq(Txs)
  PROVE  /\ IsFiniteSet(Withdrawals(order)) /\ Cardinality(Withdrawals(order)) \in Nat
         /\ Withdrawals(order) \subseteq 1..Len(order)
<1>1. Withdrawals(order) \subseteq 1..Len(order) /\ Len(order) \in Nat
  BY DEF Withdrawals
<1>2. IsFiniteSet(1..Len(order))
  BY <1>1, FS_Interval
<1>3. IsFiniteSet(Withdrawals(order))
  BY <1>1, <1>2, FS_Subset
<1> QED
  BY <1>1, <1>3, FS_CardinalityType

LEMMA OneMoreWithdrawal ==
  ASSUME NEW order \in Seq(Txs), NEW t \in Txs
  PROVE  Cardinality(Withdrawals(Append(order, t)))
           = Cardinality(Withdrawals(order)) + (IF tx[t].kind = "withdraw" THEN 1 ELSE 0)
<1> DEFINE n == Len(order)
           longer == Append(order, t)
<1>1. /\ n \in Nat /\ longer \in Seq(Txs) /\ Len(longer) = n + 1
      /\ \A i \in 1..n : longer[i] = order[i]
      /\ longer[n + 1] = t
  BY AppendProperties
<1>2. DOMAIN order = 1..n /\ DOMAIN longer = 1..(n + 1)
  BY <1>1
<1>3. n + 1 \notin Withdrawals(order)
  BY <1>1, <1>2 DEF Withdrawals
<1> HIDE DEF n, longer
<1>4. Withdrawals(longer) = Withdrawals(order) \cup
        (IF tx[t].kind = "withdraw" THEN {n + 1} ELSE {})
  BY <1>1, <1>2 DEF Withdrawals
<1>5. IsFiniteSet(Withdrawals(order)) /\ Cardinality(Withdrawals(order)) \in Nat
  BY WithdrawalsFinite
<1>6. CASE tx[t].kind = "withdraw"
  BY <1>3, <1>4, <1>5, <1>6, FS_AddElement DEF longer
<1>7. CASE tx[t].kind # "withdraw"
  BY <1>4, <1>5, <1>7 DEF longer
<1> QED
  BY <1>6, <1>7

----------------------------------------------------------------------------
(* What a step does to the histories *)

\* misread is never taken back, and interest that comes while a withdrawal waits sets it.
LEMMA MisreadKept ==
  ASSUME [Next]_vars, ~ misread'
  PROVE  /\ ~ misread
         /\ \/ accrued' = accrued
            \/ UNCHANGED <<tx, request>> /\ \A r \in Requests : ~ Waiting(r)
<1> DEFINE Kept ==
      /\ misread' = misread \/ misread' = TRUE
      /\ \/ accrued' = accrued
         \/ UNCHANGED <<tx, request>> /\ \A r \in Requests : ~ Waiting(r)
<1>1. CASE UNCHANGED <<accrued, misread>>
  BY <1>1
<1>2. ASSUME NEW n \in Interests, Accrue(n)
      PROVE  ~ misread /\ UNCHANGED <<tx, request>> /\ \A r \in Requests : ~ Waiting(r)
  BY <1>2 DEF Accrue
<1>3. CASE OtherTransaction
  BY <1>3 DEF OtherTransaction
<1>4. ASSUME NEW t \in Txs, Expire(t) \/ ApplyElsewhere(t)
      PROVE  UNCHANGED <<accrued, misread>>
  BY <1>4 DEF Expire, ApplyElsewhere, network
<1>5. ASSUME NEW t \in Txs, Apply(t) \/ ApplyFailed(t) PROVE UNCHANGED <<accrued, misread>>
  BY <1>5 DEF Apply, ApplyFailed
<1>6. ASSUME NEW t \in Txs, Builds(t) PROVE UNCHANGED <<accrued, misread>>
  BY <1>6, BuildsMake DEF Made, network
<1>7. ASSUME NEW r \in Requests, ReadValue(r) PROVE accrued' = accrued /\ ~ misread
  BY <1>7 DEF ReadValue
<1>8. ASSUME NEW r \in Requests, Submit(r) \/ SendUnanswered(r) \/ Abandon(r),
             ~ ReadValue(r)
      PROVE  UNCHANGED <<accrued, misread>>
  BY <1>8 DEF Submit, SubmitBegin, SendAccepted, SendIgnored, SendRejected,
              PollSuccess, PollFailed, PollTimeout, Record, SendUnanswered, Abandon, network
<1>9. CASE UNCHANGED vars
  BY <1>9, <1>1 DEF vars, network
<1>10. CASE Network
  BY <1>1, <1>2, <1>3, <1>4, <1>5, <1>10 DEF Network
<1>11. CASE \E r \in Requests : Submit(r) \/ SendUnanswered(r) \/ Abandon(r)
  BY <1>1, <1>7, <1>8, <1>11
<1> QED
  BY <1>1, <1>6, <1>9, <1>10, <1>11 DEF Next

\* Only the network appends to applied, and only a submit to recorded.
LEMMA HistoriesKept ==
  ASSUME [Next]_vars
  PROVE  \/ \E t \in Txs : Apply(t)
         \/ \E r \in Requests : Record(r)
         \/ UNCHANGED <<applied, capital, recorded, principal>>
<1>1. CASE Network
  BY <1>1 DEF Network, Accrue, OtherTransaction, Expire, ApplyFailed, ApplyElsewhere, network
<1>2. ASSUME NEW t \in Txs, Builds(t)
      PROVE  UNCHANGED <<applied, capital, recorded, principal>>
  BY <1>2, BuildsMake DEF Made, network
<1>3. ASSUME NEW r \in Requests, Submit(r) \/ SendUnanswered(r) \/ Abandon(r), ~ Record(r)
      PROVE  UNCHANGED <<applied, capital, recorded, principal>>
  BY <1>3 DEF Submit, SubmitBegin, ReadValue, SendAccepted, SendIgnored, SendRejected,
              PollSuccess, PollFailed, PollTimeout, SendUnanswered, Abandon, network
<1>4. CASE UNCHANGED vars
  BY <1>4 DEF vars, network
<1> QED
  BY <1>1, <1>2, <1>3, <1>4 DEF Next

\* Where a submit that has read the position comes from.
LEMMA ValuedBefore ==
  ASSUME IInv, [Next]_vars, NEW q \in Requests, Valued(q)'
  PROVE  /\ request'[q].tx \in Txs
         /\ Waiting(q)' => Ahead(request'[q].tx)
         /\ \/ /\ Valued(q) /\ request'[q].tx = request[q].tx
               /\ request'[q].value = request[q].value
               /\ request'[q].accrued = request[q].accrued
               /\ Waiting(q)' => Waiting(q)
            \/ /\ request'[q] = Sending(request'[q].tx, position)
               /\ UNCHANGED <<position, accrued, tx, applied>>
               /\ misread' = (misread \/ ~ Ahead(request'[q].tx))
<1> USE DEF IInv
<1> DEFINE t == request'[q].tx
<1>1. request'[q].at \in {"send", "poll", "record"} /\ tx'[t].kind = "withdraw"
  BY DEF Valued
<1>2. t \in Txs /\ tx[t] # Free
  <2>1. request'[q] # Idle
    BY <1>1 DEF Idle
  <2> QED
    BY <2>1, HeldBefore
<1>3. Waiting(q)' => Ahead(t) /\ OfBox(t) /\ request'[q].at \in {"send", "poll"}
  <2> SUFFICES ASSUME Waiting(q)'
               PROVE  Ahead(t) /\ OfBox(t) /\ request'[q].at \in {"send", "poll"}
    OBVIOUS
  <2>1. /\ request'[q].at \in {"send", "poll"} /\ tx'[t].fate \in {"built", "pending"}
        /\ tx'[t].account = "box"
    BY DEF Waiting, Ahead, OfBox
  <2> QED
    BY <1>2, <2>1, TxKept DEF OfBox
<1> HIDE DEF t
<1>4. tx[t].kind = "withdraw"
  BY <1>1, <1>2, TxKept
<1> DEFINE Goal ==
      \/ /\ Valued(q) /\ t = request[q].tx
         /\ request'[q].value = request[q].value
         /\ request'[q].accrued = request[q].accrued
         /\ Waiting(q)' => Waiting(q)
      \/ /\ request'[q] = Sending(t, position)
         /\ UNCHANGED <<position, accrued, tx, applied>>
         /\ misread' = (misread \/ ~ Ahead(t))
<1>5. ASSUME request[q].at \in {"send", "poll", "record"}, t = request[q].tx,
             request'[q].value = request[q].value, request'[q].accrued = request[q].accrued,
             request'[q].at \in {"send", "poll"} => request[q].at \in {"send", "poll"}
      PROVE  Goal
  BY <1>3, <1>4, <1>5 DEF Valued, Waiting
<1> HIDE DEF Goal
<1>6. ASSUME request'[q] = request[q] PROVE Goal
  BY <1>1, <1>5, <1>6 DEF t
<1>7. ASSUME request[q].at = "send", request'[q] = [request[q] EXCEPT !.at = "poll"]
      PROVE  Goal
  <2>1. /\ request'[q].tx = request[q].tx /\ request'[q].value = request[q].value
        /\ request'[q].accrued = request[q].accrued
    BY <1>7, Shapes
  <2> QED
    BY <1>5, <1>7, <2>1 DEF t
<1>8. ASSUME request[q].at = "poll", request'[q] = [request[q] EXCEPT !.at = "record"]
      PROVE  Goal
  <2>1. /\ request'[q].tx = request[q].tx /\ request'[q].value = request[q].value
        /\ request'[q].accrued = request[q].accrued /\ request'[q].at = "record"
    BY <1>8, Shapes
  <2> QED
    BY <1>5, <1>8, <2>1 DEF t
<1>9. ASSUME UNCHANGED <<position, accrued, tx, applied>>,
             misread' = (misread \/ ~ Ahead(request[q].tx)),
             request'[q] = Sending(request[q].tx, position)
      PROVE  Goal
  <2>1. t = request[q].tx
    BY <1>9 DEF Sending, t
  <2> QED
    BY <1>9, <2>1 DEF Goal
<1>10. ASSUME NEW u \in Txs, tx[u].kind = "supply", request'[q] = Sending(u, 0)
       PROVE  FALSE
  <2>1. t = u
    BY <1>10 DEF Sending, t
  <2> QED
    BY <1>4, <1>10, <2>1
<1>11. ASSUME NEW u \in Txs, request'[q] = [at |-> "value", tx |-> u] PROVE FALSE
  <2>1. request'[q].at = "value"
    BY <1>11
  <2> QED
    BY <1>1, <2>1
<1>12. request'[q] # Idle
  BY <1>1 DEF Idle
<1>13. Goal
  BY <1>6, <1>7, <1>8, <1>9, <1>10, <1>11, <1>12, RequestKept
<1> QED
  BY <1>2, <1>3, <1>13 DEF Goal, t

\* A decided transaction is not touched again.
LEMMA DecidedTx ==
  ASSUME TypeOK, [Next]_vars, NEW t \in Txs, tx[t].fate = "succeeded"
  PROVE  tx'[t] = tx[t]
<1>1. tx[t] # Free
  BY TxShapes
<1>2. ~ Ahead(t)
  BY DEF Ahead
<1> QED
  BY <1>1, <1>2, TxKept

LEMMA DecidedKept ==
  ASSUME IInv, Decided, [Next]_vars
  PROVE  Decided'
<1> USE DEF IInv
<1>1. /\ applied \in Seq(Txs) /\ recorded \in Seq(Txs)
      /\ \A i \in 1..Len(applied) : applied[i] \in Txs
      /\ \A i \in 1..Len(recorded) : recorded[i] \in Txs
  BY DEF TypeOK
<1>2. ASSUME NEW q \in Requests, request'[q].at = "record"
      PROVE  tx'[request'[q].tx].fate = "succeeded"
  <2>1. CASE request'[q] = request[q]
    <3>1. request[q].tx \in Txs /\ tx[request[q].tx].fate = "succeeded"
      BY <1>2, <2>1, Shapes DEF Decided
    <3> QED
      BY <2>1, <3>1, DecidedTx
  <2>2. CASE request[q].at = "send" /\ request'[q] = [request[q] EXCEPT !.at = "poll"]
    <3>1. request'[q].at = "poll"
      BY <2>2, Shapes
    <3> QED
      BY <1>2, <3>1
  <2>3. CASE /\ request[q].at = "poll" /\ tx[request[q].tx].fate = "succeeded"
             /\ tx' = tx /\ request'[q] = [request[q] EXCEPT !.at = "record"]
    <3>1. request'[q].tx = request[q].tx
      BY <2>3, Shapes
    <3> QED
      BY <2>3, <3>1
  <2>4. request'[q] # Idle
    BY <1>2 DEF Idle
  <2>5. ASSUME NEW t, NEW value, request'[q] = Sending(t, value) PROVE FALSE
    BY <1>2, <2>5 DEF Sending
  <2>6. ASSUME NEW t, request'[q] = [at |-> "value", tx |-> t] PROVE FALSE
    BY <1>2, <2>6
  <2> QED
    BY <2>1, <2>2, <2>3, <2>4, <2>5, <2>6, RequestKept
<1>3. ASSUME \A i \in 1..Len(applied') : applied'[i] \in Txs /\ tx'[applied'[i]].fate = "succeeded",
             \A i \in 1..Len(recorded') : recorded'[i] \in Txs /\ tx'[recorded'[i]].fate = "succeeded"
      PROVE  Decided'
  BY <1>2, <1>3 DEF Decided
<1>4. \A i \in 1..Len(applied) : tx'[applied[i]].fate = "succeeded"
  BY <1>1, DecidedTx DEF Decided
<1>5. \A i \in 1..Len(recorded) : tx'[recorded[i]].fate = "succeeded"
  BY <1>1, DecidedTx DEF Decided
<1>6. ASSUME NEW t \in Txs, Apply(t) PROVE Decided'
  <2>1. applied' = Append(applied, t) /\ recorded' = recorded
    BY <1>6 DEF Apply
  <2>2. tx'[t].fate = "succeeded"
    <3>1. tx[t] # Free /\ Becomes(t, "succeeded")
      BY <1>6, TxShapes DEF Apply
    <3> QED
      BY <3>1, BecomesTyped
  <2> QED
    BY <1>1, <1>3, <1>4, <1>5, <2>1, <2>2, AppendProperties
<1>7. ASSUME NEW r \in Requests, Record(r) PROVE Decided'
  <2> DEFINE t == request[r].tx
  <2>1. t \in Txs /\ tx[t].fate = "succeeded"
    BY <1>7, Shapes DEF Record, Decided
  <2>2. applied' = applied /\ recorded' = Append(recorded, t) /\ tx' = tx
    BY <1>7 DEF Record, network
  <2> HIDE DEF t
  <2> QED
    BY <1>1, <1>3, <1>4, <1>5, <2>1, <2>2, AppendProperties
<1>8. CASE UNCHANGED <<applied, capital, recorded, principal>>
  BY <1>1, <1>3, <1>4, <1>5, <1>8
<1> QED
  BY <1>6, <1>7, <1>8, HistoriesKept

LEMMA PromptKept ==
  ASSUME IInv, Prompt, [Next]_vars
  PROVE  Prompt'
<1> SUFFICES ASSUME ~ misread', NEW q \in Requests, Waiting(q)'
             PROVE  request'[q].accrued = accrued'
  BY DEF Prompt
<1>1. Valued(q)'
  BY DEF Waiting, Valued
<1>2. CASE /\ request'[q].accrued = request[q].accrued
           /\ Waiting(q)
  BY <1>2, MisreadKept DEF Prompt
<1>3. CASE request'[q] = Sending(request'[q].tx, position) /\ accrued' = accrued
  BY <1>3 DEF Sending
<1> QED
  BY <1>1, <1>2, <1>3, ValuedBefore

----------------------------------------------------------------------------
(* The account goes on *)

\* What is in the histories was built, and keeps its kind and amount.
LEMMA HistoryTyped ==
  ASSUME IInv, Decided
  PROVE  /\ applied \in Seq(Txs) /\ Len(applied) \in Nat
         /\ recorded \in Seq(Txs) /\ Len(recorded) \in Nat
         /\ \A i \in 1..Len(applied) : applied[i] \in Txs /\ tx[applied[i]].fate = "succeeded"
         /\ \A i \in 1..Len(recorded) : recorded[i] \in Txs /\ tx[recorded[i]].fate = "succeeded"
         /\ DOMAIN recorded = 1..Len(recorded)
BY DEF IInv, TypeOK, Decided

LEMMA WithdrawalsKept ==
  ASSUME IInv, Decided, [Next]_vars, recorded' = recorded
  PROVE  Withdrawals(recorded)' = Withdrawals(recorded)
<1>1. /\ DOMAIN recorded = 1..Len(recorded)
      /\ \A i \in 1..Len(recorded) : tx'[recorded[i]] = tx[recorded[i]]
  BY HistoryTyped, DecidedTx DEF IInv
<1> QED
  BY <1>1 DEF Withdrawals

\* A submit whose withdrawal is in the histories when it reads the position misreads it.
LEMMA FoundKept ==
  ASSUME IInv, Decided, [Next]_vars, applied' = applied,
         NEW values, Found(values)
  PROVE  Found(values)'
<1> SUFFICES ASSUME ~ misread', NEW q \in Requests, Valued(q)',
                    NEW i \in 1..Len(applied), applied[i] = request'[q].tx
             PROVE  values[i] = request'[q].value
  BY DEF Found
<1>1. ~ misread
  BY MisreadKept
<1>2. tx[applied[i]].fate = "succeeded"
  BY HistoryTyped
<1>3. ~ Ahead(request'[q].tx)
  BY <1>2 DEF Ahead
<1>4. Valued(q) /\ request'[q].tx = request[q].tx /\ request'[q].value = request[q].value
  BY <1>3, ValuedBefore
<1> QED
  BY <1>1, <1>4 DEF Found

LEMMA TrackedOtherwise ==
  ASSUME IInv, Decided, Tracked, [Next]_vars,
         UNCHANGED <<applied, capital, recorded, principal>>
  PROVE  Tracked'
<1>1. PICK capitals \in [0..Len(applied) -> Nat], values \in [1..Len(applied) -> Nat] :
        Accounted(capitals, values)
  BY DEF Tracked
<1>2. Account(capitals, values)'
  <2>1. \A i \in 1..Len(applied) : tx'[applied[i]] = tx[applied[i]]
    BY HistoryTyped, DecidedTx DEF IInv
  <2> QED
    BY <1>1, <2>1 DEF Accounted, Account, After
<1>3. Found(values)'
  BY <1>1, FoundKept DEF Accounted
<1>4. InStep(capitals)'
  <2>1. Withdrawals(recorded)' = Withdrawals(recorded)
    BY WithdrawalsKept
  <2>2. InStep(capitals)
    BY <1>1 DEF Accounted
  <2>3. misread => misread'
    BY MisreadKept
  <2>4. Follows' => Follows
    BY DEF Follows
  <2> QED
    BY <2>1, <2>2, <2>3, <2>4 DEF InStep
<1>5. Accounted(capitals, values)'
  BY <1>2, <1>3, <1>4 DEF Accounted
<1> QED
  BY <1>5 DEF Tracked

\* The network applies one more: the account gets one more entry.
LEMMA TrackedApply ==
  ASSUME IInv, Decided, Prompt, Tracked, [Next]_vars, NEW t \in Txs, Apply(t)
  PROVE  Tracked'
<1>1. PICK capitals \in [0..Len(applied) -> Nat], values \in [1..Len(applied) -> Nat] :
        Accounted(capitals, values)
  BY DEF Tracked
<1> DEFINE n == Len(applied)
<1>2. /\ applied' = Append(applied, t) /\ recorded' = recorded /\ request' = request
      /\ misread' = misread /\ accrued' = accrued /\ principal' = principal
      /\ tx[t].fate = "pending" /\ OfBox(t) /\ Valid(t) /\ Becomes(t, "succeeded")
      /\ tx[t].kind = "withdraw" => position > 0
  BY DEF Apply
<1>3. tx[t] # Free /\ tx'[t].kind = tx[t].kind /\ tx'[t].amount = tx[t].amount
  <2>1. TypeOK
    BY DEF IInv
  <2>2. tx[t] # Free
    BY <1>2, <2>1, TxShapes
  <2> QED
    BY <1>2, <2>1, <2>2, BecomesTyped
<1>4. /\ n \in Nat /\ Len(applied') = n + 1
      /\ \A i \in 1..n : applied'[i] = applied[i]
      /\ applied'[n + 1] = t
  BY <1>2, HistoryTyped, AppendProperties
<1>5. capital' \in Nat /\ position \in Nat /\ capital' = After(capital, tx[t], position)
  <2>1. capital' \in Nat /\ position \in Nat
    BY TypedNext DEF IInv, TypeOK
  <2> QED
    BY <2>1 DEF Apply, After
<1>6. PICK longer \in [0..(n + 1) -> Nat], found \in [1..(n + 1) -> Nat] :
        /\ \A i \in 0..n : longer[i] = capitals[i]
        /\ \A i \in 1..n : found[i] = values[i]
        /\ longer[n + 1] = capital' /\ found[n + 1] = position
  <2> DEFINE C == [i \in 0..(n + 1) |-> IF i = n + 1 THEN capital' ELSE capitals[i]]
             V == [i \in 1..(n + 1) |-> IF i = n + 1 THEN position ELSE values[i]]
  <2>1. /\ C \in [0..(n + 1) -> Nat] /\ V \in [1..(n + 1) -> Nat]
        /\ \A i \in 0..n : C[i] = capitals[i]
        /\ \A i \in 1..n : V[i] = values[i]
        /\ C[n + 1] = capital' /\ V[n + 1] = position
    BY <1>1, <1>4, <1>5
  <2> HIDE DEF C, V
  <2> QED
    BY <2>1
<1>7. Account(capitals, values) /\ Found(values) /\ InStep(capitals)
  BY <1>1 DEF Accounted
<1>8. Account(longer, found)'
  <2>1. ASSUME NEW i \in 1..(n + 1)
        PROVE  /\ longer[i] = After(longer[i - 1], tx'[applied'[i]], found[i])
               /\ tx'[applied'[i]].kind = "withdraw" => found[i] > 0
    <3>1. CASE i = n + 1
      <4>1. longer[n] = capital
        BY <1>4, <1>6, <1>7 DEF Account
      <4>2. applied'[i] = t /\ found[i] = position /\ longer[i] = capital' /\ i - 1 = n
        BY <1>4, <1>6, <3>1
      <4> QED
        BY <1>2, <1>3, <1>5, <4>1, <4>2 DEF After
    <3>2. CASE i # n + 1
      <4>1. i \in 1..n /\ i - 1 \in 0..n
        BY <1>4, <3>2
      <4>2. tx'[applied[i]] = tx[applied[i]]
        BY <4>1, HistoryTyped, DecidedTx DEF IInv
      <4>3. /\ longer[i] = capitals[i] /\ longer[i - 1] = capitals[i - 1]
            /\ found[i] = values[i] /\ applied'[i] = applied[i]
        BY <1>4, <1>6, <4>1
      <4> QED
        BY <1>7, <4>1, <4>2, <4>3 DEF Account
    <3> QED
      BY <3>1, <3>2
  <2> QED
    BY <1>4, <1>6, <2>1 DEF Account
<1>9. Found(found)'
  <2> SUFFICES ASSUME ~ misread', NEW q \in Requests, Valued(q)',
                      NEW i \in 1..(n + 1), applied'[i] = request'[q].tx
               PROVE  found[i] = request'[q].value
    BY <1>4 DEF Found
  <2>1. ~ misread /\ request'[q] = request[q]
    BY <1>2
  <2>2. Valued(q)
    <3>1. request[q].at \in {"send", "poll", "record"}
      BY <2>1 DEF Valued
    <3>2. tx'[request[q].tx].kind = "withdraw"
      BY <2>1 DEF Valued
    <3>3. request[q].tx \in Txs /\ tx[request[q].tx] # Free
      BY <3>1, Shapes DEF IInv, Held
    <3>4. tx[request[q].tx].kind = "withdraw"
      BY <3>2, <3>3, TxKept DEF IInv
    <3> QED
      BY <3>1, <3>4 DEF Valued
  <2>3. CASE i \in 1..n
    BY <1>4, <1>6, <1>7, <2>1, <2>2, <2>3 DEF Found
  <2>4. CASE i = n + 1
    <3>1. request[q].tx = t
      BY <1>4, <2>1, <2>4
    <3>2. request[q].at # "record"
      BY <1>2, <3>1 DEF Decided
    <3>3. Waiting(q)
      BY <1>2, <2>2, <3>1, <3>2 DEF Waiting, Valued, Ahead
    <3>4. request[q].accrued = accrued /\ Valid(request[q].tx)
      BY <1>2, <2>1, <3>1, <3>3 DEF Prompt
    <3>5. position = request[q].value + accrued - request[q].accrued
      BY <3>3, <3>4 DEF IInv, ValueStillHolds
    <3>6. request[q].value \in Nat /\ accrued \in Nat
      BY <2>2, Shapes DEF IInv, Valued, TypeOK
    <3> QED
      BY <1>6, <2>1, <2>4, <3>4, <3>5, <3>6
  <2> QED
    BY <1>4, <2>3, <2>4
<1>10. InStep(longer)'
  <2> SUFFICES ASSUME ~ misread', Follows'
               PROVE  longer[Len(recorded)] - principal
                        \in 0..Cardinality(Withdrawals(recorded)')
    BY <1>2 DEF InStep
  <2>1. /\ Len(recorded) \in Nat /\ Len(recorded) <= n + 1
        /\ \A i \in 1..Len(recorded) : recorded[i] = applied'[i]
    BY <1>2, <1>4, HistoryTyped DEF Follows
  <2>2. Len(recorded) # n + 1
    <3> SUFFICES ASSUME Len(recorded) = n + 1 PROVE FALSE
      OBVIOUS
    <3>1. recorded[n + 1] = t
      BY <1>4, <2>1
    <3>2. tx[recorded[n + 1]].fate = "succeeded"
      BY <1>4, HistoryTyped
    <3> QED
      BY <1>2, <3>1, <3>2
  <2>3. Len(recorded) \in 0..n
    BY <1>4, <2>1, <2>2
  <2>4. Follows
    BY <1>4, <2>1, <2>3 DEF Follows
  <2>5. capitals[Len(recorded)] - principal \in 0..Cardinality(Withdrawals(recorded))
    BY <1>2, <1>7, <2>4 DEF InStep
  <2>6. Withdrawals(recorded)' = Withdrawals(recorded)
    BY <1>2, WithdrawalsKept
  <2> QED
    BY <1>6, <2>3, <2>5, <2>6
<1>11. Accounted(longer, found)'
  BY <1>8, <1>9, <1>10 DEF Accounted
<1> QED
  BY <1>4, <1>6, <1>11 DEF Tracked

\* The row is updated for one more: if it is the one whose turn it is, the update did
\* what the account says of it.
LEMMA TrackedRecord ==
  ASSUME IInv, Decided, Tracked, [Next]_vars, NEW r \in Requests, Record(r)
  PROVE  Tracked'
<1>1. PICK capitals \in [0..Len(applied) -> Nat], values \in [1..Len(applied) -> Nat] :
        Accounted(capitals, values)
  BY DEF Tracked
<1> DEFINE t == request[r].tx
           value == request[r].value
           m == Len(recorded)
<1>2. /\ applied' = applied /\ capital' = capital /\ misread' = misread /\ tx' = tx
      /\ recorded' = Append(recorded, t) /\ request[r].at = "record"
      /\ principal' \in Updated(principal, tx[t], value)
  BY DEF Record, network
<1>3. t \in Txs /\ value \in Nat /\ tx[t] # Free
  BY <1>2, Shapes DEF IInv, Held
<1>4. /\ tx[t].kind \in {"supply", "withdraw"} /\ tx[t].amount \in Nat
      /\ principal \in Nat /\ principal' \in Nat
  BY <1>3, TxShapes, TypedNext DEF IInv, TypeOK
<1>5. tx[t].kind = "withdraw" => Valued(r)
  BY <1>2 DEF Valued
<1> HIDE DEF t, value
<1>6. Account(capitals, values) /\ Found(values) /\ InStep(capitals)
  BY <1>1 DEF Accounted
<1>7. Account(capitals, values)'
  BY <1>2, <1>6 DEF Account, After
<1>8. Found(values)'
  BY <1>2, <1>6, FoundKept
<1>9. InStep(capitals)'
  <2> SUFFICES ASSUME ~ misread, Follows'
               PROVE  capitals[Len(recorded')] - principal'
                        \in 0..Cardinality(Withdrawals(recorded)')
    BY <1>2 DEF InStep
  <2>1. /\ m \in Nat /\ Len(recorded') = m + 1
        /\ \A i \in 1..m : recorded'[i] = recorded[i]
        /\ recorded'[m + 1] = t
    BY <1>2, <1>3, HistoryTyped, AppendProperties
  <2>2. /\ m + 1 <= Len(applied) /\ Len(applied) \in Nat
        /\ \A i \in 1..(m + 1) : recorded'[i] = applied[i]
    BY <1>2, <2>1, HistoryTyped DEF Follows
  <2>3. m + 1 \in 1..Len(applied) /\ applied[m + 1] = t /\ m \in 0..Len(applied)
    BY <2>1, <2>2
  <2>4. Follows
    BY <2>1, <2>2 DEF Follows
  <2> DEFINE k == Cardinality(Withdrawals(recorded))
             before == capitals[m]
             after == capitals[m + 1]
  <2>5. before - principal \in 0..k
    BY <1>6, <2>4 DEF InStep
  <2>6. k \in Nat
    BY HistoryTyped, WithdrawalsFinite
  <2>7. Cardinality(Withdrawals(recorded)')
          = k + (IF tx[t].kind = "withdraw" THEN 1 ELSE 0)
    <3>1. Withdrawals(recorded)' = Withdrawals(recorded')
      BY <1>2 DEF Withdrawals
    <3>2. Cardinality(Withdrawals(Append(recorded, t)))
            = k + (IF tx[t].kind = "withdraw" THEN 1 ELSE 0)
      BY <1>3, HistoryTyped, OneMoreWithdrawal
    <3> QED
      BY <1>2, <3>1, <3>2
  <2>8. /\ after = After(before, tx[t], values[m + 1])
        /\ tx[t].kind = "withdraw" => values[m + 1] > 0
    <3>1. (m + 1) - 1 = m
      BY <2>1
    <3> QED
      BY <1>6, <2>3, <3>1 DEF Account
  <2>9. before \in Nat
    BY <1>1, <2>3
  <2> HIDE DEF k, before, after, m
  <2>10. after - principal' \in 0..(k + (IF tx[t].kind = "withdraw" THEN 1 ELSE 0))
    <3>1. CASE tx[t].kind = "supply"
      <4>1. principal' = principal + tx[t].amount
        BY <1>2, <3>1 DEF Updated
      <4>2. after = before + tx[t].amount
        BY <2>8, <3>1 DEF After
      <4> QED
        BY <1>4, <2>5, <2>6, <2>9, <3>1, <4>1, <4>2
    <3>2. CASE tx[t].kind = "withdraw"
      <4>1. values[m + 1] = value
        BY <1>5, <1>6, <2>3, <3>2 DEF Found, t, value
      <4>2. value \in Nat \ {0}
        BY <1>3, <2>8, <3>2, <4>1
      <4>3. principal' \in Remaining(principal, tx[t].amount, value)
        BY <1>2, <3>2 DEF Updated
      <4>4. after = (before * Positive(value - tx[t].amount)) \div value
        BY <2>8, <3>2, <4>1 DEF After
      <4>5. principal <= before /\ before <= principal + k
        BY <1>4, <2>5, <2>6, <2>9
      <4>6. after - principal' \in 0..(k + 1)
        BY <1>4, <2>6, <2>9, <4>2, <4>3, <4>4, <4>5, OneUnitLost
      <4> QED
        BY <3>2, <4>6
    <3> QED
      BY <1>4, <3>1, <3>2
  <2> QED
    BY <2>1, <2>7, <2>10 DEF after
<1>10. Accounted(capitals, values)'
  BY <1>7, <1>8, <1>9 DEF Accounted
<1> QED
  BY <1>2, <1>10 DEF Tracked

LEMMA CapitalInvHolds == Spec => []CapitalInv
<1>1. Init => CapitalInv
  <2> SUFFICES ASSUME Init PROVE CapitalInv
    OBVIOUS
  <2>1. IInv
    BY InitTyped DEF IInv, Init, Sequenced, Held, ValueStillHolds, Waiting, Idle
  <2>2. /\ applied = <<>> /\ recorded = <<>> /\ capital = 0 /\ principal = 0
        /\ \A r \in Requests : request[r].at = "idle"
    BY DEF Init, Idle
  <2>3. Decided /\ Prompt
    BY <2>2 DEF Decided, Prompt, Waiting
  <2> DEFINE capitals == [i \in 0..0 |-> 0]
             values == [i \in 1..0 |-> 0]
  <2>4. capitals \in [0..0 -> Nat] /\ values \in [1..0 -> Nat] /\ capitals[0] = 0
    OBVIOUS
  <2>5. Len(applied) = 0 /\ Len(recorded) = 0
    BY <2>2
  <2> HIDE DEF capitals, values
  <2>6. Account(capitals, values)
    BY <2>2, <2>4, <2>5 DEF Account
  <2>7. Found(values)
    BY <2>2 DEF Found, Valued
  <2>8. InStep(capitals)
    <3>1. Cardinality(Withdrawals(recorded)) \in Nat
      BY <2>1, <2>3, HistoryTyped, WithdrawalsFinite
    <3> QED
      BY <2>2, <2>4, <2>5, <3>1 DEF InStep
  <2>9. Tracked
    BY <2>4, <2>5, <2>6, <2>7, <2>8 DEF Tracked, Accounted
  <2> QED
    BY <2>1, <2>3, <2>9 DEF CapitalInv
<1>2. CapitalInv /\ [Next]_vars => CapitalInv'
  <2> SUFFICES ASSUME CapitalInv, [Next]_vars PROVE CapitalInv'
    OBVIOUS
  <2>1. IInv /\ Decided /\ Prompt /\ Tracked
    BY DEF CapitalInv
  <2>2. IInv'
    BY <2>1, TypedNext, SequencedKept, ValueKept DEF IInv
  <2>3. Decided' /\ Prompt'
    BY <2>1, DecidedKept, PromptKept
  <2>4. Tracked'
    BY <2>1, HistoriesKept, TrackedApply, TrackedRecord, TrackedOtherwise
  <2> QED
    BY <2>2, <2>3, <2>4 DEF CapitalInv
<1> QED
  BY <1>1, <1>2, PTL DEF Spec

\* Whatever amounts, interest and failures, and whatever the submits in between: when the
\* row was updated once for each operation in their order, and each withdrawal prorated
\* by what it found, the row has the capital but for one unit per withdrawal, and never
\* more.  (compute_updated_principal and the update of blend_principal)
THEOREM BlendCapitalTracked == Spec => []CapitalTracked
<1>1. CapitalInv => CapitalTracked
  <2> SUFFICES ASSUME CapitalInv, recorded = applied, ~ misread
               PROVE  capital - principal \in 0..Cardinality(Withdrawals(recorded))
    BY DEF CapitalTracked
  <2>1. PICK capitals \in [0..Len(applied) -> Nat], values \in [1..Len(applied) -> Nat] :
          Accounted(capitals, values)
    BY DEF CapitalInv, Tracked
  <2>2. Follows
    BY HistoryTyped DEF Follows, CapitalInv
  <2> QED
    BY <2>1, <2>2 DEF Accounted, Account, InStep
<1> QED
  BY <1>1, CapitalInvHolds, PTL

=============================================================================
