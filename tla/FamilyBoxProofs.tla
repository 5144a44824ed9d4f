--------------------------- MODULE FamilyBoxProofs ---------------------------
(***************************************************************************)
(* Why a family box stays editable.  The rules on a set-signer operation    *)
(* are checked by a request some time before the ledger applies it, and     *)
(* other operations may be applied in between.  They still hold then,       *)
(* because whatever is applied uses up a sequence number: a transaction     *)
(* that is still the next one was checked against the signers of now.       *)
(***************************************************************************)
EXTENDS FamilyBox, TLAPS

\* No transaction is numbered beyond the next one.
Sequenced ==
  /\ \A e \in Envelopes : envelope[e] # Free => envelope[e].sequence <= sequence + 1
  /\ \A r \in Requests : request[r].at \in {"validate", "send"} =>
       request[r].tx.sequence <= sequence + 1

\* An operation that can still be applied was approved under the present signers.
StillApproved ==
  \A r \in Requests :
    request[r].at = "send" /\ request[r].tx.op = "signer"
      /\ request[r].tx.sequence = sequence + 1
    => Approved(request[r].tx.wallet, request[r].tx.weight)

IInv == TypeOK /\ Sequenced /\ StillApproved

----------------------------------------------------------------------------
(* The shapes of what requests hold *)

\* What a request holds, by the step it is at.
LEMMA Shapes ==
  ASSUME TypeOK, NEW r \in Requests
  PROVE  /\ request[r].at = "build" => request[r] \in Building
         /\ request[r].at \in {"validate", "reread"} => request[r] \in Configuring
         /\ request[r].at = "send" => request[r] \in Configuring \cup Paying
         /\ request[r].at = "send" /\ request[r].tx.op = "signer" => request[r] \in Configuring
         /\ request[r].at = "send" /\ request[r].tx.op = "pay" => request[r] \in Paying
         /\ request[r].at \in {"saveConfig", "saveMembers"} => request[r] \in Saving
<1>1. request[r] \in Handlers
  BY DEF TypeOK
<1>2. CASE request[r] = Idle
  BY <1>2 DEF Idle
<1>3. CASE request[r] \in Building
  BY <1>3 DEF Building
<1>4. CASE request[r] \in Configuring
  <2>1. request[r].tx \in SignerTx /\ request[r].at \in {"validate", "send", "reread"}
    BY <1>4 DEF Configuring
  <2>2. request[r].tx.op = "signer"
    BY <2>1 DEF SignerTx
  <2> QED
    BY <1>4, <2>1, <2>2
<1>5. CASE request[r] \in Paying
  <2>1. request[r].tx \in PayTx /\ request[r].at = "send"
    BY <1>5 DEF Paying
  <2>2. request[r].tx.op = "pay"
    BY <2>1 DEF PayTx
  <2> QED
    BY <1>5, <2>1, <2>2
<1>6. CASE request[r] \in Saving
  BY <1>6 DEF Saving
<1> QED
  BY <1>1, <1>2, <1>3, <1>4, <1>5, <1>6 DEF Handlers

LEMMA InitTyped == Init => TypeOK
<1> SUFFICES ASSUME Init PROVE TypeOK
  OBVIOUS
<1>1. row \in Rows
  <2>1. row.roles \in [Wallets -> Roles \cup {"none"}]
    BY DEF Init, Roles, Withdrawing
  <2> QED
    BY <2>1, BoxAssumption DEF Init, Rows
<1>2. faults \in 0..MaxFaults
  BY BoxAssumption DEF Init
<1> QED
  BY <1>1, <1>2, BoxAssumption DEF Init, TypeOK, Handlers

----------------------------------------------------------------------------
(* Type correctness, action by action *)

\* A step that only moves one request on keeps the requests' type.
LEMMA GoesTyped ==
  ASSUME TypeOK, NEW r \in Requests, NEW handler \in Handlers, Goes(r, handler)
  PROVE  /\ request' \in [Requests -> Handlers]
         /\ request'[r] = handler
         /\ \A q \in Requests \ {r} : request'[q] = request[q]
BY DEF TypeOK, Goes

\* What Build puts into a browser is a transaction.
LEMMA UnsignedTyped ==
  ASSUME TypeOK, NEW operation \in Operations
  PROVE  /\ Unsigned(operation) \in SignerTx \cup PayTx
         /\ Unsigned(operation).sequence = sequence + 1
<1>1. sequence + 1 \in Nat
  BY DEF TypeOK
<1>2. CASE operation \in [op : {"signer"}, wallet : Wallets, weight : Weights]
  <2>1. /\ operation.op = "signer" /\ operation.wallet \in Wallets
        /\ operation.weight \in Weights
    BY <1>2
  <2> QED
    BY <1>1, <2>1 DEF Unsigned, SignerTx
<1>3. CASE operation \in [op : {"pay"}, amount : Amounts]
  <2>1. operation.op = "pay" /\ operation.amount \in Amounts
    BY <1>3
  <2> QED
    BY <1>1, <2>1 DEF Unsigned, PayTx
<1> QED
  BY <1>2, <1>3 DEF Operations

\* The fields that a submit saves are fields of a row.
LEMMA ResyncedTyped ==
  ASSUME TypeOK, NEW before \in Rows, NEW tx \in SignerTx, NEW role \in Withdrawing
  PROVE  Resynced(before, tx, role) \in Rows
<1>1. before.roles \in [Wallets -> Roles \cup {"none"}] /\ before.depositors \subseteq Wallets
  BY DEF Rows
<1>2. role \in Roles
  BY DEF Roles
<1> DEFINE roles == [w \in Wallets |-> IF tx.weight = 0 /\ w = tx.wallet THEN "none"
                                       ELSE IF tx.weight > 0 /\ w \in NewSigners(before) THEN role
                                       ELSE before.roles[w]]
           depositors == (before.depositors \ SignersIn(signers))
                           \ (IF tx.weight = 0 THEN {tx.wallet} ELSE {})
<1>3. roles \in [Wallets -> Roles \cup {"none"}]
  BY <1>1, <1>2
<1>4. depositors \subseteq Wallets
  BY <1>1
<1>5. signers \in [Wallets -> Weights]
  BY DEF TypeOK
<1>6. Resynced(before, tx, role)
        = [signers |-> signers, roles |-> roles, depositors |-> depositors]
  BY DEF Resynced
<1> HIDE DEF roles, depositors
<1> QED
  BY <1>3, <1>4, <1>5, <1>6 DEF Rows

\* The edits of the app, and what saving them writes, are rows.
LEMMA MembersTyped ==
  ASSUME TypeOK, NEW w \in Wallets, NEW saved \in Rows,
         NEW role \in Roles \cup {"none"}, NEW depositors \in SUBSET Wallets
  PROVE  /\ [row EXCEPT !.roles = WithRole(w, role), !.depositors = depositors] \in Rows
         /\ SavedMembers(saved) \in Rows
<1>1. /\ row.roles \in [Wallets -> Roles \cup {"none"}]
      /\ row \in Rows
  BY DEF TypeOK, Rows
<1>2. WithRole(w, role) \in [Wallets -> Roles \cup {"none"}]
  BY <1>1 DEF WithRole
<1> QED
  BY <1>1, <1>2 DEF Rows, SavedMembers

\* No step of a request, of the ledger or of a browser leaves the types.
LEMMA TypedNext == TypeOK /\ [Next]_vars => TypeOK'
<1> SUFFICES ASSUME TypeOK, [Next]_vars PROVE TypeOK'
  OBVIOUS
<1>h. doubted' \in BOOLEAN /\ weakened' \in BOOLEAN
  BY DEF TypeOK, Next, Remembered, vars, history
<1> USE <1>h
<1>0. Idle \in Handlers
  BY DEF Handlers
<1>1. ASSUME NEW r \in Requests, NEW ask \in Asked, AskSigner(r, ask[1], ask[2])
      PROVE  TypeOK'
  <2> DEFINE operation == [op |-> "signer", wallet |-> ask[1], weight |-> ask[2]]
  <2>1. ask[1] \in Wallets /\ ask[2] \in Weights
    BY BoxAssumption
  <2>2. operation \in Operations
    BY <2>1 DEF Operations
  <2>3. [at |-> "build", operation |-> operation] \in Handlers
    BY <2>2 DEF Handlers, Building
  <2>4. Goes(r, [at |-> "build", operation |-> operation])
    BY <1>1 DEF AskSigner
  <2>5. request' \in [Requests -> Handlers]
    BY <2>3, <2>4, GoesTyped
  <2> QED
    BY <1>1, <2>5 DEF AskSigner, TypeOK, account, fields
<1>2. ASSUME NEW r \in Requests, NEW w \in Wallets, NEW amount \in Amounts,
             AskWithdrawal(r, w, amount)
      PROVE  TypeOK'
  <2> DEFINE operation == [op |-> "pay", amount |-> amount]
  <2>1. [at |-> "build", operation |-> operation] \in Handlers
    BY DEF Operations, Handlers, Building
  <2>2. Goes(r, [at |-> "build", operation |-> operation])
    BY <1>2 DEF AskWithdrawal
  <2>3. request' \in [Requests -> Handlers]
    BY <2>1, <2>2, GoesTyped
  <2> QED
    BY <1>2, <2>3 DEF AskWithdrawal, TypeOK, account, fields
<1>3. ASSUME NEW r \in Requests, NEW e \in Envelopes, Build(r, e) PROVE TypeOK'
  <2>1. request[r] \in Building
    BY <1>3, Shapes DEF Build
  <2>2. request[r].operation \in Operations
    BY <2>1 DEF Building
  <2>3. envelope' \in [Envelopes -> {Free} \cup SignerTx \cup PayTx]
    BY <1>3, <2>2, UnsignedTyped DEF Build, TypeOK
  <2>4. request' \in [Requests -> Handlers]
    BY <1>0, <1>3, GoesTyped DEF Build
  <2> QED
    BY <1>3, <2>3, <2>4 DEF Build, TypeOK, account, fields
<1>4. ASSUME NEW r \in Requests, Goes(r, Idle), UNCHANGED <<account, fields, envelope>>,
             faults' \in 0..MaxFaults
      PROVE  TypeOK'
  <2>1. request' \in [Requests -> Handlers]
    BY <1>0, <1>4, GoesTyped
  <2> QED
    BY <1>4, <2>1 DEF TypeOK, account, fields
<1>5. ASSUME NEW r \in Requests, NEW e \in Envelopes, NEW role \in BodyRoles,
             SubmitSigner(r, e, role)
      PROVE  TypeOK'
  <2> DEFINE handler == [at |-> "validate", tx |-> envelope[e], row |-> row,
                         role |-> GivenRole(role)]
  <2>1. envelope[e] \in SignerTx
    BY <1>5 DEF SubmitSigner, TypeOK, Free, PayTx
  <2>2. GivenRole(role) \in Withdrawing
    BY DEF GivenRole, Withdrawing
  <2>3. handler \in Configuring
    BY <2>1, <2>2 DEF Configuring, TypeOK
  <2>4. Goes(r, handler) /\ handler \in Handlers
    BY <1>5, <2>3 DEF SubmitSigner, Handlers
  <2>5. request' \in [Requests -> Handlers]
    BY <2>4, GoesTyped
  <2> QED
    BY <1>5, <2>5 DEF SubmitSigner, TypeOK, account, fields
<1>6. ASSUME NEW r \in Requests, Validate(r) PROVE TypeOK'
  <2>1. request[r] \in Configuring
    BY <1>6, Shapes DEF Validate
  <2>2. [request[r] EXCEPT !.at = "send"] \in Handlers
    BY <2>1 DEF Configuring, Handlers
  <2>3. request' \in [Requests -> Handlers]
    BY <1>0, <1>6, <2>2, GoesTyped DEF Validate
  <2> QED
    BY <1>6, <2>3 DEF Validate, TypeOK, account, fields
<1>7. ASSUME NEW r \in Requests, NEW e \in Envelopes, NEW w \in Wallets,
             SubmitWithdrawal(r, e, w)
      PROVE  TypeOK'
  <2> DEFINE handler == [at |-> "send", tx |-> envelope[e], limit |-> limit]
  <2>1. envelope[e] \in PayTx
    BY <1>7 DEF SubmitWithdrawal, TypeOK, Free, SignerTx
  <2>2. Goes(r, handler) /\ handler \in Handlers
    BY <1>7, <2>1 DEF SubmitWithdrawal, Handlers, Paying, TypeOK
  <2>3. request' \in [Requests -> Handlers]
    BY <2>2, GoesTyped
  <2> QED
    BY <1>7, <2>3 DEF SubmitWithdrawal, TypeOK, account, fields
<1>8. ASSUME NEW r \in Requests, request[r].at = "send"
      PROVE  /\ request[r].tx.sequence \in Nat
             /\ Applied(request[r].tx) => signers' \in [Wallets -> Weights] /\ sequence' \in Nat
             /\ request[r].tx.op # "pay" => [request[r] EXCEPT !.at = "reread"] \in Handlers
  <2>1. CASE request[r] \in Configuring
    <3>1. request[r].tx \in SignerTx
      BY <2>1 DEF Configuring
    <3>2. /\ request[r].tx.sequence \in Nat /\ request[r].tx.wallet \in Wallets
          /\ request[r].tx.weight \in Weights
      BY <3>1 DEF SignerTx
    <3>3. [request[r] EXCEPT !.at = "reread"] \in Handlers
      BY <2>1 DEF Configuring, Handlers
    <3> QED
      BY <3>2, <3>3 DEF Applied, TypeOK
  <2>2. CASE request[r] \in Paying
    <3>1. request[r].tx \in PayTx
      BY <2>2 DEF Paying
    <3>2. request[r].tx.sequence \in Nat /\ request[r].tx.op = "pay"
      BY <3>1 DEF PayTx
    <3> QED
      BY <3>2 DEF Applied, TypeOK
  <2> QED
    BY <1>8, <2>1, <2>2, Shapes
<1>9. ASSUME NEW r \in Requests, Send(r) \/ SendUnanswered(r) PROVE TypeOK'
  <2>1. signers' \in [Wallets -> Weights] /\ sequence' \in Nat
    BY <1>8, <1>9 DEF Send, SendUnanswered
  <2>2. request' \in [Requests -> Handlers]
    BY <1>0, <1>8, <1>9, GoesTyped DEF Send, SendUnanswered
  <2>3. faults' \in 0..MaxFaults
    BY <1>9, BoxAssumption DEF Send, SendUnanswered, Fault, TypeOK
  <2> QED
    BY <1>9, <2>1, <2>2, <2>3 DEF Send, SendUnanswered, TypeOK, fields
<1>10. ASSUME NEW r \in Requests, SendFailed(r) PROVE TypeOK'
  <2>1. sequence' \in Nat
    BY <1>8, <1>10 DEF SendFailed
  <2>2. request' \in [Requests -> Handlers]
    BY <1>0, <1>10, GoesTyped DEF SendFailed
  <2> QED
    BY <1>10, <2>1, <2>2 DEF SendFailed, TypeOK, fields
<1>11. ASSUME NEW r \in Requests, Reread(r) PROVE TypeOK'
  <2> DEFINE saved == Resynced(request[r].row, request[r].tx, request[r].role)
             handler == [at |-> "saveConfig", wallet |-> request[r].tx.wallet, row |-> saved]
  <2>1. request[r] \in Configuring
    BY <1>11, Shapes DEF Reread
  <2>2. /\ request[r].tx \in SignerTx /\ request[r].row \in Rows
        /\ request[r].role \in Withdrawing
    BY <2>1 DEF Configuring
  <2>3. saved \in Rows
    BY <2>2, ResyncedTyped
  <2>4. request[r].tx.wallet \in Wallets
    BY <2>2 DEF SignerTx
  <2>5. Goes(r, handler)
    BY <1>11 DEF Reread
  <2> HIDE DEF saved
  <2>6. handler \in Handlers
    BY <2>3, <2>4 DEF Handlers, Saving
  <2>7. request' \in [Requests -> Handlers]
    BY <2>5, <2>6, GoesTyped
  <2> QED
    BY <1>11, <2>7 DEF Reread, TypeOK, account, fields
<1>12. ASSUME NEW r \in Requests, SaveConfig(r) \/ SaveMembers(r) PROVE TypeOK'
  <2>1. request[r] \in Saving
    BY <1>12, Shapes DEF SaveConfig, SaveMembers
  <2>2. request[r].row \in Rows
    BY <2>1 DEF Saving
  <2>3. row' \in Rows
    BY <1>12, <2>2, MembersTyped, BoxAssumption
    DEF SaveConfig, SaveMembers, SavedConfig, Roles, Withdrawing
  <2>4. request' \in [Requests -> Handlers]
    BY <1>0, <1>12, GoesTyped DEF SaveConfig, SaveMembers
  <2> QED
    BY <1>12, <2>3, <2>4 DEF SaveConfig, SaveMembers, TypeOK, account
<1>13. ASSUME NEW r \in Requests, NEW w \in Edited,
              \/ AddDepositor(r, w) \/ MemberRemove(r, w)
              \/ \E role \in AskedRoles : MemberRole(r, w, role)
       PROVE  TypeOK'
  <2>1. w \in Wallets /\ AskedRoles \subseteq Roles
    BY BoxAssumption
  <2>2. row.depositors \subseteq Wallets
    BY DEF TypeOK, Rows
  <2>3. \E role \in Roles \cup {"none"}, depositors \in SUBSET Wallets :
          Saves(r, w, WithRole(w, role), depositors)
    <3>1. CASE AddDepositor(r, w)
      <4>1. "deposit" \in Roles /\ row.depositors \cup {w} \in SUBSET Wallets
        BY <2>1, <2>2 DEF Roles
      <4>2. Saves(r, w, WithRole(w, "deposit"), row.depositors \cup {w})
        BY <3>1 DEF AddDepositor
      <4> QED
        BY <4>1, <4>2
    <3>2. CASE MemberRemove(r, w)
      <4>1. Saves(r, w, WithRole(w, "none"), row.depositors \ {w})
        BY <3>2 DEF MemberRemove, RemovedFromRoles
      <4>2. row.depositors \ {w} \in SUBSET Wallets
        BY <2>2
      <4> QED
        BY <4>1, <4>2
    <3>3. ASSUME NEW role \in AskedRoles, MemberRole(r, w, role)
          PROVE  \E given \in Roles \cup {"none"}, depositors \in SUBSET Wallets :
                   Saves(r, w, WithRole(w, given), depositors)
      <4> DEFINE depositors == IF role = "deposit" /\ row.signers[w] = 0
                               THEN row.depositors \cup {w} ELSE row.depositors
      <4>1. Saves(r, w, WithRole(w, role), depositors)
        BY <3>3 DEF MemberRole
      <4>2. depositors \in SUBSET Wallets
        BY <2>1, <2>2
      <4>3. role \in Roles \cup {"none"}
        BY <2>1
      <4> HIDE DEF depositors
      <4> QED
        BY <4>1, <4>2, <4>3
    <3> QED
      BY <1>13, <3>1, <3>2, <3>3
  <2>4. PICK role \in Roles \cup {"none"}, depositors \in SUBSET Wallets :
          Saves(r, w, WithRole(w, role), depositors)
    BY <2>3
  <2> DEFINE edited == [row EXCEPT !.roles = WithRole(w, role), !.depositors = depositors]
             handler == [at |-> "saveMembers", wallet |-> w, row |-> edited]
  <2>5. edited \in Rows
    BY <2>1, MembersTyped DEF TypeOK
  <2>6. Goes(r, handler)
    BY <2>4 DEF Saves
  <2> HIDE DEF edited
  <2>7. handler \in Handlers
    BY <2>1, <2>5 DEF Handlers, Saving
  <2>8. request' \in [Requests -> Handlers]
    BY <2>6, <2>7, GoesTyped
  <2> QED
    BY <1>13, <2>8 DEF AddDepositor, MemberRemove, MemberRole, TypeOK, account, fields
<1>14. ASSUME NEW e \in Envelopes, NEW w \in Wallets, Sign(e, w) PROVE TypeOK'
  <2>1. envelope[e] \in SignerTx \cup PayTx
    BY <1>14 DEF Sign, TypeOK
  <2>2. [envelope[e] EXCEPT !.by = envelope[e].by \cup {w}] \in SignerTx \cup PayTx
    BY <2>1 DEF SignerTx, PayTx
  <2>3. envelope' \in [Envelopes -> {Free} \cup SignerTx \cup PayTx]
    BY <1>14, <2>2 DEF Sign, TypeOK
  <2> QED
    BY <1>14, <2>3 DEF Sign, TypeOK, account, fields
<1>15. ASSUME NEW e \in Envelopes, Discard(e) PROVE TypeOK'
  BY <1>15 DEF Discard, TypeOK, account, fields
<1>16. ASSUME NEW value \in Limits, SetLimit(value) PROVE TypeOK'
  BY <1>16 DEF SetLimit, TypeOK, account
<1>17. ASSUME NEW r \in Requests, BuildFails(r) \/ SendRefused(r) PROVE TypeOK'
  BY <1>4, <1>17 DEF BuildFails, SendRefused, TypeOK
<1>18. ASSUME NEW r \in Requests, RereadUnanswered(r) \/ Abandon(r) PROVE TypeOK'
  <2>1. faults' \in 0..MaxFaults
    BY <1>18, BoxAssumption DEF RereadUnanswered, Abandon, Fault, TypeOK
  <2> QED
    BY <1>4, <1>18, <2>1 DEF RereadUnanswered, Abandon
<1>19. CASE UNCHANGED vars
  BY <1>19 DEF vars, TypeOK
<1> QED
  BY <1>1, <1>2, <1>3, <1>5, <1>6, <1>7, <1>9, <1>10, <1>11, <1>12, <1>13, <1>14, <1>15,
     <1>16, <1>17, <1>18, <1>19
  DEF Next, Step, Begin, Continue

----------------------------------------------------------------------------
(* The sequence-number argument *)

\* A request that holds a transaction after a step held it before, or takes it from
\* a browser to check it; only Validate brings a signer operation to "send".
Kept(q) == request'[q] = request[q]
NotSending(q) == request'[q].at \notin {"validate", "send"}
FromBrowser(q) ==
  /\ \/ request'[q].at = "validate"
     \/ /\ request'[q].at = "send" /\ request'[q].tx.op = "pay"
        /\ request'[q].tx.amount <= limit /\ request'[q].limit = limit
  /\ \E e \in Envelopes : envelope[e] # Free /\ request'[q].tx = envelope[e]
Checked(q) ==
  /\ request[q].at = "validate" /\ request'[q].tx = request[q].tx
  /\ Approved(request[q].tx.wallet, request[q].tx.weight)

LEMMA HandlersMove ==
  ASSUME TypeOK, Next
  PROVE  \A q \in Requests : Kept(q) \/ NotSending(q) \/ FromBrowser(q)
                             \/ (UNCHANGED account /\ Checked(q))
<1>1. ASSUME NEW r \in Requests, NEW handler, Goes(r, handler),
             handler.at \notin {"validate", "send"}
      PROVE  \A q \in Requests : Kept(q) \/ NotSending(q)
  BY <1>1 DEF Goes, Kept, NotSending, TypeOK
<1>2. ASSUME NEW r \in Requests, Goes(r, Idle)
      PROVE  \A q \in Requests : Kept(q) \/ NotSending(q)
  BY <1>1, <1>2 DEF Idle
<1>3. ASSUME NEW r \in Requests, NEW e \in Envelopes, NEW role \in BodyRoles,
             SubmitSigner(r, e, role)
      PROVE  \A q \in Requests : Kept(q) \/ FromBrowser(q)
  BY <1>3 DEF SubmitSigner, Goes, Kept, FromBrowser, TypeOK, Free
<1>4. ASSUME NEW r \in Requests, NEW e \in Envelopes, NEW w \in Wallets,
             SubmitWithdrawal(r, e, w)
      PROVE  \A q \in Requests : Kept(q) \/ FromBrowser(q)
  BY <1>4 DEF SubmitWithdrawal, WithinLimit, Goes, Kept, FromBrowser, TypeOK, Free
<1>5. ASSUME NEW r \in Requests, Validate(r)
      PROVE  \A q \in Requests : Kept(q) \/ NotSending(q) \/ (UNCHANGED account /\ Checked(q))
  <2>1. CASE Revalidated(request[r].tx)
    <3>1. request[r] \in Configuring
      BY <1>5, Shapes DEF Validate
    <3>2. [request[r] EXCEPT !.at = "send"].tx = request[r].tx
      BY <3>1 DEF Configuring
    <3>3. request'[r] = [request[r] EXCEPT !.at = "send"]
      BY <1>5, <2>1 DEF Validate, Goes, TypeOK
    <3>4. \A q \in Requests \ {r} : Kept(q)
      BY <1>5 DEF Validate, Goes, Kept, TypeOK
    <3>5. Checked(r)
      BY <1>5, <2>1, <3>2, <3>3 DEF Validate, Checked, Revalidated
    <3> QED
      BY <1>5, <3>4, <3>5 DEF Validate
  <2>2. CASE ~ Revalidated(request[r].tx)
    BY <1>2, <1>5, <2>2 DEF Validate
  <2> QED
    BY <2>1, <2>2
<1>6. ASSUME NEW r \in Requests, Send(r) PROVE \A q \in Requests : Kept(q) \/ NotSending(q)
  <2>1. CASE request[r].tx.op = "pay"
    BY <1>2, <1>6, <2>1 DEF Send
  <2>2. CASE request[r].tx.op # "pay"
    <3>1. request[r] \in Configuring \cup Paying
      BY <1>6, Shapes DEF Send
    <3>2. [request[r] EXCEPT !.at = "reread"].at = "reread"
      BY <3>1 DEF Configuring, Paying
    <3> QED
      BY <1>1, <1>6, <2>2, <3>2 DEF Send
  <2> QED
    BY <2>1, <2>2
<1>7. ASSUME NEW r \in Requests, NEW w \in Wallets, NEW roles, NEW depositors,
             Saves(r, w, roles, depositors)
      PROVE  \A q \in Requests : Kept(q) \/ NotSending(q)
  BY <1>1, <1>7 DEF Saves
<1>8. ASSUME NEW r \in Requests,
             \/ \E ask \in Asked : AskSigner(r, ask[1], ask[2])
             \/ \E w \in Wallets, amount \in Amounts : AskWithdrawal(r, w, amount)
      PROVE  \A q \in Requests : Kept(q) \/ NotSending(q)
  BY <1>1, <1>8 DEF AskSigner, AskWithdrawal
<1>9. ASSUME NEW r \in Requests, NEW w \in Edited,
             \/ AddDepositor(r, w) \/ MemberRemove(r, w)
             \/ \E role \in AskedRoles : MemberRole(r, w, role)
      PROVE  \A q \in Requests : Kept(q) \/ NotSending(q)
  BY <1>7, <1>9, BoxAssumption DEF AddDepositor, MemberRemove, MemberRole
<1>10. ASSUME NEW r \in Requests, Reread(r)
       PROVE  \A q \in Requests : Kept(q) \/ NotSending(q)
  BY <1>1, <1>10 DEF Reread
<1>11. ASSUME NEW r \in Requests,
              \/ \E e \in Envelopes : Build(r, e)
              \/ BuildFails(r) \/ SendRefused(r) \/ SendFailed(r) \/ SaveConfig(r)
              \/ SaveMembers(r) \/ SendUnanswered(r) \/ RereadUnanswered(r) \/ Abandon(r)
       PROVE  \A q \in Requests : Kept(q) \/ NotSending(q)
  BY <1>2, <1>11
  DEF Build, BuildFails, SendRefused, SendFailed, SaveConfig, SaveMembers, SendUnanswered,
      RereadUnanswered, Abandon
<1>12. ASSUME \/ \E e \in Envelopes : Discard(e) \/ \E w \in Wallets : Sign(e, w)
              \/ \E value \in Limits : SetLimit(value)
       PROVE  \A q \in Requests : Kept(q)
  BY <1>12 DEF Discard, Sign, SetLimit, Kept
<1> QED
  BY <1>3, <1>4, <1>5, <1>6, <1>8, <1>9, <1>10, <1>11, <1>12 DEF Next, Step, Begin, Continue

\* The account stays as it is, or a transaction with the next number uses it up.
Advanced ==
  \E r \in Requests :
    /\ request[r].at = "send" /\ request[r].tx.sequence = sequence + 1
    /\ sequence' = sequence + 1
    /\ \/ UNCHANGED signers
       \/ /\ request[r].tx.op = "signer"
          /\ signers' = [signers EXCEPT ![request[r].tx.wallet] = request[r].tx.weight]

LEMMA AccountMoves ==
  ASSUME TypeOK, Next
  PROVE  UNCHANGED account \/ (Advanced /\ UNCHANGED envelope)
<1>1. ASSUME NEW r \in Requests, request[r].at = "send"
      PROVE  request[r].tx.op \in {"signer", "pay"}
  <2>1. request[r].tx \in SignerTx \cup PayTx
    BY <1>1, Shapes DEF Configuring, Paying
  <2> QED
    BY <2>1 DEF SignerTx, PayTx
<1>2. ASSUME NEW r \in Requests, Send(r) \/ SendFailed(r) \/ SendUnanswered(r)
      PROVE  Advanced /\ UNCHANGED envelope
  BY <1>1, <1>2 DEF Send, SendFailed, SendUnanswered, Applied, Accepted, Advanced
<1>3. ASSUME NEW r \in Requests, Begin(r) PROVE UNCHANGED account
  BY <1>3 DEF Begin, AskSigner, AskWithdrawal, SubmitSigner, SubmitWithdrawal, AddDepositor,
              MemberRole, MemberRemove
<1>4. ASSUME NEW r \in Requests,
             \/ (\E e \in Envelopes : Build(r, e)) \/ BuildFails(r)
             \/ Validate(r) \/ SendRefused(r) \/ Reread(r) \/ SaveConfig(r) \/ SaveMembers(r)
             \/ RereadUnanswered(r) \/ Abandon(r)
      PROVE  UNCHANGED account
  BY <1>4 DEF Build, BuildFails, Validate, SendRefused, Reread, SaveConfig, SaveMembers,
              RereadUnanswered, Abandon
<1>5. ASSUME \/ \E e \in Envelopes : Discard(e) \/ \E w \in Wallets : Sign(e, w)
             \/ \E value \in Limits : SetLimit(value)
      PROVE  UNCHANGED account
  BY <1>5 DEF Discard, Sign, SetLimit
<1> QED
  BY <1>2, <1>3, <1>4, <1>5 DEF Next, Step, Continue

\* A browser's transaction keeps its number, or is new and has the next one.
LEMMA EnvelopesMove ==
  ASSUME TypeOK, Next
  PROVE  \A e \in Envelopes : envelope'[e] # Free =>
           \/ envelope'[e].sequence = sequence + 1
           \/ envelope[e] # Free /\ envelope'[e].sequence = envelope[e].sequence
<1> DEFINE Same == \A e \in Envelopes : envelope'[e] # Free =>
                     \/ envelope'[e].sequence = sequence + 1
                     \/ envelope[e] # Free /\ envelope'[e].sequence = envelope[e].sequence
<1>1. CASE UNCHANGED envelope
  BY <1>1
<1>2. ASSUME NEW r \in Requests, NEW e \in Envelopes, Build(r, e) PROVE Same
  <2>1. request[r] \in Building
    BY <1>2, Shapes DEF Build
  <2>2. request[r].operation \in Operations
    BY <2>1 DEF Building
  <2>3. envelope' = [envelope EXCEPT ![e] = Unsigned(request[r].operation)]
    BY <1>2 DEF Build
  <2>4. Unsigned(request[r].operation).sequence = sequence + 1
    BY <2>2, UnsignedTyped
  <2> QED
    BY <2>3, <2>4 DEF TypeOK
<1>3. ASSUME NEW e \in Envelopes, NEW w \in Wallets, Sign(e, w) PROVE Same
  <2>1. envelope[e] \in SignerTx \cup PayTx
    BY <1>3 DEF Sign, TypeOK
  <2>2. [envelope[e] EXCEPT !.by = envelope[e].by \cup {w}].sequence = envelope[e].sequence
    BY <2>1 DEF SignerTx, PayTx
  <2>3. envelope'[e] = [envelope[e] EXCEPT !.by = envelope[e].by \cup {w}]
    BY <1>3 DEF Sign, TypeOK
  <2>4. \A f \in Envelopes \ {e} : envelope'[f] = envelope[f]
    BY <1>3 DEF Sign, TypeOK
  <2> QED
    BY <1>3, <2>2, <2>3, <2>4 DEF Sign
<1>4. ASSUME NEW e \in Envelopes, Discard(e) PROVE Same
  BY <1>4 DEF Discard, TypeOK
<1>5. ASSUME NEW r \in Requests, Begin(r) PROVE UNCHANGED envelope
  BY <1>5 DEF Begin, AskSigner, AskWithdrawal, SubmitSigner, SubmitWithdrawal, AddDepositor,
              MemberRole, MemberRemove
<1>6. ASSUME NEW r \in Requests,
             \/ BuildFails(r) \/ Validate(r) \/ Send(r) \/ SendRefused(r) \/ SendFailed(r)
             \/ Reread(r) \/ SaveConfig(r) \/ SaveMembers(r)
             \/ SendUnanswered(r) \/ RereadUnanswered(r) \/ Abandon(r)
      PROVE  UNCHANGED envelope
  BY <1>6 DEF BuildFails, Validate, Send, SendRefused, SendFailed, Reread, SaveConfig,
              SaveMembers, SendUnanswered, RereadUnanswered, Abandon
<1>7. ASSUME NEW value \in Limits, SetLimit(value) PROVE UNCHANGED envelope
  BY <1>7 DEF SetLimit
<1> QED
  BY <1>1, <1>2, <1>3, <1>4, <1>5, <1>6, <1>7 DEF Next, Step, Continue

\* Numbers of transactions are naturals, wherever the transactions are.
LEMMA NumbersTyped ==
  ASSUME TypeOK
  PROVE  /\ \A e \in Envelopes : envelope[e] # Free => envelope[e].sequence \in Nat
         /\ \A r \in Requests : request[r].at \in {"validate", "send"} =>
              request[r].tx.sequence \in Nat
<1>1. \A e \in Envelopes : envelope[e] # Free => envelope[e] \in SignerTx \cup PayTx
  BY DEF TypeOK
<1>2. \A r \in Requests : request[r].at \in {"validate", "send"} =>
        request[r].tx \in SignerTx \cup PayTx
  BY Shapes DEF Configuring, Paying
<1> QED
  BY <1>1, <1>2 DEF SignerTx, PayTx

\* No step numbers a transaction beyond the next one.
LEMMA SequencedNext == TypeOK /\ Sequenced /\ [Next]_vars => Sequenced'
<1> SUFFICES ASSUME TypeOK, Sequenced, [Next]_vars PROVE Sequenced'
  OBVIOUS
<1>1. CASE UNCHANGED vars
  BY <1>1 DEF vars, Sequenced
<1>2. CASE Next
  <2>1. sequence \in Nat /\ sequence' \in {sequence, sequence + 1}
    BY <1>2, AccountMoves DEF account, Advanced, TypeOK
  <2>2. ASSUME NEW e \in Envelopes, envelope'[e] # Free
        PROVE  envelope'[e].sequence <= sequence' + 1
    <3>1. CASE envelope'[e].sequence = sequence + 1
      BY <2>1, <3>1
    <3>2. CASE envelope[e] # Free /\ envelope'[e].sequence = envelope[e].sequence
      BY <2>1, <3>2, NumbersTyped DEF Sequenced
    <3> QED
      BY <1>2, <2>2, <3>1, <3>2, EnvelopesMove
  <2>3. ASSUME NEW q \in Requests, request'[q].at \in {"validate", "send"}
        PROVE  request'[q].tx.sequence <= sequence' + 1
    <3>1. CASE Kept(q)
      BY <2>1, <2>3, <3>1, NumbersTyped DEF Kept, Sequenced
    <3>2. CASE FromBrowser(q)
      BY <2>1, <3>2, NumbersTyped DEF FromBrowser, Sequenced
    <3>3. CASE Checked(q)
      BY <2>1, <3>3, NumbersTyped DEF Checked, Sequenced
    <3> QED
      BY <1>2, <2>3, <3>1, <3>2, <3>3, HandlersMove DEF NotSending
  <2> QED
    BY <2>2, <2>3 DEF Sequenced
<1> QED
  BY <1>1, <1>2

\* The number that was used up takes every other approval with it.
LEMMA StillApprovedNext == IInv /\ [Next]_vars => StillApproved'
<1> SUFFICES ASSUME IInv, [Next]_vars PROVE StillApproved'
  OBVIOUS
<1> USE DEF IInv
<1>0. ASSUME NEW w, NEW weight, UNCHANGED signers, Approved(w, weight)
      PROVE  Approved(w, weight)'
  BY <1>0 DEF Approved, StillEditable, SignersIn
<1>1. CASE UNCHANGED vars
  BY <1>0, <1>1 DEF vars, StillApproved
<1>2. CASE Next
  <2> SUFFICES ASSUME NEW q \in Requests, NEW w, NEW weight,
                      request'[q].at = "send", request'[q].tx.op = "signer",
                      request'[q].tx.sequence = sequence' + 1,
                      w = request'[q].tx.wallet, weight = request'[q].tx.weight
               PROVE  Approved(w, weight)'
    BY DEF StillApproved
  <2>1. sequence \in Nat
    BY DEF TypeOK
  <2>2. ~ NotSending(q) /\ ~ FromBrowser(q)
    BY DEF NotSending, FromBrowser
  <2>3. CASE Kept(q)
    <3>1. request[q].tx.sequence <= sequence + 1 /\ request[q].tx.sequence \in Nat
      BY <2>3, NumbersTyped DEF Kept, Sequenced
    <3>2. UNCHANGED account
      BY <1>2, <2>1, <2>3, <3>1, AccountMoves DEF Advanced, Kept
    <3> QED
      BY <1>0, <2>3, <3>2 DEF Kept, StillApproved, account
  <2>4. CASE UNCHANGED account /\ Checked(q)
    BY <1>0, <2>4 DEF Checked, account
  <2> QED
    BY <1>2, <2>2, <2>3, <2>4, HandlersMove
<1> QED
  BY <1>1, <1>2

----------------------------------------------------------------------------
(* Theorems *)

\* The invariant that carries the proofs.
LEMMA BoxInvariant == Spec => []IInv
<1>1. Init => IInv
  <2> SUFFICES ASSUME Init PROVE IInv
    OBVIOUS
  <2>1. \A e \in Envelopes : envelope[e] = Free
    BY DEF Init
  <2>2. \A r \in Requests : request[r].at = "idle"
    BY DEF Init, Idle
  <2> QED
    BY <2>1, <2>2, InitTyped DEF IInv, Sequenced, StillApproved
<1>2. IInv /\ [Next]_vars => IInv'
  BY TypedNext, SequencedNext, StillApprovedNext DEF IInv
<1> QED
  BY <1>1, <1>2, PTL DEF Spec

\* Whatever signs, submits, fails or overlaps: the ledger's signers, the row, the
\* browsers' envelopes and the requests are of the shapes the handlers expect.
THEOREM BoxTypeCorrect == Spec => []TypeOK
<1>1. IInv => TypeOK
  BY DEF IInv
<1> QED
  BY <1>1, BoxInvariant, PTL

\* A box created the way the page creates it stays editable by its creator alone:
\* no interleaving of builds, checks and submits of set-signer operations takes the
\* creator's weight below the high threshold.
THEOREM CreatorKeepsBox ==
  ASSUME InitialSigners[Creator] >= High
  PROVE  Spec => []CreatorCanEdit
<1>1. Init => CreatorCanEdit
  BY DEF Init, CreatorCanEdit
<1>2. CreatorCanEdit /\ IInv /\ [Next]_vars => CreatorCanEdit'
  <2> SUFFICES ASSUME CreatorCanEdit, IInv, [Next]_vars, signers' # signers
               PROVE  CreatorCanEdit'
    BY DEF CreatorCanEdit
  <2>1. TypeOK /\ StillApproved /\ Next
    BY DEF IInv, vars
  <2>2. PICK r \in Requests :
          /\ request[r].at = "send" /\ request[r].tx.sequence = sequence + 1
          /\ request[r].tx.op = "signer"
          /\ signers' = [signers EXCEPT ![request[r].tx.wallet] = request[r].tx.weight]
    BY <2>1, AccountMoves DEF account, Advanced
  <2>3. Approved(request[r].tx.wallet, request[r].tx.weight)
    BY <2>1, <2>2 DEF StillApproved
  <2>4. request[r].tx.wallet = Creator => request[r].tx.weight >= High
    BY <2>3 DEF Approved
  <2> QED
    BY <2>1, <2>2, <2>4, BoxAssumption DEF CreatorCanEdit, TypeOK
<1> QED
  BY <1>1, <1>2, BoxInvariant, PTL DEF Spec

----------------------------------------------------------------------------
(* The withdrawal limit *)

\* A withdrawal on its way to the ledger is within the limit its submit read.
WithinRead ==
  \A q \in Requests :
    request[q].at = "send" /\ request[q].tx.op = "pay" => request[q].tx.amount <= request[q].limit

LEMMA WithinReadNext == TypeOK /\ WithinRead /\ [Next]_vars => WithinRead'
<1> SUFFICES ASSUME TypeOK, WithinRead, [Next]_vars, NEW q \in Requests,
                    request'[q].at = "send", request'[q].tx.op = "pay"
             PROVE  request'[q].tx.amount <= request'[q].limit
  BY DEF WithinRead
<1>1. CASE UNCHANGED vars
  BY <1>1 DEF vars, WithinRead
<1>2. CASE Next
  <2>1. CASE Kept(q)
    BY <2>1 DEF Kept, WithinRead
  <2>2. CASE FromBrowser(q)
    BY <2>2 DEF FromBrowser
  <2>3. ~ Checked(q)
    <3> SUFFICES ASSUME Checked(q) PROVE FALSE
      OBVIOUS
    <3>1. request[q] \in Configuring /\ request'[q].tx = request[q].tx
      BY Shapes DEF Checked
    <3> QED
      BY <3>1 DEF Configuring, SignerTx
  <2> QED
    BY <1>2, <2>1, <2>2, <2>3, HandlersMove DEF NotSending
<1> QED
  BY <1>1, <1>2

\* What a withdrawal submit sends is within the limit it compared the envelope with, so
\* a withdrawal over the stored limit is applied only when the creator lowered the
\* limit between that comparison and the answer of Horizon.
THEOREM LimitIsKept == Spec => LimitHolds
<1>1. Init => WithinRead
  BY DEF Init, Idle, WithinRead
<1>2. WithinRead /\ [Next]_vars =>
        [\A r \in Requests :
           request[r].at = "send" /\ request[r].tx.op = "pay" /\ request'[r] = Idle
             /\ sequence' # sequence
           => request[r].tx.amount <= limit \/ request[r].limit # limit]_vars
  BY DEF WithinRead
<1>3. TypeOK /\ WithinRead /\ [Next]_vars => WithinRead'
  BY WithinReadNext
<1> QED
  BY <1>1, <1>2, <1>3, BoxTypeCorrect, PTL DEF Spec, LimitHolds

----------------------------------------------------------------------------
(* A box whose creator is weak *)

\* A box always keeps a wallet that can edit it, whoever that is, whatever is asked for and
\* whatever requests overlap, unless the ledger once took a relative who reached the high
\* threshold below it without removing them: build_set_signer_tx and submit_set_signer
\* compare only removals and the creator with the threshold (stellar_client.py 634-659).
THEOREM SomeoneKeepsBox ==
  ASSUME \E w \in Wallets : InitialSigners[w] >= High
  PROVE  Spec => []SomeoneCanEdit
<1>1. Init => SomeoneCanEdit
  BY DEF Init, SomeoneCanEdit
<1>2. ASSUME SomeoneCanEdit, IInv, [Next]_vars PROVE SomeoneCanEdit'
  <2> SUFFICES ASSUME signers' # signers, ~ weakened' PROVE \E w \in Wallets : signers'[w] >= High
    BY <1>2 DEF SomeoneCanEdit, vars, history, Next, Remembered
  <2>1. TypeOK /\ StillApproved /\ Next
    BY <1>2 DEF IInv, vars
  <2>2. PICK r \in Requests :
          /\ request[r].at = "send" /\ request[r].tx.sequence = sequence + 1
          /\ request[r].tx.op = "signer"
          /\ signers' = [signers EXCEPT ![request[r].tx.wallet] = request[r].tx.weight]
    BY <2>1, AccountMoves DEF account, Advanced
  <2> DEFINE w == request[r].tx.wallet
             weight == request[r].tx.weight
  <2>3. Approved(w, weight)
    BY <2>1, <2>2 DEF StillApproved
  <2>4. w \in Wallets /\ weight \in Weights
    BY <2>1, <2>2, Shapes DEF Configuring, SignerTx
  <2>5. signers \in [Wallets -> Weights] /\ signers' = [signers EXCEPT ![w] = weight]
    BY <2>1, <2>2 DEF TypeOK
  <2> HIDE DEF w, weight
  <2>6. /\ ~ weakened
        /\ \A other \in Wallets \ {Creator} : signers[other] >= High => signers'[other] \notin 1..(High - 1)
    BY <2>1 DEF Next, Remembered, TypeOK
  <2>7. PICK strong \in Wallets : signers[strong] >= High
    BY <1>2, <2>6 DEF SomeoneCanEdit
  <2>8. CASE strong # w
    BY <2>5, <2>7, <2>8
  <2>9. CASE strong = w /\ weight = 0
    <3>1. PICK other \in SignersIn(signers) \ {w} : signers[other] >= High
      BY <2>3, <2>9 DEF Approved, StillEditable
    <3> QED
      BY <2>5, <3>1 DEF SignersIn
  <2>10. CASE strong = w /\ weight # 0
    <3>1. weight \in Nat /\ High \in Nat /\ signers'[w] = weight
      BY <2>4, <2>5, BoxAssumption DEF Weights, MaxWeight
    <3>2. w = Creator => weight >= High
      BY <2>3, <2>10 DEF Approved
    <3>3. w # Creator => weight >= High
      BY <2>4, <2>6, <2>7, <2>10, <3>1
    <3> QED
      BY <2>4, <3>1, <3>2, <3>3
  <2> QED
    BY <2>8, <2>9, <2>10
<1>3. SomeoneCanEdit /\ IInv /\ [Next]_vars => SomeoneCanEdit'
  BY <1>2
<1> QED
  BY <1>1, <1>3, BoxInvariant, PTL DEF Spec

----------------------------------------------------------------------------
(* The row and the ledger *)

\* A handler between its read of the row and its save of some fields.
Editing(h) ==
  \/ h.at \in {"validate", "reread", "saveConfig", "saveMembers"}
  \/ h.at = "send" /\ h.tx.op = "signer"

\* One edit of the row at a time, and no answer lost.  Withdrawals, builds and signatures
\* overlap with it as they like.
OneEdit == \A r, q \in Requests : Editing(request[r]) /\ Editing(request[q]) => r = q
Calm == OneEdit /\ faults = 0

\* Where nothing was missed, what is saved next, or else the row, has the ledger's signers.
Synced ==
  /\ \A r \in Requests : request[r].at = "saveConfig" => request[r].row.signers = signers
  /\ (\A r \in Requests : ~ Resyncing(request[r])) => row.signers = signers
FreshInv == ~ doubted => Synced

\* Where a step leaves the row and the ledger's signers.
LEMMA RowMoves ==
  ASSUME Next
  PROVE  \/ UNCHANGED row
         \/ \E r \in Requests : SaveConfig(r) \/ SaveMembers(r)
<1>1. ASSUME NEW r \in Requests, Begin(r) PROVE UNCHANGED row
  BY <1>1 DEF Begin, AskSigner, AskWithdrawal, SubmitSigner, SubmitWithdrawal, AddDepositor,
              MemberRole, MemberRemove, fields
<1>2. ASSUME NEW r \in Requests,
             \/ (\E e \in Envelopes : Build(r, e)) \/ BuildFails(r) \/ Validate(r) \/ Send(r)
             \/ SendRefused(r) \/ SendFailed(r) \/ Reread(r)
             \/ SendUnanswered(r) \/ RereadUnanswered(r) \/ Abandon(r)
      PROVE  UNCHANGED row
  BY <1>2 DEF Build, BuildFails, Validate, Send, SendRefused, SendFailed, Reread, SendUnanswered,
              RereadUnanswered, Abandon, fields
<1>3. ASSUME \/ \E e \in Envelopes : Discard(e) \/ \E w \in Wallets : Sign(e, w)
             \/ \E value \in Limits : SetLimit(value)
      PROVE  UNCHANGED row
  BY <1>3 DEF Discard, Sign, SetLimit, fields
<1> QED
  BY <1>1, <1>2, <1>3 DEF Next, Step, Continue

\* A step of handler r, by what it leaves in the row and the ledger's signers: it goes to a
\* step that neither sends nor saves, or it is one of those that do.
Quiet(r) ==
  /\ UNCHANGED <<row, signers, faults>> /\ ~ Resyncing(request[r])
  /\ \/ Goes(r, Idle)
     \/ \E operation \in Operations : Goes(r, [at |-> "build", operation |-> operation])
     \/ \E tx \in PayTx : Goes(r, [at |-> "send", tx |-> tx, limit |-> limit])

LEMMA StepsOfBox ==
  ASSUME TypeOK, Next
  PROVE  \/ UNCHANGED <<row, signers, faults, request>>
         \/ faults' = faults + 1 /\ row' = row /\ \E r \in Requests : Goes(r, Idle)
         \/ \E r \in Requests :
              \/ Quiet(r) \/ Validate(r) \/ Reread(r) \/ SaveConfig(r) \/ SaveMembers(r)
              \/ Send(r) /\ request[r].tx.op = "signer"
              \/ \E e \in Envelopes, role \in BodyRoles : SubmitSigner(r, e, role)
              \/ \E w \in Edited : \/ AddDepositor(r, w) \/ MemberRemove(r, w)
                                   \/ \E role \in AskedRoles : MemberRole(r, w, role)
<1>1. ASSUME NEW r \in Requests, NEW ask \in Asked, AskSigner(r, ask[1], ask[2]) PROVE Quiet(r)
  <2>1. [op |-> "signer", wallet |-> ask[1], weight |-> ask[2]] \in Operations
    BY BoxAssumption DEF Operations
  <2> QED
    BY <1>1, <2>1 DEF AskSigner, Quiet, Resyncing, Idle, account, fields
<1>2. ASSUME NEW r \in Requests, NEW w \in Wallets, NEW amount \in Amounts, AskWithdrawal(r, w, amount)
      PROVE  Quiet(r)
  <2>1. [op |-> "pay", amount |-> amount] \in Operations
    BY DEF Operations
  <2> QED
    BY <1>2, <2>1 DEF AskWithdrawal, Quiet, Resyncing, Idle, account, fields
<1>3. ASSUME NEW r \in Requests, NEW w \in Wallets, NEW e \in Envelopes, SubmitWithdrawal(r, e, w)
      PROVE  Quiet(r)
  <2>1. envelope[e] \in PayTx
    BY <1>3 DEF SubmitWithdrawal, TypeOK, Free, SignerTx
  <2> QED
    BY <1>3, <2>1 DEF SubmitWithdrawal, Quiet, Resyncing, Idle, account, fields
<1>4. ASSUME NEW r \in Requests,
             (\E e \in Envelopes : Build(r, e)) \/ BuildFails(r) \/ SendRefused(r) \/ SendFailed(r)
      PROVE  Quiet(r)
  BY <1>4 DEF Build, BuildFails, SendRefused, SendFailed, Quiet, Resyncing, account, fields
<1>5. ASSUME NEW r \in Requests, Send(r), request[r].tx.op # "signer" PROVE Quiet(r)
  <2>1. request[r].tx \in SignerTx \cup PayTx
    BY <1>5, Shapes DEF Send, Configuring, Paying
  <2>2. request[r].tx.op = "pay"
    BY <1>5, <2>1 DEF SignerTx, PayTx
  <2> QED
    BY <1>5, <2>2 DEF Send, Applied, Quiet, Resyncing, fields
<1>6. ASSUME NEW r \in Requests, SendUnanswered(r) \/ RereadUnanswered(r) \/ Abandon(r)
      PROVE  faults' = faults + 1 /\ row' = row /\ Goes(r, Idle)
  BY <1>6 DEF SendUnanswered, RereadUnanswered, Abandon, Fault, fields
<1>7. ASSUME \/ \E e \in Envelopes : Discard(e) \/ \E w \in Wallets : Sign(e, w)
             \/ \E value \in Limits : SetLimit(value)
      PROVE  UNCHANGED <<row, signers, faults, request>>
  BY <1>7 DEF Discard, Sign, SetLimit, account, fields
<1> QED
  BY <1>1, <1>2, <1>3, <1>4, <1>5, <1>6, <1>7 DEF Next, Step, Begin, Continue

LEMMA FreshNext ==
  ASSUME TypeOK, FreshInv, [Next]_vars
  PROVE  FreshInv'
<1>1. CASE UNCHANGED vars
  BY <1>1 DEF vars, history, FreshInv, Synced, Resyncing
<1> SUFFICES ASSUME Next, ~ doubted' PROVE Synced'
  BY <1>1 DEF FreshInv
<1>2. ~ Missed /\ (doubted => RereadAlone)
  BY DEF Next, Remembered
<1>3. ASSUME \A r \in Requests : request[r].at = "reread" => request'[r].at # "saveConfig"
      PROVE  Synced
  BY <1>2, <1>3 DEF RereadAlone, FreshInv
<1>4. CASE UNCHANGED <<row, signers, faults, request>>
  BY <1>3, <1>4 DEF Synced, Resyncing
\* A step that leaves row, signers and whether it is resyncing alone.
<1>5. ASSUME NEW r \in Requests, NEW h, Goes(r, h), UNCHANGED <<row, signers>>,
             h.at # "saveConfig", ~ Resyncing(request[r])
      PROVE  Synced'
  <2>1. \A q \in Requests : request'[q] = IF q = r THEN h ELSE request[q]
    BY <1>5 DEF Goes, TypeOK
  <2>2. Synced
    BY <1>3, <1>5, <2>1 DEF Resyncing
  <2> QED
    BY <1>5, <2>1, <2>2 DEF Synced, Resyncing
\* An answer that is lost: nothing was missed, so it was no change of the signers.
<1>6. ASSUME faults' = faults + 1, row' = row, NEW r \in Requests, Goes(r, Idle)
      PROVE  Synced'
  <2>1. faults' # faults /\ request'[r] = Idle
    BY <1>6 DEF Goes, TypeOK
  <2>2. signers' = signers /\ ~ Resyncing(request[r])
    BY <1>2, <2>1 DEF Missed
  <2> QED
    BY <1>5, <1>6, <2>2 DEF Idle
<1>7. ASSUME NEW r \in Requests, Quiet(r) PROVE Synced'
  <2>1. PICK h \in {Idle} \cup [at : {"build"}, operation : Operations]
                    \cup [at : {"send"}, tx : PayTx, limit : {limit}] : Goes(r, h)
    BY <1>7 DEF Quiet
  <2>2. h.at # "saveConfig"
    BY <2>1 DEF Idle
  <2> QED
    BY <1>5, <1>7, <2>1, <2>2 DEF Quiet
<1>8. ASSUME NEW r \in Requests, Validate(r) PROVE Synced'
  <2>1. request[r] \in Configuring /\ ~ Resyncing(request[r])
    BY <1>8, Shapes DEF Validate, Resyncing
  <2>2. [request[r] EXCEPT !.at = "send"].at = "send" /\ Idle.at = "idle"
    BY <2>1 DEF Configuring, Idle
  <2>3. UNCHANGED <<row, signers>>
    BY <1>8 DEF Validate, account, fields
  <2> QED
    BY <1>5, <1>8, <2>1, <2>2, <2>3 DEF Validate
<1>9. ASSUME NEW r \in Requests, NEW e \in Envelopes, NEW role \in BodyRoles, SubmitSigner(r, e, role)
      PROVE  Synced'
  BY <1>5, <1>9 DEF SubmitSigner, Resyncing, Idle, account, fields
<1>10. ASSUME NEW r \in Requests, NEW w \in Edited,
              \/ AddDepositor(r, w) \/ MemberRemove(r, w)
              \/ \E role \in AskedRoles : MemberRole(r, w, role)
       PROVE  Synced'
  <2>1. request[r] = Idle /\ UNCHANGED <<row, signers>>
    BY <1>10 DEF AddDepositor, MemberRemove, MemberRole, account, fields
  <2>2. ASSUME NEW roles, NEW depositors, Saves(r, w, roles, depositors) PROVE Synced'
    BY <1>5, <2>1, <2>2 DEF Saves, Resyncing, Idle
  <2> QED
    BY <1>10, <2>2 DEF AddDepositor, MemberRemove, MemberRole
\* The signers change while no other submit is resyncing, and will be reread.
<1>11. ASSUME NEW r \in Requests, Send(r), request[r].tx.op = "signer" PROVE Synced'
  <2>1. request[r] \in Configuring /\ request[r].at = "send" /\ row' = row
    BY <1>11, Shapes DEF Send, fields
  <2> DEFINE h == [request[r] EXCEPT !.at = "reread"]
  <2>2. h.at = "reread"
    BY <2>1 DEF Configuring
  <2>3. \A q \in Requests : request'[q] = IF q = r THEN h ELSE request[q]
    BY <1>11 DEF Send, Goes, TypeOK
  <2> HIDE DEF h
  <2>4. Synced
    BY <1>3, <2>1, <2>2, <2>3
  <2>5. CASE signers' = signers
    BY <2>2, <2>3, <2>4, <2>5 DEF Synced, Resyncing
  <2>6. CASE signers' # signers
    <3>1. \A q \in Requests : ~ Resyncing(request[q])
      BY <1>2, <2>6 DEF Missed
    <3> QED
      BY <2>2, <2>3, <3>1 DEF Synced, Resyncing
  <2> QED
    BY <2>5, <2>6
\* What is reread is what the ledger has; who else saves has reread it too.
<1>12. ASSUME NEW r \in Requests, Reread(r) PROVE Synced'
  <2>1. UNCHANGED <<row, signers>> /\ request[r].at = "reread"
    BY <1>12 DEF Reread, account, fields
  <2>2. request'[r] = [at |-> "saveConfig", wallet |-> request[r].tx.wallet,
                       row |-> Resynced(request[r].row, request[r].tx, request[r].role)]
    BY <1>12 DEF Reread, Goes, TypeOK
  <2>3. request'[r].at = "saveConfig" /\ request'[r].row.signers = signers
    BY <2>2 DEF Resynced
  <2>4. \A q \in Requests \ {r} : request'[q] = request[q]
    BY <1>12 DEF Reread, Goes, TypeOK
  <2>5. \A q \in Requests \ {r} : request[q].at = "saveConfig" => request[q].row.signers = signers
    <3>1. CASE doubted
      <4>1. PICK q \in Requests : /\ request[q].at = "reread" /\ request'[q].at = "saveConfig"
                                 /\ \A p \in Requests \ {q} : ~ Resyncing(request[p])
        BY <1>2, <3>1 DEF RereadAlone
      <4>2. q = r
        BY <2>4, <4>1
      <4> QED
        BY <4>1, <4>2 DEF Resyncing
    <3>2. CASE ~ doubted
      BY <3>2 DEF FreshInv, Synced
    <3> QED
      BY <3>1, <3>2
  <2> QED
    BY <2>1, <2>3, <2>4, <2>5 DEF Synced, Resyncing
<1>13. ASSUME NEW r \in Requests, SaveConfig(r) PROVE Synced'
  <2>1. signers' = signers /\ row' = request[r].row /\ request[r].at = "saveConfig"
    BY <1>13 DEF SaveConfig, SavedConfig, account
  <2>2. \A q \in Requests : request'[q] = IF q = r THEN Idle ELSE request[q]
    BY <1>13 DEF SaveConfig, Goes, TypeOK
  <2>3. Synced
    BY <1>3, <2>2 DEF Idle
  <2> QED
    BY <2>1, <2>2, <2>3 DEF Synced, Idle
<1>14. ASSUME NEW r \in Requests, SaveMembers(r) PROVE Synced'
  <2>1. signers' = signers /\ row'.signers = row.signers /\ request[r].at = "saveMembers"
    BY <1>14 DEF SaveMembers, SavedMembers, account, TypeOK, Rows
  <2>2. \A q \in Requests : request'[q] = IF q = r THEN Idle ELSE request[q]
    BY <1>14 DEF SaveMembers, Goes, TypeOK
  <2>3. Synced
    BY <1>3, <2>2 DEF Idle
  <2> QED
    BY <2>1, <2>2, <2>3 DEF Synced, Idle, Resyncing
<1> QED
  BY <1>4, <1>6, <1>7, <1>8, <1>9, <1>10, <1>11, <1>12, <1>13, <1>14, StepsOfBox

\* With nothing in flight the row's signers are the ledger's, unless a change of them was
\* missed since a submit last read the account alone: whatever edits of the members,
\* withdrawals, builds, signatures and submits overlap, the next submit that does not
\* overlap another between the answer of Horizon and its save puts the row right
\* (views.py 596-668).  The run family_overlap shows two that do.
THEOREM SnapshotIsFresh == Spec => []SnapshotFresh
<1>1. Init => FreshInv
  BY DEF Init, FreshInv, Synced, Resyncing, Idle
<1>2. TypeOK /\ FreshInv /\ [Next]_vars => FreshInv'
  BY FreshNext
<1>3. FreshInv => SnapshotFresh
  BY DEF FreshInv, Synced, SnapshotFresh, Resyncing, Idle
<1> QED
  BY <1>1, <1>2, <1>3, BoxTypeCorrect, PTL DEF Spec

\* A row where powers are of members, and depositors are no signers.
Sound(members) ==
  /\ \A w \in Wallets :
       members.roles[w] # "none" => w = Creator \/ members.signers[w] > 0 \/ w \in members.depositors
  /\ \A w \in members.depositors : members.signers[w] = 0

\* Two rows that differ in one wallet's role and place, if at all.
Others(w, a, b) ==
  \A v \in Wallets \ {w} : a.roles[v] = b.roles[v] /\ (v \in a.depositors <=> v \in b.depositors)

\* What a handler that edits has read or will save, where the row is members and the ledger
\* has weights.
Held(h, members, weights) ==
  /\ h.at = "validate" \/ (h.at = "send" /\ h.tx.op = "signer") =>
       h.row = members /\ weights = members.signers
  /\ h.at = "reread" => h.row = members /\ weights = [members.signers EXCEPT ![h.tx.wallet] = h.tx.weight]
  /\ h.at = "saveConfig" =>
       h.row.signers = weights /\ Sound(h.row) /\ Others(h.wallet, h.row, members)
  /\ h.at = "saveMembers" =>
       h.row.signers = members.signers /\ Sound(h.row) /\ Others(h.wallet, h.row, members)

SerialInv ==
  /\ Sound(row)
  /\ \A r \in Requests : Held(request[r], row, signers)
  /\ (\A r \in Requests : ~ Resyncing(request[r])) => row.signers = signers

LEMMA OnlyEditsHold ==
  ASSUME NEW h, ~ Editing(h)
  PROVE  ~ Resyncing(h) /\ \A members, weights : Held(h, members, weights)
BY DEF Editing, Held, Resyncing

\* What the creator edits in the app of a sound row is a sound row of the same signers.
LEMMA EditsAreSound ==
  ASSUME TypeOK, Sound(row), NEW r \in Requests, NEW w \in Edited,
         \/ AddDepositor(r, w) \/ MemberRemove(r, w)
         \/ \E role \in AskedRoles : MemberRole(r, w, role)
  PROVE  \E saved \in Rows :
           /\ Goes(r, [at |-> "saveMembers", wallet |-> w, row |-> saved])
           /\ saved.signers = row.signers /\ Sound(saved) /\ Others(w, saved, row)
<1>1. row \in Rows /\ w \in Wallets
  BY BoxAssumption DEF TypeOK
<1>2. ASSUME NEW role \in Roles \cup {"none"}, NEW depositors \in SUBSET Wallets,
             Saves(r, w, WithRole(w, role), depositors),
             \A v \in Wallets \ {w} : v \in depositors <=> v \in row.depositors,
             w \in depositors => row.signers[w] = 0,
             role # "none" => row.signers[w] > 0 \/ w \in depositors
      PROVE  \E saved \in Rows :
               /\ Goes(r, [at |-> "saveMembers", wallet |-> w, row |-> saved])
               /\ saved.signers = row.signers /\ Sound(saved) /\ Others(w, saved, row)
  <2> DEFINE saved == [row EXCEPT !.roles = WithRole(w, role), !.depositors = depositors]
  <2>1. /\ saved \in Rows /\ saved.signers = row.signers /\ saved.depositors = depositors
        /\ saved.roles = [row.roles EXCEPT ![w] = role]
    BY <1>1, MembersTyped DEF WithRole, Rows
  <2>2. Goes(r, [at |-> "saveMembers", wallet |-> w, row |-> saved])
    BY <1>2 DEF Saves
  <2> HIDE DEF saved
  <2>3. \A v \in Wallets : saved.roles[v] = IF v = w THEN role ELSE row.roles[v]
    BY <1>1, <2>1 DEF Rows
  <2>4. Others(w, saved, row)
    BY <1>2, <2>1, <2>3 DEF Others
  <2>5. Sound(saved)
    BY <1>1, <1>2, <2>1, <2>3 DEF Sound, Rows
  <2> QED
    BY <2>1, <2>2, <2>4, <2>5
<1>3. row.signers[w] \in Nat /\ row.depositors \subseteq Wallets
  BY <1>1 DEF Rows, Weights
<1>4. CASE AddDepositor(r, w)
  <2>1. "deposit" \in Roles \cup {"none"} /\ row.depositors \cup {w} \in SUBSET Wallets
    BY <1>1, <1>3 DEF Roles
  <2> QED
    BY <1>2, <1>4, <2>1 DEF AddDepositor
<1>5. CASE MemberRemove(r, w)
  <2>1. Saves(r, w, WithRole(w, "none"), row.depositors \ {w})
    BY <1>5 DEF MemberRemove, RemovedFromRoles
  <2> QED
    BY <1>2, <1>3, <2>1
<1>6. ASSUME NEW role \in AskedRoles, MemberRole(r, w, role)
      PROVE  \E saved \in Rows :
               /\ Goes(r, [at |-> "saveMembers", wallet |-> w, row |-> saved])
               /\ saved.signers = row.signers /\ Sound(saved) /\ Others(w, saved, row)
  <2> DEFINE depositors == IF role = "deposit" /\ row.signers[w] = 0 THEN row.depositors \cup {w}
                           ELSE row.depositors
  <2>1. role \in Roles \cup {"none"} /\ Saves(r, w, WithRole(w, role), depositors)
    BY <1>6, BoxAssumption DEF MemberRole
  <2>2. /\ depositors \in SUBSET Wallets
        /\ \A v \in Wallets \ {w} : v \in depositors <=> v \in row.depositors
        /\ w \in depositors => row.signers[w] = 0
        /\ row.signers[w] > 0 \/ w \in depositors
    BY <1>1, <1>3, <1>6 DEF Sound, MemberRole
  <2> HIDE DEF depositors
  <2> QED
    BY <1>2, <2>1, <2>2
<1> QED
  BY <1>4, <1>5, <1>6

\* What a submit of a sound row's change of one signer saves is sound, has the ledger's
\* signers and changes nobody else.
LEMMA ResyncIsSound ==
  ASSUME TypeOK, NEW before \in Rows, Sound(before), NEW tx \in SignerTx, NEW role \in Withdrawing,
         signers = [before.signers EXCEPT ![tx.wallet] = tx.weight]
  PROVE  LET saved == Resynced(before, tx, role)
         IN  saved.signers = signers /\ Sound(saved) /\ Others(tx.wallet, saved, before)
<1> DEFINE saved == Resynced(before, tx, role)
           w == tx.wallet
<1>1. /\ before.signers \in [Wallets -> Weights] /\ before.depositors \subseteq Wallets
      /\ w \in Wallets /\ tx.weight \in Nat
  BY DEF Rows, SignerTx, Weights
<1>2. /\ saved.signers = signers
      /\ \A v \in Wallets : saved.roles[v] =
           IF tx.weight = 0 /\ v = w THEN "none"
           ELSE IF tx.weight > 0 /\ v \in NewSigners(before) THEN role ELSE before.roles[v]
      /\ saved.depositors = (before.depositors \ SignersIn(signers)) \ (IF tx.weight = 0 THEN {w} ELSE {})
  BY DEF Resynced
<1> HIDE DEF saved, w
<1>3. /\ signers[w] = tx.weight
      /\ \A v \in Wallets \ {w} : signers[v] = before.signers[v]
      /\ \A v \in Wallets : signers[v] \in Nat /\ before.signers[v] \in Nat
  BY <1>1 DEF Weights, w
<1>4. \A v \in Wallets : v \in SignersIn(signers) <=> signers[v] > 0
  BY DEF SignersIn
<1>5. \A v \in Wallets \ {w} : v \notin NewSigners(before)
  BY <1>3 DEF NewSigners, SignersIn
<1>6. \A v \in Wallets \ {w} : saved.roles[v] = before.roles[v]
  BY <1>2, <1>5
<1>7. \A v \in Wallets \ {w} : v \in saved.depositors <=> v \in before.depositors
  BY <1>1, <1>2, <1>3, <1>4 DEF Sound
<1>8. \A v \in saved.depositors : saved.signers[v] = 0
  BY <1>1, <1>2, <1>3, <1>4
<1>9. saved.roles[w] # "none" => saved.signers[w] > 0
  BY <1>1, <1>2, <1>3
<1>10. ASSUME NEW v \in Wallets, saved.roles[v] # "none"
       PROVE  v = Creator \/ saved.signers[v] > 0 \/ v \in saved.depositors
  <2>1. CASE v = w
    BY <1>9, <1>10, <2>1
  <2>2. CASE v # w
    BY <1>2, <1>3, <1>6, <1>7, <1>10, <2>2 DEF Sound
  <2> QED
    BY <2>1, <2>2
<1>11. Sound(saved)
  BY <1>8, <1>10 DEF Sound
<1>12. Others(tx.wallet, saved, before)
  BY <1>6, <1>7 DEF Others, w
<1> QED
  BY <1>2, <1>11, <1>12 DEF saved

LEMMA SerialNext ==
  ASSUME TypeOK, SerialInv, Calm, Calm', [Next]_vars
  PROVE  SerialInv'
<1>t. /\ Sound(row) /\ \A r \in Requests : Held(request[r], row, signers)
      /\ row \in Rows /\ faults \in Nat
  BY BoxAssumption DEF SerialInv, TypeOK
<1>1. ASSUME row' = row, signers' = signers, \A r \in Requests : Held(request'[r], row, signers),
             \A r \in Requests : Resyncing(request[r]) => Resyncing(request'[r])
      PROVE  SerialInv'
  BY <1>1, <1>t DEF SerialInv, Resyncing
<1>2. CASE UNCHANGED vars
  BY <1>1, <1>2, <1>t DEF vars
<1>3. CASE UNCHANGED <<row, signers, faults, request>>
  BY <1>1, <1>3, <1>t
<1>4. faults' # faults + 1
  BY <1>t DEF Calm
\* A handler goes on, and leaves the row and the ledger's signers alone.
<1>5. ASSUME NEW r \in Requests, NEW h, Goes(r, h), UNCHANGED <<row, signers>>,
             Held(h, row, signers), Resyncing(request[r]) => Resyncing(h)
      PROVE  SerialInv'
  <2>1. \A q \in Requests : request'[q] = IF q = r THEN h ELSE request[q]
    BY <1>5 DEF Goes, TypeOK
  <2> QED
    BY <1>1, <1>5, <1>t, <2>1
<1>6. ASSUME NEW r \in Requests, Quiet(r) PROVE SerialInv'
  <2>1. ASSUME NEW h, Goes(r, h), h.at \in {"idle", "build"} \/ (h.at = "send" /\ h.tx.op = "pay")
        PROVE  SerialInv'
    <3>1. ~ Editing(h)
      BY <2>1 DEF Editing
    <3> QED
      BY <1>5, <1>6, <2>1, <3>1, OnlyEditsHold DEF Quiet
  <2>2. CASE Goes(r, Idle)
    BY <2>1, <2>2 DEF Idle
  <2>3. ASSUME NEW operation \in Operations, Goes(r, [at |-> "build", operation |-> operation])
        PROVE  SerialInv'
    BY <2>1, <2>3
  <2>4. ASSUME NEW tx \in PayTx, Goes(r, [at |-> "send", tx |-> tx, limit |-> limit]) PROVE SerialInv'
    BY <2>1, <2>4 DEF PayTx
  <2> QED
    BY <1>6, <2>2, <2>3, <2>4 DEF Quiet
\* While one handler edits, no other does.
<1>7. ASSUME NEW r \in Requests, Editing(request[r]), ~ Resyncing(request[r])
      PROVE  row.signers = signers /\ \A q \in Requests \ {r} : ~ Editing(request[q])
  <2>1. \A q \in Requests \ {r} : ~ Editing(request[q])
    BY <1>7 DEF Calm, OneEdit
  <2>2. \A q \in Requests : ~ Resyncing(request[q])
    BY <1>7, <2>1, OnlyEditsHold
  <2> QED
    BY <2>1, <2>2 DEF SerialInv
\* A handler that begins to edit finds no other that does.
<1>8. ASSUME NEW r \in Requests, NEW h, Goes(r, h), Editing(h), request[r] = Idle
      PROVE  row.signers = signers
  <2>1. \A q \in Requests : request'[q] = IF q = r THEN h ELSE request[q]
    BY <1>8 DEF Goes, TypeOK
  <2>2. \A q \in Requests \ {r} : ~ Editing(request[q])
    BY <1>8, <2>1 DEF Calm, OneEdit
  <2>3. \A q \in Requests \ {r} : ~ Resyncing(request[q])
    BY <2>2, OnlyEditsHold
  <2>4. ~ Resyncing(request[r])
    BY <1>8 DEF Resyncing, Idle
  <2> QED
    BY <2>3, <2>4 DEF SerialInv
<1>9. ASSUME NEW r \in Requests, NEW e \in Envelopes, NEW role \in BodyRoles, SubmitSigner(r, e, role)
      PROVE  SerialInv'
  <2> DEFINE h == [at |-> "validate", tx |-> envelope[e], row |-> row, role |-> GivenRole(role)]
  <2>1. Goes(r, h) /\ request[r] = Idle /\ UNCHANGED <<row, signers>>
    BY <1>9 DEF SubmitSigner, account, fields
  <2>2. h.at = "validate" /\ h.row = row
    OBVIOUS
  <2> HIDE DEF h
  <2>3. row.signers = signers
    BY <1>8, <2>1, <2>2 DEF Editing
  <2> QED
    BY <1>5, <2>1, <2>2, <2>3 DEF Held, Resyncing, Idle
<1>10. ASSUME NEW r \in Requests, NEW w \in Edited,
              \/ AddDepositor(r, w) \/ MemberRemove(r, w)
              \/ \E role \in AskedRoles : MemberRole(r, w, role)
       PROVE  SerialInv'
  <2>1. PICK saved \in Rows :
          /\ Goes(r, [at |-> "saveMembers", wallet |-> w, row |-> saved])
          /\ saved.signers = row.signers /\ Sound(saved) /\ Others(w, saved, row)
    BY <1>10, <1>t, EditsAreSound
  <2>2. request[r] = Idle /\ UNCHANGED <<row, signers>>
    BY <1>10 DEF AddDepositor, MemberRemove, MemberRole, account, fields
  <2> QED
    BY <1>5, <2>1, <2>2 DEF Held, Resyncing, Idle
<1>11. ASSUME NEW r \in Requests, Validate(r) PROVE SerialInv'
  <2>1. request[r] \in Configuring /\ UNCHANGED <<row, signers>> /\ request[r].at = "validate"
    BY <1>11, Shapes DEF Validate, account, fields
  <2> DEFINE h == [request[r] EXCEPT !.at = "send"]
  <2>2. h.at = "send" /\ h.row = request[r].row
    BY <2>1 DEF Configuring
  <2>3. Goes(r, h) \/ Goes(r, Idle)
    BY <1>11 DEF Validate
  <2> HIDE DEF h
  <2>4. ~ Resyncing(request[r])
    BY <2>1 DEF Resyncing
  <2>5. Held(h, row, signers)
    BY <1>t, <2>1, <2>2 DEF Held
  <2>6. Held(Idle, row, signers)
    BY DEF Held, Idle
  <2> QED
    BY <1>5, <2>1, <2>3, <2>4, <2>5, <2>6
<1>12. ASSUME NEW r \in Requests, Send(r), request[r].tx.op = "signer" PROVE SerialInv'
  <2>1. /\ request[r] \in Configuring /\ request[r].at = "send" /\ Editing(request[r])
        /\ ~ Resyncing(request[r])
    BY <1>12, Shapes DEF Send, Editing, Resyncing
  <2> DEFINE h == [request[r] EXCEPT !.at = "reread"]
  <2>2. h.at = "reread" /\ h.row = request[r].row /\ h.tx = request[r].tx
    BY <2>1 DEF Configuring
  <2>3. \A q \in Requests : request'[q] = IF q = r THEN h ELSE request[q]
    BY <1>12 DEF Send, Goes, TypeOK
  <2>4. row' = row /\ signers' = [signers EXCEPT ![request[r].tx.wallet] = request[r].tx.weight]
    BY <1>12 DEF Send, Applied, fields
  <2> HIDE DEF h
  <2>5. request[r].row = row /\ signers = row.signers
    BY <1>12, <1>t, <2>1 DEF Held
  <2>6. Held(h, row', signers')
    BY <2>2, <2>4, <2>5 DEF Held
  <2>7. \A q \in Requests \ {r} : Held(request[q], row', signers')
    BY <1>7, <2>1, OnlyEditsHold
  <2>8. \A q \in Requests : Held(request'[q], row', signers')
    BY <2>3, <2>6, <2>7
  <2>9. Resyncing(request'[r])
    BY <2>2, <2>3 DEF Resyncing
  <2> QED
    BY <1>t, <2>4, <2>8, <2>9 DEF SerialInv, Resyncing
<1>13. ASSUME NEW r \in Requests, Reread(r) PROVE SerialInv'
  <2>1. request[r] \in Configuring /\ request[r].at = "reread" /\ UNCHANGED <<row, signers>>
    BY <1>13, Shapes DEF Reread, account, fields
  <2>2. request[r].tx \in SignerTx /\ request[r].role \in Withdrawing
    BY <2>1 DEF Configuring
  <2>3. request[r].row = row /\ signers = [row.signers EXCEPT ![request[r].tx.wallet] = request[r].tx.weight]
    BY <1>t, <2>1 DEF Held
  <2> DEFINE saved == Resynced(row, request[r].tx, request[r].role)
             h == [at |-> "saveConfig", wallet |-> request[r].tx.wallet, row |-> saved]
  <2>4. saved.signers = signers /\ Sound(saved) /\ Others(request[r].tx.wallet, saved, row)
    BY <1>t, <2>2, <2>3, ResyncIsSound
  <2>5. Goes(r, h)
    BY <1>13, <2>3 DEF Reread
  <2> HIDE DEF saved
  <2>6. h.at = "saveConfig" /\ h.row = saved /\ h.wallet = request[r].tx.wallet
    OBVIOUS
  <2> HIDE DEF h
  <2> QED
    BY <1>5, <2>1, <2>4, <2>5, <2>6 DEF Held, Resyncing
\* A save ends the only edit.
<1>14. ASSUME NEW r \in Requests, Goes(r, Idle), Editing(request[r]), Sound(row'), row'.signers = signers'
       PROVE  SerialInv'
  <2>1. \A q \in Requests : request'[q] = IF q = r THEN Idle ELSE request[q]
    BY <1>14 DEF Goes, TypeOK
  <2>2. \A q \in Requests \ {r} : ~ Editing(request[q])
    BY <1>14 DEF Calm, OneEdit
  <2>3. ~ Editing(Idle)
    BY DEF Editing, Idle
  <2>4. \A q \in Requests : Held(request'[q], row', signers')
    BY <2>1, <2>2, <2>3, OnlyEditsHold
  <2> QED
    BY <1>14, <2>4 DEF SerialInv
<1>15. ASSUME NEW r \in Requests, SaveConfig(r) PROVE SerialInv'
  <2>1. /\ Goes(r, Idle) /\ row' = request[r].row /\ signers' = signers
        /\ request[r].at = "saveConfig" /\ Editing(request[r])
    BY <1>15 DEF SaveConfig, SavedConfig, account, Editing
  <2>2. Sound(request[r].row) /\ request[r].row.signers = signers
    BY <1>t, <2>1 DEF Held
  <2>3. Sound(row')
    BY <2>1, <2>2
  <2> QED
    BY <1>14, <2>1, <2>2, <2>3
<1>16. ASSUME NEW r \in Requests, SaveMembers(r) PROVE SerialInv'
  <2>1. /\ Goes(r, Idle) /\ row' = SavedMembers(request[r].row) /\ signers' = signers
        /\ request[r].at = "saveMembers" /\ Editing(request[r]) /\ ~ Resyncing(request[r])
    BY <1>16 DEF SaveMembers, account, Editing, Resyncing
  <2>2. Sound(request[r].row) /\ request[r].row.signers = row.signers
    BY <1>t, <2>1 DEF Held
  <2>3. row'.signers = row.signers /\ row'.roles = request[r].row.roles
          /\ row'.depositors = request[r].row.depositors
    BY <1>t, <2>1 DEF SavedMembers, Rows
  <2>4. Sound(row')
    BY <2>2, <2>3 DEF Sound
  <2>5. row.signers = signers
    BY <1>7, <2>1
  <2> QED
    BY <1>14, <2>1, <2>3, <2>4, <2>5
<1> QED
  BY <1>2, <1>3, <1>4, <1>6, <1>9, <1>10, <1>11, <1>12, <1>13, <1>15, <1>16, StepsOfBox

LEMMA SerialInit == Init => SerialInv
<1> SUFFICES ASSUME Init PROVE SerialInv
  OBVIOUS
<1>1. \A r \in Requests : request[r] = Idle
  BY DEF Init
<1>2. /\ row.signers = InitialSigners /\ signers = InitialSigners /\ row.depositors = {}
      /\ row.roles = [w \in Wallets |-> IF InitialSigners[w] > 0 THEN "deposit_withdraw" ELSE "none"]
  BY DEF Init
<1>3. Sound(row)
  BY <1>2 DEF Sound
<1>4. \A r \in Requests : Held(request[r], row, signers)
  BY <1>1 DEF Held, Idle
<1> QED
  BY <1>2, <1>3, <1>4 DEF SerialInv

\* Only a wallet of the box has a power in it, while the edits of the row do not overlap and
\* no answer of Horizon is lost: family_power and the membership check then agree, whatever
\* is added, removed, renamed and submitted (views.py 82-104).  The run family_power shows
\* that a lost reread is enough to break it.
THEOREM PowerIsOfMembers == Spec /\ []Calm => []PowerOnlyForMembers
<1>1. TypeOK /\ SerialInv /\ Calm /\ Calm' /\ [Next]_vars => SerialInv'
  BY SerialNext
<1>2. SerialInv => PowerOnlyForMembers
  BY DEF SerialInv, Sound, PowerOnlyForMembers, Power, Member
<1> QED
  BY <1>1, <1>2, SerialInit, BoxTypeCorrect, PTL DEF Spec

\* Saving the edit of one wallet leaves the others as they are, while the edits of the row do
\* not overlap and no answer of Horizon is lost (views.py 638-661, 765-785).  The run
\* family_edits shows two edits that overlap.
THEOREM EditsLeaveOthers == Spec /\ []Calm => OthersUntouched
<1> DEFINE Left == \A r \in Requests, w \in Wallets :
                     request[r].at \in {"saveConfig", "saveMembers"} /\ request'[r] = Idle
                       /\ w # request[r].wallet
                     => row'.roles[w] = row.roles[w] /\ (w \in row'.depositors <=> w \in row.depositors)
<1>1. ASSUME TypeOK, SerialInv, [Next]_vars PROVE [Left]_vars
  <2> SUFFICES ASSUME Next, NEW r \in Requests, NEW w \in Wallets, row' # row,
                      request[r].at \in {"saveConfig", "saveMembers"}, request'[r] = Idle,
                      w # request[r].wallet
               PROVE  row'.roles[w] = row.roles[w] /\ (w \in row'.depositors <=> w \in row.depositors)
    BY <1>1
  <2>1. PICK q \in Requests : SaveConfig(q) \/ SaveMembers(q)
    BY RowMoves
  <2>2. q = r
    <3>1. Goes(q, Idle) /\ request[r] # Idle
      BY <2>1 DEF SaveConfig, SaveMembers, Idle
    <3> QED
      BY <1>1, <3>1 DEF Goes, TypeOK
  <2>3. Others(request[r].wallet, request[r].row, row)
    BY <1>1 DEF SerialInv, Held
  <2>4. row'.roles = request[r].row.roles /\ row'.depositors = request[r].row.depositors
    BY <1>1, <2>1, <2>2 DEF SaveConfig, SaveMembers, SavedConfig, SavedMembers, TypeOK, Rows
  <2> QED
    BY <2>3, <2>4 DEF Others
<1>2. TypeOK /\ SerialInv /\ [Next]_vars => [Left]_vars
  BY <1>1
<1>3. TypeOK /\ SerialInv /\ Calm /\ Calm' /\ [Next]_vars => SerialInv'
  BY SerialNext
<1> QED
  BY <1>2, <1>3, SerialInit, BoxTypeCorrect, PTL DEF Spec, OthersUntouched

=============================================================================
