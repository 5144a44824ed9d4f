------------------------------ MODULE FamilyBox ------------------------------
(***************************************************************************)
(* A family box: a Stellar account whose signers, weights and thresholds    *)
(* live on the ledger, and the backend's row, which keeps a snapshot of     *)
(* the signers next to the roles, the depositors and the withdrawal limit   *)
(* that exist nowhere else.                                                 *)
(*                                                                          *)
(* A handler reads the row when its request begins (the snapshot it works   *)
(* on), calls Horizon one or more times, and saves some fields of the       *)
(* snapshot at the end; other requests run between any two of its steps.    *)
(* Browsers keep signed envelopes, which family members sign one after the  *)
(* other and submit as often as they like.                                  *)
(***************************************************************************)
EXTENDS Integers, FiniteSets, Functions

CONSTANTS
  Wallets,        \* the wallets of the family
  Creator,        \* the one that created the box
  InitialSigners, \* weights the box was configured with, 0 for no signer
  Med, High,      \* the account's thresholds; no handler changes them
  Asked,          \* pairs <<wallet, weight>> the creator asks set-signer builds for
  Edited,         \* wallets whose place in the app the creator edits
  AskedRoles,     \* roles the creator gives in the app
  BodyRoles,      \* roles that the body of a set-signer submit names
  Amounts,        \* amounts of withdrawals
  Limits,         \* withdrawal limits, the first one at creation included
  Requests,       \* requests the backend serves at the same time
  Envelopes,      \* signed transactions that browsers keep
  Faults,         \* which of "reread", "send" and "worker" may go wrong
  MaxSequence,    \* bound: sequence numbers used
  MaxFaults       \* bound: times something goes wrong

VARIABLES
  signers,    \* ledger: the weight of each wallet, 0 for no signer
  sequence,   \* ledger: the account's sequence number
  row,        \* FamilyPool: signers, wallet_roles and depositors
  limit,      \* FamilyPool: withdrawal_limit
  envelope,   \* envelope[e]: a transaction in a browser
  request,    \* request[r]: what the handler is about to do
  faults,
  doubted,    \* history: the row may lag behind the ledger (Remembered)
  weakened    \* history: a strong relative was left with less than the high threshold

history == <<doubted, weakened>>
vars == <<signers, sequence, row, limit, envelope, request, faults, history>>

Withdrawing == {"withdraw", "deposit_withdraw"}
Roles == Withdrawing \cup {"deposit"}
MaxWeight == 255
Weights == 0..MaxWeight

ASSUME BoxAssumption ==
  /\ Creator \in Wallets /\ InitialSigners \in [Wallets -> Weights]
  /\ High \in Nat \ {0}
  /\ Asked \subseteq Wallets \X Weights
  /\ Edited \subseteq Wallets /\ AskedRoles \subseteq Roles
  /\ Amounts \subseteq Int /\ Limits \subseteq Int
  /\ MaxFaults \in Nat

Idle == [at |-> "idle"]
Free == [op |-> "none"]

Operations ==
  [op : {"signer"}, wallet : Wallets, weight : Weights] \cup [op : {"pay"}, amount : Amounts]

SignerTx ==
  [op : {"signer"}, wallet : Wallets, weight : Weights, sequence : Nat, by : SUBSET Wallets]
PayTx == [op : {"pay"}, amount : Amounts, sequence : Nat, by : SUBSET Wallets]

Rows ==
  [signers : [Wallets -> Weights], roles : [Wallets -> Roles \cup {"none"}],
   depositors : SUBSET Wallets]

Building == [at : {"build"}, operation : Operations]
Configuring ==
  [at : {"validate", "send", "reread"}, tx : SignerTx, row : Rows, role : Withdrawing]
Paying == [at : {"send"}, tx : PayTx, limit : Limits]
Saving == [at : {"saveConfig", "saveMembers"}, wallet : Wallets, row : Rows]
Handlers == {Idle} \cup Building \cup Configuring \cup Paying \cup Saving

\* What the ledger, the row, the browsers and the handlers may hold.
TypeOK ==
  /\ signers \in [Wallets -> Weights] /\ sequence \in Nat
  /\ row \in Rows /\ limit \in Limits
  /\ envelope \in [Envelopes -> {Free} \cup SignerTx \cup PayTx]
  /\ request \in [Requests -> Handlers]
  /\ faults \in 0..MaxFaults
  /\ doubted \in BOOLEAN /\ weakened \in BOOLEAN

----------------------------------------------------------------------------
(* Who may do what, by the row *)

SignersIn(weights) == {w \in Wallets : weights[w] > 0}

Member(w) == w = Creator \/ row.signers[w] > 0 \/ w \in row.depositors

\* family_power: the role comes before the fact of being a signer.
Power(w) ==
  IF w = Creator THEN "deposit_withdraw"
  ELSE IF row.roles[w] # "none" THEN row.roles[w]
  ELSE IF row.signers[w] > 0 THEN "deposit_withdraw"
  ELSE IF w \in row.depositors THEN "deposit" ELSE "none"

Init ==
  /\ signers = InitialSigners
  /\ sequence = 0
  /\ row = [signers |-> InitialSigners, depositors |-> {},
            roles |-> [w \in Wallets |-> IF InitialSigners[w] > 0 THEN "deposit_withdraw"
                                         ELSE "none"]]
  /\ limit \in Limits
  /\ envelope = [e \in Envelopes |-> Free]
  /\ request = [r \in Requests |-> Idle]
  /\ faults = 0
  /\ doubted = FALSE /\ weakened = FALSE

account == <<signers, sequence>>
fields == <<row, limit>>

Goes(r, handler) == request' = [request EXCEPT ![r] = handler]
Fault(kind) == kind \in Faults /\ faults < MaxFaults /\ faults' = faults + 1

----------------------------------------------------------------------------
(* Browsers *)

\* The wallet extension adds a signature to the envelope that waits for more.
Sign(e, w) ==
  /\ envelope[e] # Free /\ w \notin envelope[e].by
  /\ envelope' = [envelope EXCEPT ![e].by = @ \cup {w}]
  /\ UNCHANGED <<account, fields, request, faults>>

Discard(e) ==
  /\ envelope[e] # Free
  /\ envelope' = [envelope EXCEPT ![e] = Free]
  /\ UNCHANGED <<account, fields, request, faults>>

----------------------------------------------------------------------------
(* build_set_signer_tx and build_withdrawal_tx *)

StillEditable(w) == \E other \in SignersIn(signers) \ {w} : signers[other] >= High

\* The rules on a set-signer operation, against the configuration on the ledger.
ApprovedForAnyone(w, weight) ==
  weight = 0 => signers[w] > 0 /\ StillEditable(w)

Approved(w, weight) ==
  IF weight = 0 THEN signers[w] > 0 /\ w # Creator /\ StillEditable(w)
  ELSE w = Creator => weight >= High

AskSigner(r, w, weight) ==
  /\ request[r] = Idle
  /\ Approved(w, weight)
  /\ Goes(r, [at |-> "build", operation |-> [op |-> "signer", wallet |-> w, weight |-> weight]])
  /\ UNCHANGED <<account, fields, envelope, faults>>

AskWithdrawal(r, w, amount) ==
  /\ request[r] = Idle
  /\ Power(w) \in Withdrawing /\ amount <= limit
  /\ Goes(r, [at |-> "build", operation |-> [op |-> "pay", amount |-> amount]])
  /\ UNCHANGED <<account, fields, envelope, faults>>

Unsigned(operation) ==
  IF operation.op = "pay"
  THEN [op |-> "pay", amount |-> operation.amount, sequence |-> sequence + 1, by |-> {}]
  ELSE [op |-> "signer", wallet |-> operation.wallet, weight |-> operation.weight,
        sequence |-> sequence + 1, by |-> {}]

\* load_account: the sequence number is read after the rules were checked.
Build(r, e) ==
  /\ request[r].at = "build" /\ envelope[e] = Free /\ sequence < MaxSequence
  /\ envelope' = [envelope EXCEPT ![e] = Unsigned(request[r].operation)]
  /\ Goes(r, Idle)
  /\ UNCHANGED <<account, fields, faults>>

BuildFails(r) ==
  /\ request[r].at = "build"
  /\ Goes(r, Idle)
  /\ UNCHANGED <<account, fields, envelope, faults>>

----------------------------------------------------------------------------
(* AddSignerSubmitView and WithdrawalSubmitView *)

\* What the body calls the role: anything unknown is the widest one.
GivenRoleRaw(role) == role
GivenRole(role) == IF role \in Withdrawing THEN role ELSE "deposit_withdraw"

SubmitSigner(r, e, role) ==
  /\ request[r] = Idle /\ envelope[e].op = "signer"
  /\ Goes(r, [at |-> "validate", tx |-> envelope[e], row |-> row, role |-> GivenRole(role)])
  /\ UNCHANGED <<account, fields, envelope, faults>>

\* submit_set_signer checks the rules again, whatever build did.
RevalidatedNever(tx) == TRUE
Revalidated(tx) == Approved(tx.wallet, tx.weight)

Validate(r) ==
  /\ request[r].at = "validate"
  /\ Goes(r, IF Revalidated(request[r].tx)
             THEN [request[r] EXCEPT !.at = "send"] ELSE Idle)
  /\ UNCHANGED <<account, fields, envelope, faults>>

\* _validate_signed_withdrawal: the amount of the envelope against the stored limit.
WithinLimitAtBuild(tx) == TRUE
WithinLimit(tx) == tx.amount <= limit

SubmitWithdrawal(r, e, w) ==
  /\ request[r] = Idle /\ envelope[e].op = "pay"
  /\ Member(w) /\ WithinLimit(envelope[e])
  /\ Goes(r, [at |-> "send", tx |-> envelope[e], limit |-> limit])
  /\ UNCHANGED <<account, fields, envelope, faults>>

\* The ledger accepts the next sequence number under enough weight.
Threshold(tx) == IF tx.op = "pay" THEN Med ELSE High
Weight(by) == FoldFunctionOnSet(+, 0, signers, by)
Accepted(tx) == tx.sequence = sequence + 1 /\ Weight(tx.by) >= Threshold(tx)

Applied(tx) ==
  /\ Accepted(tx)
  /\ sequence' = tx.sequence
  /\ signers' = IF tx.op = "pay" THEN signers ELSE [signers EXCEPT ![tx.wallet] = tx.weight]

Send(r) ==
  /\ request[r].at = "send"
  /\ Applied(request[r].tx)
  /\ Goes(r, IF request[r].tx.op = "pay" THEN Idle
             ELSE [request[r] EXCEPT !.at = "reread"])
  /\ UNCHANGED <<fields, envelope, faults>>

\* bad_seq, insufficient_signatures, expired, or Horizon never got it.
SendRefused(r) ==
  /\ request[r].at = "send"
  /\ Goes(r, Idle)
  /\ UNCHANGED <<account, fields, envelope, faults>>

\* Included in a ledger, but the operation fails there (op_low_reserve, op_underfunded):
\* the sequence number is used up.
SendFailed(r) ==
  /\ request[r].at = "send"
  /\ Accepted(request[r].tx)
  /\ sequence' = request[r].tx.sequence
  /\ Goes(r, Idle)
  /\ UNCHANGED <<signers, fields, envelope, faults>>

\* The transaction is applied but the answer is lost: 503, nothing saved.
SendUnanswered(r) ==
  /\ request[r].at = "send"
  /\ Fault("send")
  /\ Applied(request[r].tx)
  /\ Goes(r, Idle)
  /\ UNCHANGED <<fields, envelope>>

\* Whom the submit gives the body's role: signers the snapshot did not have.
EverySigner(before) == SignersIn(signers)
NewSigners(before) == SignersIn(signers) \ SignersIn(before.signers)

Resynced(before, tx, role) ==
  [signers |-> signers,
   roles |-> [w \in Wallets |-> IF tx.weight = 0 /\ w = tx.wallet THEN "none"
                                ELSE IF tx.weight > 0 /\ w \in NewSigners(before) THEN role
                                ELSE before.roles[w]],
   depositors |-> (before.depositors \ SignersIn(signers))
                    \ (IF tx.weight = 0 THEN {tx.wallet} ELSE {})]

\* confirm_pool_setup after the submit, and the new fields from the old snapshot.
Reread(r) ==
  /\ request[r].at = "reread"
  /\ Goes(r, [at |-> "saveConfig", wallet |-> request[r].tx.wallet,
              row |-> Resynced(request[r].row, request[r].tx, request[r].role)])
  /\ UNCHANGED <<account, fields, envelope, faults>>

\* resynced: false.
RereadUnanswered(r) ==
  /\ request[r].at = "reread"
  /\ Fault("reread")
  /\ Goes(r, Idle)
  /\ UNCHANGED <<account, fields, envelope>>

SavedMembersWhole(saved) == saved
SavedMembers(saved) == [row EXCEPT !.roles = saved.roles, !.depositors = saved.depositors]
SavedConfigMembersOnly(saved) == SavedMembers(saved)
SavedConfig(saved) == saved

SaveConfig(r) ==
  /\ request[r].at = "saveConfig"
  /\ row' = SavedConfig(request[r].row)
  /\ Goes(r, Idle)
  /\ UNCHANGED <<account, limit, envelope, faults>>

----------------------------------------------------------------------------
(* AddDepositorView, MemberRoleView, MemberRemoveView, FamilyPoolLimitsUpdateView *)

WithRole(w, role) == [row.roles EXCEPT ![w] = role]

Saves(r, w, roles, depositors) ==
  Goes(r, [at |-> "saveMembers", wallet |-> w,
           row |-> [row EXCEPT !.roles = roles, !.depositors = depositors]])

AddDepositor(r, w) ==
  /\ request[r] = Idle
  /\ row.signers[w] = 0 /\ w \notin row.depositors
  /\ Saves(r, w, WithRole(w, "deposit"), row.depositors \cup {w})
  /\ UNCHANGED <<account, fields, envelope, faults>>

MemberRole(r, w, role) ==
  /\ request[r] = Idle /\ w # Creator
  /\ role # "deposit" => row.signers[w] > 0
  /\ Saves(r, w, WithRole(w, role),
           IF role = "deposit" /\ row.signers[w] = 0 THEN row.depositors \cup {w}
           ELSE row.depositors)
  /\ UNCHANGED <<account, fields, envelope, faults>>

RemovedFromRolesNever(w) == row.roles
RemovedFromRoles(w) == WithRole(w, "none")

MemberRemove(r, w) ==
  /\ request[r] = Idle /\ w # Creator
  /\ row.signers[w] > 0 \/ w \in row.depositors
  /\ Saves(r, w, RemovedFromRoles(w), row.depositors \ {w})
  /\ UNCHANGED <<account, fields, envelope, faults>>

\* update_fields leaves the signers alone.
SaveMembers(r) ==
  /\ request[r].at = "saveMembers"
  /\ row' = SavedMembers(request[r].row)
  /\ Goes(r, Idle)
  /\ UNCHANGED <<account, limit, envelope, faults>>

SetLimit(value) ==
  /\ limit' = value
  /\ UNCHANGED <<account, row, envelope, request, faults>>

\* The worker that serves the request dies, or Horizon does not answer what it reads.
Abandon(r) ==
  /\ request[r] # Idle
  /\ Fault("worker")
  /\ Goes(r, Idle)
  /\ UNCHANGED <<account, fields, envelope>>

----------------------------------------------------------------------------
Begin(r) ==
  \/ \E ask \in Asked : AskSigner(r, ask[1], ask[2])
  \/ \E e \in Envelopes, role \in BodyRoles : SubmitSigner(r, e, role)
  \/ \E w \in Wallets : \/ \E amount \in Amounts : AskWithdrawal(r, w, amount)
                        \/ \E e \in Envelopes : SubmitWithdrawal(r, e, w)
  \/ \E w \in Edited : \/ AddDepositor(r, w) \/ MemberRemove(r, w)
                       \/ \E role \in AskedRoles : MemberRole(r, w, role)

Continue(r) ==
  \/ (\E e \in Envelopes : Build(r, e)) \/ BuildFails(r)
  \/ Validate(r) \/ Send(r) \/ SendRefused(r) \/ SendFailed(r) \/ Reread(r)
  \/ SaveConfig(r) \/ SaveMembers(r)

Step ==
  \/ \E r \in Requests :
       Begin(r) \/ Continue(r) \/ SendUnanswered(r) \/ RereadUnanswered(r) \/ Abandon(r)
  \/ \E e \in Envelopes : Discard(e) \/ \E w \in Wallets : Sign(e, w)
  \/ \E value \in Limits : SetLimit(value)

\* A submit between the answer of Horizon and the save of what it reread.
Resyncing(h) == h.at \in {"reread", "saveConfig"}

\* The ledger's signers change and nobody will save them: the answer is lost, or the
\* handler that would save them ends before; or they change under another submit, which
\* may save what it reread before.
Missed ==
  \/ faults' # faults /\ (signers' # signers
                          \/ \E r \in Requests : Resyncing(request[r]) /\ request'[r] = Idle)
  \/ signers' # signers /\ \E r \in Requests : Resyncing(request[r])

\* A submit reads the account again while no other is about to save an older reading.
RereadAlone ==
  \E r \in Requests : /\ request[r].at = "reread" /\ request'[r].at = "saveConfig"
                     /\ \A q \in Requests \ {r} : ~ Resyncing(request[q])

\* What the history variables record of a step; they restrict none.
Remembered ==
  /\ doubted' = (Missed \/ (doubted /\ ~ RereadAlone))
  /\ weakened' = (weakened \/ \E w \in Wallets \ {Creator} :
                                signers[w] >= High /\ signers'[w] \in 1..(High - 1))

Next == Step /\ Remembered

Spec == Init /\ [][Next]_vars

----------------------------------------------------------------------------
(* Properties *)

\* The creator's signature alone reaches the high threshold, whatever sets of
\* signers were asked for, checked, signed and submitted in whatever order.
\* (build_configure_signers_tx: "alcanza con su firma para cambiar el multisig".)
CreatorCanEdit == signers[Creator] >= High

\* A box whose creator does not reach the high threshold is never left without one
\* wallet that does: whatever is added, removed or made weightier, two operations that
\* were each fine when they were built do not add up.  The rules look at removals and at
\* the creator: lowering a relative who reaches the threshold below it is not refused,
\* and is the exception.
SomeoneCanEdit == weakened \/ \E w \in Wallets : signers[w] >= High

\* A withdrawal that is applied is within the stored limit, unless the limit changed
\* while its submit was running: lowering the limit revokes envelopes signed before.
LimitHolds ==
  [][\A r \in Requests :
       request[r].at = "send" /\ request[r].tx.op = "pay" /\ request'[r] = Idle
         /\ sequence' # sequence
       => request[r].tx.amount <= limit \/ request[r].limit # limit]_vars

\* Saving the edit of one wallet leaves role and membership of the others as they
\* are.  (MemberRoleView: "Cambia los permisos de una wallet ... al instante".)
OthersUntouched ==
  [][\A r \in Requests, w \in Wallets :
       request[r].at \in {"saveConfig", "saveMembers"} /\ request'[r] = Idle
         /\ w # request[r].wallet
       => row'.roles[w] = row.roles[w] /\ (w \in row'.depositors <=> w \in row.depositors)]_vars

\* With nothing in flight the row's signers are the ledger's, once a submit has read the
\* account again alone: after lost answers, dead workers and submits that overlapped, the
\* next one puts the row right, and edits of the members, withdrawals and builds at the
\* same time never put it wrong.
SnapshotFresh == (\A r \in Requests : request[r] = Idle) => row.signers = signers \/ doubted

\* The same of submits that overlap, no answer being lost: each of them reread the account
\* after its own change.  (AddSignerSubmitView: "El proximo alta/listado vuelve a
\* sincronizar contra el ledger".)
SnapshotSynced ==
  (\A r \in Requests : request[r] = Idle) /\ faults = 0 => row.signers = signers

\* Only a wallet of the box has a power in it.  (family_power: "si la wallet no
\* pertenece, None".)
PowerOnlyForMembers == \A w \in Wallets : Power(w) # "none" => Member(w)

=============================================================================
