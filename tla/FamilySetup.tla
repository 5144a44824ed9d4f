---------------------------- MODULE FamilySetup ----------------------------
(***************************************************************************)
(* How a family box is born: CreateFamilyForm (FamilyPoolPage.tsx), the     *)
(* three endpoints of its setup and the two transactions between them.      *)
(*                                                                          *)
(* The box's key pair is made in the page and lives in the handler's        *)
(* memory only.  CreateAccount is signed by the creator's Freighter,        *)
(* SetOptions by the key of the box, which gives the box to its signers and *)
(* retires the key; then the backend reads the account again and lists it.  *)
(* Any step may fail, and the handler goes on when its form is gone.        *)
(***************************************************************************)
EXTENDS WalletSession, FiniteSetsExt

CONSTANTS
  Boxes,        \* bound: key pairs generated
  Relatives,    \* wallets that may be added to the form
  MaxFailures   \* bound: answers that get lost

VARIABLES
  extra,       \* extraMembers of the form: a power for some relatives
  creation,    \* creation[b]: the handler that holds the key of b
  current,     \* the creation that the form shows, if any
  account,     \* account[b]: the box on the ledger
  listed,      \* listed[b]: the box's row
  failures

vars == <<extra, creation, current, account, listed, failures, sessionVars>>

Powers == {"deposit", "withdraw", "deposit-withdraw"}
People == Accounts \cup Relatives
Absent == [exists |-> FALSE]
Unlisted == [creator |-> None]
Free == [at |-> "free"]

Steps == {"building", "signing", "sending", "configuring", "reconfiguring", "sendingConfig",
          "confirming", "reconfirming", "done", "error", "gone"}

\* What the form, the handlers, the ledger and the rows may hold.
TypeOK ==
  /\ SessionTypeOK
  /\ DOMAIN extra \subseteq People /\ \A m \in DOMAIN extra : extra[m] \in Powers
  /\ \A b \in Boxes :
       /\ creation[b] = Free \/ creation[b].at \in Steps
       /\ account[b] = Absent \/
            /\ account[b].master \in {0, 1} /\ account[b].extra \in Nat
            /\ account[b].high \in Nat /\ account[b].med \in Nat
       /\ listed[b] = Unlisted \/ listed[b].creator \in Accounts
  /\ current \in Boxes \cup {None}
  /\ failures \in 0..MaxFailures

Goes(b, at) == creation' = [creation EXCEPT ![b].at = at]
Failure == failures < MaxFailures /\ failures' = failures + 1
Running(b) == creation[b].at \notin {"free", "done", "error", "gone"}

----------------------------------------------------------------------------
(* The form *)

Busy == current # None /\ Running(current)

\* addMember: a wallet that is on the list already is refused, the creator's too.
AddMember(m, power) ==
  /\ publicKey # None
  /\ m # publicKey /\ m \notin DOMAIN extra
  /\ extra' = [x \in DOMAIN extra \cup {m} |-> IF x = m THEN power ELSE extra[x]]
  /\ UNCHANGED <<creation, current, account, listed, failures, sessionVars>>

\* Who signs, and with what weight: the creator's signature alone changes signers.
WeightOfEquals(m, creator) == 1
WeightOf(m, creator) == IF m = creator THEN 2 ELSE 1
Signers(creator, powers) ==
  LET members == {m \in DOMAIN powers : powers[m] # "deposit"} \cup {creator}
  IN  [m \in members |-> WeightOf(m, creator)]

\* createPool
Begin(b) ==
  /\ publicKey # None /\ ~ Busy
  /\ creation[b] = Free
  /\ creation' = [creation EXCEPT ![b] =
       [at |-> "building", creator |-> publicKey, powers |-> extra]]
  /\ current' = b
  /\ UNCHANGED <<extra, account, listed, failures, sessionVars>>

----------------------------------------------------------------------------
(* CreateAccount *)

\* What the account gets beyond the minimum that its signers make necessary.
ExtraStartingBalanceOne == 1
ExtraStartingBalance == 0

BuildCreate(b) ==
  /\ creation[b].at = "building"
  /\ Goes(b, "signing")
  /\ UNCHANGED <<extra, current, account, listed, failures, sessionVars>>

SignCreate(b) ==
  /\ creation[b].at = "signing" /\ active = creation[b].creator
  /\ Goes(b, "sending")
  /\ UNCHANGED <<extra, current, account, listed, failures, sessionVars>>

\* Horizon down, creator without funds, another account active, signature refused, or
\* a transaction that the network rejects: the key is dropped with the handler.
GivesUp(b) ==
  /\ Running(b)
  /\ creation[b].at \notin {"sendingConfig", "confirming", "reconfirming"}
  /\ Goes(b, "error")
  /\ UNCHANGED <<extra, current, account, listed, failures, sessionVars>>

Created(b) ==
  [account EXCEPT ![b] = [exists |-> TRUE, master |-> 1, signers |-> <<>>, med |-> 0, high |-> 0,
                          extra |-> ExtraStartingBalance]]

CreateApplied(b) ==
  /\ creation[b].at = "sending"
  /\ account' = Created(b)
  /\ Goes(b, "configuring")
  /\ UNCHANGED <<extra, current, listed, failures, sessionVars>>

\* The account is created and the answer does not arrive.
CreateAnswerLost(b) ==
  /\ creation[b].at = "sending"
  /\ Failure
  /\ account' = Created(b)
  /\ Goes(b, "error")
  /\ UNCHANGED <<extra, current, listed, sessionVars>>

----------------------------------------------------------------------------
(* SetOptions, signed with the key of the box *)

\* retryNotFound: a Horizon that lags answers 404; one more try, two seconds later.
AfterNotFound(at, again) == IF at = again THEN "error" ELSE again

ConfigureNotFound(b) ==
  /\ creation[b].at \in {"configuring", "reconfiguring"}
  /\ Goes(b, AfterNotFound(creation[b].at, "reconfiguring"))
  /\ UNCHANGED <<extra, current, account, listed, failures, sessionVars>>

BuildConfigure(b) ==
  /\ creation[b].at \in {"configuring", "reconfiguring"}
  /\ Goes(b, "sendingConfig")
  /\ UNCHANGED <<extra, current, account, listed, failures, sessionVars>>

\* build_configure_signers_tx: low = med = 1, high = the heaviest signer, no master key.
Configured(b) ==
  LET signers == Signers(creation[b].creator, creation[b].powers) IN
    [account EXCEPT ![b] =
       [account[b] EXCEPT !.master = 0, !.signers = signers, !.med = 1,
                          !.high = Max({signers[m] : m \in DOMAIN signers})]]

ConfigureApplied(b) ==
  /\ creation[b].at = "sendingConfig"
  /\ account' = Configured(b)
  /\ Goes(b, "confirming")
  /\ UNCHANGED <<extra, current, listed, failures, sessionVars>>

\* Rejected by the network, or lost on the way there or back.
ConfigureFails(b) ==
  /\ creation[b].at = "sendingConfig"
  /\ Failure
  /\ account' \in {account, Configured(b)}
  /\ Goes(b, "error")
  /\ UNCHANGED <<extra, current, listed, sessionVars>>

----------------------------------------------------------------------------
(* ConfirmPoolSetupView *)

\* confirm_pool_setup reads what Horizon has.
Governed(b) ==
  /\ account[b] # Absent
  /\ account[b].master = 0 /\ account[b].signers # <<>> /\ account[b].med >= 1

Row(b) == [listed EXCEPT ![b] = [creator |-> creation[b].creator, powers |-> creation[b].powers]]

Confirmed(b) ==
  /\ creation[b].at \in {"confirming", "reconfirming"} /\ Governed(b)
  /\ listed' = Row(b)
  /\ Goes(b, "done")
  /\ UNCHANGED <<extra, current, account, failures, sessionVars>>

ConfirmNotFound(b) ==
  /\ creation[b].at \in {"confirming", "reconfirming"}
  /\ Goes(b, AfterNotFound(creation[b].at, "reconfirming"))
  /\ UNCHANGED <<extra, current, account, listed, failures, sessionVars>>

\* A Horizon that still shows the master key (422), the database or the network down,
\* or an answer that takes more than twenty seconds: the row may exist.
ConfirmFails(b) ==
  /\ creation[b].at \in {"confirming", "reconfirming"}
  /\ Failure
  /\ listed' \in {listed, Row(b)}
  /\ Goes(b, "error")
  /\ UNCHANGED <<extra, current, account, sessionVars>>

\* Nobody learns the box's address before it is listed.
Deposit(b) ==
  /\ listed[b] # Unlisted /\ account[b].extra = 0
  /\ account' = [account EXCEPT ![b].extra = 1]
  /\ UNCHANGED <<extra, creation, current, listed, failures, sessionVars>>

----------------------------------------------------------------------------
(* The session *)

\* A tab, or "Cancelar", where the family has other boxes; or another page.
Leave ==
  /\ publicKey # None
  /\ extra' = <<>> /\ current' = None
  /\ UNCHANGED <<creation, account, listed, failures, sessionVars>>

\* The page loads the boxes of another key, or asks to connect: the form goes, its
\* handler stays.
SessionMoves ==
  /\ Stays
  /\ IF publicKey' # publicKey THEN extra' = <<>> /\ current' = None
                               ELSE UNCHANGED <<extra, current>>
  /\ UNCHANGED <<creation, account, listed, failures>>

\* A reload takes the handlers and their keys.
PageReloads ==
  /\ Reload
  /\ extra' = <<>> /\ current' = None
  /\ creation' = [b \in Boxes |-> IF Running(b) THEN [creation[b] EXCEPT !.at = "gone"]
                                                ELSE creation[b]]
  /\ UNCHANGED <<account, listed, failures>>

Init ==
  /\ SessionInit
  /\ extra = <<>> /\ current = None
  /\ creation = [b \in Boxes |-> Free]
  /\ account = [b \in Boxes |-> Absent]
  /\ listed = [b \in Boxes |-> Unlisted]
  /\ failures = 0

Progress(b) ==
  \/ BuildCreate(b) \/ SignCreate(b) \/ GivesUp(b) \/ CreateApplied(b) \/ CreateAnswerLost(b)
  \/ ConfigureNotFound(b) \/ BuildConfigure(b) \/ ConfigureApplied(b) \/ ConfigureFails(b)
  \/ Confirmed(b) \/ ConfirmNotFound(b) \/ ConfirmFails(b)

Next ==
  \/ Leave \/ \E m \in People, power \in Powers : AddMember(m, power)
  \/ \E b \in Boxes : Begin(b) \/ Progress(b) \/ Deposit(b)
  \/ SessionMoves \/ PageReloads

Spec == Init /\ [][Next]_vars

----------------------------------------------------------------------------
(* Properties *)

\* A box that the family can see is the family's: its creation key signs nothing, the
\* creator alone changes its signers and nobody else does, and everybody who may
\* withdraw reaches the threshold of a payment.  (FamilyPoolPage.tsx 414-416.)
ListedIsGoverned ==
  \A b \in Boxes : listed[b] # Unlisted =>
    /\ account[b].master = 0
    /\ \A m \in DOMAIN account[b].signers :
         /\ account[b].signers[m] >= account[b].med
         /\ account[b].signers[m] >= account[b].high <=> m = listed[b].creator

\* A creation that stops half-way, with its key gone, costs the reserve of the account
\* and no more: money is only ever in boxes that the creator governs.
\* (FamilyPoolPage.tsx 433-491.)
StrandsOnlyReserve ==
  \A b \in Boxes : account[b] # Absent /\ account[b].extra > 0 => Governed(b)

\* Both: whatever is lost on the way, who sees a box, or has money in it, has one that its
\* creator governs.
BoxesGoverned == ListedIsGoverned /\ StrandsOnlyReserve

=============================================================================
