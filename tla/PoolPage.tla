------------------------------ MODULE PoolPage ------------------------------
(***************************************************************************)
(* The page of a pool (PoolDetailPage.tsx): what it reads of the row and of *)
(* the contract, and the donation, the withdrawal and the trustline that    *)
(* its buttons start.                                                       *)
(*                                                                          *)
(* A pool is classic, donations go to its wallet, until the vault holds it; *)
(* the row says so some time after the contract does, or never.  The page   *)
(* reads the row when it loads, every fifteen seconds while it is visible,  *)
(* after a donation, and when the contract contradicts what it has.  An     *)
(* answer holds what the server had when it was asked, and they arrive in   *)
(* any order.                                                               *)
(***************************************************************************)
EXTENDS WalletSession

CONSTANTS
  Owners,       \* creator and wallet of the pool, as far as they are of this Freighter
  Wallet,       \* the pool's wallet, one of them
  Donations,    \* bound: donations begun
  MaxPolls,     \* bound: polls on their way
  MaxFailures   \* bound: answers that get lost

VARIABLES
  contract,    \* the vault holds the pool: "none", "open" or "complete"
  row,         \* pool.vault_registered in the database
  progress,    \* what the pool's wallet has received, as the server counts it
  detail,      \* the row and the progress as the page has them, or None
  vault,       \* the contract as the page has it, or None
  loading, failed,   \* the page shows that it loads; that something failed
  timer,       \* the twelve seconds of the load are running
  reads,       \* reads on their way
  asset,       \* "XLM", or "issued": one that needs a trustline
  trust,       \* donorHasTrustline
  opening,     \* openTrustline: None, or the account it opens one for
  busy, status, vaultBusy,   \* the buttons and the stepper of the donation
  donation,    \* donation[k]: its handler
  failures

page == <<detail, vault, loading, failed, timer, reads, asset, trust, opening, busy, status, vaultBusy>>
server == <<contract, row, progress>>
vars == <<server, page, donation, failures, sessionVars>>

Free == [at |-> "free"]

\* The goal is not reached; it is; not, or by XLM alone, with an asset that has no rate.
Progress == {"short", "full", "unrated", "xlm"}
Detail == [mode : {"classic", "vault"}, progress : Progress]

\* The reads of the row, of the contract and of the donor's trustlines.
ReadsRow == {"load", "poll", "reconcile", "donation"}
Reasons == ReadsRow \cup {"pollVault", "vault", "refresh", "check", "trust"}
Trustline == {"yes", "no"}
Reads == [for : Reasons, got : {"nothing", "classic", "open", "complete"} \cup Trustline,
          progress : Progress \cup {None}]

\* What the page, its handlers, the row and the contract may hold.
TypeOK ==
  /\ SessionTypeOK
  /\ contract \in {"none", "open", "complete"} /\ row \in BOOLEAN /\ progress \in Progress
  /\ detail \in Detail \cup {None} /\ vault \in {None, "open", "complete"}
  /\ {loading, failed, timer, busy} \subseteq BOOLEAN
  /\ vaultBusy \in {"idle", "sending", "refreshing"}
  /\ reads \subseteq Reads
  /\ asset \in {"XLM", "issued"} /\ trust \in {None} \cup Trustline
  /\ opening \in Accounts \cup {None}
  /\ status \in {"idle", "building", "signing", "submitting", "ok"}
  /\ \A k \in Donations : donation[k] = Free \/
       /\ donation[k].at \in {"building", "signing", "submitting", "refetching", "done", "refused",
                              "stopped"}
       /\ donation[k].key \in Accounts /\ donation[k].mode \in {"classic", "vault"}
       /\ {donation[k].paid, donation[k].lost} \subseteq BOOLEAN
  /\ failures \in 0..MaxFailures

buttons == <<asset, opening, busy, status, vaultBusy, donation>>

----------------------------------------------------------------------------
(* The row and the contract *)

Registers ==
  /\ contract = "none" /\ contract' = "open"
  /\ UNCHANGED <<row, progress, page, donation, failures, sessionVars>>
Completes ==
  /\ contract = "open" /\ contract' = "complete"
  /\ UNCHANGED <<row, progress, page, donation, failures, sessionVars>>
RowLearns ==
  /\ contract # "none" /\ ~ row /\ row' = TRUE
  /\ UNCHANGED <<contract, progress, page, donation, failures, sessionVars>>

\* Payments to the wallet, of anyone: more of what counts, or the first of an asset that has
\* no rate, after which nothing is the equivalent of the goal any more.
Then == [short |-> {"full", "unrated"}, full |-> {"unrated", "xlm"}, unrated |-> {"xlm"}, xlm |-> {}]
Receives ==
  /\ progress' \in Then[progress]
  /\ UNCHANGED <<contract, row, page, donation, failures, sessionVars>>

----------------------------------------------------------------------------
(* Reads *)

Ask(for) == [for |-> for, got |-> "nothing", progress |-> None]

\* A read that its effect's cleanup cancels does nothing when it arrives.
Cancels(r, reasons) == {x \in r : x.for \notin reasons}

\* The server answers with what it has now: the row, or the contract's state; Horizon, with
\* what the account trusts.
Serve(r) ==
  /\ r.got = "nothing"
  /\ \E got \in IF r.for \in ReadsRow THEN {IF row THEN "open" ELSE "classic"}
                ELSE IF r.for = "trust" THEN Trustline
                ELSE {IF contract = "none" THEN "classic" ELSE contract} :
       reads' = (reads \ {r}) \cup
         {[for |-> r.for, got |-> got, progress |-> IF r.for \in ReadsRow THEN progress ELSE None]}
  /\ UNCHANGED <<server, detail, vault, loading, failed, timer, trust, buttons, failures, sessionVars>>

Mode(d) == IF d = None THEN "none" ELSE d.mode
SelfDonation(key, d) == d # None /\ key \in Owners

\* The donor's trustline is read for an asset that needs one, when the account, the asset or
\* whether it is the donor's own pool changed; the answer to the former question is dropped.
Asks(key, a, d) == key # None /\ a # "XLM" /\ ~ SelfDonation(key, d)
TrustReads(moved, asks, r) ==
  IF ~ moved THEN r ELSE Cancels(r, {"trust"}) \cup (IF asks THEN {Ask("trust")} ELSE {})
TrustThen(moved, asks) == IF moved /\ ~ asks THEN None ELSE trust

\* setDetail.  Its effects follow: another mode cancels the poll and reads the contract, or
\* forgets it; and a classic pool is checked against the contract, whenever it is read.
Check(d, r) == IF Mode(d) = "classic" THEN r \cup {Ask("check")} ELSE r

ModeReads(moved) == IF moved THEN {"poll", "pollVault", "vault"} ELSE {}

SetDetail(d, r) ==
  LET moved == (Mode(d) = "vault") # (Mode(detail) = "vault")
      owns == SelfDonation(publicKey, d) # SelfDonation(publicKey, detail)
      asks == Asks(publicKey, asset, d)
      kept == TrustReads(owns, asks, Cancels(r, {"check"} \cup ModeReads(moved)))
  IN
    /\ detail' = d
    /\ reads' = Check(d, kept \cup (IF moved /\ Mode(d) = "vault" THEN {Ask("vault")} ELSE {}))
    /\ vault' = IF moved /\ Mode(d) # "vault" THEN None ELSE vault
    /\ trust' = TrustThen(owns, asks)

\* What an answer says of the row, and of the contract.
Row(r) == [mode |-> IF r.got = "classic" THEN "classic" ELSE "vault", progress |-> r.progress]
State(r) == IF r.got = "classic" THEN None ELSE r.got

\* The load ends, and with it its timer; the error that the timer showed stays.
LoadArrives(r) ==
  /\ r.for = "load" /\ r.got # "nothing"
  /\ SetDetail(Row(r), reads \ {r})
  /\ loading' = FALSE /\ timer' = FALSE
  /\ UNCHANGED <<server, failed, buttons, failures, sessionVars>>

LoadFails(r) ==
  /\ r.for = "load"
  /\ failures < MaxFailures /\ failures' = failures + 1
  /\ SetDetail(None, reads \ {r})
  /\ loading' = FALSE /\ failed' = TRUE
  /\ UNCHANGED <<server, timer, buttons, sessionVars>>

TimerFires ==
  /\ timer /\ timer' = FALSE
  /\ failed' = TRUE /\ loading' = FALSE
  /\ UNCHANGED <<server, detail, vault, reads, trust, buttons, failures, sessionVars>>

\* "Reintentar"
Retry ==
  /\ ~ loading /\ (failed \/ detail = None)
  /\ reads' = Cancels(reads, {"load"}) \cup {Ask("load")}
  /\ loading' = TRUE /\ failed' = FALSE /\ timer' = TRUE
  /\ UNCHANGED <<server, detail, vault, trust, buttons, failures, sessionVars>>

\* The interval, while the page is visible; it does not wait for the former poll.
PollsVaultOnly == Mode(detail) = "vault"
Polls == TRUE

Poll ==
  /\ Polls /\ Cardinality({r \in reads : r.for = "poll"}) < MaxPolls
  /\ Ask("poll") \notin reads
  /\ reads' = reads \cup {Ask("poll")}
  /\ UNCHANGED <<server, detail, vault, loading, failed, timer, trust, buttons, failures, sessionVars>>

\* After the row, the poll of a registered pool reads the contract.
PollArrives(r) ==
  /\ r.for = "poll" /\ r.got # "nothing"
  /\ SetDetail(Row(r), (reads \ {r}) \cup
                        (IF Mode(detail) = "vault" THEN {Ask("pollVault")} ELSE {}))
  /\ UNCHANGED <<server, loading, failed, timer, buttons, failures, sessionVars>>

VaultArrives(r) ==
  /\ r.for \in {"vault", "pollVault", "refresh"} /\ r.got # "nothing"
  /\ reads' = reads \ {r}
  /\ vault' = State(r)
  /\ UNCHANGED <<server, detail, loading, failed, timer, trust, buttons, failures, sessionVars>>

\* Nothing is known of the trustlines of an account that Horizon does not answer for.
TrustArrives(r) ==
  /\ r.for = "trust" /\ r.got # "nothing"
  /\ reads' = reads \ {r} /\ trust' = r.got
  /\ UNCHANGED <<server, detail, vault, loading, failed, timer, buttons, failures, sessionVars>>

\* The contract has the pool and the row did not: the row is read again.
CheckArrives(r) ==
  /\ r.for = "check" /\ r.got # "nothing"
  /\ reads' = (reads \ {r}) \cup
       (IF r.got # "classic" THEN {Ask("reconcile")} ELSE {})
  /\ UNCHANGED <<server, detail, vault, loading, failed, timer, trust, buttons, failures, sessionVars>>

\* Nothing cancels this one.
ReconcileArrives(r) ==
  /\ r.for = "reconcile" /\ r.got # "nothing"
  /\ SetDetail(Row(r), reads \ {r})
  /\ UNCHANGED <<server, loading, failed, timer, buttons, failures, sessionVars>>

\* Another read that fails: the contract's is forgotten, unless a poll asked for it; and the
\* poll goes on to it without its row.
ReadFails(r) ==
  /\ r.for \notin {"load", "donation"}
  /\ failures < MaxFailures /\ failures' = failures + 1
  /\ reads' = (reads \ {r}) \cup
       (IF r.for = "poll" /\ Mode(detail) = "vault" THEN {Ask("pollVault")} ELSE {})
  /\ vault' = IF r.for \in {"vault", "refresh"} THEN None ELSE vault
  /\ trust' = IF r.for = "trust" THEN None ELSE trust
  /\ UNCHANGED <<server, detail, loading, failed, timer, buttons, sessionVars>>

----------------------------------------------------------------------------
(* The buttons *)

Visible == ~ loading /\ ~ failed /\ detail # None
\* The contract says so, or the server, or what the wallet has in XLM where nothing better
\* is known: no equivalent, and no state of the contract.
Completed ==
  \/ vault = "complete"
  \/ detail.progress = "full"
  \/ detail.progress = "xlm" /\ ~ (detail.mode = "vault" /\ vault # None)

\* The tab of the donation is there, and no handler holds its buttons.
MayDonate == Visible /\ publicKey # None /\ ~ SelfDonation(publicKey, detail) /\ ~ Completed /\ ~ busy

\* The asset chosen, from an issued one to another too.
ChooseAsset ==
  /\ Visible
  /\ asset' \in IF asset = "XLM" THEN {"issued"} ELSE {"XLM", "issued"}
  /\ LET asks == Asks(publicKey, asset', detail) IN
       reads' = TrustReads(TRUE, asks, reads) /\ trust' = TrustThen(TRUE, asks)
  /\ UNCHANGED <<server, detail, vault, loading, failed, timer, opening, busy, status, vaultBusy,
                 donation, failures, sessionVars>>

\* depositFromFreighter, when the amount is one.  Without the trustline it shows an error,
\* and the stepper stays where it was put.
Deposit(k) ==
  /\ MayDonate
  /\ donation[k] = Free /\ \A j \in Donations : j < k => donation[j] # Free
  /\ status' = "building"
  /\ LET refused == asset = "issued" /\ trust = "no" IN
       /\ failed' = refused /\ busy' = ~ refused
       /\ donation' = [donation EXCEPT ![k] =
            [at |-> IF refused THEN "refused" ELSE "building", key |-> publicKey, mode |-> detail.mode,
             paid |-> FALSE, lost |-> FALSE]]
  /\ UNCHANGED <<server, detail, vault, loading, timer, reads, asset, trust, opening, vaultBusy,
                 failures, sessionVars>>

\* A form that does not pass its checks replaces the page by its error.
Refuse ==
  /\ MayDonate
  /\ failed' = TRUE
  /\ UNCHANGED <<server, detail, vault, loading, timer, reads, trust, buttons, failures, sessionVars>>

Steps(k, from, to) ==
  /\ donation[k].at = from
  /\ donation' = [donation EXCEPT ![k].at = to]
  /\ status' = to
  /\ UNCHANGED <<server, detail, vault, loading, failed, timer, reads, asset, trust, opening, busy,
                 vaultBusy, failures, sessionVars>>

\* The vault takes a donation while the pool is open; a wallet always does.
Accepts(k) == donation[k].mode = "classic" \/ contract = "open"

Paid(k) ==
  /\ donation[k].at = "submitting" /\ Accepts(k)
  /\ donation' = [donation EXCEPT ![k] = [donation[k] EXCEPT !.at = "refetching", !.paid = TRUE]]
  /\ status' = "ok"
  /\ reads' = reads \cup {Ask("donation")}
  /\ UNCHANGED <<server, detail, vault, loading, failed, timer, asset, trust, opening, busy, vaultBusy,
                 failures, sessionVars>>

\* After the payment the row is read once more, and then the contract and the balances.
Refetched(k) ==
  /\ donation[k].at = "refetching"
  /\ \E r \in reads :
       /\ r.for = "donation" /\ r.got # "nothing"
       /\ SetDetail(Row(r), (reads \ {r}) \cup
                             (IF donation[k].mode = "vault" THEN {Ask("refresh")} ELSE {}))
  /\ IF donation[k].mode = "vault" THEN Refresh(donation[k].key) ELSE UNCHANGED asking
  /\ donation' = [donation EXCEPT ![k].at = "done"]
  /\ busy' = FALSE
  /\ UNCHANGED <<server, loading, failed, timer, asset, opening, status, vaultBusy, failures, active,
                 publicKey, stored, available, connecting, lookups, balances, switches, reloads>>

\* The catch: nothing built, a signature refused, the pool complete; or an answer that does
\* not arrive, of the payment or of the row after it.
AfterErrorStays == status
AfterError == "idle"

DonationFails(k) ==
  /\ donation[k].at \in {"building", "signing", "submitting", "refetching"}
  /\ \/ donation[k].at # "refetching"
        /\ donation' = [donation EXCEPT ![k].at = "done"]
        /\ UNCHANGED <<reads, failures>>
     \/ /\ donation[k].at \in {"submitting", "refetching"}
        /\ failures < MaxFailures /\ failures' = failures + 1
        /\ \E paid \in {donation[k].paid, Accepts(k)} :
             donation' = [donation EXCEPT ![k] =
               [donation[k] EXCEPT !.at = "done", !.lost = TRUE,
                                   !.paid = donation[k].paid \/ paid]]
        /\ reads' = {r \in reads : r.for # "donation"}
  /\ status' = AfterError /\ failed' = TRUE /\ busy' = FALSE
  /\ UNCHANGED <<server, detail, vault, loading, timer, asset, trust, opening, vaultBusy, sessionVars>>

\* openTrustline, the donor's; the pool's wallet does not see the button's tab.  Nothing of
\* the page changes between its beginning and its end: what it builds, has signed and
\* submits holds the buttons, while the asset and the account may become others.
OpenTrustline ==
  /\ MayDonate /\ asset = "issued" /\ trust = "no"
  /\ opening' = publicKey /\ busy' = TRUE /\ failed' = FALSE
  /\ UNCHANGED <<server, detail, vault, loading, timer, reads, asset, trust, status, vaultBusy,
                 donation, failures, sessionVars>>

TrustlineOpen ==
  /\ opening # None /\ opening' = None /\ busy' = FALSE
  /\ trust' = "yes" /\ Refresh(opening)
  /\ UNCHANGED <<server, detail, vault, loading, failed, timer, reads, asset, status, vaultBusy,
                 donation, failures, active, publicKey, stored, available, connecting, lookups,
                 balances, switches, reloads>>

\* Nothing built, a signature refused, no answer.
TrustlineFails ==
  /\ opening # None /\ opening' = None /\ busy' = FALSE
  /\ failed' = TRUE
  /\ UNCHANGED <<server, detail, vault, loading, timer, reads, asset, trust, status, vaultBusy,
                 donation, failures, sessionVars>>

\* The tab of the withdrawal is there, and no withdrawal runs.
MayWithdraw == Visible /\ publicKey = Wallet /\ Mode(detail) = "vault" /\ vaultBusy = "idle"

\* withdrawFromVault, of the pool's wallet, beside whatever else runs.
Withdraw ==
  /\ MayWithdraw
  /\ vaultBusy' = "sending"
  /\ UNCHANGED <<server, detail, vault, loading, failed, timer, reads, asset, trust, opening, busy,
                 status, donation, failures, sessionVars>>

\* Confirmed, it reads the contract before its button is enabled again.
Withdrawn ==
  /\ vaultBusy = "sending" /\ vaultBusy' = "refreshing"
  /\ reads' = reads \cup {Ask("refresh")}
  /\ UNCHANGED <<server, detail, vault, loading, failed, timer, asset, trust, opening, busy, status,
                 donation, failures, sessionVars>>

WithdrawEnds ==
  /\ vaultBusy' = "idle"
  /\ \/ vaultBusy = "sending" /\ UNCHANGED asking
     \/ vaultBusy = "refreshing" /\ (\A r \in reads : r.for # "refresh") /\ Refresh(Wallet)
  /\ UNCHANGED <<server, detail, vault, loading, failed, timer, reads, asset, trust, opening, busy,
                 status, donation, failures, active, publicKey, stored, available, connecting, lookups,
                 balances, switches, reloads>>

----------------------------------------------------------------------------
(* The session *)

\* The page stays; what the account of the donor trusts is read.
SessionMoves ==
  /\ Stays
  /\ LET moved == publicKey' # publicKey
         asks == Asks(publicKey', asset, detail)
     IN  reads' = TrustReads(moved, asks, reads) /\ trust' = TrustThen(moved, asks)
  /\ UNCHANGED <<server, detail, vault, loading, failed, timer, buttons, failures>>

\* A page mounted anew; handlers of the former one, if any go on, have nothing to show.
PageReloads ==
  /\ Reload \/ Revisit
  /\ detail' = None /\ vault' = None /\ loading' = TRUE /\ failed' = FALSE /\ timer' = TRUE
  /\ reads' = {Ask("load")} /\ asset' = "XLM" /\ trust' = None
  /\ opening' = None /\ busy' = FALSE /\ status' = "idle" /\ vaultBusy' = "idle"
  /\ donation' = [k \in Donations |-> IF donation[k] = Free THEN Free
                                      ELSE [donation[k] EXCEPT !.at = "stopped"]]
  /\ UNCHANGED <<server, failures>>

Init ==
  /\ SessionInit
  /\ contract \in {"none", "open", "complete"}
  /\ row \in IF contract = "none" THEN {FALSE} ELSE BOOLEAN
  /\ progress \in Progress
  /\ detail = None /\ vault = None /\ loading = TRUE /\ failed = FALSE /\ timer = TRUE
  /\ reads = {Ask("load")} /\ asset = "XLM" /\ trust = None
  /\ opening = None /\ busy = FALSE /\ status = "idle" /\ vaultBusy = "idle"
  /\ donation = [k \in Donations |-> Free]
  /\ failures = 0

Arrives(r) ==
  \/ LoadArrives(r) \/ PollArrives(r) \/ VaultArrives(r) \/ TrustArrives(r)
  \/ CheckArrives(r) \/ ReconcileArrives(r)

Next ==
  \/ Registers \/ Completes \/ RowLearns \/ Receives
  \/ \E r \in reads : Serve(r) \/ Arrives(r) \/ LoadFails(r) \/ ReadFails(r)
  \/ TimerFires \/ Retry \/ Poll
  \/ ChooseAsset \/ Refuse \/ OpenTrustline \/ TrustlineOpen \/ TrustlineFails
  \/ Withdraw \/ Withdrawn \/ WithdrawEnds
  \/ \E k \in Donations :
       \/ Deposit(k) \/ Steps(k, "building", "signing") \/ Steps(k, "signing", "submitting")
       \/ Paid(k) \/ Refetched(k) \/ DonationFails(k)
  \/ SessionMoves \/ PageReloads

Spec == Init /\ [][Next]_vars

\* The server answers a poll; of the other reads nothing is assumed.
Answered ==
  /\ WF_vars(\E r \in reads : r.for = "poll" /\ Serve(r))
  /\ WF_vars(\E r \in reads : r.for = "poll" /\ PollArrives(r))

----------------------------------------------------------------------------
(* Properties *)

\* Once the row says for good that the vault has the pool, so does a page that is visible
\* again and again, where Poll is fair: an answer that left before the row changed may
\* arrive last, but a later one always follows.
\* (PoolDetailPage.tsx 155-198, 250-269.)
ModeSettles == <>[]row => <>[](Mode(detail) # "classic")

\* The stepper tells the donation's fate: in progress while its handler runs, confirmed if it
\* was paid, back at the start if it was not.  Exceptions: a donor without the trustline
\* leaves it in progress, and an answer lost after the payment shows an error.
\* (PoolDetailPage.tsx 489-501, 517-524, 560-566.)
StepperHonest ==
  LET last(k) == donation[k] # Free /\ \A j \in Donations : donation[j] # Free => j <= k IN
    \A k \in Donations : last(k) /\ donation[k].at # "stopped" =>
      /\ status \in {"building", "signing", "submitting"} => donation[k].at \notin {"done", "refetching"}
      /\ status = "ok" => donation[k].paid
      /\ status = "idle" /\ donation[k].paid => donation[k].lost

=============================================================================
