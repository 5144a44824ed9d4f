------------------------------ MODULE SendPage ------------------------------
(***************************************************************************)
(* The send page (SendPage.tsx) over horizon.ts: a form whose quote is      *)
(* fetched as it is typed, and the attempts to pay that its button starts:  *)
(* build, sign in Freighter, submit, save the note.                         *)
(*                                                                          *)
(* An attempt goes on when its form is gone: the wallet gate replaces the   *)
(* form when the session closes, and the asynchronous handler still runs.   *)
(* The form shows the attempt it started, if any.                           *)
(***************************************************************************)
EXTENDS WalletSession

CONSTANTS
  Attempts,      \* bound: attempts to pay
  Amounts,       \* amounts typed; 0 stands for text that is no amount
  Pairs,         \* pairs of assets chosen: what is sent, what is received
  Native,        \* XLM, one of them
  Destinations,  \* kinds of destination typed
  MaxQuotes,     \* bound: quotes on their way
  MaxSequence,   \* bound: an account's sequence number
  MaxFailures    \* bound: answers of Horizon that get lost

VARIABLES
  form,        \* what the form holds
  quotes,      \* what quotes are asked for, behind the debounce or on their way
  quote,       \* the quote shown, by what it was asked for
  quoteLoading, quoteError,
  attempt,     \* attempt[k]: the handler of an attempt, its transaction and its fate
  current,     \* the attempt the form shows
  sequence,    \* sequence number of each account
  failures

page == <<form, quotes, quote, quoteLoading, quoteError, attempt, current>>
vars == <<page, sequence, failures, sessionVars>>

\* What a quote is asked for.
Asks == [amount : Amounts \ {0}, pair : Pairs]
Free == [at |-> "free"]
Unquoted == [amount |-> 0, pair |-> {}]

Stages == {"building", "signing", "submitting", "noting", "ok", "error", "stopped"}
Fates == {"none", "built", "signed", "pending", "applied", "failed", "dead"}

\* What the page, its attempts and the ledger may hold.
TypeOK ==
  /\ SessionTypeOK
  /\ form \in [amount : Amounts, pair : Pairs]
  /\ quotes \subseteq Asks
  /\ quote \in Asks \cup {Unquoted}
  /\ quoteLoading \in BOOLEAN /\ quoteError \in BOOLEAN
  /\ attempt \in [Attempts -> {Free} \cup
       [at : Stages, source : Accounts, payable : BOOLEAN, fate : Fates, sequence : Nat,
        open : SUBSET Attempts]]
  /\ current \in Attempts \cup {None}
  /\ sequence \in [Accounts -> Nat]
  /\ failures \in 0..MaxFailures

----------------------------------------------------------------------------
(* The form and its quote *)

CrossAsset(f) == f.pair.send # f.pair.dest
AmountValid(f) == f.amount # 0
Quotable(f) == CrossAsset(f) /\ AmountValid(f)

\* The cleanup of the quote effect: the answers still to come are cancelled, and do
\* nothing when they arrive.
CancelledNone(q) == q
Cancelled(q) == {}

\* The quote effect, which runs when the amount or one of the assets has changed.  The
\* quote shown stays until the new one arrives.
QuoteEffect(f) ==
  /\ quotes' = Cancelled(quotes) \cup
       (IF Quotable(f) THEN {f} ELSE {})
  /\ quoteLoading' = Quotable(f)
  /\ IF Quotable(f) THEN UNCHANGED <<quote, quoteError>>
                    ELSE quote' = Unquoted /\ quoteError' = FALSE

\* The fields stay open while an attempt runs; the destination and the note are read
\* only when it begins.
Type ==
  /\ publicKey # None
  /\ Cardinality(quotes) < MaxQuotes
  /\ \E a \in Amounts, p \in Pairs :
       LET f == [amount |-> a, pair |-> p] IN f # form /\ form' = f /\ QuoteEffect(f)
  /\ UNCHANGED <<attempt, current, sequence, failures, sessionVars>>

\* getQuote answers, or fails: no rate, no answer.
QuoteArrives(r) ==
  /\ quotes' = quotes \ {r}
  /\ \/ quote' = r /\ quoteError' = FALSE
     \/ quote' = Unquoted /\ quoteError' = TRUE
  /\ quoteLoading' = FALSE
  /\ UNCHANGED <<form, attempt, current, sequence, failures, sessionVars>>

----------------------------------------------------------------------------
(* An attempt to pay *)

\* busy: only the attempt of this form keeps its button disabled.
Busy == current # None /\ attempt[current].at \notin {"ok", "error"}
SubmitDisabled == Busy \/ (CrossAsset(form) /\ (quoteLoading \/ quoteError))

Goes(k, at) == attempt' = [attempt EXCEPT ![k].at = at]

\* Attempts of the same account whose fate nobody knows yet.
Undecided(a) ==
  {j \in Attempts : attempt[j] # Free /\ attempt[j].source = a
                      /\ attempt[j].fate \in {"built", "signed", "pending"}}

\* buildPaymentXdr: CreateAccount, a payment or a path payment, if the destination
\* can be paid so.  "none" is no public key, "new" an account that does not exist yet,
\* "open" one without trustlines, "trusting" one that holds every asset.
Payable(f, to) ==
  /\ f.pair.dest # Native => to = "trusting"
  /\ to = "new" => f.pair.send = Native /\ f.pair.dest = Native

\* onSubmit: a form that does not pass its checks only shows an error.
Submit(k, to) ==
  /\ publicKey # None /\ ~ SubmitDisabled
  /\ attempt[k] = Free
  /\ to # "none" /\ AmountValid(form)
  /\ CrossAsset(form) => quote # Unquoted
  /\ attempt' = [attempt EXCEPT ![k] =
       [at |-> "building", source |-> publicKey, payable |-> Payable(form, to),
        fate |-> "none", sequence |-> 0, open |-> {}]]
  /\ current' = k
  /\ UNCHANGED <<form, quotes, quote, quoteLoading, quoteError, sequence, failures, sessionVars>>

\* The number that follows the account's, as Horizon gives it now.
NumberAfterLast(a) == 1 + Cardinality({j \in Attempts : attempt[j] # Free /\ attempt[j].sequence > 0})
Number(a) == sequence[a] + 1

Build(k) ==
  LET a == attempt[k] IN
    /\ a.at = "building" /\ a.payable
    /\ attempt' = [attempt EXCEPT ![k] =
         [a EXCEPT !.at = "signing", !.fate = "built", !.sequence = Number(a.source),
                   !.open = Undecided(a.source)]]
    /\ UNCHANGED <<form, quotes, quote, quoteLoading, quoteError, current, sequence, failures,
                   sessionVars>>

\* Freighter signs with its active account; another one's signature is worth nothing.
Sign(k) ==
  /\ attempt[k].at = "signing"
  /\ attempt' = [attempt EXCEPT ![k] =
       [attempt[k] EXCEPT !.at = "submitting",
                          !.fate = IF active = attempt[k].source THEN "signed" ELSE "dead"]]
  /\ UNCHANGED <<form, quotes, quote, quoteLoading, quoteError, current, sequence, failures,
                 sessionVars>>

\* Horizon does not answer or the payment cannot be built; another account is active;
\* the user refuses to sign.
GivesUp(k) ==
  /\ attempt[k].at \in {"building", "signing"}
  /\ attempt' = [attempt EXCEPT ![k] = [attempt[k] EXCEPT !.at = "error", !.fate = "dead"]]
  /\ UNCHANGED <<form, quotes, quote, quoteLoading, quoteError, current, sequence, failures,
                 sessionVars>>

\* submitTransaction reaches the network.
Send(k) ==
  /\ attempt[k].at = "submitting" /\ attempt[k].fate = "signed"
  /\ attempt' = [attempt EXCEPT ![k].fate = "pending"]
  /\ UNCHANGED <<form, quotes, quote, quoteLoading, quoteError, current, sequence, failures,
                 sessionVars>>

\* The answer, which waits for the ledger.  A payment with a note goes on to save it;
\* then the balances are refreshed.
Confirmed(k) ==
  /\ attempt[k].at = "submitting" /\ attempt[k].fate = "applied"
  /\ \/ Goes(k, "noting") /\ UNCHANGED asking
     \/ Goes(k, "ok") /\ Refresh(attempt[k].source)
  /\ UNCHANGED <<form, quotes, quote, quoteLoading, quoteError, current, sequence, failures,
                 active, publicKey, stored, available, connecting, lookups, balances,
                 switches, reloads>>

Rejected(k) ==
  /\ attempt[k].at = "submitting" /\ attempt[k].fate \in {"failed", "dead"}
  /\ Goes(k, "error")
  /\ UNCHANGED <<form, quotes, quote, quoteLoading, quoteError, current, sequence, failures,
                 sessionVars>>

\* A 504, or a lost connection, before or after the network has the transaction.
AnswerLost(k) ==
  /\ attempt[k].at = "submitting" /\ attempt[k].fate # "dead"
  /\ failures < MaxFailures /\ failures' = failures + 1
  /\ \E fate \in {attempt[k].fate} \cup (IF attempt[k].fate = "signed" THEN {"dead"} ELSE {}) :
       attempt' = [attempt EXCEPT ![k] =
         [attempt[k] EXCEPT !.at = "error",
                            !.fate = IF fate = "signed" THEN "pending" ELSE fate]]
  /\ UNCHANGED <<form, quotes, quote, quoteLoading, quoteError, current, sequence, sessionVars>>

\* savePaymentMetadata, whose failure is ignored.
Noted(k) ==
  /\ attempt[k].at = "noting"
  /\ Goes(k, "ok")
  /\ Refresh(attempt[k].source)
  /\ UNCHANGED <<form, quotes, quote, quoteLoading, quoteError, current, sequence, failures,
                 active, publicKey, stored, available, connecting, lookups, balances,
                 switches, reloads>>

----------------------------------------------------------------------------
(* The network *)

Apply(k) ==
  LET a == attempt[k] IN
    /\ a.at # "free" /\ a.fate = "pending" /\ a.sequence = sequence[a.source] + 1
    /\ \E fate \in {"applied", "failed"} : attempt' = [attempt EXCEPT ![k].fate = fate]
    /\ sequence' = [sequence EXCEPT ![a.source] = a.sequence]
    /\ UNCHANGED <<form, quotes, quote, quoteLoading, quoteError, current, failures, sessionVars>>

\* Its time bound (TX_TIMEOUT_SECONDS) has passed, or its number has been used.
Expire(k) ==
  /\ attempt[k].at # "free" /\ attempt[k].fate \in {"built", "signed", "pending"}
  /\ attempt' = [attempt EXCEPT ![k].fate = "dead"]
  /\ UNCHANGED <<form, quotes, quote, quoteLoading, quoteError, current, sequence, failures,
                 sessionVars>>

\* The account signs something elsewhere.
Elsewhere(a) ==
  /\ sequence[a] < MaxSequence
  /\ sequence' = [sequence EXCEPT ![a] = @ + 1]
  /\ UNCHANGED <<page, failures, sessionVars>>

----------------------------------------------------------------------------
(* The gate and the session *)

\* A new form, with what the URL presets, and nothing on its way to it.
Mount ==
  /\ \E f \in [amount : Amounts, pair : Pairs] : ~ CrossAsset(f) /\ form' = f
  /\ quotes' = {} /\ quote' = Unquoted /\ quoteLoading' = FALSE /\ quoteError' = FALSE
  /\ current' = None

\* A key replaced by another keeps the form; a closed session takes it away.
SessionMoves ==
  /\ Stays
  /\ IF publicKey' = None /\ publicKey # None THEN Mount
     ELSE UNCHANGED <<form, quotes, quote, quoteLoading, quoteError, current>>
  /\ UNCHANGED <<attempt, sequence, failures>>

\* A reload stops every handler; what the network has, it keeps.
PageReloads ==
  /\ Reload /\ Mount
  /\ attempt' = [k \in Attempts |->
       IF attempt[k] = Free \/ attempt[k].at \in {"ok", "error"} THEN attempt[k]
       ELSE [attempt[k] EXCEPT !.at = "stopped"]]
  /\ UNCHANGED <<sequence, failures>>

\* A page mounted anew has a new form; the handlers go on.
PageRevisited == Revisit /\ Mount /\ UNCHANGED <<attempt, sequence, failures>>

Init ==
  /\ SessionInit
  /\ form \in {f \in [amount : Amounts, pair : Pairs] : ~ CrossAsset(f)}
  /\ quotes = {} /\ quote = Unquoted /\ quoteLoading = FALSE /\ quoteError = FALSE
  /\ attempt = [k \in Attempts |-> Free] /\ current = None
  /\ sequence = [a \in Accounts |-> 0]
  /\ failures = 0

Next ==
  \/ Type \/ \E r \in quotes : QuoteArrives(r)
  \/ \E k \in Attempts :
       \/ \E to \in Destinations : Submit(k, to)
       \/ Build(k) \/ Sign(k) \/ GivesUp(k) \/ Send(k) \/ Confirmed(k)
       \/ Rejected(k) \/ AnswerLost(k) \/ Noted(k) \/ Apply(k) \/ Expire(k)
  \/ \E a \in Accounts : Elsewhere(a)
  \/ SessionMoves \/ PageReloads \/ PageRevisited

Spec == Init /\ [][Next]_vars

----------------------------------------------------------------------------
(* Properties *)

\* Whatever was typed while quotes were on their way: when the button of a payment
\* across assets can be pressed, the quote whose minimum it would carry was asked for
\* the amount and the assets that the form shows.  (SendPage.tsx 134-154, 258.)
QuoteFresh ==
  ~ SubmitDisabled /\ Quotable(form) /\ quote # Unquoted => quote = form

\* An attempt built while an earlier one of the account was undecided carries the same
\* number: however often the user tries again meanwhile, one of them is paid.
\* (horizon.ts 137-142: the number is the account's when the payment is built.)
PaidOnce ==
  \A k \in Attempts :
    attempt[k] # Free /\ attempt[k].fate = "applied" =>
      \A j \in attempt[k].open : attempt[j].fate # "applied"

=============================================================================
