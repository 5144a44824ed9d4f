----------------------------- MODULE AppProofs -----------------------------
(***************************************************************************)
(* What the pages of the browser promise, for any accounts, amounts, boxes, *)
(* payments and rules, and any number of handlers, answers on their way,    *)
(* reloads and changes of account.                                          *)
(*                                                                          *)
(* A visit never leaves its route, so a step of App is a step of the page   *)
(* open or leaves that page alone (PageSteps), and each page has an         *)
(* inductive invariant of its own, which says nothing of the other routes.  *)
(***************************************************************************)
EXTENDS App, Integers, TLAPS

----------------------------------------------------------------------------
(* The session, which every page shares *)

\* How the session moves, under whatever page.
SessionMove == Stays \/ Reload \/ Revisit

LEMMA SessionInitTyped == SessionInit => SessionTypeOK
<1> SUFFICES ASSUME SessionInit PROVE SessionTypeOK
  OBVIOUS
<1>1. switches \in 0..MaxSwitches /\ reloads \in 0..MaxReloads
  BY BoundAssumption DEF SessionInit
<1> QED
  BY <1>1 DEF SessionInit, SessionTypeOK, Keys

\* The session holds the keys of this Freighter's accounts, whoever connects, answers late
\* or reloads.
LEMMA SessionTyped == ASSUME SessionTypeOK, SessionMove PROVE SessionTypeOK'
<1> USE NullAssumption, BoundAssumption DEF SessionTypeOK, Keys
<1>1. CASE SwitchAccount
  BY <1>1 DEF SwitchAccount
<1>2. CASE Detect \/ ConnectBegin \/ Refused
  BY <1>2 DEF Detect, ConnectBegin, Refused
<1>3. CASE Granted \/ Disconnect
  BY <1>3 DEF Granted, Disconnect, Holds
<1>4. CASE Focus
  BY <1>4 DEF Focus
<1>5. ASSUME NEW l \in lookups, Answer(l) PROVE SessionTypeOK'
  <2>1. [l EXCEPT !.answer = active] \in [key : Accounts, answer : Keys]
    BY <1>5
  <2> QED
    BY <1>5, <2>1 DEF Answer
<1>6. ASSUME NEW l \in lookups, Deliver(l) PROVE SessionTypeOK'
  <2>1. l.answer \in Accounts
    BY <1>6 DEF Deliver
  <2> QED
    BY <1>6, <2>1 DEF Deliver, Holds
<1>7. ASSUME NEW l \in lookups, Unanswered(l) PROVE SessionTypeOK'
  BY <1>7 DEF Unanswered
<1>8. ASSUME NEW a \in Accounts, BalancesArrive(a) PROVE SessionTypeOK'
  BY <1>8 DEF BalancesArrive
<1>9. CASE Reload \/ Revisit
  <2>1. reloads' \in 0..MaxReloads
    BY <1>9 DEF Reload, Revisit
  <2> QED
    BY <1>9, <2>1 DEF Reload, Revisit
<1> QED
  BY <1>1, <1>2, <1>3, <1>4, <1>5, <1>6, <1>7, <1>8, <1>9 DEF SessionMove, Stays

\* Handlers only ask for balances, of the account they began with.
OnlyAsks ==
  \/ UNCHANGED sessionVars
  \/ /\ \E key \in Accounts : Refresh(key)
     /\ UNCHANGED <<active, publicKey, stored, available, connecting, lookups, balances, switches,
                    reloads>>

LEMMA AskingTyped == ASSUME SessionTypeOK, OnlyAsks PROVE SessionTypeOK'
BY DEF SessionTypeOK, OnlyAsks, Refresh, sessionVars

----------------------------------------------------------------------------
(* The send page *)

\* The session of the page is the session.
LEMMA SendSession ==
  /\ Send!SessionInit => SessionInit
  /\ Send!SessionTypeOK <=> SessionTypeOK
  /\ Send!Stays => Stays
  /\ Send!Reload => Reload
  /\ Send!Revisit => Revisit
  /\ Send!sessionVars = sessionVars
<1>1. /\ Send!SwitchAccount => SwitchAccount
      /\ Send!Detect => Detect
      /\ Send!ConnectBegin => ConnectBegin
      /\ Send!Granted => Granted
      /\ Send!Refused => Refused
      /\ Send!Disconnect => Disconnect
      /\ Send!Focus => Focus
  BY DEF Send!SwitchAccount, SwitchAccount, Send!Detect, Detect, Send!ConnectBegin, ConnectBegin,
         Send!Granted, Granted, Send!Refused, Refused, Send!Disconnect, Disconnect, Send!Focus, Focus,
         Send!Holds, Holds, Send!Cardinality, Cardinality, Send!IsFiniteSet, IsFiniteSet
<1>2. ASSUME NEW l
      PROVE  /\ Send!Answer(l) => Answer(l)
             /\ Send!Deliver(l) => Deliver(l)
             /\ Send!Unanswered(l) => Unanswered(l)
             /\ Send!BalancesArrive(l) => BalancesArrive(l)
  BY DEF Send!Answer, Answer, Send!Deliver, Deliver, Send!Unanswered, Unanswered, Send!Holds, Holds,
         Send!BalancesArrive, BalancesArrive
<1>3. Send!Stays => Stays
  BY <1>1, <1>2 DEF Send!Stays, Stays
<1> QED
  BY <1>3 DEF Send!Reload, Reload, Send!Revisit, Revisit, Send!SessionTypeOK, SessionTypeOK, Send!Keys,
              Keys, Send!SessionInit, SessionInit, Send!sessionVars, sessionVars

LEMMA SendSessionTyped ==
  ASSUME Send!SessionTypeOK, Send!Stays \/ Send!Reload \/ Send!Revisit \/ OnlyAsks
  PROVE  Send!SessionTypeOK'
<1>1. SessionTypeOK /\ (SessionMove \/ OnlyAsks)
  BY SendSession DEF SessionMove
<1>2. SessionTypeOK'
  BY <1>1, SessionTyped, AskingTyped
<1> QED
  BY <1>2 DEF Send!SessionTypeOK, SessionTypeOK, Send!Keys, Keys

LEMMA SendPageSteps ==
  /\ Init => (route = "send" => Send!Init)
  /\ [Next]_vars /\ route' = "send" => route = "send" /\ (Send!Next \/ UNCHANGED Send!vars)
BY DEF Init, Opens, Next, SessionStep, SendStep, SetupStep, FamilyStep, PoolStep, HistoryStep,
       ProfileStep, vars, sendOnly, Send!vars, Send!page, Send!sessionVars, sessionVars

SendRecord ==
  [at : Send!Stages, source : Accounts, payable : BOOLEAN, fate : Send!Fates, sequence : Nat,
   open : SUBSET Attempts]

LEMMA SendInitTyped == Send!Init => Send!TypeOK
<1> SUFFICES ASSUME Send!Init PROVE Send!TypeOK
  OBVIOUS
<1>1. Send!SessionTypeOK
  BY SendSession, SessionInitTyped DEF Send!Init
<1>2. failures \in 0..MaxFailures
  BY BoundAssumption DEF Send!Init
<1> QED
  BY <1>1, <1>2 DEF Send!Init, Send!TypeOK, Send!Unquoted

LEMMA SendTyped == ASSUME Send!TypeOK, Send!Next PROVE Send!TypeOK'
<1> USE DEF Send!TypeOK, SendRecord
<1>s. UNCHANGED sessionVars => Send!SessionTypeOK'
  BY SendSessionTyped DEF OnlyAsks
<1>a. ASSUME NEW k \in Attempts, NEW b \in SendRecord, attempt' = [attempt EXCEPT ![k] = b]
      PROVE attempt' \in [Attempts -> {Send!Free} \cup SendRecord]
  BY <1>a
<1>b. ASSUME NEW k \in Attempts, attempt[k].at # "free"
      PROVE attempt[k] \in SendRecord
  BY <1>b DEF Send!Free
<1>c. ASSUME NEW k \in Attempts, attempt[k].at # "free", NEW at \in Send!Stages,
             attempt' = [attempt EXCEPT ![k].at = at]
      PROVE attempt' \in [Attempts -> {Send!Free} \cup SendRecord]
  <2>1. [attempt[k] EXCEPT !.at = at] \in SendRecord
    BY <1>b, <1>c
  <2> QED
    BY <1>a, <1>c, <2>1
<1>d. ASSUME NEW k \in Attempts, attempt[k].at # "free", NEW fate \in Send!Fates,
             attempt' = [attempt EXCEPT ![k].fate = fate]
      PROVE attempt' \in [Attempts -> {Send!Free} \cup SendRecord]
  <2>1. [attempt[k] EXCEPT !.fate = fate] \in SendRecord
    BY <1>b, <1>d
  <2> QED
    BY <1>a, <1>d, <2>1
<1>e. ASSUME NEW k \in Attempts, attempt[k].at # "free", NEW at \in Send!Stages,
             NEW fate \in Send!Fates,
             attempt' = [attempt EXCEPT ![k] = [attempt[k] EXCEPT !.at = at, !.fate = fate]]
      PROVE attempt' \in [Attempts -> {Send!Free} \cup SendRecord]
  <2>1. [attempt[k] EXCEPT !.at = at, !.fate = fate] \in SendRecord
    BY <1>b, <1>e
  <2> QED
    BY <1>a, <1>e, <2>1
<1>m. Send!Mount =>
        /\ form' \in [amount : Amounts, pair : Pairs] /\ quotes' \subseteq Send!Asks
        /\ quote' \in Send!Asks \cup {Send!Unquoted} /\ quoteLoading' \in BOOLEAN
        /\ quoteError' \in BOOLEAN /\ current' \in Attempts \cup {None}
  BY DEF Send!Mount
<1>1. CASE Send!Type
  <2> PICK a \in Amounts, p \in Pairs :
        LET f == [amount |-> a, pair |-> p] IN form' = f /\ Send!QuoteEffect(f)
    BY <1>1 DEF Send!Type
  <2> DEFINE f == [amount |-> a, pair |-> p]
  <2>1. Send!Quotable(f) => f \in Send!Asks
    BY DEF Send!Quotable, Send!AmountValid, Send!Asks
  <2>2. quotes' \subseteq Send!Asks /\ quoteLoading' \in BOOLEAN
    BY <2>1 DEF Send!QuoteEffect, Send!Cancelled, Send!Quotable
  <2> QED
    BY <1>1, <1>s, <2>2 DEF Send!Type, Send!QuoteEffect, Send!sessionVars, sessionVars
<1>2. ASSUME NEW r \in quotes, Send!QuoteArrives(r) PROVE Send!TypeOK'
  BY <1>2, <1>s DEF Send!QuoteArrives, Send!sessionVars, sessionVars
<1>3. ASSUME NEW k \in Attempts, NEW to, Send!Submit(k, to) PROVE Send!TypeOK'
  <2> DEFINE b == [at |-> "building", source |-> publicKey, payable |-> Send!Payable(form, to),
                   fate |-> "none", sequence |-> 0, open |-> {}]
  <2>1. publicKey \in Accounts
    BY <1>3 DEF Send!Submit, Send!SessionTypeOK, Send!Keys
  <2>2. b \in SendRecord
    BY <2>1 DEF Send!Stages, Send!Fates, Send!Payable
  <2>3. attempt' \in [Attempts -> {Send!Free} \cup SendRecord]
    BY <1>a, <1>3, <2>2 DEF Send!Submit
  <2> QED
    BY <1>3, <1>s, <2>3 DEF Send!Submit, Send!sessionVars, sessionVars
<1>4. ASSUME NEW k \in Attempts, Send!Build(k) PROVE Send!TypeOK'
  <2>1. attempt[k] \in SendRecord
    BY <1>4, <1>b DEF Send!Build
  <2>2. [attempt[k] EXCEPT !.at = "signing", !.fate = "built",
                           !.sequence = Send!Number(attempt[k].source),
                           !.open = Send!Undecided(attempt[k].source)] \in SendRecord
    <3>1. Send!Number(attempt[k].source) \in Nat
      BY <2>1 DEF Send!Number
    <3>2. Send!Undecided(attempt[k].source) \in SUBSET Attempts
      BY DEF Send!Undecided
    <3> QED
      BY <2>1, <3>1, <3>2 DEF Send!Stages, Send!Fates
  <2>3. attempt' \in [Attempts -> {Send!Free} \cup SendRecord]
    BY <1>a, <1>4, <2>2 DEF Send!Build
  <2> QED
    BY <1>4, <1>s, <2>3 DEF Send!Build, Send!sessionVars, sessionVars
<1>5. ASSUME NEW k \in Attempts, Send!Sign(k) \/ Send!GivesUp(k) PROVE Send!TypeOK'
  <2>1. attempt' \in [Attempts -> {Send!Free} \cup SendRecord]
    BY <1>5, <1>e DEF Send!Sign, Send!GivesUp, Send!Stages, Send!Fates
  <2> QED
    BY <1>5, <1>s, <2>1 DEF Send!Sign, Send!GivesUp, Send!sessionVars, sessionVars
<1>6. ASSUME NEW k \in Attempts, Send!Send(k) \/ Send!Expire(k) PROVE Send!TypeOK'
  <2>1. attempt' \in [Attempts -> {Send!Free} \cup SendRecord]
    BY <1>6, <1>d DEF Send!Send, Send!Expire, Send!Fates
  <2> QED
    BY <1>6, <1>s, <2>1 DEF Send!Send, Send!Expire, Send!sessionVars, sessionVars
<1>7. ASSUME NEW k \in Attempts, Send!Confirmed(k) \/ Send!Noted(k) PROVE Send!TypeOK'
  <2>1. attempt[k] \in SendRecord /\ attempt' \in [Attempts -> {Send!Free} \cup SendRecord]
    BY <1>7, <1>b, <1>c DEF Send!Confirmed, Send!Noted, Send!Goes, Send!Stages
  <2>2. Send!SessionTypeOK'
    BY <1>7, <2>1 DEF Send!Confirmed, Send!Noted, Send!Refresh, Send!SessionTypeOK, Send!Keys
  <2> QED
    BY <1>7, <2>1, <2>2 DEF Send!Confirmed, Send!Noted
<1>8. ASSUME NEW k \in Attempts, Send!Rejected(k) PROVE Send!TypeOK'
  <2>1. attempt' \in [Attempts -> {Send!Free} \cup SendRecord]
    BY <1>8, <1>c DEF Send!Rejected, Send!Goes, Send!Stages
  <2> QED
    BY <1>8, <1>s, <2>1 DEF Send!Rejected, Send!sessionVars, sessionVars
<1>9. ASSUME NEW k \in Attempts, Send!AnswerLost(k) PROVE Send!TypeOK'
  <2>1. attempt' \in [Attempts -> {Send!Free} \cup SendRecord]
    <3>1. attempt[k] \in SendRecord
      BY <1>9, <1>b DEF Send!AnswerLost
    <3>2. PICK fate \in Send!Fates : attempt' =
            [attempt EXCEPT ![k] = [attempt[k] EXCEPT !.at = "error", !.fate = fate]]
      BY <1>9, <3>1 DEF Send!AnswerLost, Send!Fates
    <3> QED
      BY <1>9, <1>e, <3>2 DEF Send!AnswerLost, Send!Stages
  <2>2. failures' \in 0..MaxFailures
    BY <1>9, BoundAssumption DEF Send!AnswerLost
  <2> QED
    BY <1>9, <1>s, <2>1, <2>2 DEF Send!AnswerLost, Send!sessionVars, sessionVars
<1>10. ASSUME NEW k \in Attempts, Send!Apply(k) PROVE Send!TypeOK'
  <2>1. attempt[k] \in SendRecord /\ attempt' \in [Attempts -> {Send!Free} \cup SendRecord]
    BY <1>10, <1>b, <1>d DEF Send!Apply, Send!Fates
  <2> QED
    BY <1>10, <1>s, <2>1 DEF Send!Apply, Send!sessionVars, sessionVars
<1>11. ASSUME NEW a \in Accounts, Send!Elsewhere(a) PROVE Send!TypeOK'
  BY <1>11, <1>s DEF Send!Elsewhere, Send!page, Send!sessionVars, sessionVars
<1>12. CASE Send!SessionMoves
  <2>1. Send!SessionTypeOK'
    BY <1>12, SendSessionTyped DEF Send!SessionMoves
  <2> QED
    BY <1>12, <1>m, <2>1 DEF Send!SessionMoves
<1>13. CASE Send!PageReloads
  <2>1. Send!SessionTypeOK'
    BY <1>13, SendSessionTyped DEF Send!PageReloads
  <2>2. attempt' \in [Attempts -> {Send!Free} \cup SendRecord]
    <3> SUFFICES ASSUME NEW k \in Attempts
                 PROVE (IF attempt[k] = Send!Free \/ attempt[k].at \in {"ok", "error"} THEN attempt[k]
                        ELSE [attempt[k] EXCEPT !.at = "stopped"]) \in {Send!Free} \cup SendRecord
      BY <1>13 DEF Send!PageReloads
    <3> QED
      BY DEF Send!Stages
  <2> QED
    BY <1>13, <1>m, <2>1, <2>2 DEF Send!PageReloads
<1>14. CASE Send!PageRevisited
  <2>1. Send!SessionTypeOK'
    BY <1>14, SendSessionTyped DEF Send!PageRevisited
  <2> QED
    BY <1>14, <1>m, <2>1 DEF Send!PageRevisited
<1> QED
  BY <1>1, <1>2, <1>3, <1>4, <1>5, <1>6, <1>7, <1>8, <1>9, <1>10, <1>11, <1>12, <1>13, <1>14
  DEF Send!Next

\* The quotes on their way are of the form as it is, and so is the quote shown once none is.
SendQuoteInv ==
  /\ quotes \subseteq {form}
  /\ ~ quoteLoading /\ ~ quoteError /\ Send!Quotable(form) /\ quote # Send!Unquoted => quote = form

LEMMA SendQuoteStep ==
  ASSUME SendQuoteInv, Send!Next \/ UNCHANGED Send!vars
  PROVE  SendQuoteInv'
<1> USE DEF SendQuoteInv, Send!Quotable, Send!CrossAsset, Send!AmountValid
<1>1. CASE Send!Type
  <2> PICK a \in Amounts, p \in Pairs :
        LET f == [amount |-> a, pair |-> p] IN form' = f /\ Send!QuoteEffect(f)
    BY <1>1 DEF Send!Type
  <2> QED
    BY DEF Send!QuoteEffect, Send!Cancelled
<1>2. ASSUME NEW r \in quotes, Send!QuoteArrives(r) PROVE SendQuoteInv'
  BY <1>2 DEF Send!QuoteArrives
<1>3. CASE UNCHANGED <<form, quotes, quote, quoteLoading, quoteError>>
  BY <1>3
<1>4. CASE Send!Mount
  BY <1>4 DEF Send!Mount
<1>5. ASSUME NEW k \in Attempts,
             \/ \E to \in Destinations : Send!Submit(k, to)
             \/ Send!Build(k) \/ Send!Sign(k) \/ Send!GivesUp(k) \/ Send!Send(k) \/ Send!Confirmed(k)
             \/ Send!Rejected(k) \/ Send!AnswerLost(k) \/ Send!Noted(k) \/ Send!Apply(k)
             \/ Send!Expire(k)
      PROVE  SendQuoteInv'
  BY <1>3, <1>5 DEF Send!Submit, Send!Build, Send!Sign, Send!GivesUp, Send!Send, Send!Confirmed,
     Send!Rejected, Send!AnswerLost, Send!Noted, Send!Apply, Send!Expire
<1>6. CASE \E a \in Accounts : Send!Elsewhere(a)
  BY <1>3, <1>6 DEF Send!Elsewhere, Send!page
<1>7. CASE Send!SessionMoves \/ Send!PageReloads \/ Send!PageRevisited
  BY <1>3, <1>4, <1>7 DEF Send!SessionMoves, Send!PageReloads, Send!PageRevisited
<1>8. CASE UNCHANGED Send!vars
  BY <1>3, <1>8 DEF Send!vars, Send!page
<1> QED
  BY <1>1, <1>2, <1>5, <1>6, <1>7, <1>8 DEF Send!Next

\* The button of a payment across assets carries the minimum of a quote asked for what the
\* form shows.  (SendPage.tsx 134-154, 258.)
THEOREM QuotesAreFresh == Spec => []QuoteFresh
<1>1. Init => (route = "send" => SendQuoteInv)
  BY SendPageSteps DEF Send!Init, SendQuoteInv
<1>2. (route = "send" => SendQuoteInv) /\ [Next]_vars => (route = "send" => SendQuoteInv)'
  BY SendPageSteps, SendQuoteStep
<1>3. (route = "send" => SendQuoteInv) => QuoteFresh
  BY DEF SendQuoteInv, QuoteFresh, Send!QuoteFresh, Send!SubmitDisabled, Send!Quotable
<1> QED
  BY <1>1, <1>2, <1>3, PTL DEF Spec

\* An attempt has the number after its account's when it is built; whatever was undecided
\* then has that number, if it is applied at all.
SendLedgerInv ==
  \A k \in Attempts : attempt[k] # Send!Free =>
    /\ attempt[k].at = "building" => attempt[k].fate = "none"
    /\ attempt[k].sequence <= sequence[attempt[k].source] + 1
    /\ attempt[k].fate = "applied" => attempt[k].sequence <= sequence[attempt[k].source]
    /\ k \notin attempt[k].open
    /\ \A j \in attempt[k].open :
         /\ attempt[j] # Send!Free /\ attempt[j].source = attempt[k].source
         /\ attempt[j].fate # "none" /\ attempt[j].sequence <= attempt[k].sequence
         /\ attempt[j].fate = "applied" =>
              attempt[j].sequence = attempt[k].sequence /\ attempt[k].fate # "applied"

\* Steps that neither begin, build nor apply an attempt.
SendQuiet ==
  /\ \A k \in Attempts :
       /\ attempt[k] = Send!Free => attempt'[k] = Send!Free
       /\ attempt[k] # Send!Free =>
            /\ attempt'[k] # Send!Free
            /\ attempt'[k].source = attempt[k].source /\ attempt'[k].sequence = attempt[k].sequence
            /\ attempt'[k].open = attempt[k].open
            /\ attempt'[k].at = "building" =>
                 attempt[k].at = "building" /\ attempt'[k].fate = attempt[k].fate
            /\ attempt'[k].fate = "applied" => attempt[k].fate = "applied"
            /\ attempt'[k].fate = "none" => attempt[k].fate = "none"
  /\ \A a \in Accounts : sequence'[a] \in Nat /\ sequence[a] <= sequence'[a]

LEMMA SendQuietStep ==
  ASSUME Send!TypeOK, SendLedgerInv, SendQuiet
  PROVE  SendLedgerInv'
<1> SUFFICES ASSUME NEW k \in Attempts, attempt'[k] # Send!Free
             PROVE  /\ attempt'[k].at = "building" => attempt'[k].fate = "none"
                    /\ attempt'[k].sequence <= sequence'[attempt'[k].source] + 1
                    /\ attempt'[k].fate = "applied" =>
                         attempt'[k].sequence <= sequence'[attempt'[k].source]
                    /\ k \notin attempt'[k].open
                    /\ \A j \in attempt'[k].open :
                         /\ attempt'[j] # Send!Free /\ attempt'[j].source = attempt'[k].source
                         /\ attempt'[j].fate # "none" /\ attempt'[j].sequence <= attempt'[k].sequence
                         /\ attempt'[j].fate = "applied" =>
                              /\ attempt'[j].sequence = attempt'[k].sequence
                              /\ attempt'[k].fate # "applied"
  BY DEF SendLedgerInv
<1>1. attempt[k] # Send!Free /\ attempt[k] \in SendRecord
  BY DEF SendQuiet, Send!TypeOK, SendRecord
<1>2. sequence[attempt[k].source] \in Nat /\ sequence'[attempt[k].source] \in Nat
      /\ sequence[attempt[k].source] <= sequence'[attempt[k].source]
  BY <1>1 DEF SendQuiet, Send!TypeOK, SendRecord
<1>3. attempt[k].sequence \in Nat /\ attempt[k].open \subseteq Attempts
  BY <1>1 DEF SendRecord
<1>4. ASSUME NEW j \in attempt'[k].open
      PROVE  /\ attempt'[j] # Send!Free /\ attempt'[j].source = attempt'[k].source
             /\ attempt'[j].fate # "none" /\ attempt'[j].sequence <= attempt'[k].sequence
             /\ attempt'[j].fate = "applied" =>
                  attempt'[j].sequence = attempt'[k].sequence /\ attempt'[k].fate # "applied"
  <2>1. j \in Attempts /\ j \in attempt[k].open
    BY <1>1, <1>3 DEF SendQuiet
  <2> QED
    BY <1>1, <2>1 DEF SendQuiet, SendLedgerInv
<1> QED
  BY <1>1, <1>2, <1>3, <1>4 DEF SendQuiet, SendLedgerInv

LEMMA SendLedgerStep ==
  ASSUME Send!TypeOK, SendLedgerInv, Send!Next \/ UNCHANGED Send!vars
  PROVE  SendLedgerInv'
<1>t. /\ attempt \in [Attempts -> {Send!Free} \cup SendRecord]
      /\ sequence \in [Accounts -> Nat]
  BY DEF Send!TypeOK, SendRecord
<1>q. SendQuiet => SendLedgerInv'
  BY SendQuietStep
<1>n. ASSUME NEW n \in Nat PROVE n <= n
  OBVIOUS
<1>1. CASE Send!Type \/ \E r \in quotes : Send!QuoteArrives(r)
  BY <1>1, <1>q, <1>t, <1>n DEF Send!Type, Send!QuoteArrives, SendQuiet
<1>2. ASSUME NEW k \in Attempts, NEW to, Send!Submit(k, to) PROVE SendLedgerInv'
  <2>1. attempt[k] = Send!Free /\ publicKey \in Accounts /\ sequence' = sequence
    BY <1>2 DEF Send!Submit, Send!TypeOK, Send!SessionTypeOK, Send!Keys
  <2>2. /\ attempt'[k].at = "building" /\ attempt'[k].fate = "none" /\ attempt'[k].sequence = 0
        /\ attempt'[k].open = {} /\ attempt'[k].source = publicKey
        /\ \A j \in Attempts \ {k} : attempt'[j] = attempt[j]
    BY <1>t, <1>2 DEF Send!Submit
  <2>3. sequence[publicKey] \in Nat
    BY <1>t, <2>1
  <2>4. ASSUME NEW j \in Attempts, attempt[j] # Send!Free
        PROVE k \notin attempt[j].open /\ attempt[j].open \subseteq Attempts
    BY <1>t, <2>1, <2>4 DEF SendLedgerInv, SendRecord
  <2> QED
    BY <2>1, <2>2, <2>3, <2>4 DEF SendLedgerInv
<1>3. ASSUME NEW k \in Attempts, Send!Build(k) PROVE SendLedgerInv'
  <2> DEFINE a == attempt[k].source
  <2>1. attempt[k] \in SendRecord /\ sequence' = sequence /\ attempt[k].fate = "none"
    BY <1>t, <1>3 DEF Send!Build, Send!Free, SendLedgerInv
  <2>2. /\ attempt'[k].at = "signing" /\ attempt'[k].fate = "built" /\ attempt'[k].source = a
        /\ attempt'[k].sequence = sequence[a] + 1 /\ attempt'[k].open = Send!Undecided(a)
        /\ attempt'[k] # Send!Free
        /\ \A j \in Attempts \ {k} : attempt'[j] = attempt[j]
    BY <1>t, <1>3, <2>1 DEF Send!Build, Send!Number, SendRecord, Send!Free
  <2>3. sequence[a] \in Nat
    BY <1>t, <2>1 DEF SendRecord
  <2>4. ASSUME NEW j \in Attempts, attempt[j] # Send!Free
        PROVE k \notin attempt[j].open /\ attempt[j].open \subseteq Attempts
    BY <1>t, <2>1, <2>4 DEF SendLedgerInv, SendRecord
  <2>5. ASSUME NEW j \in Send!Undecided(a)
        PROVE /\ j \in Attempts \ {k} /\ attempt[j] # Send!Free /\ attempt[j].source = a
              /\ attempt[j].fate # "none" /\ attempt[j].fate # "applied"
              /\ attempt[j].sequence <= sequence[a] + 1
    BY <2>1 DEF Send!Undecided, SendLedgerInv
  <2> HIDE DEF a
  <2>6. ASSUME NEW j \in Attempts \ {k}, attempt'[j] # Send!Free
        PROVE /\ attempt'[j].at = "building" => attempt'[j].fate = "none"
              /\ attempt'[j].sequence <= sequence'[attempt'[j].source] + 1
              /\ attempt'[j].fate = "applied" =>
                   attempt'[j].sequence <= sequence'[attempt'[j].source]
              /\ j \notin attempt'[j].open
              /\ \A i \in attempt'[j].open :
                   /\ attempt'[i] # Send!Free /\ attempt'[i].source = attempt'[j].source
                   /\ attempt'[i].fate # "none" /\ attempt'[i].sequence <= attempt'[j].sequence
                   /\ attempt'[i].fate = "applied" =>
                        attempt'[i].sequence = attempt'[j].sequence /\ attempt'[j].fate # "applied"
    BY <2>1, <2>2, <2>4, <2>6 DEF SendLedgerInv
  <2>7. /\ attempt'[k].at # "building" /\ attempt'[k].fate # "applied"
        /\ attempt'[k].sequence <= sequence'[attempt'[k].source] + 1
        /\ k \notin attempt'[k].open
        /\ \A i \in attempt'[k].open :
             /\ attempt'[i] # Send!Free /\ attempt'[i].source = attempt'[k].source
             /\ attempt'[i].fate # "none" /\ attempt'[i].sequence <= attempt'[k].sequence
             /\ attempt'[i].fate # "applied"
    BY <2>1, <2>2, <2>3, <2>5
  <2> QED
    BY <2>6, <2>7 DEF SendLedgerInv
<1>4. ASSUME NEW k \in Attempts, Send!Sign(k) \/ Send!GivesUp(k) \/ Send!AnswerLost(k)
      PROVE SendLedgerInv'
  <2>1. attempt[k].at # "free" /\ sequence' = sequence
    BY <1>4 DEF Send!Sign, Send!GivesUp, Send!AnswerLost
  <2>2. attempt[k] \in SendRecord
    BY <1>t, <2>1 DEF Send!Free
  <2>3. PICK at \in {"submitting", "error"}, fate \in {attempt[k].fate, "signed", "pending", "dead"} :
          attempt' = [attempt EXCEPT ![k] = [attempt[k] EXCEPT !.at = at, !.fate = fate]]
    BY <1>4 DEF Send!Sign, Send!GivesUp, Send!AnswerLost
  <2> DEFINE b == [attempt[k] EXCEPT !.at = at, !.fate = fate]
  <2>4. /\ b.source = attempt[k].source /\ b.sequence = attempt[k].sequence
        /\ b.open = attempt[k].open /\ b.at # "building" /\ b.at # "free" /\ b.fate = fate
    BY <2>2 DEF SendRecord
  <2>5. attempt'[k] = b /\ \A j \in Attempts \ {k} : attempt'[j] = attempt[j]
    BY <1>t, <2>3
  <2> HIDE DEF b
  <2>6. SendQuiet
    BY <1>t, <1>n, <2>1, <2>2, <2>4, <2>5 DEF SendQuiet, Send!Free
  <2> QED
    BY <1>q, <2>6
<1>5. ASSUME NEW k \in Attempts, Send!Send(k) \/ Send!Expire(k) PROVE SendLedgerInv'
  <2>1. attempt[k] \in SendRecord /\ sequence' = sequence /\ attempt[k].fate # "none"
    BY <1>t, <1>5 DEF Send!Send, Send!Expire, Send!Free
  <2>2. PICK fate \in {"pending", "dead"} : attempt' = [attempt EXCEPT ![k].fate = fate]
    BY <1>5 DEF Send!Send, Send!Expire
  <2>3. SendQuiet
    BY <1>t, <1>n, <2>1, <2>2 DEF SendQuiet, SendRecord, Send!Free, SendLedgerInv
  <2> QED
    BY <1>q, <2>3
<1>6. ASSUME NEW k \in Attempts, Send!Confirmed(k) \/ Send!Noted(k) \/ Send!Rejected(k)
      PROVE SendLedgerInv'
  <2>1. attempt[k] \in SendRecord /\ sequence' = sequence
    BY <1>t, <1>6 DEF Send!Confirmed, Send!Noted, Send!Rejected, Send!Free
  <2>2. PICK at \in {"noting", "ok", "error"} : attempt' = [attempt EXCEPT ![k].at = at]
    BY <1>6 DEF Send!Confirmed, Send!Noted, Send!Rejected, Send!Goes
  <2>3. SendQuiet
    BY <1>t, <1>n, <2>1, <2>2 DEF SendQuiet, SendRecord, Send!Free
  <2> QED
    BY <1>q, <2>3
<1>7. ASSUME NEW k \in Attempts, Send!Apply(k) PROVE SendLedgerInv'
  <2> DEFINE a == attempt[k].source
             n == attempt[k].sequence
  <2>1. attempt[k] \in SendRecord /\ attempt[k].fate = "pending" /\ n = sequence[a] + 1
    BY <1>t, <1>7 DEF Send!Apply, Send!Free
  <2>2. PICK fate \in {"applied", "failed"} : attempt' = [attempt EXCEPT ![k].fate = fate]
    BY <1>7 DEF Send!Apply
  <2>3. /\ attempt'[k].at = attempt[k].at /\ attempt'[k].fate = fate /\ attempt'[k].source = a
        /\ attempt'[k].sequence = n /\ attempt'[k].open = attempt[k].open
        /\ attempt'[k] # Send!Free
        /\ \A j \in Attempts \ {k} : attempt'[j] = attempt[j]
    BY <1>t, <2>1, <2>2 DEF SendRecord, Send!Free
  <2>4. a \in Accounts /\ sequence[a] \in Nat /\ attempt[k] # Send!Free
    BY <1>t, <2>1 DEF SendRecord, Send!Free
  <2>5. sequence'[a] = n /\ \A b \in Accounts \ {a} : sequence'[b] = sequence[b]
    BY <1>t, <1>7, <2>4 DEF Send!Apply
  <2>6. \A b \in Accounts : sequence[b] \in Nat /\ sequence'[b] \in Nat /\ sequence[b] <= sequence'[b]
    BY <1>t, <2>1, <2>4, <2>5
  <2> HIDE DEF a, n
  <2>7. ASSUME NEW j \in Attempts, attempt[j] # Send!Free
        PROVE  /\ attempt[j].source \in Accounts /\ attempt[j].sequence \in Nat
               /\ attempt[j].open \subseteq Attempts
               /\ attempt'[j].source = attempt[j].source
               /\ attempt'[j].sequence = attempt[j].sequence /\ attempt'[j].open = attempt[j].open
               /\ attempt'[j].at = attempt[j].at
    BY <1>t, <2>3, <2>7 DEF SendRecord, a, n
  <2>8. ASSUME NEW j \in Attempts, attempt'[j] # Send!Free, NEW i \in attempt'[j].open
        PROVE  /\ attempt'[i] # Send!Free /\ attempt'[i].source = attempt'[j].source
               /\ attempt'[i].fate # "none" /\ attempt'[i].sequence <= attempt'[j].sequence
               /\ attempt'[i].fate = "applied" =>
                    attempt'[i].sequence = attempt'[j].sequence /\ attempt'[j].fate # "applied"
    <3>1. attempt[j] # Send!Free
      BY <2>3, <2>4, <2>8
    <3>2. i \in Attempts /\ i \in attempt[j].open
      BY <2>7, <2>8, <3>1
    <3>3. /\ attempt[i] # Send!Free /\ attempt[i].source = attempt[j].source
          /\ attempt[i].fate # "none" /\ attempt[i].sequence <= attempt[j].sequence
          /\ attempt[i].fate = "applied" =>
               attempt[i].sequence = attempt[j].sequence /\ attempt[j].fate # "applied"
          /\ attempt[j].sequence <= sequence[attempt[j].source] + 1
          /\ attempt[j].fate = "applied" => attempt[j].sequence <= sequence[attempt[j].source]
          /\ attempt[i].fate = "applied" => attempt[i].sequence <= sequence[attempt[i].source]
          /\ i # j
      BY <3>1, <3>2 DEF SendLedgerInv
    <3>4. CASE i # k /\ j # k
      BY <2>3, <3>3, <3>4, <3>2
    <3>5. CASE i = k
      <4>1. attempt[j].source = a /\ attempt[j].sequence = n
        BY <2>1, <2>4, <2>7, <3>1, <3>3, <3>5 DEF a, n
      <4>2. attempt[j].fate # "applied" /\ j # k
        BY <2>1, <2>4, <3>3, <3>5, <4>1 DEF a, n
      <4> QED
        BY <2>1, <2>2, <2>3, <3>3, <3>5, <4>1, <4>2 DEF n
    <3>6. CASE i # k /\ j = k
      <4>1. attempt[i].fate # "applied"
        BY <2>1, <2>4, <2>7, <3>1, <3>2, <3>3, <3>6 DEF a, n
      <4> QED
        BY <2>3, <2>7, <3>1, <3>2, <3>3, <3>6, <4>1 DEF a, n
    <3> QED
      BY <3>4, <3>5, <3>6
  <2>9. ASSUME NEW j \in Attempts, attempt'[j] # Send!Free
        PROVE  /\ attempt'[j].at = "building" => attempt'[j].fate = "none"
               /\ attempt'[j].sequence <= sequence'[attempt'[j].source] + 1
               /\ attempt'[j].fate = "applied" =>
                    attempt'[j].sequence <= sequence'[attempt'[j].source]
               /\ j \notin attempt'[j].open
    <3>1. attempt[j] # Send!Free
      BY <2>3, <2>4, <2>9
    <3>2. CASE j = k
      BY <2>1, <2>3, <2>4, <2>5, <2>7, <3>1, <3>2 DEF SendLedgerInv, a, n
    <3>3. CASE j # k
      BY <2>3, <2>6, <2>7, <3>1, <3>3 DEF SendLedgerInv
    <3> QED
      BY <3>2, <3>3
  <2> QED
    BY <2>8, <2>9 DEF SendLedgerInv
<1>8. ASSUME NEW a \in Accounts, Send!Elsewhere(a) PROVE SendLedgerInv'
  BY <1>q, <1>t, <1>n, <1>8 DEF Send!Elsewhere, Send!page, SendQuiet
<1>9. CASE Send!SessionMoves \/ Send!PageRevisited
  BY <1>q, <1>t, <1>n, <1>9 DEF Send!SessionMoves, Send!PageRevisited, SendQuiet
<1>10. CASE Send!PageReloads
  BY <1>q, <1>t, <1>n, <1>10 DEF Send!PageReloads, SendQuiet, SendRecord, Send!Free
<1>11. CASE UNCHANGED Send!vars
  BY <1>q, <1>t, <1>n, <1>11 DEF Send!vars, Send!page, SendQuiet
<1> QED
  BY <1>1, <1>2, <1>3, <1>4, <1>5, <1>6, <1>7, <1>8, <1>9, <1>10, <1>11 DEF Send!Next

SendInv == route = "send" => Send!TypeOK /\ SendLedgerInv

LEMMA SendInvInductive ==
  /\ Init => SendInv
  /\ SendInv /\ [Next]_vars => SendInv'
<1>1. Init => SendInv
  BY SendPageSteps, SendInitTyped DEF SendInv, Send!Init, SendLedgerInv
<1>2. UNCHANGED Send!vars /\ Send!TypeOK => Send!TypeOK'
  BY DEF Send!vars, Send!page, Send!sessionVars, Send!TypeOK, Send!SessionTypeOK, Send!Keys
<1>3. SendInv /\ [Next]_vars => SendInv'
  BY <1>2, SendPageSteps, SendTyped, SendLedgerStep DEF SendInv
<1> QED
  BY <1>1, <1>3

\* However often the user tries again while an attempt is undecided, one of them is paid.
\* (horizon.ts 137-142.)
THEOREM OneAttemptIsPaid == Spec => []PaidOnce
<1>1. SendInv => PaidOnce
  BY DEF SendInv, SendLedgerInv, PaidOnce, Send!PaidOnce
<1> QED
  BY <1>1, SendInvInductive, PTL DEF Spec

----------------------------------------------------------------------------
(* The birth of a family box *)

\* The session of the page is the session.
LEMMA SetupSession ==
  /\ Setup!SessionInit => SessionInit
  /\ Setup!SessionTypeOK <=> SessionTypeOK
  /\ Setup!Stays => Stays
  /\ Setup!Reload => Reload
  /\ Setup!Revisit => Revisit
  /\ Setup!sessionVars = sessionVars
<1>1. /\ Setup!SwitchAccount => SwitchAccount
      /\ Setup!Detect => Detect
      /\ Setup!ConnectBegin => ConnectBegin
      /\ Setup!Granted => Granted
      /\ Setup!Refused => Refused
      /\ Setup!Disconnect => Disconnect
      /\ Setup!Focus => Focus
  BY DEF Setup!SwitchAccount, SwitchAccount, Setup!Detect, Detect, Setup!ConnectBegin, ConnectBegin,
         Setup!Granted, Granted, Setup!Refused, Refused, Setup!Disconnect, Disconnect, Setup!Focus, Focus,
         Setup!Holds, Holds, Setup!Cardinality, Cardinality, Setup!IsFiniteSet, IsFiniteSet
<1>2. ASSUME NEW l
      PROVE  /\ Setup!Answer(l) => Answer(l)
             /\ Setup!Deliver(l) => Deliver(l)
             /\ Setup!Unanswered(l) => Unanswered(l)
             /\ Setup!BalancesArrive(l) => BalancesArrive(l)
  BY DEF Setup!Answer, Answer, Setup!Deliver, Deliver, Setup!Unanswered, Unanswered, Setup!Holds, Holds,
         Setup!BalancesArrive, BalancesArrive
<1>3. Setup!Stays => Stays
  BY <1>1, <1>2 DEF Setup!Stays, Stays
<1> QED
  BY <1>3 DEF Setup!Reload, Reload, Setup!Revisit, Revisit, Setup!SessionTypeOK, SessionTypeOK, Setup!Keys,
              Keys, Setup!SessionInit, SessionInit, Setup!sessionVars, sessionVars

LEMMA SetupSessionTyped ==
  ASSUME Setup!SessionTypeOK, Setup!Stays \/ Setup!Reload \/ Setup!Revisit \/ OnlyAsks
  PROVE  Setup!SessionTypeOK'
<1>1. SessionTypeOK /\ (SessionMove \/ OnlyAsks)
  BY SetupSession DEF SessionMove
<1>2. SessionTypeOK'
  BY <1>1, SessionTyped, AskingTyped
<1> QED
  BY <1>2 DEF Setup!SessionTypeOK, SessionTypeOK, Setup!Keys, Keys

LEMMA SetupPageSteps ==
  /\ Init => (route = "setup" => Setup!Init)
  /\ [Next]_vars /\ route' = "setup" => route = "setup" /\ (Setup!Next \/ UNCHANGED Setup!vars)
BY DEF Init, Opens, Next, SessionStep, SendStep, SetupStep, FamilyStep, PoolStep, HistoryStep,
       ProfileStep, vars, setupOnly, Setup!vars, Setup!sessionVars, sessionVars

PowersGiven == UNION {[S -> Setup!Powers] : S \in SUBSET Setup!People}
SetupRecord == [at : Setup!Steps, creator : Accounts, powers : PowersGiven]

AccountWith(master, signers, med, high, balance) ==
  [exists |-> TRUE, master |-> master, signers |-> signers, med |-> med, high |-> high,
   extra |-> balance]

\* The account as CreateAccount leaves it, and as SetOptions does.
Bare == AccountWith(1, <<>>, 0, 0, 0)
Given(c, p, e) == AccountWith(0, Setup!Signers(c, p), 1, 2, e)

\* The account, the row and the step of the handler of one key pair.
BoxInv(b) ==
  /\ creation[b] \in {Setup!Free} \cup SetupRecord
  /\ \/ /\ account[b] = Setup!Absent /\ listed[b] = Setup!Unlisted
        /\ creation[b].at \in {"free", "building", "signing", "sending", "error", "gone"}
     \/ /\ account[b] = Bare /\ listed[b] = Setup!Unlisted
        /\ creation[b].at \in {"configuring", "reconfiguring", "sendingConfig", "error", "gone"}
     \/ /\ creation[b] # Setup!Free
        /\ creation[b].at \in {"confirming", "reconfirming", "done", "error", "gone"}
        /\ \E e \in {0, 1} :
             /\ account[b] = Given(creation[b].creator, creation[b].powers, e)
             /\ \/ listed[b] = Setup!Unlisted /\ e = 0
                \/ listed[b] = [creator |-> creation[b].creator, powers |-> creation[b].powers]

SetupInv ==
  /\ Setup!SessionTypeOK
  /\ extra \in PowersGiven
  /\ current \in NewBoxes \cup {None} /\ failures \in 0..MaxFailures
  /\ DOMAIN creation = NewBoxes /\ DOMAIN account = NewBoxes /\ DOMAIN listed = NewBoxes
  /\ creation = [b \in NewBoxes |-> creation[b]] /\ account = [b \in NewBoxes |-> account[b]]
  /\ listed = [b \in NewBoxes |-> listed[b]]
  /\ \A b \in NewBoxes : BoxInv(b)

\* The creator weighs 2, everybody else who signs 1, and so the high threshold is 2.
LEMMA CreatorHeaviest ==
  ASSUME NEW c \in Accounts, NEW p \in PowersGiven
  PROVE  LET signers == Setup!Signers(c, p) IN
           /\ c \in DOMAIN signers /\ signers # <<>>
           /\ \A m \in DOMAIN signers : signers[m] = IF m = c THEN 2 ELSE 1
           /\ Setup!Max({signers[m] : m \in DOMAIN signers}) = 2
<1> DEFINE signers == Setup!Signers(c, p)
           weights == {signers[m] : m \in DOMAIN signers}
<1>1. /\ c \in DOMAIN signers
      /\ \A m \in DOMAIN signers : signers[m] = IF m = c THEN 2 ELSE 1
  BY DEF Setup!Signers, Setup!WeightOf
<1>2. signers # <<>>
  BY <1>1
<1>3. 2 \in weights /\ \A w \in weights : w \in {1, 2}
  BY <1>1
<1>4. Setup!Max(weights) = 2
  BY <1>3 DEF Setup!Max
<1> QED
  BY <1>1, <1>2, <1>4

LEMMA SameFunction ==
  ASSUME NEW D, NEW f, NEW g, f = [i \in D |-> f[i]], g = [i \in D |-> g[i]], \A i \in D : f[i] = g[i]
  PROVE  f = g
OBVIOUS

\* What SetOptions and a deposit do to a record.
SetsOptions(r, s) == [r EXCEPT !.master = 0, !.signers = s, !.med = 1, !.high = 2]
IsPaid(r) == [r EXCEPT !.extra = 1]

LEMMA AccountUpdates ==
  ASSUME NEW c, NEW p, NEW e
  PROVE  /\ SetsOptions(Bare, Setup!Signers(c, p)) = Given(c, p, 0)
         /\ IsPaid(Given(c, p, e)) = Given(c, p, 1)
<1> DEFINE fields == {"exists", "master", "signers", "med", "high", "extra"}
<1>1. SetsOptions(Bare, Setup!Signers(c, p)) = Given(c, p, 0)
  <2> PICK u, v : u = Given(c, p, 0) /\ v = SetsOptions(Bare, Setup!Signers(c, p))
    OBVIOUS
  <2>1. u = [f \in fields |-> u[f]]
    BY DEF Given, AccountWith
  <2>2. v = [f \in fields |-> v[f]]
    BY DEF SetsOptions, Bare, AccountWith
  <2>3. \A f \in fields : u[f] = v[f]
    BY DEF Given, SetsOptions, Bare, AccountWith
  <2> QED
    BY <2>1, <2>2, <2>3, SameFunction
<1>2. IsPaid(Given(c, p, e)) = Given(c, p, 1)
  <2> PICK u, v : u = Given(c, p, 1) /\ v = IsPaid(Given(c, p, e))
    OBVIOUS
  <2>1. u = [f \in fields |-> u[f]]
    BY DEF Given, AccountWith
  <2>2. v = [f \in fields |-> v[f]]
    BY DEF IsPaid, Given, AccountWith
  <2>3. \A f \in fields : u[f] = v[f]
    BY DEF Given, IsPaid, AccountWith
  <2> QED
    BY <2>1, <2>2, <2>3, SameFunction
<1> QED
  BY <1>1, <1>2

LEMMA SetupTypeFollows == SetupInv => Setup!TypeOK
<1> SUFFICES ASSUME SetupInv PROVE Setup!TypeOK
  OBVIOUS
<1>1. DOMAIN extra \subseteq Setup!People /\ \A m \in DOMAIN extra : extra[m] \in Setup!Powers
  BY DEF SetupInv, PowersGiven
<1>2. ASSUME NEW b \in NewBoxes
      PROVE  /\ creation[b] = Setup!Free \/ creation[b].at \in Setup!Steps
             /\ account[b] = Setup!Absent \/
                  /\ account[b].master \in {0, 1} /\ account[b].extra \in Nat
                  /\ account[b].high \in Nat /\ account[b].med \in Nat
             /\ listed[b] = Setup!Unlisted \/ listed[b].creator \in Accounts
  BY DEF SetupInv, BoxInv, SetupRecord, Bare, Given, AccountWith
<1> QED
  BY <1>1, <1>2 DEF SetupInv, Setup!TypeOK

LEMMA SetupGoverned == SetupInv => Setup!BoxesGoverned
<1> SUFFICES ASSUME SetupInv, NEW b \in NewBoxes
             PROVE  /\ listed[b] # Setup!Unlisted =>
                         /\ account[b].master = 0
                         /\ \A m \in DOMAIN account[b].signers :
                              /\ account[b].signers[m] >= account[b].med
                              /\ account[b].signers[m] >= account[b].high <=> m = listed[b].creator
                    /\ account[b] # Setup!Absent /\ account[b].extra > 0 => Setup!Governed(b)
  BY DEF Setup!BoxesGoverned, Setup!ListedIsGoverned, Setup!StrandsOnlyReserve
<1>1. CASE account[b] = Setup!Absent \/ account[b] = Bare
  BY <1>1 DEF SetupInv, BoxInv, Bare, Given, AccountWith, Setup!Absent
<1>2. ASSUME NEW e \in {0, 1}, creation[b] # Setup!Free,
             account[b] = Given(creation[b].creator, creation[b].powers, e),
             \/ listed[b] = Setup!Unlisted /\ e = 0
             \/ listed[b] = [creator |-> creation[b].creator, powers |-> creation[b].powers]
      PROVE  /\ listed[b] # Setup!Unlisted =>
                  /\ account[b].master = 0
                  /\ \A m \in DOMAIN account[b].signers :
                       /\ account[b].signers[m] >= account[b].med
                       /\ account[b].signers[m] >= account[b].high <=> m = listed[b].creator
             /\ account[b] # Setup!Absent /\ account[b].extra > 0 => Setup!Governed(b)
  <2> DEFINE c == creation[b].creator
             p == creation[b].powers
             signers == Setup!Signers(c, p)
  <2>1. c \in Accounts /\ p \in PowersGiven
    BY <1>2 DEF SetupInv, BoxInv, SetupRecord
  <2>2. signers # <<>> /\ \A m \in DOMAIN signers : signers[m] = IF m = c THEN 2 ELSE 1
    BY <2>1, CreatorHeaviest
  <2>3. /\ account[b].master = 0 /\ account[b].signers = signers
        /\ account[b].med = 1 /\ account[b].high = 2
    BY <1>2 DEF Given, AccountWith
  <2>4. listed[b] # Setup!Unlisted => listed[b].creator = c
    BY <1>2
  <2> HIDE DEF signers, c, p
  <2> QED
    BY <2>2, <2>3, <2>4 DEF Setup!Governed
<1> QED
  BY <1>1, <1>2 DEF SetupInv, BoxInv

LEMMA SetupInit == Setup!Init => SetupInv
<1> SUFFICES ASSUME Setup!Init PROVE SetupInv
  OBVIOUS
<1>1. Setup!SessionTypeOK
  BY SetupSession, SessionInitTyped DEF Setup!Init
<1>2. failures \in 0..MaxFailures
  BY BoundAssumption DEF Setup!Init
<1>3. extra \in PowersGiven
  <2>1. extra \in [{} -> Setup!Powers]
    BY DEF Setup!Init
  <2> QED
    BY <2>1 DEF PowersGiven
<1> QED
  BY <1>1, <1>2, <1>3 DEF Setup!Init, SetupInv, BoxInv, Setup!Free

LEMMA SetupStays == SetupInv /\ UNCHANGED Setup!vars => SetupInv'
BY DEF SetupInv, BoxInv, Setup!vars, Setup!sessionVars, Setup!SessionTypeOK, Setup!Keys

\* A step of the handler of b, with what it does to the account and the row of b.
LEMMA SetupOne ==
  ASSUME SetupInv, NEW b \in NewBoxes, NEW c, NEW a, NEW l,
         creation' = [creation EXCEPT ![b] = c], account' = [account EXCEPT ![b] = a],
         listed' = [listed EXCEPT ![b] = l], UNCHANGED <<extra, sessionVars>>,
         current' \in NewBoxes \cup {None}, failures' \in 0..MaxFailures,
         BoxInv(b)'
  PROVE  SetupInv'
<1>1. Setup!SessionTypeOK'
  BY SetupSessionTyped DEF OnlyAsks, SetupInv
<1>2. ASSUME NEW x \in NewBoxes, x # b PROVE BoxInv(x)'
  BY <1>2 DEF SetupInv, BoxInv
<1> QED
  BY <1>1, <1>2 DEF SetupInv

LEMMA SetupHandler ==
  ASSUME SetupInv, NEW b \in NewBoxes, Setup!Begin(b) \/ Setup!Progress(b) \/ Setup!Deposit(b)
  PROVE  SetupInv'
<1> USE DEF SetupRecord, Setup!Free
<1>f. failures \in 0..MaxFailures /\ (Setup!Failure => failures' \in 0..MaxFailures)
  BY BoundAssumption DEF SetupInv, Setup!Failure
<1>d. /\ b \in DOMAIN creation /\ b \in DOMAIN account /\ b \in DOMAIN listed
      /\ creation = [x \in NewBoxes |-> creation[x]] /\ account = [x \in NewBoxes |-> account[x]]
      /\ listed = [x \in NewBoxes |-> listed[x]] /\ current \in NewBoxes \cup {None}
      /\ BoxInv(b)
  BY DEF SetupInv
<1>s. UNCHANGED Setup!sessionVars => UNCHANGED sessionVars
  BY SetupSession DEF Setup!sessionVars, sessionVars
<1>1. CASE Setup!Begin(b)
  <2> DEFINE c == [at |-> "building", creator |-> publicKey, powers |-> extra]
  <2>1. c \in SetupRecord
    BY <1>1 DEF Setup!Begin, SetupInv, Setup!SessionTypeOK, Setup!Keys, Setup!Steps
  <2>2. BoxInv(b)'
    BY <1>1, <1>d, <2>1 DEF Setup!Begin, BoxInv
  <2> QED
    BY <1>1, <1>d, <1>f, <1>s, <2>2, SetupOne DEF Setup!Begin
<1>2. ASSUME NEW at \in Setup!Steps, Setup!Goes(b, at), creation[b] # Setup!Free
      PROVE  /\ creation' = [creation EXCEPT ![b] = creation'[b]]
             /\ creation'[b] \in SetupRecord
             /\ creation'[b].at = at /\ creation'[b].creator = creation[b].creator
             /\ creation'[b].powers = creation[b].powers
  BY <1>2, <1>d DEF Setup!Goes, BoxInv
<1>3. ASSUME NEW at \in {"signing", "sending", "error", "reconfiguring", "sendingConfig", "reconfirming"},
             Setup!Goes(b, at), creation[b] # Setup!Free,
             UNCHANGED <<extra, current, account, listed, failures, sessionVars>>,
             \/ at = "error"
             \/ creation[b].at \in {"building", "signing"} /\ at \in {"signing", "sending"}
             \/ creation[b].at \in {"configuring", "reconfiguring"} /\ at \in {"reconfiguring", "sendingConfig"}
             \/ creation[b].at \in {"confirming", "reconfirming"} /\ at = "reconfirming"
      PROVE  SetupInv'
  <2>1. BoxInv(b)'
    BY <1>2, <1>3, <1>d DEF BoxInv, Setup!Steps
  <2> QED
    BY <1>2, <1>3, <1>d, <1>f, <2>1, SetupOne DEF Setup!Steps
<1>4. CASE Setup!BuildCreate(b) \/ Setup!SignCreate(b) \/ Setup!ConfigureNotFound(b)
             \/ Setup!BuildConfigure(b) \/ Setup!ConfirmNotFound(b) \/ Setup!GivesUp(b)
  BY <1>3, <1>4, <1>s DEF Setup!BuildCreate, Setup!SignCreate, Setup!ConfigureNotFound, Setup!BuildConfigure,
     Setup!ConfirmNotFound, Setup!GivesUp, Setup!AfterNotFound, Setup!Running
<1>5. CASE Setup!CreateApplied(b) \/ Setup!CreateAnswerLost(b)
  <2>1. /\ creation[b].at = "sending" /\ creation[b] # Setup!Free
        /\ account' = [account EXCEPT ![b] = Bare] /\ listed' = listed
    BY <1>5 DEF Setup!CreateApplied, Setup!CreateAnswerLost, Setup!Created, Bare,
                AccountWith, Setup!ExtraStartingBalance
  <2>2. PICK at \in {"configuring", "error"} : Setup!Goes(b, at)
    BY <1>5 DEF Setup!CreateApplied, Setup!CreateAnswerLost
  <2>3. BoxInv(b)'
    BY <1>2, <1>d, <2>1, <2>2 DEF BoxInv, Setup!Steps, Bare, Given, AccountWith, Setup!Absent
  <2> QED
    BY <1>2, <1>5, <1>d, <1>f, <1>s, <2>1, <2>2, <2>3, SetupOne
    DEF Setup!Steps, Setup!CreateApplied, Setup!CreateAnswerLost
<1>6. CASE Setup!ConfigureApplied(b) \/ Setup!ConfigureFails(b)
  <2> DEFINE c == creation[b].creator
             p == creation[b].powers
             g == Given(c, p, 0)
  <2>1. creation[b].at = "sendingConfig" /\ creation[b] # Setup!Free /\ listed' = listed
    BY <1>6 DEF Setup!ConfigureApplied, Setup!ConfigureFails
  <2>2. account[b] = Bare /\ c \in Accounts /\ p \in PowersGiven
    BY <1>d, <2>1 DEF BoxInv
  <2>3. Setup!Configured(b) = [account EXCEPT ![b] = g]
    <3>1. Setup!Max({Setup!Signers(c, p)[m] : m \in DOMAIN Setup!Signers(c, p)}) = 2
      BY <2>2, CreatorHeaviest
    <3>2. SetsOptions(account[b], Setup!Signers(c, p)) = g
      BY <2>2, AccountUpdates
    <3> QED
      BY <3>1, <3>2 DEF Setup!Configured, SetsOptions
  <2> HIDE DEF g
  <2>4. PICK a \in {account[b], g}, at \in {"confirming", "error"} :
          /\ account' = [account EXCEPT ![b] = a] /\ Setup!Goes(b, at)
          /\ at = "confirming" => a = g
    BY <1>6, <1>d, <2>3 DEF Setup!ConfigureApplied, Setup!ConfigureFails
  <2>5. BoxInv(b)'
    <3>1. account'[b] = a /\ listed'[b] = listed[b] /\ listed[b] = Setup!Unlisted
      BY <1>d, <2>1, <2>4 DEF BoxInv
    <3>2. creation'[b] \in SetupRecord /\ creation'[b].at = at /\ creation'[b].creator = c
          /\ creation'[b].powers = p
      BY <1>2, <2>1, <2>4 DEF Setup!Steps
    <3>3. CASE a = g
      BY <3>1, <3>2, <3>3 DEF BoxInv, g, Setup!Steps
    <3>4. CASE a = account[b] /\ at = "error"
      BY <3>1, <3>2, <3>4, <2>2 DEF BoxInv, Setup!Steps
    <3> QED
      BY <2>4, <3>3, <3>4
  <2> QED
    BY <1>2, <1>6, <1>d, <1>f, <1>s, <2>1, <2>4, <2>5, SetupOne
    DEF Setup!Steps, Setup!ConfigureApplied, Setup!ConfigureFails
<1>7. CASE Setup!Confirmed(b) \/ Setup!ConfirmFails(b)
  <2> DEFINE entry == [creator |-> creation[b].creator, powers |-> creation[b].powers]
  <2>1. /\ creation[b].at \in {"confirming", "reconfirming"} /\ creation[b] # Setup!Free
        /\ account' = account
    BY <1>7 DEF Setup!Confirmed, Setup!ConfirmFails
  <2>2. PICK l \in {listed[b], entry}, at \in {"done", "error"} :
          listed' = [listed EXCEPT ![b] = l] /\ Setup!Goes(b, at)
    BY <1>7, <1>d DEF Setup!Confirmed, Setup!ConfirmFails, Setup!Row
  <2>3. BoxInv(b)'
    <3>1. PICK e \in {0, 1} :
            /\ account[b] = Given(creation[b].creator, creation[b].powers, e)
            /\ (listed[b] = Setup!Unlisted /\ e = 0) \/ listed[b] = entry
      BY <1>d, <2>1 DEF BoxInv
    <3>2. account'[b] = account[b] /\ listed'[b] = l
      BY <1>d, <2>1, <2>2
    <3>3. creation'[b] \in SetupRecord /\ creation'[b].at = at
          /\ creation'[b].creator = creation[b].creator /\ creation'[b].powers = creation[b].powers
      BY <1>2, <2>1, <2>2 DEF Setup!Steps
    <3> QED
      BY <2>2, <3>1, <3>2, <3>3 DEF BoxInv, Setup!Steps
  <2> QED
    BY <1>2, <1>7, <1>d, <1>f, <1>s, <2>1, <2>2, <2>3, SetupOne
    DEF Setup!Steps, Setup!Confirmed, Setup!ConfirmFails
<1>8. CASE Setup!Deposit(b)
  <2>1. /\ listed[b] # Setup!Unlisted /\ creation' = creation /\ listed' = listed
        /\ account' = [account EXCEPT ![b].extra = 1]
    BY <1>8 DEF Setup!Deposit
  <2> DEFINE g == Given(creation[b].creator, creation[b].powers, 1)
  <2>2. account' = [account EXCEPT ![b] = g]
    <3>1. PICK e \in {0, 1} : account[b] = Given(creation[b].creator, creation[b].powers, e)
      BY <1>d, <2>1 DEF BoxInv
    <3>2. IsPaid(account[b]) = g
      BY <3>1, AccountUpdates
    <3> QED
      BY <2>1, <3>2 DEF IsPaid
  <2>3. BoxInv(b)'
    BY <1>d, <2>1, <2>2 DEF BoxInv
  <2> QED
    BY <1>8, <1>d, <1>f, <1>s, <2>1, <2>2, <2>3, SetupOne DEF Setup!Deposit
<1> QED
  BY <1>1, <1>4, <1>5, <1>6, <1>7, <1>8 DEF Setup!Progress

LEMMA SetupNext == ASSUME SetupInv, Setup!Next PROVE SetupInv'
<1>s. ASSUME UNCHANGED sessionVars PROVE Setup!SessionTypeOK'
  BY <1>s, SetupSessionTyped DEF OnlyAsks, SetupInv
<1>n. <<>> \in PowersGiven
  <2>1. <<>> \in [{} -> Setup!Powers]
    OBVIOUS
  <2> QED
    BY <2>1 DEF PowersGiven
<1>1. ASSUME NEW m \in Setup!People, NEW power \in Setup!Powers, Setup!AddMember(m, power)
      PROVE  SetupInv'
  <2>1. extra' \in PowersGiven
    <3>1. PICK S \in SUBSET Setup!People : extra \in [S -> Setup!Powers]
      BY DEF SetupInv, PowersGiven
    <3>2. extra' \in [S \cup {m} -> Setup!Powers]
      BY <1>1, <3>1 DEF Setup!AddMember
    <3> QED
      BY <3>1, <3>2 DEF PowersGiven
  <2> QED
    BY <1>1, <1>s, <2>1 DEF Setup!AddMember, SetupInv, BoxInv, Setup!sessionVars, sessionVars
<1>2. CASE Setup!Leave
  BY <1>2, <1>s, <1>n DEF Setup!Leave, SetupInv, BoxInv, Setup!sessionVars, sessionVars
<1>3. CASE Setup!SessionMoves
  <2>1. Setup!SessionTypeOK'
    BY <1>3, SetupSessionTyped DEF Setup!SessionMoves, SetupInv
  <2> QED
    BY <1>3, <2>1, <1>n DEF Setup!SessionMoves, SetupInv, BoxInv
<1>4. CASE Setup!PageReloads
  <2>1. Setup!SessionTypeOK'
    BY <1>4, SetupSessionTyped DEF Setup!PageReloads, SetupInv
  <2>2. ASSUME NEW b \in NewBoxes PROVE BoxInv(b)'
    <3>1. account'[b] = account[b] /\ listed'[b] = listed[b] /\ BoxInv(b)
      BY <1>4 DEF Setup!PageReloads, SetupInv
    <3>2. CASE creation'[b] = creation[b]
      BY <3>1, <3>2 DEF BoxInv
    <3>3. CASE Setup!Running(b) /\ creation'[b] = [creation[b] EXCEPT !.at = "gone"]
      <4>1. creation[b] \in SetupRecord /\ creation[b] # Setup!Free
        BY <3>1, <3>3 DEF BoxInv, Setup!Running, Setup!Free
      <4>2. /\ creation'[b] \in SetupRecord /\ creation'[b].at = "gone" /\ creation'[b] # Setup!Free
            /\ creation'[b].creator = creation[b].creator /\ creation'[b].powers = creation[b].powers
        BY <3>3, <4>1 DEF SetupRecord, Setup!Steps, Setup!Free
      <4> QED
        BY <3>1, <4>1, <4>2 DEF BoxInv
    <3> QED
      BY <1>4, <3>2, <3>3 DEF Setup!PageReloads
  <2> QED
    BY <1>4, <2>1, <2>2, <1>n DEF Setup!PageReloads, SetupInv
<1> QED
  BY <1>1, <1>2, <1>3, <1>4, SetupHandler DEF Setup!Next

SetupOpen == route = "setup" => SetupInv

LEMMA SetupInductive ==
  /\ Init => SetupOpen
  /\ SetupOpen /\ [Next]_vars => SetupOpen'
BY SetupPageSteps, SetupInit, SetupStays, SetupNext DEF SetupOpen

\* Whatever is lost on the way, who sees a box, or has money in it, has one that its creator
\* governs.  (FamilyPoolPage.tsx 414-491.)
THEOREM NewBoxesAreGoverned == Spec => []BoxesGoverned
<1>1. SetupOpen => BoxesGoverned
  BY SetupGoverned DEF SetupOpen, BoxesGoverned
<1> QED
  BY <1>1, SetupInductive, PTL DEF Spec

----------------------------------------------------------------------------
(* The history of payments *)

\* The session of the page is the session.
LEMMA HistorySession ==
  /\ History!SessionInit => SessionInit
  /\ History!SessionTypeOK <=> SessionTypeOK
  /\ History!Stays => Stays
  /\ History!Reload => Reload
  /\ History!Revisit => Revisit
  /\ History!sessionVars = sessionVars
<1>1. /\ History!SwitchAccount => SwitchAccount
      /\ History!Detect => Detect
      /\ History!ConnectBegin => ConnectBegin
      /\ History!Granted => Granted
      /\ History!Refused => Refused
      /\ History!Disconnect => Disconnect
      /\ History!Focus => Focus
  BY DEF History!SwitchAccount, SwitchAccount, History!Detect, Detect, History!ConnectBegin, ConnectBegin,
         History!Granted, Granted, History!Refused, Refused, History!Disconnect, Disconnect, History!Focus, Focus,
         History!Holds, Holds, History!Cardinality, Cardinality, History!IsFiniteSet, IsFiniteSet
<1>2. ASSUME NEW l
      PROVE  /\ History!Answer(l) => Answer(l)
             /\ History!Deliver(l) => Deliver(l)
             /\ History!Unanswered(l) => Unanswered(l)
             /\ History!BalancesArrive(l) => BalancesArrive(l)
  BY DEF History!Answer, Answer, History!Deliver, Deliver, History!Unanswered, Unanswered, History!Holds, Holds,
         History!BalancesArrive, BalancesArrive
<1>3. History!Stays => Stays
  BY <1>1, <1>2 DEF History!Stays, Stays
<1> QED
  BY <1>3 DEF History!Reload, Reload, History!Revisit, Revisit, History!SessionTypeOK, SessionTypeOK, History!Keys,
              Keys, History!SessionInit, SessionInit, History!sessionVars, sessionVars

LEMMA HistorySessionTyped ==
  ASSUME History!SessionTypeOK, History!Stays \/ History!Reload \/ History!Revisit \/ OnlyAsks
  PROVE  History!SessionTypeOK'
<1>1. SessionTypeOK /\ (SessionMove \/ OnlyAsks)
  BY HistorySession DEF SessionMove
<1>2. SessionTypeOK'
  BY <1>1, SessionTyped, AskingTyped
<1> QED
  BY <1>2 DEF History!SessionTypeOK, SessionTypeOK, History!Keys, Keys

LEMMA HistoryPageSteps ==
  /\ Init => (route = "history" => History!Init)
  /\ [Next]_vars /\ route' = "history" => route = "history" /\ (History!Next \/ UNCHANGED History!vars)
BY DEF Init, Opens, Next, SessionStep, SendStep, SetupStep, FamilyStep, PoolStep, HistoryStep,
       ProfileStep, vars, historyOnly, History!vars, History!sessionVars, sessionVars

LEMMA FunctionIsSequence ==
  ASSUME NEW S, NEW n \in Nat, NEW f \in [1..n -> S]
  PROVE  f \in Seq(S) /\ Len(f) = n
OBVIOUS

\* What a page brings: each of its payments once, going down.
Brings(got, a, S) ==
  /\ \A i \in 1..Len(got) : got[i].who = a /\ got[i].n \in S
  /\ \A i, j \in 1..Len(got) : i < j => got[i].n > got[j].n
  /\ \A n \in S : \E i \in 1..Len(got) : got[i].n = n

LEMMA PageBrings ==
  ASSUME NEW S \in SUBSET (1..MaxOperations), NEW a \in Accounts,
         NEW list \in History!NewestFirst(S)
  PROVE  LET got == [i \in DOMAIN list |-> [who |-> a, n |-> list[i]]]
         IN  got \in Seq(History!Payment) /\ Brings(got, a, S)
<1> DEFINE got == [i \in DOMAIN list |-> [who |-> a, n |-> list[i]]]
<1>1. PICK k \in 0..PageSize : list \in [1..k -> S]
  BY DEF History!NewestFirst
<1>2. k \in Nat /\ DOMAIN list = 1..k
  BY <1>1, BoundAssumption
<1>3. got \in [1..k -> History!Payment]
  BY <1>1, <1>2 DEF History!Payment, History!Numbers
<1>4. got \in Seq(History!Payment) /\ Len(got) = k
  BY <1>2, <1>3, FunctionIsSequence
<1>5. \A i \in 1..k : got[i].who = a /\ got[i].n = list[i] /\ list[i] \in S
  BY <1>1, <1>2
<1>6. /\ \A i, j \in 1..k : i < j => list[i] > list[j]
      /\ \A n \in S : \E i \in 1..k : list[i] = n
  BY <1>2 DEF History!NewestFirst
<1> HIDE DEF got
<1>7. Brings(got, a, S)
  BY <1>4, <1>5, <1>6 DEF Brings
<1> QED
  BY <1>4, <1>7 DEF got

\* What is shown goes down without a hole, and to low without one.
Shown(l, key, recs, low) ==
  \A i \in 1..Len(recs) :
    /\ recs[i].who = key /\ recs[i].n <= l[key].last
    /\ i > 1 => recs[i].n < recs[i-1].n /\ History!Clear(l, key, recs[i].n, recs[i-1].n)
    /\ i = Len(recs) => low < recs[i].n /\ History!Clear(l, key, low, recs[i].n)

LedgerSound(l) ==
  /\ l \in [Accounts -> History!Ledger]
  /\ \A a \in Accounts : l[a].payments \subseteq 1..l[a].last

LEMMA LedgerOf ==
  ASSUME NEW l, LedgerSound(l), NEW a \in Accounts
  PROVE  /\ l[a].last \in 0..MaxOperations /\ l[a].last \in Nat
         /\ l[a].payments \in SUBSET (1..MaxOperations)
         /\ \A n \in l[a].payments : n \in 1..l[a].last
BY BoundAssumption DEF LedgerSound, History!Ledger, History!Numbers

\* The first page shows what it brings.
LEMMA FirstPageShown ==
  ASSUME NEW l, LedgerSound(l), NEW key \in Accounts,
         NEW low \in Nat, NEW top \in Nat, NEW got \in Seq(History!Payment),
         Brings(got, key, ((low + 1)..top) \cap l[key].payments)
  PROVE  Shown(l, key, got, low)
<1> DEFINE S == ((low + 1)..top) \cap l[key].payments
<1>1. \A n \in l[key].payments : n \in 1..l[key].last /\ n \in Nat
  BY LedgerOf
<1>2. \A i \in 1..Len(got) : got[i].n \in S /\ got[i].n \in Nat
  BY <1>1 DEF Brings
<1>3. ASSUME NEW i \in 1..Len(got)
      PROVE  /\ got[i].who = key /\ got[i].n <= l[key].last
             /\ i > 1 => got[i].n < got[i-1].n /\ History!Clear(l, key, got[i].n, got[i-1].n)
             /\ i = Len(got) => low < got[i].n /\ History!Clear(l, key, low, got[i].n)
  <2>1. got[i].who = key /\ got[i].n <= l[key].last /\ low < got[i].n
    BY <1>1, <1>2 DEF Brings
  <2>2. ASSUME i > 1 PROVE got[i].n < got[i-1].n /\ History!Clear(l, key, got[i].n, got[i-1].n)
    <3>1. i - 1 \in 1..Len(got)
      BY <2>2
    <3>2. got[i].n < got[i-1].n
      BY <1>2, <2>2, <3>1 DEF Brings
    <3>3. ASSUME NEW n \in l[key].payments, got[i].n < n, n < got[i-1].n PROVE FALSE
      <4>1. n \in S
        BY <1>1, <1>2, <3>1, <3>3
      <4>2. PICK j \in 1..Len(got) : got[j].n = n
        BY <4>1 DEF Brings
      <4>3. \A p, q \in 1..Len(got) : p < q => got[p].n > got[q].n
        BY DEF Brings
      <4>4. CASE j < i - 1
        <5>1. got[j].n > got[i-1].n
          BY <3>1, <4>3, <4>4
        <5> QED
          BY <1>2, <3>1, <3>3, <4>2, <5>1
      <4>5. CASE j > i
        <5>1. got[i].n > got[j].n
          BY <4>3, <4>5
        <5> QED
          BY <1>2, <3>3, <4>2, <5>1
      <4>6. CASE j = i - 1 \/ j = i
        BY <1>2, <3>1, <3>3, <4>2, <4>6
      <4> QED
        BY <4>4, <4>5, <4>6
    <3> QED
      BY <3>2, <3>3 DEF History!Clear
  <2>3. ASSUME i = Len(got), NEW n \in l[key].payments, low < n, n < got[i].n PROVE FALSE
    <3>1. n \in S
      BY <1>1, <1>2, <2>3
    <3>2. PICK j \in 1..Len(got) : got[j].n = n
      BY <3>1 DEF Brings
    <3> QED
      BY <1>2, <2>3, <3>2 DEF Brings
  <2> QED
    BY <2>1, <2>2, <2>3 DEF History!Clear
<1> QED
  BY <1>3 DEF Shown

\* A page that follows what is shown continues it.
LEMMA NextPageShown ==
  ASSUME NEW l, LedgerSound(l), NEW key \in Accounts,
         NEW low \in Nat, NEW top \in Nat, low <= top,
         NEW recs \in Seq(History!Payment), NEW got \in Seq(History!Payment),
         Brings(got, key, ((low + 1)..top) \cap l[key].payments),
         Shown(l, key, recs, top)
  PROVE  Shown(l, key, recs \o got, low)
<1> DEFINE all == recs \o got
           S == ((low + 1)..top) \cap l[key].payments
<1>1. \A n \in l[key].payments : n \in 1..l[key].last /\ n \in Nat
  BY LedgerOf
<1>2. Shown(l, key, got, low)
  BY FirstPageShown
<1>3. /\ Len(recs) \in Nat /\ Len(got) \in Nat /\ Len(all) = Len(recs) + Len(got)
      /\ \A i \in 1..Len(all) : all[i] = IF i <= Len(recs) THEN recs[i] ELSE got[i - Len(recs)]
  OBVIOUS
<1>4. /\ \A i \in 1..Len(recs) : recs[i].n \in Nat
      /\ \A i \in 1..Len(got) : got[i].n \in Nat /\ got[i].n \in S
  <2>1. \A i \in 1..Len(recs) : recs[i] \in History!Payment
    OBVIOUS
  <2>2. \A i \in 1..Len(got) : got[i].n \in S
    BY DEF Brings
  <2> QED
    BY <1>1, <2>1, <2>2, BoundAssumption DEF History!Payment, History!Numbers
<1> HIDE DEF all
<1>5. ASSUME NEW i \in 1..Len(all)
      PROVE  /\ all[i].who = key /\ all[i].n <= l[key].last
             /\ i > 1 => all[i].n < all[i-1].n /\ History!Clear(l, key, all[i].n, all[i-1].n)
             /\ i = Len(all) => low < all[i].n /\ History!Clear(l, key, low, all[i].n)
  <2>1. CASE i <= Len(recs)
    <3>1. i \in 1..Len(recs) /\ all[i] = recs[i] /\ (i > 1 => all[i-1] = recs[i-1])
      BY <1>3, <2>1
    <3>2. /\ all[i].who = key /\ all[i].n <= l[key].last
          /\ i > 1 => all[i].n < all[i-1].n /\ History!Clear(l, key, all[i].n, all[i-1].n)
      BY <1>2, <3>1 DEF Shown
    <3>3. ASSUME i = Len(all)
          PROVE  low < all[i].n /\ History!Clear(l, key, low, all[i].n)
      <4>1. Len(got) = 0 /\ i = Len(recs)
        BY <1>3, <2>1, <3>3
      <4>2. top < recs[i].n /\ History!Clear(l, key, top, recs[i].n)
        BY <3>1, <4>1 DEF Shown
      <4>3. \A n \in S : FALSE
        BY <4>1 DEF Brings
      <4>4. ASSUME NEW n \in l[key].payments, low < n, n < recs[i].n PROVE FALSE
        <5>1. CASE n <= top
          BY <1>1, <4>3, <4>4, <5>1
        <5>2. CASE top < n
          BY <4>2, <4>4, <5>2 DEF History!Clear
        <5> QED
          BY <1>1, <5>1, <5>2
      <4> QED
        BY <1>4, <3>1, <4>2, <4>4 DEF History!Clear
    <3> QED
      BY <3>2, <3>3
  <2>2. CASE i > Len(recs)
    <3>1. i - Len(recs) \in 1..Len(got) /\ all[i] = got[i - Len(recs)]
      BY <1>3, <2>2
    <3>2. all[i].who = key /\ all[i].n <= l[key].last
      BY <1>2, <3>1 DEF Shown
    <3>3. i = Len(all) => low < all[i].n /\ History!Clear(l, key, low, all[i].n)
      BY <1>2, <1>3, <3>1 DEF Shown
    <3>4. ASSUME i > Len(recs) + 1
          PROVE  all[i].n < all[i-1].n /\ History!Clear(l, key, all[i].n, all[i-1].n)
      <4>1. /\ (i - Len(recs)) - 1 \in 1..Len(got) /\ i - Len(recs) > 1
            /\ all[i-1] = got[(i - Len(recs)) - 1]
        BY <1>3, <3>1, <3>4
      <4> QED
        BY <1>2, <3>1, <4>1 DEF Shown
    <3>5. ASSUME i = Len(recs) + 1, i > 1
          PROVE  all[i].n < all[i-1].n /\ History!Clear(l, key, all[i].n, all[i-1].n)
      <4>1. /\ Len(recs) \in 1..Len(recs) /\ all[i] = got[1] /\ 1 \in 1..Len(got)
            /\ all[i-1] = recs[Len(recs)]
        BY <1>3, <3>1, <3>5
      <4> DEFINE r == recs[Len(recs)]
      <4>2. top < r.n /\ History!Clear(l, key, top, r.n) /\ r.n \in Nat
        BY <1>4, <4>1 DEF Shown
      <4>3. got[1].n <= top /\ low < got[1].n /\ got[1].n \in Nat
        BY <1>4, <4>1
      <4>4. ASSUME NEW n \in l[key].payments, got[1].n < n, n < r.n PROVE FALSE
        <5>1. CASE n <= top
          <6>1. n \in S
            BY <1>1, <4>3, <4>4, <5>1
          <6>2. PICK j \in 1..Len(got) : got[j].n = n
            BY <6>1 DEF Brings
          <6>3. j = 1 \/ 1 < j
            OBVIOUS
          <6> QED
            BY <1>4, <4>1, <4>4, <6>2, <6>3 DEF Brings
        <5>2. CASE top < n
          BY <4>2, <4>4, <5>2 DEF History!Clear
        <5> QED
          BY <1>1, <5>1, <5>2
      <4> QED
        BY <4>1, <4>2, <4>3, <4>4 DEF History!Clear
    <3> QED
      BY <1>3, <3>1, <3>2, <3>3, <3>4, <3>5
  <2> QED
    BY <1>3, <2>1, <2>2
<1> QED
  BY <1>5 DEF Shown, all

\* Where a page ends, when it begins at top.
LEMMA PageBounds ==
  ASSUME NEW top \in 0..MaxOperations
  PROVE  LET bottom == History!Bottom(top) IN
           /\ bottom \in 1..(top + 1)
           /\ top # 0 => bottom \in 1..MaxOperations
           /\ top = 0 => bottom = 1
BY BoundAssumption DEF History!Bottom

HistoryRequest == [who : Accounts, after : (1..MaxOperations) \cup {None}, replace : BOOLEAN]

\* Before the cursor, or before everything.
Low(after) == IF after = None THEN 0 ELSE after - 1

\* One page at most is on its way, and it follows what is shown.
Steady(l, key, recs, after, reqs, waits) ==
  /\ \A r \in reqs :
       /\ r.who = key
       /\ r.replace = TRUE => r.after = None
       /\ r.replace = FALSE => r.after = after /\ after # None
  /\ \A r, q \in reqs : r = q
  /\ reqs # {} => waits = TRUE
  /\ Shown(l, key, recs, Low(after))

HistorySteady == Steady(ledger, publicKey, records, cursor, requests, loading)

HistoryInv ==
  /\ History!SessionTypeOK
  /\ LedgerSound(ledger)
  /\ records \in Seq(History!Payment) /\ cursor \in (1..MaxOperations) \cup {None}
  /\ loading \in BOOLEAN /\ replaced \in BOOLEAN
  /\ requests \subseteq HistoryRequest
  /\ ~ replaced => HistorySteady

LEMMA FirstRequest ==
  ASSUME NEW a \in Accounts, NEW r, r = History!First(a)
  PROVE  r \in HistoryRequest /\ r.who = a /\ r.replace = TRUE /\ r.after = None
BY DEF History!First, HistoryRequest

\* Nothing shown yet, and nothing on its way but the first page.
LEMMA SteadyAtFirst ==
  ASSUME NEW key \in Accounts \cup {None}, NEW l,
         NEW reqs, reqs = {History!First(a) : a \in {key} \ {None}}
  PROVE  Steady(l, key, <<>>, None, reqs, (key # None)) /\ reqs \subseteq HistoryRequest
<1>1. \A r \in reqs : key \in Accounts /\ r = History!First(key)
  OBVIOUS
<1>2. \A r \in reqs : r \in HistoryRequest /\ r.who = key /\ r.replace = TRUE /\ r.after = None
  BY <1>1, FirstRequest
<1>4. reqs # {} => (key # None) = TRUE
  BY <1>1, NullAssumption
<1>5. Shown(l, key, <<>>, Low(None))
  BY DEF Shown
<1> QED
  BY <1>1, <1>2, <1>4, <1>5 DEF Steady

LEMMA HistoryMounted ==
  ASSUME NEW key \in Accounts \cup {None}, History!Mounted(key)
  PROVE  /\ records' \in Seq(History!Payment) /\ cursor' \in (1..MaxOperations) \cup {None}
         /\ loading' \in BOOLEAN /\ replaced' \in BOOLEAN /\ requests' \subseteq HistoryRequest
         /\ publicKey' = key => HistorySteady'
<1>1. /\ requests' = {History!First(a) : a \in {key} \ {None}} /\ loading' = (key # None)
      /\ records' = <<>> /\ cursor' = None /\ replaced' = FALSE
  BY DEF History!Mounted
<1>2. Steady(ledger', key, records', cursor', requests', loading') /\ requests' \subseteq HistoryRequest
  BY <1>1, SteadyAtFirst
<1>3. <<>> \in Seq(History!Payment)
  OBVIOUS
<1> QED
  BY <1>1, <1>2, <1>3 DEF HistorySteady

LEMMA HistoryInit == History!Init => HistoryInv
<1> SUFFICES ASSUME History!Init PROVE HistoryInv
  OBVIOUS
<1>1. History!SessionTypeOK
  BY HistorySession, SessionInitTyped DEF History!Init
<1>2. /\ LedgerSound(ledger)
      /\ records = <<>> /\ cursor = None /\ replaced = FALSE /\ loading = (publicKey # None)
      /\ requests = {History!First(a) : a \in {publicKey} \ {None}}
  BY DEF History!Init, LedgerSound
<1>3. publicKey \in Accounts \cup {None}
  BY <1>1 DEF History!SessionTypeOK, History!Keys
<1>4. HistorySteady /\ requests \subseteq HistoryRequest
  BY <1>2, <1>3, SteadyAtFirst DEF HistorySteady
<1>5. records \in Seq(History!Payment)
  BY <1>2
<1> QED
  BY <1>1, <1>2, <1>4, <1>5 DEF HistoryInv

LEMMA HistoryPageArrives ==
  ASSUME HistoryInv, NEW r \in requests, History!PageArrives(r)
  PROVE  HistoryInv'
<1>1. r \in HistoryRequest /\ LedgerSound(ledger) /\ r.who \in Accounts
  BY DEF HistoryInv, HistoryRequest
<1>2. PICK newest \in 0..ledger[r.who].last :
        LET top == History!Top(r, newest)
            bottom == History!Bottom(top)
        IN
          /\ cursor' = IF top = 0 THEN None ELSE bottom
          /\ \E list \in History!NewestFirst((bottom..top) \cap ledger[r.who].payments) :
               LET got == [i \in DOMAIN list |-> [who |-> r.who, n |-> list[i]]]
               IN  records' = IF r.replace THEN got ELSE records \o got
  BY DEF History!PageArrives
<1>3. PICK top : top = History!Top(r, newest)
  OBVIOUS
<1>4. top \in 0..MaxOperations /\ (r.after # None => top = r.after - 1)
  <2>1. newest \in 0..MaxOperations
    BY <1>1, LedgerOf, BoundAssumption
  <2>2. r.after \in (1..MaxOperations) \cup {None}
    BY <1>1 DEF HistoryRequest
  <2> QED
    BY <1>3, <2>1, <2>2, BoundAssumption DEF History!Top
<1>5. PICK bottom : bottom = History!Bottom(top)
  OBVIOUS
<1>6. PICK low : low = bottom - 1
  OBVIOUS
<1>7. /\ low \in Nat /\ low <= top /\ bottom = low + 1
      /\ top # 0 => bottom \in 1..MaxOperations
      /\ top = 0 => low = 0
  BY <1>4, <1>5, <1>6, PageBounds, BoundAssumption
<1>8. cursor' = IF top = 0 THEN None ELSE bottom
  BY <1>2, <1>3, <1>5
<1>9. cursor' \in (1..MaxOperations) \cup {None} /\ Low(cursor') = low
  BY <1>6, <1>7, <1>8, NullAssumption, BoundAssumption DEF Low
<1> DEFINE S == (bottom..top) \cap ledger[r.who].payments
<1>10. PICK list \in History!NewestFirst(S) :
         records' = IF r.replace THEN [i \in DOMAIN list |-> [who |-> r.who, n |-> list[i]]]
                    ELSE records \o [i \in DOMAIN list |-> [who |-> r.who, n |-> list[i]]]
  BY <1>2, <1>3, <1>5
<1>11. PICK got : got = [i \in DOMAIN list |-> [who |-> r.who, n |-> list[i]]]
  OBVIOUS
<1>12. S \in SUBSET (1..MaxOperations)
  BY <1>1, LedgerOf
<1>13. /\ got \in Seq(History!Payment)
       /\ Brings(got, r.who, ((low + 1)..top) \cap ledger[r.who].payments)
  BY <1>1, <1>7, <1>10, <1>11, <1>12, PageBrings
<1>14. records' = IF r.replace THEN got ELSE records \o got
  BY <1>10, <1>11
<1>15. /\ requests' = requests \ {r} /\ loading' = FALSE /\ UNCHANGED <<ledger, replaced>>
       /\ UNCHANGED sessionVars
  BY DEF History!PageArrives, History!sessionVars, sessionVars
<1>16. History!SessionTypeOK'
  BY <1>15, HistorySessionTyped DEF OnlyAsks, HistoryInv
<1>17. records' \in Seq(History!Payment)
  BY <1>13, <1>14 DEF HistoryInv
<1>18. ASSUME ~ replaced' PROVE HistorySteady'
  <2>1. HistorySteady /\ publicKey' = publicKey
    BY <1>15, <1>18 DEF HistoryInv, sessionVars
  <2>2. requests' = {}
    BY <1>15, <2>1 DEF HistorySteady, Steady
  <2>3. r.who = publicKey /\ (r.replace = FALSE => r.after = cursor /\ cursor # None)
    BY <2>1 DEF HistorySteady, Steady
  <2>4. Shown(ledger, publicKey, records', low)
    <3>1. CASE r.replace = TRUE
      BY <1>1, <1>4, <1>7, <1>13, <1>14, <2>3, <3>1, FirstPageShown
    <3>2. CASE r.replace = FALSE
      <4>1. Low(cursor) = top
        BY <1>4, <2>3, <3>2 DEF Low
      <4>2. Shown(ledger, publicKey, records, top)
        BY <2>1, <4>1 DEF HistorySteady, Steady
      <4>3. records \in Seq(History!Payment)
        BY DEF HistoryInv
      <4> QED
        BY <1>1, <1>4, <1>7, <1>13, <1>14, <2>3, <3>2, <4>2, <4>3, NextPageShown
    <3> QED
      BY <1>1, <3>1, <3>2 DEF HistoryRequest
  <2> QED
    BY <1>9, <1>15, <2>1, <2>2, <2>4 DEF HistorySteady, Steady
<1> QED
  BY <1>1, <1>9, <1>15, <1>16, <1>17, <1>18 DEF HistoryInv

\* What arrives at an account is newer than what is shown.
LEMMA ReceivedAbove ==
  ASSUME NEW l, LedgerSound(l), NEW a \in Accounts, NEW m, LedgerSound(m),
         m[a].last = l[a].last + 1, m[a].payments \subseteq l[a].payments \cup {l[a].last + 1},
         \A b \in Accounts \ {a} : m[b] = l[b],
         NEW key \in Accounts, NEW low \in Nat, NEW recs \in Seq(History!Payment),
         Shown(l, key, recs, low)
  PROVE  Shown(m, key, recs, low)
<1>1. CASE key # a
  <2>1. m[key] = l[key]
    BY <1>1
  <2> QED
    BY <2>1 DEF Shown, History!Clear
<1>2. CASE key = a
  <2>1. l[a].last \in Nat
    BY LedgerOf
  <2>2. \A i \in 1..Len(recs) : recs[i].n \in Nat /\ recs[i].n <= l[key].last
    <3>1. \A i \in 1..Len(recs) : recs[i] \in History!Payment
      OBVIOUS
    <3>2. \A i \in 1..Len(recs) : recs[i].n <= l[key].last
      BY DEF Shown
    <3> QED
      BY <3>1, <3>2, BoundAssumption DEF History!Payment, History!Numbers
  <2>3. ASSUME NEW i \in 1..Len(recs), NEW x, History!Clear(l, key, x, recs[i].n)
        PROVE  History!Clear(m, key, x, recs[i].n)
    BY <1>2, <2>1, <2>2, <2>3 DEF History!Clear
  <2>4. ASSUME NEW i \in 1..Len(recs)
        PROVE  /\ recs[i].who = key /\ recs[i].n <= m[key].last
               /\ i > 1 => recs[i].n < recs[i-1].n /\ History!Clear(m, key, recs[i].n, recs[i-1].n)
               /\ i = Len(recs) => low < recs[i].n /\ History!Clear(m, key, low, recs[i].n)
    <3>1. i > 1 => i - 1 \in 1..Len(recs)
      OBVIOUS
    <3>2. /\ recs[i].who = key
          /\ i > 1 => recs[i].n < recs[i-1].n /\ History!Clear(l, key, recs[i].n, recs[i-1].n)
          /\ i = Len(recs) => low < recs[i].n /\ History!Clear(l, key, low, recs[i].n)
      BY DEF Shown
    <3>3. recs[i].n <= m[key].last
      BY <1>2, <2>1, <2>2
    <3> QED
      BY <2>3, <3>1, <3>2, <3>3
  <2> QED
    BY <2>4 DEF Shown
<1> QED
  BY <1>1, <1>2

LEMMA HistoryNext == ASSUME HistoryInv, History!Next PROVE HistoryInv'
<1>s. ASSUME UNCHANGED sessionVars PROVE History!SessionTypeOK' /\ publicKey' = publicKey
  BY <1>s, HistorySessionTyped DEF OnlyAsks, HistoryInv, sessionVars
<1>1. ASSUME NEW a \in Accounts, History!Receive(a) PROVE HistoryInv'
  <2>1. LedgerSound(ledger) /\ records \in Seq(History!Payment)
    BY DEF HistoryInv
  <2>2. PICK payment \in {{}, {ledger[a].last + 1}} :
          ledger' = [ledger EXCEPT ![a] = [last |-> ledger[a].last + 1,
                                           payments |-> ledger[a].payments \cup payment]]
    BY <1>1 DEF History!Receive
  <2>3. /\ ledger[a].last < MaxOperations
        /\ UNCHANGED <<records, cursor, loading, requests, replaced, sessionVars>>
    BY <1>1 DEF History!Receive, History!sessionVars, sessionVars
  <2>4. /\ ledger[a].last \in Nat /\ ledger[a].last + 1 \in 1..MaxOperations
        /\ ledger[a].payments \in SUBSET (1..MaxOperations)
        /\ \A n \in ledger[a].payments : n \in 1..ledger[a].last
    BY <2>1, <2>3, LedgerOf, BoundAssumption
  <2>5. DOMAIN ledger = Accounts /\ ledger \in [Accounts -> History!Ledger]
    BY <2>1 DEF LedgerSound
  <2>6. /\ ledger'[a].last = ledger[a].last + 1
        /\ ledger'[a].payments = ledger[a].payments \cup payment
        /\ \A b \in Accounts \ {a} : ledger'[b] = ledger[b]
    BY <2>2, <2>5
  <2>7. LedgerSound(ledger')
    <3>1. [last |-> ledger[a].last + 1, payments |-> ledger[a].payments \cup payment] \in History!Ledger
      BY <2>4, BoundAssumption DEF History!Ledger, History!Numbers
    <3>2. ledger' \in [Accounts -> History!Ledger]
      BY <2>2, <2>5, <3>1
    <3>3. ledger'[a].payments \subseteq 1..ledger'[a].last
      BY <2>4, <2>6
    <3> QED
      BY <2>1, <2>6, <3>2, <3>3 DEF LedgerSound
  <2>8. ASSUME HistorySteady PROVE HistorySteady'
    <3>1. Shown(ledger', publicKey, records, Low(cursor))
      <4>1. CASE publicKey \in Accounts
        <5>1. Low(cursor) \in Nat
          BY BoundAssumption DEF Low, HistoryInv
        <5>2. ledger'[a].payments \subseteq ledger[a].payments \cup {ledger[a].last + 1}
          BY <2>6
        <5> QED
          BY <2>1, <2>6, <2>7, <2>8, <4>1, <5>1, <5>2, ReceivedAbove DEF HistorySteady, Steady
      <4>2. CASE publicKey \notin Accounts
        <5>1. \A i \in 1..Len(records) : records[i] \in History!Payment /\ records[i].who = publicKey
          BY <2>1, <2>8 DEF HistorySteady, Steady, Shown
        <5>2. \A i \in 1..Len(records) : FALSE
          BY <4>2, <5>1 DEF History!Payment
        <5> QED
          BY <5>2 DEF Shown
      <4> QED
        BY <4>1, <4>2
    <3> QED
      BY <1>s, <2>3, <2>8, <3>1 DEF HistorySteady, Steady
  <2> QED
    BY <1>s, <2>3, <2>7, <2>8 DEF HistoryInv
<1>2. ASSUME NEW r \in requests, History!PageFails(r) PROVE HistoryInv'
  <2>1. HistorySteady => requests' = {}
    BY <1>2 DEF History!PageFails, HistorySteady, Steady
  <2>2. /\ requests' = requests \ {r} /\ loading' = FALSE
        /\ UNCHANGED <<ledger, records, cursor, replaced, sessionVars>>
    BY <1>2 DEF History!PageFails, History!sessionVars, sessionVars
  <2>3. HistorySteady => HistorySteady'
    BY <1>s, <2>1, <2>2 DEF HistorySteady, Steady
  <2> QED
    BY <1>s, <2>2, <2>3 DEF HistoryInv
<1>3. CASE History!LoadMore
  <2>1. publicKey \in Accounts /\ cursor \in 1..MaxOperations /\ ~ loading
    BY <1>3 DEF History!LoadMore, HistoryInv, History!SessionTypeOK, History!Keys
  <2> DEFINE q == [who |-> publicKey, after |-> cursor, replace |-> FALSE]
  <2>2. q \in HistoryRequest /\ requests' = requests \cup {q}
    BY <1>3, <2>1 DEF HistoryRequest, History!LoadMore
  <2>3. HistorySteady => requests' = {q}
    BY <2>1, <2>2 DEF HistorySteady, Steady
  <2>4. loading' = TRUE /\ UNCHANGED <<ledger, records, cursor, replaced, sessionVars>>
    BY <1>3 DEF History!LoadMore, History!sessionVars, sessionVars
  <2>5. q.who = publicKey /\ q.replace = FALSE /\ q.after = cursor /\ cursor # None
    BY <1>3 DEF History!LoadMore
  <2> HIDE DEF q
  <2>6. HistorySteady => HistorySteady'
    BY <1>s, <2>3, <2>4, <2>5 DEF HistorySteady, Steady
  <2> QED
    BY <1>s, <2>2, <2>4, <2>6 DEF HistoryInv
<1>4. CASE History!SessionMoves
  <2>1. History!SessionTypeOK' /\ publicKey' \in Accounts \cup {None} /\ ledger' = ledger
    BY <1>4, HistorySessionTyped DEF History!SessionMoves, HistoryInv, History!SessionTypeOK,
       History!Keys
  <2>2. CASE publicKey' = publicKey
    BY <1>4, <2>1, <2>2 DEF History!SessionMoves, HistoryInv, HistorySteady, Steady
  <2>3. CASE History!Mounted(publicKey')
    BY <1>4, <2>1, <2>3, HistoryMounted DEF HistoryInv
  <2>4. CASE publicKey' # None /\ replaced' = TRUE /\ loading' = TRUE /\ UNCHANGED <<records, cursor>>
             /\ requests' = requests \cup {History!First(publicKey')}
    <3>1. History!First(publicKey') \in HistoryRequest
      BY <2>1, <2>4 DEF HistoryRequest, History!First
    <3> QED
      BY <2>1, <2>4, <3>1 DEF HistoryInv
  <2> QED
    BY <1>4, <2>2, <2>3, <2>4 DEF History!SessionMoves
<1>5. CASE History!PageReloads
  <2>1. History!SessionTypeOK' /\ publicKey' \in Accounts \cup {None} /\ ledger' = ledger
    BY <1>5, HistorySessionTyped DEF History!PageReloads, HistoryInv, History!SessionTypeOK,
       History!Keys
  <2> QED
    BY <1>5, <2>1, HistoryMounted DEF History!PageReloads, HistoryInv
<1> QED
  BY <1>1, <1>2, <1>3, <1>4, <1>5, HistoryPageArrives DEF History!Next

HistoryOpen == route = "history" => HistoryInv

LEMMA HistoryInductive ==
  /\ Init => HistoryOpen
  /\ HistoryOpen /\ [Next]_vars => HistoryOpen'
<1>1. HistoryInv /\ UNCHANGED History!vars => HistoryInv'
  BY DEF HistoryInv, HistorySteady, Steady, History!vars, History!sessionVars, History!SessionTypeOK,
     History!Keys
<1> QED
  BY <1>1, HistoryPageSteps, HistoryInit, HistoryNext DEF HistoryOpen

LEMMA HistoryTypeFollows == HistoryInv => History!TypeOK
BY BoundAssumption DEF HistoryInv, LedgerSound, History!TypeOK, HistoryRequest, History!Numbers

\* Whatever arrives at the account between two pages, and whatever operations that are no
\* payments fill a page, the history has no hole and shows no payment twice, down to its
\* cursor or to the first payment, as long as the session keeps its account.
\* (HistoryPage.tsx 81-104; stellar_client.py 141-142, 157-161.)
THEOREM HistoryHasNoHole == Spec => []HistoryContiguous
<1>1. HistoryInv => History!HistoryContiguous
  <2> SUFFICES ASSUME HistoryInv, ~ replaced
               PROVE  \A i \in DOMAIN records :
                        /\ records[i].who = publicKey
                        /\ i > 1 => records[i].n < records[i-1].n
                                    /\ History!Clear(ledger, publicKey, records[i].n, records[i-1].n)
                        /\ i = Len(records) =>
                             History!Clear(ledger, publicKey, Low(cursor), records[i].n)
    BY DEF History!HistoryContiguous, Low
  <2>1. DOMAIN records = 1..Len(records)
    BY DEF HistoryInv
  <2> QED
    BY <2>1 DEF HistoryInv, HistorySteady, Steady, Shown
<1>2. HistoryOpen => HistoryContiguous
  BY <1>1 DEF HistoryOpen, HistoryContiguous
<1> QED
  BY <1>2, HistoryInductive, PTL DEF Spec

----------------------------------------------------------------------------
(* The scheduled payments *)

\* The session of the page is the session.
LEMMA ProfileSession ==
  /\ Profile!SessionInit => SessionInit
  /\ Profile!SessionTypeOK <=> SessionTypeOK
  /\ Profile!Stays => Stays
  /\ Profile!Reload => Reload
  /\ Profile!Revisit => Revisit
  /\ Profile!sessionVars = sessionVars
<1>1. /\ Profile!SwitchAccount => SwitchAccount
      /\ Profile!Detect => Detect
      /\ Profile!ConnectBegin => ConnectBegin
      /\ Profile!Granted => Granted
      /\ Profile!Refused => Refused
      /\ Profile!Disconnect => Disconnect
      /\ Profile!Focus => Focus
  BY DEF Profile!SwitchAccount, SwitchAccount, Profile!Detect, Detect, Profile!ConnectBegin, ConnectBegin,
         Profile!Granted, Granted, Profile!Refused, Refused, Profile!Disconnect, Disconnect, Profile!Focus, Focus,
         Profile!Holds, Holds, Profile!Cardinality, Cardinality, Profile!IsFiniteSet, IsFiniteSet
<1>2. ASSUME NEW l
      PROVE  /\ Profile!Answer(l) => Answer(l)
             /\ Profile!Deliver(l) => Deliver(l)
             /\ Profile!Unanswered(l) => Unanswered(l)
             /\ Profile!BalancesArrive(l) => BalancesArrive(l)
  BY DEF Profile!Answer, Answer, Profile!Deliver, Deliver, Profile!Unanswered, Unanswered, Profile!Holds, Holds,
         Profile!BalancesArrive, BalancesArrive
<1>3. Profile!Stays => Stays
  BY <1>1, <1>2 DEF Profile!Stays, Stays
<1> QED
  BY <1>3 DEF Profile!Reload, Reload, Profile!Revisit, Revisit, Profile!SessionTypeOK, SessionTypeOK, Profile!Keys,
              Keys, Profile!SessionInit, SessionInit, Profile!sessionVars, sessionVars

LEMMA ProfileSessionTyped ==
  ASSUME Profile!SessionTypeOK, Profile!Stays \/ Profile!Reload \/ Profile!Revisit \/ OnlyAsks
  PROVE  Profile!SessionTypeOK'
<1>1. SessionTypeOK /\ (SessionMove \/ OnlyAsks)
  BY ProfileSession DEF SessionMove
<1>2. SessionTypeOK'
  BY <1>1, SessionTyped, AskingTyped
<1> QED
  BY <1>2 DEF Profile!SessionTypeOK, SessionTypeOK, Profile!Keys, Keys

LEMMA ProfilePageSteps ==
  /\ Init => (route = "profile" => Profile!Init)
  /\ [Next]_vars /\ route' = "profile" => route = "profile" /\ (Profile!Next \/ UNCHANGED Profile!vars)
BY DEF Init, Opens, Next, SessionStep, SendStep, SetupStep, FamilyStep, PoolStep, HistoryStep,
       ProfileStep, vars, profileOnly, Profile!vars, Profile!sessionVars, sessionVars

ListRecord ==
  [for : Calls \cup {None}, key : Accounts, got : {None} \cup SUBSET Profile!Shown]
CallRecord ==
  [at : {"sent", "read", "saved", "done"}, heard : BOOLEAN,
   kind : {"create", "toggle", "paid", "remove"}, rule : Rules \cup {None}, key : Accounts,
   active : BOOLEAN, copy : Profile!Row \cup {None}, stale : BOOLEAN, day : 0..MaxDays \cup {None}]

\* The next payment of a rule is a period after the one noted.
Noted(entry) == entry.paid # None => entry.next = entry.paid + Period

\* A request that has not saved yet has noted nothing and overwritten nothing.
CallSteady(c) ==
  /\ c.kind # "create" => c.rule \in Rules
  /\ c.at \in {"sent", "read"} => c.day = None /\ c.stale = FALSE
  /\ c.at = "read" => c.kind # "create" /\ c.copy \in Profile!Row /\ Noted(c.copy)
  /\ c.day # None => c.day <= today /\ c.rule \in Rules

Overwritten(r) == \E j \in Calls : call[j] # Profile!Free /\ call[j].rule = r /\ call[j].stale = TRUE

\* What a request that has noted a payment, or removed a rule, leaves in the table.
Keeps(c) ==
  c.day # None /\ ~ Overwritten(c.rule) =>
    /\ c.kind = "remove" => rules[c.rule] = None
    /\ c.kind = "paid" /\ rules[c.rule] # None => rules[c.rule].next >= c.day + Period

ProfileInv ==
  /\ Profile!SessionTypeOK
  /\ today \in 0..MaxDays /\ failures \in 0..MaxFailures
  /\ rules \in [Rules -> Profile!Row \cup {None}]
  /\ shown \subseteq Profile!Shown /\ busyId \in Rules \cup {None}
  /\ lists \subseteq ListRecord
  /\ call \in [Calls -> {Profile!Free} \cup CallRecord]
  /\ \A r \in Rules : rules[r] # None => Noted(rules[r])
  /\ \A k \in Calls : call[k] # Profile!Free => CallSteady(call[k]) /\ Keeps(call[k])

LEMMA ProfileInit == Profile!Init => ProfileInv
<1> SUFFICES ASSUME Profile!Init PROVE ProfileInv
  OBVIOUS
<1>1. Profile!SessionTypeOK
  BY ProfileSession, SessionInitTyped DEF Profile!Init
<1>2. rules \in [Rules -> Profile!Row \cup {None}] /\ \A r \in Rules : rules[r] # None => Noted(rules[r])
  <2>1. ASSUME NEW r \in Rules PROVE rules[r] \in Profile!Row \cup {None} /\ (rules[r] # None => Noted(rules[r]))
    <3>1. rules[r] \in {None} \cup
            [sender : Accounts, active : BOOLEAN, paid : {None}, next : 0..Period]
      BY DEF Profile!Init
    <3> QED
      BY <3>1, BoundAssumption DEF Profile!Row, Noted
  <2> QED
    BY <2>1 DEF Profile!Init
<1>3. lists \subseteq ListRecord
  BY <1>1 DEF Profile!Init, Profile!List, ListRecord, Profile!SessionTypeOK, Profile!Keys
<1>4. today \in 0..MaxDays /\ failures \in 0..MaxFailures
  BY BoundAssumption DEF Profile!Init
<1> QED
  BY <1>1, <1>2, <1>3, <1>4 DEF Profile!Init, ProfileInv

\* Calls that go on, while the table and the day stay, or the day moves on.
LEMMA ProfileCalls ==
  ASSUME ProfileInv, rules' = rules, today' \in 0..MaxDays, today <= today',
         NEW k \in Calls, call[k] # Profile!Free, call'[k] \in CallRecord,
         call'[k].rule = call[k].rule, call'[k].day = call[k].day, call'[k].kind = call[k].kind,
         CallSteady(call[k])',
         \A j \in Calls : call[j] # Profile!Free /\ call[j].stale = TRUE =>
           call'[j] # Profile!Free /\ call'[j].stale = TRUE /\ call'[j].rule = call[j].rule
  PROVE  Keeps(call[k])'
<1>1. ASSUME NEW r, Overwritten(r) PROVE Overwritten(r)'
  BY <1>1 DEF Overwritten
<1>2. Keeps(call[k])
  BY DEF ProfileInv
<1> QED
  BY <1>1, <1>2 DEF Keeps

LEMMA ProfileMounted ==
  ASSUME ProfileInv, NEW key \in Accounts \cup {None}, Profile!Mounted(key), Profile!SessionTypeOK',
         UNCHANGED <<today, rules, failures>>
  PROVE  ProfileInv'
<1>1. /\ shown' = {} /\ busyId' = None /\ lists' = {Profile!List(None, a) : a \in {key} \ {None}}
      /\ call' = [k \in Calls |-> IF call[k] = Profile!Free THEN Profile!Free
                                  ELSE [call[k] EXCEPT !.heard = FALSE]]
  BY DEF Profile!Mounted
<1>2. lists' \subseteq ListRecord
  BY <1>1 DEF Profile!List, ListRecord
<1>3. ASSUME NEW k \in Calls, call[k] # Profile!Free
      PROVE  /\ call'[k] \in CallRecord /\ call'[k] # Profile!Free
             /\ call'[k].rule = call[k].rule /\ call'[k].day = call[k].day
             /\ call'[k].kind = call[k].kind /\ call'[k].stale = call[k].stale
             /\ call'[k].at = call[k].at /\ call'[k].copy = call[k].copy
  <2>1. call[k] \in CallRecord
    BY <1>3 DEF ProfileInv
  <2>2. call'[k] = [call[k] EXCEPT !.heard = FALSE]
    BY <1>1, <1>3
  <2>3. call'[k] \in CallRecord /\ call'[k].at \in {"sent", "read", "saved", "done"}
    BY <2>1, <2>2 DEF CallRecord
  <2> QED
    BY <2>1, <2>2, <2>3 DEF CallRecord, Profile!Free
<1>4. \A k \in Calls : call[k] = Profile!Free => call'[k] = Profile!Free
  BY <1>1
<1>5. call' \in [Calls -> {Profile!Free} \cup CallRecord]
  BY <1>1, <1>3, <1>4
<1>6. ASSUME NEW k \in Calls, call'[k] # Profile!Free
      PROVE  CallSteady(call[k])' /\ Keeps(call[k])'
  <2>1. call[k] # Profile!Free /\ CallSteady(call[k])
    BY <1>4, <1>6 DEF ProfileInv
  <2>2. CallSteady(call[k])'
    BY <1>3, <2>1 DEF CallSteady, Noted
  <2>3. today' \in 0..MaxDays /\ today <= today'
    BY DEF ProfileInv
  <2> QED
    BY <1>3, <2>1, <2>2, <2>3, ProfileCalls
<1> QED
  BY <1>1, <1>2, <1>5, <1>6 DEF ProfileInv, Noted

\* One call goes on, and the table stays.
LEMMA ProfileOne ==
  ASSUME ProfileInv, NEW k \in Calls, NEW c \in CallRecord, call' = [call EXCEPT ![k] = c],
         UNCHANGED <<today, rules>>, CallSteady(c),
         call[k] # Profile!Free =>
           /\ c.rule = call[k].rule /\ c.day = call[k].day /\ c.kind = call[k].kind
           /\ call[k].stale = TRUE => c.stale = TRUE,
         call[k] = Profile!Free => c.day = None,
         shown' \subseteq Profile!Shown, busyId' \in Rules \cup {None}, lists' \subseteq ListRecord,
         failures' \in 0..MaxFailures, Profile!SessionTypeOK'
  PROVE  ProfileInv'
<1>1. /\ call'[k] = c /\ \A j \in Calls \ {k} : call'[j] = call[j]
      /\ call' \in [Calls -> {Profile!Free} \cup CallRecord]
  BY DEF ProfileInv
<1>2. c # Profile!Free
  BY DEF CallRecord, Profile!Free
<1>3. ASSUME NEW j \in Calls, call'[j] # Profile!Free
      PROVE  CallSteady(call[j])' /\ Keeps(call[j])'
  <2>1. CallSteady(call[j])'
    BY <1>1, <1>3 DEF CallSteady, ProfileInv
  <2>2. CASE call[j] = Profile!Free
    BY <1>1, <1>3, <2>1, <2>2 DEF Keeps
  <2>3. CASE call[j] # Profile!Free
    <3>1. /\ call'[j] \in CallRecord /\ call'[j].rule = call[j].rule /\ call'[j].day = call[j].day
          /\ call'[j].kind = call[j].kind
      BY <1>1, <1>3, <2>3 DEF ProfileInv
    <3>2. \A i \in Calls : call[i] # Profile!Free /\ call[i].stale = TRUE =>
            call'[i] # Profile!Free /\ call'[i].stale = TRUE /\ call'[i].rule = call[i].rule
      BY <1>1, <1>2
    <3>3. today' \in 0..MaxDays /\ today <= today'
      BY DEF ProfileInv
    <3> QED
      BY <2>1, <2>3, <3>1, <3>2, <3>3, ProfileCalls
  <2> QED
    BY <2>2, <2>3
<1> QED
  BY <1>1, <1>3 DEF ProfileInv, Noted

LEMMA ProfileNext == ASSUME ProfileInv, Profile!Next PROVE ProfileInv'
<1>t. /\ call \in [Calls -> {Profile!Free} \cup CallRecord] /\ lists \subseteq ListRecord
      /\ today \in 0..MaxDays /\ failures \in 0..MaxFailures
      /\ rules \in [Rules -> Profile!Row \cup {None}]
      /\ shown \subseteq Profile!Shown /\ busyId \in Rules \cup {None}
  BY DEF ProfileInv
<1>s. UNCHANGED Profile!sessionVars => Profile!SessionTypeOK'
  BY ProfileSessionTyped DEF OnlyAsks, ProfileInv, Profile!sessionVars, sessionVars
<1>f. ASSUME NEW k \in Calls, call[k].at # "free"
      PROVE  call[k] \in CallRecord /\ call[k] # Profile!Free /\ CallSteady(call[k])
  BY <1>t, <1>f DEF Profile!Free, ProfileInv
<1>p. publicKey # None => publicKey \in Accounts
  BY DEF ProfileInv, Profile!SessionTypeOK, Profile!Keys
<1>1. ASSUME NEW k \in Calls, Profile!Press(k) PROVE ProfileInv'
  <2>1. PICK s \in shown, kind \in {"toggle", "paid", "remove"} :
          busyId' = s.rule /\ call' = [call EXCEPT ![k] = Profile!Asked(kind, s.rule, ~ s.active)]
    BY <1>1 DEF Profile!Press
  <2> DEFINE c == Profile!Asked(kind, s.rule, ~ s.active)
  <2>2. /\ c \in CallRecord /\ c.day = None /\ c.kind = kind /\ c.rule = s.rule /\ c.at = "sent"
        /\ c.stale = FALSE /\ s.rule \in Rules
    BY <1>1, <1>t, <1>p DEF Profile!Press, Profile!Asked, CallRecord, Profile!Shown
  <2> HIDE DEF c
  <2> QED
    BY <1>1, <1>t, <1>s, <2>1, <2>2, ProfileOne DEF Profile!Press, CallSteady, c
<1>2. ASSUME NEW k \in Calls, Profile!CreateRule(k) PROVE ProfileInv'
  <2> DEFINE c == Profile!Asked("create", None, TRUE)
  <2>2. /\ c \in CallRecord /\ c.day = None /\ c.kind = "create" /\ c.at = "sent" /\ c.stale = FALSE
    BY <1>2, <1>p DEF Profile!CreateRule, Profile!Asked, CallRecord
  <2> HIDE DEF c
  <2> QED
    BY <1>2, <1>t, <1>s, <2>2, ProfileOne DEF Profile!CreateRule, CallSteady, c
<1>3. ASSUME NEW k \in Calls, Profile!Created(k) PROVE ProfileInv'
  <2>1. PICK r \in Rules :
          /\ rules[r] = None /\ r \notin {call[j].rule : j \in {j \in Calls : call[j] # Profile!Free}}
          /\ rules' = [rules EXCEPT ![r] = [sender |-> call[k].key, active |-> TRUE, paid |-> None,
                                            next |-> today + Period]]
          /\ call' = [call EXCEPT ![k] = [call[k] EXCEPT !.at = "saved", !.rule = r, !.day = today]]
    BY <1>3 DEF Profile!Created
  <2> DEFINE c == [call[k] EXCEPT !.at = "saved", !.rule = r, !.day = today]
             entry == [sender |-> call[k].key, active |-> TRUE, paid |-> None, next |-> today + Period]
  <2>2. /\ call[k] \in CallRecord /\ call[k] # Profile!Free /\ call[k].kind = "create"
        /\ call[k].stale = FALSE
    BY <1>3, <1>f DEF Profile!Created, CallSteady
  <2>3. entry \in Profile!Row /\ Noted(entry)
    BY <1>t, <2>2, BoundAssumption DEF Profile!Row, CallRecord, Noted
  <2>4. c \in CallRecord /\ c.at = "saved" /\ c.rule = r /\ c.day = today /\ c.kind = "create"
    BY <1>t, <2>2 DEF CallRecord
  <2>5. UNCHANGED <<today, shown, busyId, lists, failures>> /\ UNCHANGED Profile!sessionVars
    BY <1>3 DEF Profile!Created
  <2> HIDE DEF c, entry
  <2>6. /\ rules' = [rules EXCEPT ![r] = entry] /\ call' = [call EXCEPT ![k] = c]
    BY <2>1 DEF c, entry
  <2>7. /\ rules' \in [Rules -> Profile!Row \cup {None}] /\ call' \in [Calls -> {Profile!Free} \cup CallRecord]
        /\ call'[k] = c /\ \A j \in Calls \ {k} : call'[j] = call[j]
        /\ rules'[r] = entry /\ \A x \in Rules \ {r} : rules'[x] = rules[x]
    BY <1>t, <2>3, <2>4, <2>6
  <2>8. ASSUME NEW j \in Calls, call'[j] # Profile!Free PROVE CallSteady(call[j])' /\ Keeps(call[j])'
    <3>1. CASE j = k
      BY <1>t, <2>4, <2>5, <2>7, <3>1 DEF CallSteady, Keeps
    <3>2. CASE j # k
      <4>1. call'[j] = call[j] /\ call[j] # Profile!Free /\ call[j].rule # r
        BY <2>1, <2>7, <2>8, <3>2
      <4>2. CallSteady(call[j]) /\ Keeps(call[j])
        BY <4>1 DEF ProfileInv
      <4>3. ASSUME NEW x, Overwritten(x) PROVE Overwritten(x)'
        <5>1. PICK i \in Calls : call[i] # Profile!Free /\ call[i].rule = x /\ call[i].stale = TRUE
          BY <4>3 DEF Overwritten
        <5>2. i # k
          BY <2>2, <5>1
        <5> QED
          BY <2>7, <5>1, <5>2 DEF Overwritten
      <4>4. CallSteady(call[j])'
        BY <2>5, <4>1, <4>2 DEF CallSteady
      <4>5. call[j].day # None => rules'[call[j].rule] = rules[call[j].rule]
        BY <2>7, <4>1, <4>2 DEF CallSteady
      <4> QED
        BY <4>1, <4>2, <4>3, <4>4, <4>5 DEF Keeps
    <3> QED
      BY <3>1, <3>2
  <2>9. ASSUME NEW x \in Rules, rules'[x] # None PROVE Noted(rules[x])'
    BY <2>3, <2>7, <2>9 DEF ProfileInv, Noted
  <2> QED
    BY <1>s, <2>5, <2>7, <2>8, <2>9 DEF ProfileInv
<1>4. ASSUME NEW k \in Calls, Profile!Reads(k) PROVE ProfileInv'
  <2> DEFINE c == [call[k] EXCEPT !.at = "read", !.copy = rules[call[k].rule]]
  <2>1. call[k] \in CallRecord /\ call[k] # Profile!Free /\ CallSteady(call[k])
        /\ call[k].kind # "create" /\ call[k].at = "sent" /\ rules[call[k].rule] # None
    BY <1>4, <1>f DEF Profile!Reads, Profile!Allowed
  <2>2. rules[call[k].rule] \in Profile!Row /\ Noted(rules[call[k].rule])
    BY <1>t, <2>1 DEF CallSteady, ProfileInv
  <2>3. /\ c \in CallRecord /\ c.at = "read" /\ c.copy = rules[call[k].rule] /\ c.rule = call[k].rule
        /\ c.day = call[k].day /\ c.kind = call[k].kind /\ c.stale = call[k].stale
    BY <2>1, <2>2 DEF CallRecord
  <2> HIDE DEF c
  <2>4. CallSteady(c)
    BY <2>1, <2>2, <2>3 DEF CallSteady
  <2> QED
    BY <1>4, <1>t, <1>s, <2>1, <2>3, <2>4, ProfileOne DEF Profile!Reads, c
<1>5. ASSUME NEW k \in Calls, Profile!Saves(k) PROVE ProfileInv'
  <2>r. PICK r \in Rules : r = call[k].rule
    BY <1>5, <1>f DEF Profile!Saves, CallSteady
  <2> DEFINE stale == (call[k].kind # "remove" /\ rules[r] # call[k].copy)
             c == [call[k] EXCEPT !.at = "saved", !.day = today, !.stale = stale]
             entry == IF call[k].kind = "remove" THEN None ELSE Profile!Patched(call[k].copy, call[k])
  <2>1. /\ call[k] \in CallRecord /\ call[k] # Profile!Free /\ CallSteady(call[k])
        /\ call[k].at = "read"
    BY <1>5, <1>f DEF Profile!Saves
  <2>2. /\ r = call[k].rule /\ call[k].stale = FALSE /\ call[k].copy \in Profile!Row /\ Noted(call[k].copy)
        /\ call[k].kind \in {"toggle", "paid", "remove"}
    BY <2>r, <2>1 DEF CallSteady, CallRecord
  <2>3. /\ c \in CallRecord /\ c.at = "saved" /\ c.rule = r /\ c.day = today /\ c.stale = stale
        /\ c.kind = call[k].kind
    BY <1>t, <2>1, <2>2 DEF CallRecord
  <2>4. /\ entry \in Profile!Row \cup {None} /\ (entry # None => Noted(entry))
        /\ call[k].kind = "toggle" => entry # None /\ entry.next = call[k].copy.next
        /\ call[k].kind = "paid" => entry # None /\ entry.next = today + Period
        /\ call[k].kind = "remove" => entry = None
    <3>1. CASE call[k].kind = "remove"
      BY <3>1
    <3>2. CASE call[k].kind = "toggle"
      <4>1. entry = [call[k].copy EXCEPT !.active = call[k].active]
        BY <3>2 DEF Profile!Patched
      <4>2. entry \in Profile!Row /\ entry.next = call[k].copy.next /\ entry.paid = call[k].copy.paid
        BY <2>1, <2>2, <4>1 DEF Profile!Row, CallRecord
      <4> HIDE DEF entry
      <4> QED
        BY <2>2, <3>2, <4>2, NullAssumption DEF Noted
    <3>3. CASE call[k].kind = "paid"
      <4>1. entry = [call[k].copy EXCEPT !.paid = today, !.next = today + Period]
        BY <3>3 DEF Profile!Patched
      <4>a. today + Period \in Nat /\ today \in 0..MaxDays \cup {None}
        BY <1>t, BoundAssumption
      <4> HIDE DEF entry
      <4>b. /\ entry = [sender |-> call[k].copy.sender, active |-> call[k].copy.active,
                     paid |-> today, next |-> today + Period]
            /\ call[k].copy.sender \in Accounts /\ call[k].copy.active \in BOOLEAN
        BY <2>2, <4>1 DEF Profile!Row
      <4>2. entry \in Profile!Row /\ entry.next = today + Period /\ entry.paid = today
        BY <4>a, <4>b DEF Profile!Row
      <4> HIDE DEF entry
      <4> QED
        BY <3>3, <4>2, NullAssumption DEF Noted
    <3> QED
      BY <2>2, <3>1, <3>2, <3>3
  <2>5. /\ UNCHANGED <<today, shown, busyId, lists, failures>> /\ UNCHANGED Profile!sessionVars
        /\ rules' = [rules EXCEPT ![r] = entry] /\ call' = [call EXCEPT ![k] = c]
    BY <1>5, <2>2 DEF Profile!Saves
  <2> HIDE DEF c, entry
  <2>6. /\ rules' \in [Rules -> Profile!Row \cup {None}] /\ call' \in [Calls -> {Profile!Free} \cup CallRecord]
        /\ call'[k] = c /\ \A j \in Calls \ {k} : call'[j] = call[j]
        /\ rules'[r] = entry /\ \A x \in Rules \ {r} : rules'[x] = rules[x]
    BY <1>t, <2>2, <2>3, <2>4, <2>5
  <2>7. c # Profile!Free
    BY <2>3 DEF Profile!Free
  <2> HIDE DEF stale
  <2>8. ASSUME NEW x, Overwritten(x) PROVE Overwritten(x)'
    <3>1. PICK i \in Calls : call[i] # Profile!Free /\ call[i].rule = x /\ call[i].stale = TRUE
      BY <2>8 DEF Overwritten
    <3>2. i # k
      BY <2>2, <3>1
    <3> QED
      BY <2>6, <3>1, <3>2 DEF Overwritten
  <2>9. call[k].kind # "remove" /\ rules[r] # call[k].copy => Overwritten(r)'
    <3>1. SUFFICES ASSUME call[k].kind # "remove", rules[r] # call[k].copy PROVE Overwritten(r)'
      OBVIOUS
    <3>2. c.stale = TRUE
      BY <2>3, <3>1 DEF stale
    <3> QED
      BY <2>3, <2>6, <2>7, <3>2 DEF Overwritten
  <2>10. ASSUME NEW j \in Calls, call'[j] # Profile!Free PROVE CallSteady(call[j])' /\ Keeps(call[j])'
    <3>1. CASE j = k
      <4>1. CallSteady(call[j])'
        BY <1>t, <2>2, <2>3, <2>5, <2>6, <3>1, NullAssumption DEF CallSteady
      <4>2. Keeps(call[j])'
        BY <2>3, <2>4, <2>6, <3>1, <1>t, BoundAssumption DEF Keeps
      <4> QED
        BY <4>1, <4>2
    <3>2. CASE j # k
      <4>1. call'[j] = call[j] /\ call[j] # Profile!Free /\ call[j] \in CallRecord
        BY <1>t, <2>6, <2>10, <3>2
      <4>2. CallSteady(call[j]) /\ Keeps(call[j])
        BY <4>1 DEF ProfileInv
      <4>3. CallSteady(call[j])'
        BY <2>5, <4>1, <4>2 DEF CallSteady
      <4>4. CASE call[j].day # None /\ call[j].rule # r
        <5>1. rules'[call[j].rule] = rules[call[j].rule]
          BY <2>6, <4>2, <4>4 DEF CallSteady
        <5> QED
          BY <2>8, <4>1, <4>2, <4>3, <5>1 DEF Keeps
      <4>5. CASE call[j].day # None /\ call[j].rule = r /\ ~ Overwritten(r)'
        <5>1. ~ Overwritten(r) /\ call[j].day <= today /\ call[j].day \in 0..MaxDays
          BY <2>8, <4>1, <4>2, <4>5 DEF CallSteady, CallRecord
        <5>2. call[k].kind # "remove" => rules[r] = call[k].copy /\ rules[r] # None
          BY <2>2, <2>9, <4>5, NullAssumption
        <5>3. call[k].kind # "remove" => call[j].kind # "remove"
          BY <4>2, <4>5, <5>1, <5>2 DEF Keeps
        <5>4. call[j].kind = "paid" /\ entry # None => entry.next >= call[j].day + Period
          <6>1. CASE call[k].kind = "toggle"
            BY <2>4, <4>2, <4>5, <5>1, <5>2, <6>1 DEF Keeps
          <6>2. CASE call[k].kind = "paid"
            BY <1>t, <2>4, <5>1, <6>2, BoundAssumption
          <6> QED
            BY <2>2, <2>4, <6>1, <6>2
        <5>5. rules'[r] = entry /\ r \in Rules
          BY <2>2, <2>6
        <5>6. call[j].kind = "remove" => entry = None
          BY <2>2, <2>4, <5>3
        <5> QED
          BY <2>4, <4>1, <4>3, <4>5, <5>4, <5>5, <5>6 DEF Keeps
      <4>6. CASE call[j].day = None \/ (call[j].rule = r /\ Overwritten(r)')
        BY <4>1, <4>3, <4>6 DEF Keeps
      <4> QED
        BY <4>3, <4>4, <4>5, <4>6
    <3> QED
      BY <3>1, <3>2
  <2>11. ASSUME NEW x \in Rules, rules'[x] # None PROVE Noted(rules[x])'
    BY <2>4, <2>6, <2>11 DEF ProfileInv, Noted
  <2> QED
    BY <1>s, <2>5, <2>6, <2>10, <2>11 DEF ProfileInv
<1>6. ASSUME NEW k \in Calls, Profile!Answered(k) \/ Profile!Forbidden(k) \/ Profile!Unheard(k)
      PROVE ProfileInv'
  <2>1. call[k] \in CallRecord /\ call[k] # Profile!Free /\ CallSteady(call[k])
    BY <1>6, <1>f DEF Profile!Answered, Profile!Forbidden, Profile!Unheard
  <2>2. PICK at \in {call[k].at, "done"}, heard \in BOOLEAN :
          call' = [call EXCEPT ![k] = [call[k] EXCEPT !.at = at, !.heard = heard]]
    <3>1. CASE Profile!Answered(k) \/ Profile!Forbidden(k)
      <4>1. call' = [call EXCEPT ![k].at = "done"]
        BY <3>1 DEF Profile!Answered, Profile!Forbidden
      <4>2. [call[k] EXCEPT !.at = "done"] = [call[k] EXCEPT !.at = "done", !.heard = call[k].heard]
        BY <2>1 DEF CallRecord
      <4> QED
        BY <2>1, <4>1, <4>2 DEF CallRecord
    <3>2. CASE Profile!Unheard(k)
      BY <3>2 DEF Profile!Unheard
    <3> QED
      BY <1>6, <3>1, <3>2
  <2> DEFINE c == [call[k] EXCEPT !.at = at, !.heard = heard]
  <2>3. /\ c \in CallRecord /\ c.at = at /\ c.copy = call[k].copy /\ c.rule = call[k].rule
        /\ c.day = call[k].day /\ c.kind = call[k].kind /\ c.stale = call[k].stale
    BY <2>1 DEF CallRecord
  <2>4. /\ lists' \subseteq ListRecord /\ busyId' \in Rules \cup {None} /\ failures' \in 0..MaxFailures
        /\ shown' = shown /\ UNCHANGED <<today, rules>> /\ UNCHANGED Profile!sessionVars
    <3>1. Profile!List(k, call[k].key) \in ListRecord
      BY <2>1 DEF Profile!List, ListRecord, CallRecord
    <3>2. Profile!Freed(k) \in Rules \cup {None}
      BY <1>t DEF Profile!Freed
    <3>3. lists' \subseteq ListRecord
      BY <1>6, <1>t, <3>1 DEF Profile!Answered, Profile!Forbidden, Profile!Unheard
    <3>4. busyId' \in Rules \cup {None}
      BY <1>6, <1>t, <3>2 DEF Profile!Answered, Profile!Forbidden, Profile!Unheard
    <3>5. failures' \in 0..MaxFailures
      <4>1. CASE Profile!Unheard(k)
        BY <1>t, <4>1, BoundAssumption DEF Profile!Unheard
      <4>2. CASE Profile!Answered(k) \/ Profile!Forbidden(k)
        BY <1>t, <4>2 DEF Profile!Answered, Profile!Forbidden
      <4> QED
        BY <1>6, <4>1, <4>2
    <3> QED
      BY <1>6, <3>3, <3>4, <3>5 DEF Profile!Answered, Profile!Forbidden, Profile!Unheard
  <2> HIDE DEF c
  <2>5. CallSteady(c)
    BY <2>1, <2>3 DEF CallSteady
  <2> QED
    BY <1>t, <1>s, <2>1, <2>2, <2>3, <2>4, <2>5, ProfileOne DEF c
<1>7. ASSUME NEW l \in lists, Profile!ListServed(l) \/ Profile!ListArrives(l) \/ Profile!ListFails(l)
      PROVE ProfileInv'
  <2>1. l \in ListRecord
    BY <1>t
  <2>2. lists' \subseteq ListRecord
    <3>1. CASE Profile!ListServed(l)
      <4> DEFINE got == {[rule |-> r, active |-> rules[r].active] :
                           r \in {r \in Rules : rules[r] # None /\ rules[r].sender = l.key}}
      <4>1. got \subseteq Profile!Shown
        BY <1>t DEF Profile!Shown, Profile!Row
      <4>2. [l EXCEPT !.got = got] \in ListRecord
        BY <2>1, <4>1 DEF ListRecord
      <4>3. lists' = (lists \ {l}) \cup {[l EXCEPT !.got = got]}
        BY <3>1 DEF Profile!ListServed
      <4> QED
        BY <1>t, <4>2, <4>3
    <3>2. CASE Profile!ListArrives(l) \/ Profile!ListFails(l)
      BY <1>t, <3>2 DEF Profile!ListArrives, Profile!ListFails, Profile!ListEnds
    <3> QED
      BY <1>7, <3>1, <3>2
  <2>3. shown' \subseteq Profile!Shown
    BY <1>7, <1>t, <2>1 DEF Profile!ListServed, Profile!ListArrives, Profile!ListFails, ListRecord
  <2>4. /\ busyId' \in Rules \cup {None} /\ failures' \in 0..MaxFailures
        /\ UNCHANGED <<today, rules, call>> /\ UNCHANGED Profile!sessionVars
    BY <1>7, <1>t, BoundAssumption DEF Profile!ListServed, Profile!ListArrives, Profile!ListFails,
       Profile!ListEnds, Profile!Freed
  <2> QED
    BY <1>s, <2>2, <2>3, <2>4 DEF ProfileInv, CallSteady, Keeps, Overwritten, Noted
<1>8. CASE Profile!NextDay
  <2>1. /\ today' = today + 1 /\ today' \in 0..MaxDays /\ today <= today'
        /\ UNCHANGED <<rules, shown, busyId, lists, call, failures>> /\ UNCHANGED Profile!sessionVars
    BY <1>8, <1>t, BoundAssumption DEF Profile!NextDay
  <2>2. ASSUME NEW k \in Calls, call[k] # Profile!Free PROVE CallSteady(call[k])' /\ Keeps(call[k])'
    <3>1. call[k] \in CallRecord /\ CallSteady(call[k])
      BY <1>t, <2>2 DEF ProfileInv
    <3>2. call[k].day # None => call[k].day \in 0..MaxDays
      BY <3>1 DEF CallRecord
    <3>3. CallSteady(call[k])'
      BY <1>t, <2>1, <3>1, <3>2 DEF CallSteady, Noted
    <3> QED
      BY <2>1, <2>2, <3>1, <3>3, ProfileCalls
  <2> QED
    BY <1>s, <2>1, <2>2 DEF ProfileInv, Noted
<1>9. CASE Profile!SessionMoves
  <2>1. Profile!SessionTypeOK' /\ publicKey' \in Accounts \cup {None}
    BY <1>9, ProfileSessionTyped DEF Profile!SessionMoves, ProfileInv, Profile!SessionTypeOK, Profile!Keys
  <2>2. UNCHANGED <<today, rules, failures>>
    BY <1>9 DEF Profile!SessionMoves
  <2>3. CASE Profile!Mounted(publicKey')
    BY <2>1, <2>2, <2>3, ProfileMounted
  <2>4. CASE UNCHANGED <<shown, busyId, call>> /\ lists' \subseteq ListRecord
    BY <2>1, <2>2, <2>4 DEF ProfileInv, CallSteady, Keeps, Overwritten, Noted
  <2>5. None \notin {publicKey, publicKey'} => Profile!List(None, publicKey') \in ListRecord
    BY <2>1 DEF ListRecord, Profile!List
  <2> QED
    BY <1>9, <1>t, <2>3, <2>4, <2>5 DEF Profile!SessionMoves
<1>10. CASE Profile!PageReloads
  <2>1. Profile!SessionTypeOK' /\ publicKey' \in Accounts \cup {None}
    BY <1>10, ProfileSessionTyped DEF Profile!PageReloads, ProfileInv, Profile!SessionTypeOK, Profile!Keys
  <2> QED
    BY <1>10, <2>1, ProfileMounted DEF Profile!PageReloads
<1> QED
  BY <1>1, <1>2, <1>3, <1>4, <1>5, <1>6, <1>7, <1>8, <1>9, <1>10 DEF Profile!Next

ProfileOpen == route = "profile" => ProfileInv

LEMMA ProfileInductive ==
  /\ Init => ProfileOpen
  /\ ProfileOpen /\ [Next]_vars => ProfileOpen'
<1>1. ProfileInv /\ UNCHANGED Profile!vars => ProfileInv'
  BY DEF ProfileInv, Overwritten, Keeps, CallSteady, Noted, Profile!vars, Profile!sessionVars,
     Profile!SessionTypeOK, Profile!Keys
<1> QED
  BY <1>1, ProfilePageSteps, ProfileInit, ProfileNext DEF ProfileOpen

LEMMA ProfileTypeFollows == ProfileInv => Profile!TypeOK
<1> SUFFICES ASSUME ProfileInv PROVE Profile!TypeOK
  OBVIOUS
<1>1. \A l \in lists :
        l.for \in Calls \cup {None} /\ l.key \in Accounts /\ (l.got = None \/ l.got \subseteq Profile!Shown)
  BY DEF ProfileInv, ListRecord
<1>2. \A k \in Calls : call[k] = Profile!Free \/ call[k] \in CallRecord
  BY DEF ProfileInv
<1> QED
  BY <1>1, <1>2 DEF ProfileInv, Profile!TypeOK, CallRecord

\* A payment noted is not asked for again before a period has passed, and a rule removed stays
\* so, unless a stale copy is saved over it.  (payments/views.py 196-227.)
THEOREM RulesAreKept == Spec => []RulesKept
<1>1. ProfileInv => Profile!RulesKept
  BY DEF ProfileInv, Keeps, Noted, Overwritten, Profile!RulesKept, CallRecord
<1>2. ProfileOpen => RulesKept
  BY <1>1 DEF ProfileOpen, RulesKept
<1> QED
  BY <1>2, ProfileInductive, PTL DEF Spec

----------------------------------------------------------------------------
(* The page of a pool *)

\* The session of the page is the session.
LEMMA PoolSession ==
  /\ Pool!SessionInit => SessionInit
  /\ Pool!SessionTypeOK <=> SessionTypeOK
  /\ Pool!Stays => Stays
  /\ Pool!Reload => Reload
  /\ Pool!Revisit => Revisit
  /\ Pool!sessionVars = sessionVars
<1>1. /\ Pool!SwitchAccount => SwitchAccount
      /\ Pool!Detect => Detect
      /\ Pool!ConnectBegin => ConnectBegin
      /\ Pool!Granted => Granted
      /\ Pool!Refused => Refused
      /\ Pool!Disconnect => Disconnect
      /\ Pool!Focus => Focus
  BY DEF Pool!SwitchAccount, SwitchAccount, Pool!Detect, Detect, Pool!ConnectBegin, ConnectBegin,
         Pool!Granted, Granted, Pool!Refused, Refused, Pool!Disconnect, Disconnect, Pool!Focus, Focus,
         Pool!Holds, Holds, Pool!Cardinality, Cardinality, Pool!IsFiniteSet, IsFiniteSet
<1>2. ASSUME NEW l
      PROVE  /\ Pool!Answer(l) => Answer(l)
             /\ Pool!Deliver(l) => Deliver(l)
             /\ Pool!Unanswered(l) => Unanswered(l)
             /\ Pool!BalancesArrive(l) => BalancesArrive(l)
  BY DEF Pool!Answer, Answer, Pool!Deliver, Deliver, Pool!Unanswered, Unanswered, Pool!Holds, Holds,
         Pool!BalancesArrive, BalancesArrive
<1>3. Pool!Stays => Stays
  BY <1>1, <1>2 DEF Pool!Stays, Stays
<1> QED
  BY <1>3 DEF Pool!Reload, Reload, Pool!Revisit, Revisit, Pool!SessionTypeOK, SessionTypeOK, Pool!Keys,
              Keys, Pool!SessionInit, SessionInit, Pool!sessionVars, sessionVars

LEMMA PoolSessionTyped ==
  ASSUME Pool!SessionTypeOK, Pool!Stays \/ Pool!Reload \/ Pool!Revisit \/ OnlyAsks
  PROVE  Pool!SessionTypeOK'
<1>1. SessionTypeOK /\ (SessionMove \/ OnlyAsks)
  BY PoolSession DEF SessionMove
<1>2. SessionTypeOK'
  BY <1>1, SessionTyped, AskingTyped
<1> QED
  BY <1>2 DEF Pool!SessionTypeOK, SessionTypeOK, Pool!Keys, Keys

LEMMA PoolPageSteps ==
  /\ Init => (route = "pool" => Pool!Init)
  /\ [Next]_vars /\ route' = "pool" => route = "pool" /\ (Pool!Next \/ UNCHANGED Pool!vars)
BY DEF Init, Opens, Next, SessionStep, SendStep, SetupStep, FamilyStep, PoolStep, HistoryStep,
       ProfileStep, vars, poolOnly, Pool!vars, Pool!page, Pool!server, Pool!sessionVars, sessionVars

Running == {"building", "signing", "submitting", "refetching"}
DonationRecord ==
  [at : Running \cup {"done", "refused", "stopped"}, key : Accounts, mode : {"classic", "vault"},
   paid : BOOLEAN, lost : BOOLEAN]

\* What a read brings is an answer to what it asks.
PoolRead ==
  {r \in Pool!Reads : r.got # "nothing" =>
     /\ r.for \in Pool!ReadsRow => r.progress \in Pool!Progress
     /\ r.for = "trust" <=> r.got \in {"yes", "no"}}

PoolTyped ==
  /\ Pool!SessionTypeOK
  /\ contract \in {"none", "open", "complete"} /\ row \in BOOLEAN /\ progress \in Pool!Progress
  /\ detail \in Pool!Detail \cup {None} /\ vault \in {None, "open", "complete"}
  /\ loading \in BOOLEAN /\ failed \in BOOLEAN /\ timer \in BOOLEAN /\ busy \in BOOLEAN
  /\ vaultBusy \in {"idle", "sending", "refreshing"}
  /\ vaultBusy # "idle" => Wallet \in Accounts
  /\ reads \subseteq PoolRead
  /\ asset \in {"XLM", "issued"} /\ trust \in {None, "yes", "no"}
  /\ opening \in Accounts \cup {None}
  /\ status \in {"idle", "building", "signing", "submitting", "ok"}
  /\ donation \in [Donations -> {Pool!Free} \cup DonationRecord]
  /\ failures \in 0..MaxFailures

\* What the stepper s and the buttons b tell of the last donation d.
Tells(d, s, b) ==
  /\ d.at \in Running => b = TRUE
  /\ d.at \in {"building", "signing", "submitting"} => s = d.at /\ d.paid = FALSE
  /\ d.at = "refetching" => s = "ok" /\ d.paid = TRUE
  /\ d.at = "refused" => s = "building" /\ d.paid = FALSE
  /\ d.at = "done" => \/ s = "ok" /\ d.paid = TRUE
                      \/ s = "idle" /\ (d.paid = TRUE => d.lost = TRUE)

LastOf(don, k) == don[k] # Pool!Free /\ \A j \in Donations : don[j] # Pool!Free => j <= k

\* Donations begin in turn, one at a time: no handler runs but the last one's, and none beside
\* the opening of a trustline.
Stepper(don, s, b, o) ==
  /\ o # None => b = TRUE /\ \A k \in Donations : don[k].at \notin Running
  /\ \A j, k \in Donations : j < k /\ don[k] # Pool!Free => don[j] # Pool!Free
  /\ \A k \in Donations : don[k].at \in Running => LastOf(don, k)
  /\ \A k \in Donations : LastOf(don, k) => Tells(don[k], s, b)

PoolInv == PoolTyped /\ Stepper(donation, status, busy, opening)

LEMMA PoolInit == Pool!Init => PoolInv
<1> SUFFICES ASSUME Pool!Init PROVE PoolInv
  OBVIOUS
<1>1. Pool!SessionTypeOK
  BY PoolSession, SessionInitTyped DEF Pool!Init
<1>2. failures \in 0..MaxFailures
  BY BoundAssumption DEF Pool!Init
<1>3. Pool!Ask("load") \in PoolRead
  BY DEF Pool!Ask, Pool!Reads, Pool!Reasons, Pool!ReadsRow, PoolRead
<1>4. donation \in [Donations -> {Pool!Free} \cup DonationRecord]
  BY DEF Pool!Init
<1>5. \A k \in Donations : donation[k] = Pool!Free /\ donation[k].at = "free"
  BY DEF Pool!Init, Pool!Free
<1>6. Stepper(donation, status, busy, opening)
  BY <1>5 DEF Stepper, LastOf, Running, Pool!Init
<1>7. PoolTyped
  BY <1>1, <1>2, <1>3, <1>4 DEF Pool!Init, PoolTyped
<1> QED
  BY <1>6, <1>7 DEF PoolInv

\* The handler of the last donation goes on, or begins.
LEMMA LastGoesOn ==
  ASSUME NEW don \in [Donations -> {Pool!Free} \cup DonationRecord], NEW s, NEW b, NEW o, Stepper(don, s, b, o),
         NEW k \in Donations, NEW d \in DonationRecord, NEW s2, NEW b2, Tells(d, s2, b2),
         \/ don[k].at \in Running
         \/ /\ b = FALSE /\ don[k] = Pool!Free
            /\ \A j \in Donations : j < k => don[j] # Pool!Free
  PROVE  Stepper([don EXCEPT ![k] = d], s2, b2, o)
<1> DEFINE new == [don EXCEPT ![k] = d]
<1>1. new[k] = d /\ \A j \in Donations \ {k} : new[j] = don[j]
  OBVIOUS
<1>2. d # Pool!Free /\ Pool!Free.at = "free"
  BY DEF DonationRecord, Pool!Free, Running
<1> HIDE DEF new
<1>3. \A j \in Donations : don[j] # Pool!Free => j <= k
  <2>1. CASE don[k].at \in Running
    BY <2>1 DEF Stepper, LastOf
  <2>2. CASE don[k] = Pool!Free
    BY <2>2, DonationAssumption DEF Stepper
  <2> QED
    BY <2>1, <2>2
<1>4. \A j \in Donations : j < k => don[j] # Pool!Free
  BY <1>2 DEF Stepper, Running
<1>5. \A j \in Donations \ {k} : don[j].at \notin Running
  <2>1. CASE don[k].at \in Running
    BY <1>2, <2>1, DonationAssumption DEF Stepper, LastOf, Running
  <2>2. CASE b = FALSE
    <3>1. ASSUME NEW j \in Donations, don[j].at \in Running PROVE FALSE
      <4>1. LastOf(don, j) /\ Tells(don[j], s, b)
        BY <3>1 DEF Stepper
      <4> QED
        BY <2>2, <3>1, <4>1 DEF Tells
    <3> QED
      BY <3>1
  <2> QED
    BY <2>1, <2>2
<1>6. \A j \in Donations : LastOf(new, j) <=> j = k
  BY <1>1, <1>2, <1>3, DonationAssumption DEF LastOf
<1>7. \A i, j \in Donations : i < j /\ new[j] # Pool!Free => new[i] # Pool!Free
  BY <1>1, <1>2, <1>3, <1>4, DonationAssumption DEF Stepper
<1>8. o = None
  <2>1. CASE don[k].at \in Running
    BY <2>1 DEF Stepper
  <2>2. CASE b = FALSE
    BY <2>2 DEF Stepper
  <2> QED
    BY <2>1, <2>2
<1>9. Stepper(new, s2, b2, o)
  BY <1>1, <1>5, <1>6, <1>7, <1>8 DEF Stepper
<1> QED
  BY <1>9 DEF new

\* What a read adds and what its arrival leaves are reads.
LEMMA PoolReads ==
  /\ \A why \in Pool!Reasons : Pool!Ask(why) \in PoolRead
  /\ \A d, rs : rs \subseteq PoolRead /\ Pool!SetDetail(d, rs) =>
       /\ reads' \subseteq PoolRead /\ detail' = d
       /\ vault' = vault \/ vault' = None
       /\ trust' = trust \/ trust' = None
  /\ \A rs, why : rs \subseteq PoolRead => Pool!Cancels(rs, why) \subseteq PoolRead
  /\ \A moved, asks, rs : rs \subseteq PoolRead => Pool!TrustReads(moved, asks, rs) \subseteq PoolRead
<1>1. \A why \in Pool!Reasons : Pool!Ask(why) \in PoolRead
  BY DEF Pool!Ask, Pool!Reads, PoolRead
<1>2. /\ Pool!Ask("check") \in PoolRead /\ Pool!Ask("vault") \in PoolRead
      /\ Pool!Ask("trust") \in PoolRead
  BY <1>1 DEF Pool!Reasons, Pool!ReadsRow
<1>3. \A rs, why : rs \subseteq PoolRead => Pool!Cancels(rs, why) \subseteq PoolRead
  BY DEF Pool!Cancels
<1>4. \A moved, asks, rs : rs \subseteq PoolRead => Pool!TrustReads(moved, asks, rs) \subseteq PoolRead
  BY <1>2, <1>3 DEF Pool!TrustReads
<1>5. ASSUME NEW d, NEW rs, rs \subseteq PoolRead, Pool!SetDetail(d, rs)
      PROVE  /\ reads' \subseteq PoolRead /\ detail' = d
             /\ vault' = vault \/ vault' = None
             /\ trust' = trust \/ trust' = None
  <2>1. PICK kept \in SUBSET PoolRead, all \in SUBSET PoolRead :
          /\ all \subseteq kept \cup {Pool!Ask("vault")}
          /\ reads' = Pool!Check(d, all)
    BY <1>2, <1>3, <1>4, <1>5 DEF Pool!SetDetail
  <2>2. reads' \subseteq PoolRead
    BY <1>2, <2>1 DEF Pool!Check
  <2> QED
    BY <1>5, <2>2 DEF Pool!SetDetail, Pool!TrustThen
<1> QED
  BY <1>1, <1>3, <1>4, <1>5

\* A step that leaves the donations, the stepper and its buttons.
LEMMA PoolQuiet ==
  ASSUME PoolInv, PoolTyped', UNCHANGED <<donation, status, busy, opening>>
  PROVE  PoolInv'
BY DEF PoolInv, Stepper, LastOf, Tells

\* A step of the handler of donation k.
LEMMA PoolHandler ==
  ASSUME PoolInv, NEW k \in Donations, NEW d \in DonationRecord, donation' = [donation EXCEPT ![k] = d],
         donation[k].at \in Running, Tells(d, status', busy'), PoolTyped', UNCHANGED opening
  PROVE  PoolInv'
<1>1. Stepper(donation', status', busy', opening')
  BY LastGoesOn DEF PoolInv, PoolTyped
<1> QED
  BY <1>1 DEF PoolInv, Stepper, LastOf, Tells

LEMMA PoolNext == ASSUME PoolInv, Pool!Next PROVE PoolInv'
<1>t. PoolTyped /\ Stepper(donation, status, busy, opening)
  BY DEF PoolInv
<1>s. UNCHANGED Pool!sessionVars => Pool!SessionTypeOK'
  BY <1>t, PoolSessionTyped DEF OnlyAsks, PoolTyped, Pool!sessionVars, sessionVars
<1>r. /\ \A why \in Pool!Reasons : Pool!Ask(why) \in PoolRead
      /\ reads \subseteq PoolRead
  BY <1>t, PoolReads DEF PoolTyped
<1>k. ASSUME NEW k \in Donations, donation[k].at # "free"
      PROVE  donation[k] \in DonationRecord
  BY <1>t, <1>k DEF PoolTyped, Pool!Free
<1>p. publicKey # None => publicKey \in Accounts
  BY <1>t DEF PoolTyped, Pool!SessionTypeOK, Pool!Keys
<1>1. CASE Pool!Registers \/ Pool!Completes \/ Pool!RowLearns \/ Pool!Receives
  <2>1. progress' \in Pool!Progress
    BY <1>1, <1>t DEF PoolTyped, Pool!Registers, Pool!Completes, Pool!RowLearns, Pool!Receives, Pool!Then,
       Pool!Progress
  <2>2. contract' \in {"none", "open", "complete"} /\ row' \in BOOLEAN
    BY <1>1, <1>t DEF PoolTyped, Pool!Registers, Pool!Completes, Pool!RowLearns, Pool!Receives
  <2>3. UNCHANGED <<Pool!page, donation, failures>> /\ UNCHANGED Pool!sessionVars
    BY <1>1 DEF Pool!Registers, Pool!Completes, Pool!RowLearns, Pool!Receives
  <2>4. PoolTyped'
    BY <1>s, <1>t, <2>1, <2>2, <2>3 DEF PoolTyped, Pool!page
  <2> QED
    BY <2>3, <2>4, PoolQuiet DEF Pool!page
<1>2. ASSUME NEW r \in reads, Pool!Serve(r) PROVE PoolInv'
  <2>1. PICK got \in {"classic", "open", "complete", "yes", "no"} :
          /\ got \in {"yes", "no"} <=> r.for = "trust"
          /\ reads' = (reads \ {r}) \cup
               {[for |-> r.for, got |-> got,
                 progress |-> IF r.for \in Pool!ReadsRow THEN progress ELSE None]}
    BY <1>2, <1>t DEF Pool!Trustline, Pool!Serve, PoolTyped, Pool!ReadsRow
  <2> DEFINE new == [for |-> r.for, got |-> got,
                     progress |-> IF r.for \in Pool!ReadsRow THEN progress ELSE None]
  <2>2. new \in PoolRead
    <3>1. r.for \in Pool!Reasons /\ progress \in Pool!Progress
      BY <1>r, <1>t DEF PoolRead, Pool!Reads, PoolTyped
    <3> QED
      BY <2>1, <3>1 DEF Pool!Trustline, PoolRead, Pool!Reads
  <2>3. reads' \subseteq PoolRead
    BY <1>r, <2>1, <2>2
  <2> QED
    BY <1>2, <1>s, <1>t, <2>3, PoolQuiet DEF PoolTyped, Pool!Serve, Pool!buttons, Pool!server
<1>3. ASSUME NEW r \in reads, Pool!Arrives(r) \/ Pool!LoadFails(r) \/ Pool!ReadFails(r) PROVE PoolInv'
  <2>1. r \in PoolRead /\ reads \ {r} \subseteq PoolRead
    BY <1>r
  <2>2. /\ Pool!Ask("pollVault") \in PoolRead /\ Pool!Ask("reconcile") \in PoolRead
    BY <1>r DEF Pool!Reasons, Pool!ReadsRow
  <2>3. r.for \in Pool!ReadsRow /\ r.got # "nothing" => Pool!Row(r) \in Pool!Detail
    BY <2>1 DEF Pool!Row, Pool!Detail, PoolRead
  <2>4. r.for # "trust" /\ r.got # "nothing" => Pool!State(r) \in {None, "open", "complete"}
    BY <2>1 DEF Pool!Trustline, Pool!State, PoolRead, Pool!Reads
  <2>5. /\ reads' \subseteq PoolRead /\ detail' \in Pool!Detail \cup {None}
        /\ vault' \in {None, "open", "complete"} /\ trust' \in {None, "yes", "no"}
    <3>1. CASE Pool!LoadArrives(r) \/ Pool!PollArrives(r) \/ Pool!ReconcileArrives(r)
      <4>1. PICK rs \in SUBSET PoolRead : Pool!SetDetail(Pool!Row(r), rs)
        BY <2>1, <2>2, <3>1 DEF Pool!LoadArrives, Pool!PollArrives, Pool!ReconcileArrives
      <4>2. Pool!Row(r) \in Pool!Detail
        BY <2>3, <3>1 DEF Pool!LoadArrives, Pool!PollArrives, Pool!ReconcileArrives, Pool!ReadsRow
      <4> QED
        BY <1>t, <4>1, <4>2, PoolReads DEF PoolTyped
    <3>2. CASE Pool!VaultArrives(r)
      BY <1>t, <2>1, <2>4, <3>2 DEF PoolTyped, Pool!VaultArrives
    <3>t. CASE Pool!TrustArrives(r)
      <4>1. r.got \in {"yes", "no"}
        BY <2>1, <3>t DEF Pool!TrustArrives, PoolRead
      <4> QED
        BY <1>t, <2>1, <3>t, <4>1 DEF PoolTyped, Pool!TrustArrives
    <3>3. CASE Pool!CheckArrives(r)
      BY <1>t, <2>1, <2>2, <3>3 DEF PoolTyped, Pool!CheckArrives
    <3>4. CASE Pool!LoadFails(r)
      BY <1>t, <2>1, <3>4, PoolReads DEF PoolTyped, Pool!LoadFails
    <3>5. CASE Pool!ReadFails(r)
      BY <1>t, <2>1, <2>2, <3>5 DEF PoolTyped, Pool!ReadFails
    <3> QED
      BY <1>3, <3>1, <3>2, <3>t, <3>3, <3>4, <3>5 DEF Pool!Arrives
  <2> DEFINE Rest == /\ loading' \in BOOLEAN /\ failed' \in BOOLEAN /\ timer' \in BOOLEAN
                     /\ failures' \in 0..MaxFailures
                     /\ UNCHANGED <<contract, row, progress, asset, opening, busy, status, vaultBusy, donation>>
                     /\ UNCHANGED Pool!sessionVars
  <2>6. Rest
    <3>1. CASE Pool!Arrives(r)
      BY <1>t, <3>1 DEF PoolTyped, Pool!Arrives, Pool!LoadArrives, Pool!PollArrives, Pool!VaultArrives,
         Pool!TrustArrives, Pool!CheckArrives, Pool!ReconcileArrives, Pool!buttons, Pool!server
    <3>2. CASE Pool!LoadFails(r)
      <4>1. failures' \in 0..MaxFailures
        BY <1>t, <3>2, BoundAssumption DEF PoolTyped, Pool!LoadFails
      <4> QED
        BY <1>t, <3>2, <4>1 DEF PoolTyped, Pool!LoadFails, Pool!buttons, Pool!server
    <3>3. CASE Pool!ReadFails(r)
      BY <1>t, <3>3, BoundAssumption DEF PoolTyped, Pool!ReadFails, Pool!buttons, Pool!server
    <3> QED
      BY <1>3, <3>1, <3>2, <3>3
  <2>7. PoolTyped'
    BY <1>s, <1>t, <2>5, <2>6 DEF PoolTyped
  <2> QED
    BY <2>6, <2>7, PoolQuiet
<1>4. CASE Pool!TimerFires
  <2>1. UNCHANGED <<contract, row, progress, detail, vault, reads, asset, trust, opening, busy, status, vaultBusy, donation,
                    failures>> /\ UNCHANGED Pool!sessionVars
    BY <1>4 DEF Pool!TimerFires, Pool!buttons, Pool!server
  <2>2. timer' \in BOOLEAN /\ failed' \in BOOLEAN /\ loading' \in BOOLEAN
    BY <1>4 DEF Pool!TimerFires
  <2>3. PoolTyped'
    BY <1>s, <1>t, <2>1, <2>2 DEF PoolTyped
  <2> QED
    BY <2>1, <2>3, PoolQuiet
<1>5. CASE Pool!Retry \/ Pool!Poll
  <2>1. reads' \subseteq PoolRead
    <3>1. Pool!Ask("load") \in PoolRead /\ Pool!Ask("poll") \in PoolRead
      BY <1>r DEF Pool!Reasons, Pool!ReadsRow
    <3> QED
      BY <1>5, <1>r, <3>1, PoolReads DEF Pool!Retry, Pool!Poll
  <2>2. UNCHANGED <<contract, row, progress, detail, vault, asset, trust, opening, busy, status, vaultBusy, donation, failures>>
        /\ UNCHANGED Pool!sessionVars
    BY <1>5 DEF Pool!Retry, Pool!Poll, Pool!buttons, Pool!server
  <2>3. timer' \in BOOLEAN /\ failed' \in BOOLEAN /\ loading' \in BOOLEAN
    BY <1>5, <1>t DEF Pool!Retry, Pool!Poll, PoolTyped
  <2>4. PoolTyped'
    BY <1>s, <1>t, <2>1, <2>2, <2>3 DEF PoolTyped
  <2> QED
    BY <2>2, <2>4, PoolQuiet
<1>6. CASE Pool!Refuse
  BY <1>6, <1>s, <1>t, PoolQuiet DEF PoolTyped, Pool!Refuse, Pool!buttons, Pool!server
<1>17. CASE Pool!ChooseAsset
  <2>1. reads' \subseteq PoolRead /\ trust' \in {None, "yes", "no"}
    BY <1>17, <1>r, <1>t, PoolReads DEF PoolTyped, Pool!ChooseAsset, Pool!TrustThen
  <2>2. asset' \in {"XLM", "issued"}
    BY <1>17 DEF Pool!ChooseAsset
  <2>3. /\ UNCHANGED <<contract, row, progress, detail, vault, loading, failed, timer, opening, busy, status,
                       vaultBusy, donation, failures>>
        /\ UNCHANGED Pool!sessionVars
    BY <1>17 DEF Pool!ChooseAsset, Pool!server
  <2>4. PoolTyped'
    BY <1>s, <1>t, <2>1, <2>2, <2>3 DEF PoolTyped
  <2> QED
    BY <1>17, <2>4, PoolQuiet DEF Pool!ChooseAsset
<1>7. CASE Pool!OpenTrustline
  <2>1. PoolTyped'
    BY <1>7, <1>p, <1>s, <1>t DEF PoolTyped, Pool!OpenTrustline, Pool!MayDonate, Pool!server
  <2>2. busy = FALSE
    BY <1>7, <1>t DEF PoolTyped, Pool!OpenTrustline, Pool!MayDonate
  <2>3. \A k \in Donations : donation[k].at \notin Running
    BY <1>t, <2>2 DEF Stepper, Tells
  <2>4. UNCHANGED <<donation, status>> /\ busy' = TRUE
    BY <1>7 DEF Pool!OpenTrustline
  <2>5. Stepper(donation', status', busy', opening')
    BY <1>t, <2>3, <2>4 DEF Stepper, LastOf, Tells
  <2> QED
    BY <2>1, <2>5 DEF PoolInv, Stepper, LastOf, Tells
<1>18. CASE Pool!TrustlineOpen \/ Pool!TrustlineFails
  <2>1. Pool!SessionTypeOK'
    BY <1>18, <1>s, <1>t, PoolSessionTyped DEF PoolTyped, Pool!TrustlineOpen, Pool!TrustlineFails, OnlyAsks,
       Pool!Refresh, Refresh, sessionVars
  <2>2. PoolTyped'
    BY <1>18, <1>t, <2>1 DEF PoolTyped, Pool!TrustlineOpen, Pool!TrustlineFails, Pool!server
  <2>3. \A k \in Donations : donation[k].at \notin Running
    BY <1>18, <1>t DEF Stepper, Pool!TrustlineOpen, Pool!TrustlineFails
  <2>4. UNCHANGED <<donation, status>> /\ opening' = None
    BY <1>18 DEF Pool!TrustlineOpen, Pool!TrustlineFails
  <2>5. Stepper(donation', status', busy', opening')
    BY <1>t, <2>3, <2>4 DEF Stepper, LastOf, Tells
  <2> QED
    BY <2>2, <2>5 DEF PoolInv, Stepper, LastOf, Tells
<1>8. CASE Pool!Withdraw \/ Pool!Withdrawn
  <2>1. Pool!Ask("refresh") \in PoolRead
    BY <1>r DEF Pool!Reasons, Pool!ReadsRow
  <2>2. Pool!Withdraw => Wallet \in Accounts
    BY <1>p, NullAssumption DEF Pool!Withdraw, Pool!MayWithdraw
  <2>3. UNCHANGED Pool!sessionVars
    BY <1>8 DEF Pool!Withdraw, Pool!Withdrawn
  <2>4. PoolTyped'
    BY <1>8, <1>s, <1>t, <2>1, <2>2, <2>3 DEF PoolTyped, Pool!Withdraw, Pool!Withdrawn, Pool!server
  <2> QED
    BY <1>8, <2>4, PoolQuiet DEF Pool!Withdraw, Pool!Withdrawn
<1>9. CASE Pool!WithdrawEnds
  <2>1. Pool!SessionTypeOK'
    BY <1>9, <1>t, PoolSessionTyped DEF PoolTyped, Pool!WithdrawEnds, OnlyAsks, Pool!Refresh, Refresh,
       sessionVars
  <2>2. PoolTyped'
    BY <1>9, <1>t, <2>1 DEF PoolTyped, Pool!WithdrawEnds, Pool!server
  <2> QED
    BY <1>9, <2>2, PoolQuiet DEF Pool!WithdrawEnds
<1>10. ASSUME NEW k \in Donations, Pool!Deposit(k) PROVE PoolInv'
  <2>1. PICK refused \in BOOLEAN :
          /\ failed' = refused /\ busy' = ~ refused
          /\ donation' = [donation EXCEPT ![k] =
               [at |-> IF refused THEN "refused" ELSE "building", key |-> publicKey, mode |-> detail.mode,
                paid |-> FALSE, lost |-> FALSE]]
    BY <1>10 DEF Pool!Deposit
  <2> DEFINE d == [at |-> IF refused THEN "refused" ELSE "building", key |-> publicKey, mode |-> detail.mode,
                   paid |-> FALSE, lost |-> FALSE]
  <2>2. /\ d \in DonationRecord /\ d.paid = FALSE /\ d.at = (IF refused THEN "refused" ELSE "building")
    BY <1>10, <1>p, <1>t DEF Pool!Deposit, Pool!MayDonate, Pool!Visible, Pool!Detail, DonationRecord, PoolTyped,
       Running
  <2> HIDE DEF d
  <2>3. donation' = [donation EXCEPT ![k] = d] /\ status' = "building"
    BY <1>10, <2>1 DEF d, Pool!Deposit
  <2>4. Tells(d, status', busy')
    BY <2>1, <2>2, <2>3 DEF Tells, Running
  <2>5. /\ busy = FALSE /\ donation[k] = Pool!Free
        /\ \A j \in Donations : j < k => donation[j] # Pool!Free
    BY <1>10, <1>t DEF Pool!Deposit, Pool!MayDonate, PoolTyped
  <2>6. Stepper(donation', status', busy', opening')
    <3>1. UNCHANGED opening
      BY <1>10 DEF Pool!Deposit
    <3> QED
      BY <1>t, <2>2, <2>3, <2>4, <2>5, <3>1, LastGoesOn DEF PoolTyped
  <2>7. PoolTyped'
    BY <1>10, <1>s, <1>t, <2>1, <2>2, <2>3 DEF PoolTyped, Pool!Deposit, Pool!server
  <2> QED
    BY <2>6, <2>7 DEF PoolInv, Stepper, LastOf, Tells
<1>11. ASSUME NEW k \in Donations,
              Pool!Steps(k, "building", "signing") \/ Pool!Steps(k, "signing", "submitting")
       PROVE PoolInv'
  <2>1. PICK to \in {"signing", "submitting"} :
          donation' = [donation EXCEPT ![k] = [donation[k] EXCEPT !.at = to]] /\ status' = to
    BY <1>11 DEF Pool!Steps
  <2> DEFINE d == [donation[k] EXCEPT !.at = to]
  <2>2. donation[k] \in DonationRecord /\ donation[k].at \in {"building", "signing"}
    BY <1>11, <1>k DEF Pool!Steps
  <2>3. Tells(donation[k], status, busy)
    BY <1>t, <2>2 DEF Stepper, Running
  <2>4. d \in DonationRecord /\ d.at = to /\ d.paid = donation[k].paid
    BY <2>2 DEF DonationRecord, Running
  <2> HIDE DEF d
  <2>5. donation' = [donation EXCEPT ![k] = d]
    BY <2>1 DEF d
  <2>6. Tells(d, status', busy')
    BY <1>11, <2>1, <2>2, <2>3, <2>4 DEF Tells, Running, Pool!Steps
  <2>7. PoolTyped'
    BY <1>11, <1>s, <1>t, <2>1, <2>4, <2>5 DEF PoolTyped, Pool!Steps, Pool!server
  <2> QED
    BY <1>11, <2>2, <2>4, <2>5, <2>6, <2>7, PoolHandler DEF Running, Pool!Steps
<1>12. ASSUME NEW k \in Donations, Pool!Paid(k) PROVE PoolInv'
  <2> DEFINE d == [donation[k] EXCEPT !.at = "refetching", !.paid = TRUE]
  <2>2. donation[k] \in DonationRecord /\ donation[k].at = "submitting"
    BY <1>12, <1>k DEF Pool!Paid
  <2>3. Tells(donation[k], status, busy)
    BY <1>t, <2>2 DEF Stepper, Running
  <2>4. d \in DonationRecord /\ d.at = "refetching" /\ d.paid = TRUE
    BY <2>2 DEF DonationRecord, Running
  <2> HIDE DEF d
  <2>5. donation' = [donation EXCEPT ![k] = d] /\ status' = "ok"
    BY <1>12 DEF d, Pool!Paid
  <2>6. Tells(d, status', busy')
    BY <1>12, <2>2, <2>3, <2>4, <2>5 DEF Tells, Running, Pool!Paid
  <2>7. PoolTyped'
    <3>1. reads' \subseteq PoolRead
      BY <1>12, <1>r DEF Pool!Paid, Pool!Reasons, Pool!ReadsRow
    <3> QED
      BY <1>12, <1>s, <1>t, <2>4, <2>5, <3>1 DEF PoolTyped, Pool!Paid, Pool!server
  <2> QED
    BY <1>12, <2>2, <2>4, <2>5, <2>6, <2>7, PoolHandler DEF Running, Pool!Paid
<1>13. ASSUME NEW k \in Donations, Pool!Refetched(k) PROVE PoolInv'
  <2> DEFINE d == [donation[k] EXCEPT !.at = "done"]
  <2>2. donation[k] \in DonationRecord /\ donation[k].at = "refetching"
    BY <1>13, <1>k DEF Pool!Refetched
  <2>3. Tells(donation[k], status, busy)
    BY <1>t, <2>2 DEF Stepper, Running
  <2>4. d \in DonationRecord /\ d.at = "done" /\ d.paid = donation[k].paid
    BY <2>2 DEF DonationRecord, Running
  <2>5. donation' = [donation EXCEPT ![k] = d] /\ UNCHANGED status
    BY <1>13 DEF Pool!Refetched
  <2> HIDE DEF d
  <2>6. Tells(d, status', busy')
    BY <2>2, <2>3, <2>4, <2>5 DEF Tells, Running
  <2>7. PoolTyped'
    <3>1. PICK r \in reads, rs \in SUBSET PoolRead :
            r.for = "donation" /\ r.got # "nothing" /\ Pool!SetDetail(Pool!Row(r), rs)
      <4>1. Pool!Ask("refresh") \in PoolRead
        BY <1>r DEF Pool!Reasons, Pool!ReadsRow
      <4> QED
        BY <1>13, <1>r, <4>1 DEF Pool!Refetched
    <3>2. /\ reads' \subseteq PoolRead /\ detail' \in Pool!Detail
          /\ vault' = vault \/ vault' = None
          /\ trust' = trust \/ trust' = None
      <4>1. Pool!Row(r) \in Pool!Detail
        BY <1>r, <3>1 DEF Pool!Row, Pool!Detail, PoolRead, Pool!ReadsRow
      <4> QED
        BY <3>1, <4>1, PoolReads
    <3>3. Pool!SessionTypeOK'
      <4>1. donation[k].key \in Accounts
        BY <2>2 DEF DonationRecord
      <4> QED
        BY <1>13, <1>t, <4>1, PoolSessionTyped DEF PoolTyped, Pool!Refetched, OnlyAsks, Pool!Refresh, Refresh,
           sessionVars
    <3> QED
      BY <1>13, <1>t, <2>4, <2>5, <3>2, <3>3 DEF PoolTyped, Pool!Refetched, Pool!server
  <2> QED
    BY <1>13, <2>2, <2>4, <2>5, <2>6, <2>7, PoolHandler DEF Running, Pool!Refetched
<1>14. ASSUME NEW k \in Donations, Pool!DonationFails(k) PROVE PoolInv'
  <2>2. donation[k] \in DonationRecord /\ donation[k].at \in Running
    BY <1>14, <1>k DEF Pool!DonationFails, Running
  <2>3. Tells(donation[k], status, busy)
    BY <1>t, <2>2 DEF Stepper
  <2>4. PICK d \in DonationRecord :
          /\ donation' = [donation EXCEPT ![k] = d] /\ d.at = "done"
          /\ d.paid = TRUE => d.lost = TRUE
    <3>1. CASE donation[k].at # "refetching" /\ donation' = [donation EXCEPT ![k].at = "done"]
      <4> DEFINE d == [donation[k] EXCEPT !.at = "done"]
      <4>1. d \in DonationRecord /\ d.at = "done" /\ d.paid = donation[k].paid
        BY <2>2 DEF DonationRecord, Running
      <4>2. donation[k].paid = FALSE
        BY <2>2, <2>3, <3>1 DEF Tells, Running
      <4> QED
        BY <3>1, <4>1, <4>2
    <3>2. CASE \E paid \in {donation[k].paid, Pool!Accepts(k)} :
                 donation' = [donation EXCEPT ![k] =
                   [donation[k] EXCEPT !.at = "done", !.lost = TRUE, !.paid = donation[k].paid \/ paid]]
      <4>1. PICK paid \in BOOLEAN :
              donation' = [donation EXCEPT ![k] =
                [donation[k] EXCEPT !.at = "done", !.lost = TRUE, !.paid = paid]]
        BY <3>2
      <4> DEFINE d == [donation[k] EXCEPT !.at = "done", !.lost = TRUE, !.paid = paid]
      <4>2. d \in DonationRecord /\ d.at = "done" /\ d.lost = TRUE
        BY <2>2 DEF DonationRecord, Running
      <4> QED
        BY <4>1, <4>2
    <3> QED
      BY <1>14, <3>1, <3>2 DEF Pool!DonationFails
  <2>5. Tells(d, status', busy')
    BY <1>14, <2>4 DEF Tells, Running, Pool!DonationFails, Pool!AfterError
  <2>6. PoolTyped'
    <3>1. reads' \subseteq PoolRead /\ failures' \in 0..MaxFailures
      BY <1>14, <1>r, <1>t, BoundAssumption DEF Pool!DonationFails, PoolTyped
    <3> QED
      BY <1>14, <1>s, <1>t, <2>4, <3>1 DEF PoolTyped, Pool!DonationFails, Pool!AfterError, Pool!server
  <2> QED
    BY <1>14, <2>2, <2>4, <2>5, <2>6, PoolHandler DEF Pool!DonationFails
<1>15. CASE Pool!SessionMoves
  <2>1. Pool!SessionTypeOK'
    BY <1>15, <1>t, PoolSessionTyped DEF PoolTyped, Pool!SessionMoves, Pool!server
  <2>2. trust' \in {None, "yes", "no"} /\ reads' \subseteq PoolRead
    BY <1>15, <1>r, <1>t, PoolReads DEF PoolTyped, Pool!SessionMoves, Pool!TrustThen
  <2>3. PoolTyped'
    BY <1>15, <1>t, <2>1, <2>2 DEF PoolTyped, Pool!SessionMoves, Pool!buttons, Pool!server
  <2> QED
    BY <1>15, <2>3, PoolQuiet DEF Pool!SessionMoves, Pool!buttons
<1>16. CASE Pool!PageReloads
  <2>1. Pool!SessionTypeOK'
    BY <1>16, <1>t, PoolSessionTyped DEF PoolTyped, Pool!PageReloads, Pool!server
  <2>2. Pool!Ask("load") \in PoolRead
    BY <1>r DEF Pool!Reasons, Pool!ReadsRow
  <2>3. ASSUME NEW k \in Donations
        PROVE  /\ donation'[k] \in {Pool!Free} \cup DonationRecord
               /\ donation'[k] = Pool!Free <=> donation[k] = Pool!Free
               /\ donation'[k].at \in {"free", "stopped"}
    <3>1. CASE donation[k] = Pool!Free
      BY <1>16, <3>1 DEF Pool!PageReloads, Pool!Free
    <3>2. CASE donation[k] # Pool!Free
      <4>1. donation[k] \in DonationRecord /\ donation'[k] = [donation[k] EXCEPT !.at = "stopped"]
        BY <1>16, <1>t, <3>2 DEF Pool!PageReloads, PoolTyped
      <4> QED
        BY <3>2, <4>1 DEF DonationRecord, Pool!Free
    <3> QED
      BY <3>1, <3>2
  <2>4. donation' \in [Donations -> {Pool!Free} \cup DonationRecord]
    BY <1>16, <2>3 DEF Pool!PageReloads
  <2>5. PoolTyped'
    BY <1>16, <1>t, <2>1, <2>2, <2>4 DEF PoolTyped, Pool!PageReloads, Pool!server
  <2>6. Stepper(donation', status', busy', opening')
    <3>1. \A j, k \in Donations : j < k /\ donation'[k] # Pool!Free => donation'[j] # Pool!Free
      BY <1>t, <2>3 DEF Stepper
    <3>2. \A k \in Donations : donation'[k].at \notin Running
      BY <2>3 DEF Running
    <3>3. \A k \in Donations : Tells(donation'[k], status', busy')
      BY <2>3 DEF Tells, Running
    <3>4. opening' = None
      BY <1>16 DEF Pool!PageReloads
    <3> QED
      BY <3>1, <3>2, <3>3, <3>4 DEF Stepper
  <2> QED
    BY <2>5, <2>6 DEF PoolInv, Stepper, LastOf, Tells
<1> QED
  BY <1>1, <1>2, <1>3, <1>4, <1>5, <1>6, <1>7, <1>8, <1>9, <1>10, <1>11, <1>12, <1>13, <1>14, <1>15,
     <1>16, <1>17, <1>18 DEF Pool!Next

PoolOpen == route = "pool" => PoolInv

LEMMA PoolInductive ==
  /\ Init => PoolOpen
  /\ PoolOpen /\ [Next]_vars => PoolOpen'
<1>1. PoolInv /\ UNCHANGED Pool!vars => PoolInv'
  BY DEF PoolInv, PoolTyped, Stepper, LastOf, Tells, Pool!vars, Pool!page, Pool!server, Pool!sessionVars,
     Pool!SessionTypeOK, Pool!Keys
<1> QED
  BY <1>1, PoolPageSteps, PoolInit, PoolNext DEF PoolOpen

LEMMA PoolTypeFollows == PoolInv => Pool!TypeOK
<1> SUFFICES ASSUME PoolInv PROVE Pool!TypeOK
  OBVIOUS
<1>1. \A k \in Donations : donation[k] = Pool!Free \/ donation[k] \in DonationRecord
  BY DEF PoolInv, PoolTyped
<1> QED
  BY <1>1 DEF Pool!Trustline, PoolInv, PoolTyped, PoolRead, Pool!TypeOK, DonationRecord, Running

\* The stepper tells the fate of the last donation: in progress while its handler runs,
\* confirmed if it was paid, back at the start if it was not, but for an answer lost after
\* the payment and a donor without the trustline.  (PoolDetailPage.tsx 489-501, 560-566.)
THEOREM StepperIsHonest == Spec => []StepperHonest
<1>1. ASSUME PoolInv, NEW k \in Donations, donation[k] # Pool!Free,
             \A j \in Donations : donation[j] # Pool!Free => j <= k, donation[k].at # "stopped"
      PROVE  /\ status \in {"building", "signing", "submitting"} => donation[k].at \notin {"done", "refetching"}
             /\ status = "ok" => donation[k].paid = TRUE
             /\ status = "idle" /\ donation[k].paid = TRUE => donation[k].lost = TRUE
  <2>1. donation[k] \in DonationRecord /\ Tells(donation[k], status, busy)
    BY <1>1 DEF PoolInv, PoolTyped, Stepper, LastOf
  <2> QED
    BY <1>1, <2>1 DEF Tells, DonationRecord, Running
<1>2. PoolInv => Pool!StepperHonest
  BY <1>1 DEF Pool!StepperHonest
<1>3. PoolOpen => StepperHonest
  BY <1>2 DEF PoolOpen, StepperHonest
<1> QED
  BY <1>3, PoolInductive, PTL DEF Spec

----------------------------------------------------------------------------
(* The family page *)

\* The session of the page is the session.
LEMMA FamilySession ==
  /\ Family!SessionInit => SessionInit
  /\ Family!SessionTypeOK <=> SessionTypeOK
  /\ Family!Stays => Stays
  /\ Family!Reload => Reload
  /\ Family!Revisit => Revisit
  /\ Family!sessionVars = sessionVars
<1>1. /\ Family!SwitchAccount => SwitchAccount
      /\ Family!Detect => Detect
      /\ Family!ConnectBegin => ConnectBegin
      /\ Family!Granted => Granted
      /\ Family!Refused => Refused
      /\ Family!Disconnect => Disconnect
      /\ Family!Focus => Focus
  BY DEF Family!SwitchAccount, SwitchAccount, Family!Detect, Detect, Family!ConnectBegin, ConnectBegin,
         Family!Granted, Granted, Family!Refused, Refused, Family!Disconnect, Disconnect, Family!Focus, Focus,
         Family!Holds, Holds, Family!Cardinality, Cardinality, Family!IsFiniteSet, IsFiniteSet
<1>2. ASSUME NEW l
      PROVE  /\ Family!Answer(l) => Answer(l)
             /\ Family!Deliver(l) => Deliver(l)
             /\ Family!Unanswered(l) => Unanswered(l)
             /\ Family!BalancesArrive(l) => BalancesArrive(l)
  BY DEF Family!Answer, Answer, Family!Deliver, Deliver, Family!Unanswered, Unanswered, Family!Holds, Holds,
         Family!BalancesArrive, BalancesArrive
<1>3. Family!Stays => Stays
  BY <1>1, <1>2 DEF Family!Stays, Stays
<1> QED
  BY <1>3 DEF Family!Reload, Reload, Family!Revisit, Revisit, Family!SessionTypeOK, SessionTypeOK, Family!Keys,
              Keys, Family!SessionInit, SessionInit, Family!sessionVars, sessionVars

LEMMA FamilySessionTyped ==
  ASSUME Family!SessionTypeOK, Family!Stays \/ Family!Reload \/ Family!Revisit \/ OnlyAsks
  PROVE  Family!SessionTypeOK'
<1>1. SessionTypeOK /\ (SessionMove \/ OnlyAsks)
  BY FamilySession DEF SessionMove
<1>2. SessionTypeOK'
  BY <1>1, SessionTyped, AskingTyped
<1> QED
  BY <1>2 DEF Family!SessionTypeOK, SessionTypeOK, Family!Keys, Keys

LEMMA FamilyPageSteps ==
  /\ Init => (route = "family" => Family!Init)
  /\ [Next]_vars /\ route' = "family" => route = "family" /\ (Family!Next \/ UNCHANGED Family!vars)
BY DEF Init, Opens, Next, SessionStep, SendStep, SetupStep, FamilyStep, PoolStep, HistoryStep,
       ProfileStep, vars, familyOnly, Family!vars, Family!sessionVars, sessionVars

PageRecord ==
  [view : {"gate", "loading", "error", "form", "box"}, pools : SUBSET Boxes,
   selected : Boxes \cup {None}]
DashRecord ==
  [box : Boxes, pending : Family!Document \cup {None}, busy : BOOLEAN, limitsBusy : BOOLEAN,
   followUp : Flows \cup {None}, money : [Family!Parts -> Boxes \cup {None}], edits : SUBSET Boxes]
FlowRecord ==
  [at : Family!Steps, host : {"dashboard", "page", "gone"}, kind : Family!Kinds, box : Boxes,
   key : Accounts, doc : Family!Document \cup {None}, ref : Flows \cup {None}, after : Flows \cup {None}]

DashTyped(d, s, f) ==
  /\ d \in {Family!NoDash} \cup DashRecord
  /\ s \in Family!Document \cup {None}
  /\ f \in [Flows -> {Family!Free} \cup FlowRecord]

Live == {"calling", "signing", "submitting", "followUp", "refreshing", "blend"}
Setters == {"signer", "power", "save"}

\* Handler k has begun; runs in the dashboard; holds its buttons; will change the signers.
Begun(f, k) == f[k] # Family!Free
On(f, k) == Begun(f, k) /\ f[k].host = "dashboard"
Holding(f, k) == On(f, k) /\ f[k].at \in Live /\ f[k].kind # "limits"
InFlight(f, k) == On(f, k) /\ f[k].at = "submitting" /\ f[k].kind \in Setters

\* What handler k takes as the follow-up of its transaction.
RefOf(d, f, k) == IF On(f, k) THEN d.followUp ELSE f[k].ref

\* j follows the transaction, or a dashboard that is gone put it in the slot.
Matches(f, doc, j) ==
  \/ j = doc.id
  \/ \E i \in Flows :
       /\ Begun(f, i) /\ ~ On(f, i)
       /\ i = doc.id \/ (doc.id = None /\ f[i].kind = "sign" /\ f[i].at = "done")
Fits(f, doc, j) == doc # None /\ doc.kind \in Setters => Matches(f, doc, j)

\* What a handler has at each of its steps.
FlowSteady(h, k) ==
  /\ h.kind = "limits" => h.at \in {"calling", "done", "stopped"}
  /\ h.at \in {"submitting", "followUp"} => h.doc # None
  /\ h.at \in Live /\ h.kind = "sign" => h.at # "calling"
  /\ h.at = "signing" /\ h.kind = "sign" => h.doc # None
  /\ h.at \in {"calling", "signing"} /\ h.kind # "sign" => h.doc = None
  /\ h.kind # "sign" /\ h.doc # None => h.doc.id = k /\ h.doc.kind = h.kind
  /\ h.at = "followUp" => h.after # None
  /\ h.host = "dashboard" => h.ref = None
AllSteady(f) == \A k \in Flows : Begun(f, k) => FlowSteady(f[k], k)

\* Handlers of the dashboard run in one that is there, and one at a time holds its buttons.
Hosts(d, f) == \A k \in Flows : On(f, k) => d # Family!NoDash
OneHolds(d, f) ==
  \A k \in Flows : Holding(f, k) => d.busy = TRUE /\ \A j \in Flows : Holding(f, j) => j = k

\* Transactions and follow-ups are of handlers that have begun.
OfBegun(f, j) == j # None => Begun(f, j)
Traced(d, s, f) ==
  /\ s # None => OfBegun(f, s.id)
  /\ d # Family!NoDash => OfBegun(f, d.followUp) /\ (d.pending # None => OfBegun(f, d.pending.id))
  /\ \A k \in Flows : Begun(f, k) =>
       /\ OfBegun(f, f[k].ref) /\ OfBegun(f, f[k].after)
       /\ f[k].doc # None => OfBegun(f, f[k].doc.id)

\* A handler that changes the signers has its own follow-up in the dashboard.
OwnFollows(d, f) == \A k \in Flows : InFlight(f, k) => d.followUp = k

\* What a handler would run after its transaction, and what it runs.
Follows(d, f) ==
  \A k \in Flows : Begun(f, k) /\ f[k].at \in {"signing", "submitting"} /\ RefOf(d, f, k) # None =>
    Fits(f, f[k].doc, RefOf(d, f, k))
Ran(f) ==
  \A k \in Flows : Begun(f, k) /\ f[k].at = "followUp" => Matches(f, f[k].doc, f[k].after)

\* A dashboard that is gone has no transaction of the one that is there.
Strangers(f) ==
  \A k \in Flows : Begun(f, k) /\ ~ On(f, k) /\ f[k].doc # None /\ f[k].doc.id # None =>
    ~ On(f, f[k].doc.id)

\* A follow-up kept in the dashboard is of a handler on its way, or of whatever waits.
Waiting(d, s, f) ==
  d # Family!NoDash /\ d.followUp # None =>
    InFlight(f, d.followUp) \/ (Fits(f, s, d.followUp) /\ Fits(f, d.pending, d.followUp))

Handlers(d, s, f) ==
  /\ AllSteady(f) /\ Hosts(d, f) /\ OneHolds(d, f) /\ Traced(d, s, f)
  /\ OwnFollows(d, f) /\ Follows(d, f) /\ Ran(f) /\ Strangers(f) /\ Waiting(d, s, f)

\* The dashboard is the page's, and so are its loads.
Coherent(p, d, l) ==
  /\ p.view = "box" => p.selected \in p.pools
  /\ d.box = Family!Shown(p) /\ (d = Family!NoDash <=> Family!Shown(p) = None)
  /\ \A x \in l : x.box = d.box

Money(d, l, f) ==
  d # Family!NoDash =>
    \A part \in Family!Parts :
      ~ Family!Awaited(part, l) /\ d.money[part] \notin {None, d.box} =>
        \E k \in Flows : On(f, k) /\ f[k].at \in Family!Past[part] /\ f[k].box = d.money[part]

FamilyInv ==
  /\ Family!SessionTypeOK
  /\ page \in PageRecord /\ loads \subseteq Family!Loads /\ old \subseteq Boxes
  /\ DashTyped(dash, slot, flow)
  /\ page.view # "gate" => publicKey # None
  /\ Coherent(page, dash, loads) /\ Handlers(dash, slot, flow) /\ Money(dash, loads, flow)

LEMMA FreeIsNone == Family!Free \notin FlowRecord /\ Family!NoDash \notin DashRecord
<1>1. Family!Free.at = "free"
  BY DEF Family!Free
<1>2. Family!NoDash.box = None
  BY DEF Family!NoDash
<1> QED
  BY <1>1, <1>2, NullAssumption DEF FlowRecord, DashRecord, Family!Steps

\* A load that begins asks for every part of what is shown.
LEMMA LoadsAll ==
  ASSUME NEW b, NEW part \in Family!Parts
  PROVE  Family!Awaited(part, {[box |-> b, at |-> "balance"]})
<1> DEFINE x == [box |-> b, at |-> "balance"]
<1>1. part = x.at \/ part \in Family!Later[x.at]
  BY DEF Family!Parts, Family!Later
<1> QED
  BY <1>1 DEF Family!Awaited

LEMMA FamilyInit == Family!Init => FamilyInv
<1> SUFFICES ASSUME Family!Init PROVE FamilyInv
  OBVIOUS
<1>1. Family!SessionTypeOK
  BY FamilySession, SessionInitTyped DEF Family!Init
<1>2. page \in PageRecord /\ page.view # "box" /\ (page.view # "gate" => publicKey # None)
  BY DEF Family!Init, PageRecord, Family!NoPage, Family!SessionInit
<1>3. /\ dash = Family!NoDash /\ loads = {} /\ flow = [k \in Flows |-> Family!Free]
      /\ old \subseteq Boxes
  BY DEF Family!Init
<1>4. slot \in Family!Document \cup {None} /\ (slot # None => slot.id = None)
  BY CreatorAssumption DEF Family!Init, Family!Leftover, Family!Document, Family!Kinds
<1>5. \A k \in Flows : ~ Begun(flow, k) /\ ~ On(flow, k)
  BY <1>3 DEF Begun, On
<1>6. Coherent(page, dash, loads)
  BY <1>2, <1>3 DEF Coherent, Family!Shown, Family!NoDash
<1>7. Handlers(dash, slot, flow)
  BY <1>3, <1>4, <1>5 DEF Handlers, AllSteady, Hosts, OneHolds, Traced, OfBegun, OwnFollows, Follows, Ran,
     Strangers, Waiting, Holding, InFlight
<1>8. Money(dash, loads, flow)
  BY <1>3 DEF Money
<1> QED
  BY <1>1, <1>2, <1>3, <1>4, <1>6, <1>7, <1>8 DEF FamilyInv, DashTyped

\* Dashboards go and handlers go on: whatever matched matches still.
LEMMA MatchesStays ==
  ASSUME NEW f, NEW g, NEW doc, NEW j,
         \A i \in Flows : Begun(f, i) => Begun(g, i) /\ g[i].kind = f[i].kind,
         \A i \in Flows : Begun(f, i) /\ ~ On(f, i) => ~ On(g, i),
         \A i \in Flows : Begun(f, i) /\ f[i].at = "done" => g[i].at = "done",
         Matches(f, doc, j)
  PROVE  Matches(g, doc, j)
BY DEF Matches

\* The page takes the dashboard away, with its handlers or leaving them to the page.
LEMMA DashboardGoes ==
  ASSUME NEW d, NEW s, NEW f, DashTyped(d, s, f), Handlers(d, s, f),
         NEW g \in [Flows -> {Family!Free} \cup FlowRecord],
         \A k \in Flows : f[k] = Family!Free => g[k] = Family!Free,
         \A k \in Flows : f[k] # Family!Free =>
           /\ g[k] # Family!Free /\ g[k].host # "dashboard"
           /\ g[k].kind = f[k].kind /\ g[k].doc = f[k].doc /\ g[k].after = f[k].after
           /\ g[k].at \in {f[k].at, "stopped"} /\ (f[k].at = "done" => g[k].at = "done")
           /\ g[k].ref = f[k].ref \/ (On(f, k) /\ g[k].ref = d.followUp)
  PROVE  Handlers(Family!NoDash, s, g)
<1>1. \A k \in Flows : (Begun(g, k) <=> Begun(f, k)) /\ ~ On(g, k) /\ ~ Holding(g, k) /\ ~ InFlight(g, k)
  BY DEF Begun, On, Holding, InFlight
<1>2. ASSUME NEW doc, NEW j, Matches(f, doc, j) PROVE Matches(g, doc, j)
  BY <1>1, <1>2, MatchesStays DEF Begun
<1>3. ASSUME NEW k \in Flows, Begun(g, k)
      PROVE  /\ Begun(f, k) /\ FlowSteady(f[k], k) /\ f[k] \in FlowRecord /\ g[k] \in FlowRecord
             /\ g[k].host # "dashboard" /\ g[k].kind = f[k].kind /\ g[k].doc = f[k].doc
             /\ g[k].after = f[k].after /\ g[k].at \in {f[k].at, "stopped"}
             /\ g[k].ref = f[k].ref \/ (On(f, k) /\ g[k].ref = d.followUp)
  BY <1>1, <1>3 DEF Begun, Handlers, AllSteady, DashTyped
<1>4. AllSteady(g)
  BY <1>3 DEF AllSteady, FlowSteady, Live
<1>5. Traced(Family!NoDash, s, g)
  <2>1. s # None => OfBegun(g, s.id)
    BY <1>1 DEF Handlers, Traced, OfBegun, DashTyped, Family!Document
  <2>2. ASSUME NEW k \in Flows, Begun(g, k)
        PROVE  /\ OfBegun(g, g[k].ref) /\ OfBegun(g, g[k].after)
               /\ g[k].doc # None => OfBegun(g, g[k].doc.id)
    <3>1. /\ OfBegun(f, f[k].ref) /\ OfBegun(f, f[k].after)
          /\ f[k].doc # None => OfBegun(f, f[k].doc.id)
      BY <1>3, <2>2 DEF Handlers, Traced
    <3>2. On(f, k) => d \in DashRecord /\ OfBegun(f, d.followUp)
      BY DEF Handlers, Hosts, Traced, DashTyped
    <3>3. \A j \in Flows \cup {None} : OfBegun(f, j) => OfBegun(g, j)
      BY <1>1 DEF OfBegun
    <3>4. g[k].ref \in Flows \cup {None} /\ g[k].after \in Flows \cup {None}
      BY <1>3, <2>2 DEF FlowRecord
    <3>5. g[k].doc # None => g[k].doc.id \in Flows \cup {None}
      BY <1>3, <2>2 DEF FlowRecord, Family!Document
    <3> QED
      BY <1>3, <2>2, <3>1, <3>2, <3>3, <3>4, <3>5
  <2> QED
    BY <2>1, <2>2 DEF Traced
<1>6. Follows(Family!NoDash, g)
  <2>1. SUFFICES ASSUME NEW k \in Flows, Begun(g, k), g[k].at \in {"signing", "submitting"}, g[k].ref # None
                 PROVE  Fits(g, g[k].doc, g[k].ref)
    BY <1>1 DEF Follows, RefOf
  <2>2. f[k].at = g[k].at /\ Begun(f, k)
    BY <1>3, <2>1
  <2>3. CASE ~ On(f, k)
    <3>1. g[k].ref = RefOf(d, f, k)
      BY <1>3, <2>1, <2>3 DEF RefOf
    <3>2. Fits(f, f[k].doc, g[k].ref)
      BY <2>1, <2>2, <3>1 DEF Handlers, Follows
    <3> QED
      BY <1>2, <1>3, <2>1, <3>2 DEF Fits
  <2>4. CASE On(f, k)
    <3>1. g[k].ref = RefOf(d, f, k)
      BY <1>3, <2>1, <2>4 DEF RefOf, FlowSteady, On
    <3>2. Fits(f, f[k].doc, g[k].ref)
      BY <2>1, <2>2, <3>1 DEF Handlers, Follows
    <3> QED
      BY <1>2, <1>3, <2>1, <3>2 DEF Fits
  <2> QED
    BY <2>3, <2>4
<1>7. Ran(g)
  BY <1>2, <1>3 DEF Ran, Handlers
<1>8. Strangers(g)
  <2>1. \A k \in Flows : Begun(g, k) /\ g[k].doc # None => g[k].doc.id \in Flows \cup {None}
    BY <1>3 DEF FlowRecord, Family!Document
  <2> QED
    BY <1>1, <2>1 DEF Strangers
<1>9. Hosts(Family!NoDash, g) /\ OneHolds(Family!NoDash, g) /\ OwnFollows(Family!NoDash, g)
  BY <1>1 DEF Hosts, OneHolds, OwnFollows
<1> QED
  BY <1>4, <1>5, <1>6, <1>7, <1>8, <1>9 DEF Handlers, Waiting

\* The dashboard shows another box, or opens.
LEMMA DashboardShows ==
  ASSUME NEW d, NEW s, NEW f, DashTyped(d, s, f), Handlers(d, s, f), NEW b \in Boxes,
         NEW e \in DashRecord, e.pending \in {s, None},
         \/ d = Family!NoDash /\ e.followUp = None
         \/ d \in DashRecord /\ e.followUp = d.followUp /\ e.busy = d.busy
  PROVE  Handlers(e, s, f)
<1>1. e # Family!NoDash
  BY FreeIsNone
<1>2. Hosts(e, f)
  BY <1>1 DEF Hosts
<1>3. CASE d = Family!NoDash
  <2>1. \A k \in Flows : ~ On(f, k) /\ ~ Holding(f, k) /\ ~ InFlight(f, k)
    BY <1>3 DEF Handlers, Hosts, Holding, InFlight
  <2>2. e.followUp = None
    BY <1>3, FreeIsNone
  <2>3. OneHolds(e, f) /\ OwnFollows(e, f) /\ Waiting(e, s, f)
    BY <2>1, <2>2 DEF OneHolds, OwnFollows, Waiting
  <2>4. Traced(e, s, f)
    BY <2>2 DEF Handlers, Traced, OfBegun
  <2>5. Follows(e, f)
    BY <2>1 DEF Handlers, Follows, RefOf
  <2> QED
    BY <1>2, <2>3, <2>4, <2>5 DEF Handlers
<1>4. CASE d \in DashRecord
  <2>1. d # Family!NoDash /\ e.followUp = d.followUp /\ e.busy = d.busy
    BY <1>4, FreeIsNone
  <2>2. OneHolds(e, f) /\ OwnFollows(e, f)
    BY <2>1 DEF Handlers, OneHolds, OwnFollows
  <2>3. Traced(e, s, f)
    BY <2>1 DEF Handlers, Traced, OfBegun
  <2>4. Follows(e, f)
    BY <2>1 DEF Handlers, Follows, RefOf
  <2>5. Waiting(e, s, f)
    BY <2>1 DEF Handlers, Waiting, Fits
  <2> QED
    BY <1>2, <2>2, <2>3, <2>4, <2>5 DEF Handlers
<1> QED
  BY <1>3, <1>4 DEF DashTyped


\* What is not a button's, a transaction's or a follow-up's changes no handler.
LEMMA DashboardKeeps ==
  ASSUME NEW d, NEW s, NEW f, DashTyped(d, s, f), Handlers(d, s, f),
         NEW e \in DashRecord, d \in DashRecord,
         e.followUp = d.followUp, e.busy = d.busy, e.pending = d.pending
  PROVE  Handlers(e, s, f)
<1>1. e # Family!NoDash /\ d # Family!NoDash
  BY FreeIsNone
<1>2. Hosts(e, f)
  BY <1>1 DEF Hosts
<1>3. OneHolds(e, f) /\ OwnFollows(e, f)
  BY DEF Handlers, OneHolds, OwnFollows
<1>4. Traced(e, s, f)
  BY <1>1 DEF Handlers, Traced, OfBegun
<1>5. Follows(e, f)
  BY DEF Handlers, Follows, RefOf
<1>6. Waiting(e, s, f)
  BY <1>1 DEF Handlers, Waiting, Fits
<1> QED
  BY <1>2, <1>3, <1>4, <1>5, <1>6 DEF Handlers

\* The page, the dashboard, the slot and the handlers of an action, rendered.
LEMMA FamilyRender ==
  ASSUME FamilyInv, NEW p \in PageRecord, p.view = "box" => p.selected \in p.pools,
         NEW d, NEW s, NEW f, DashTyped(d, s, f), d = Family!NoDash <=> dash = Family!NoDash,
         d.box = dash.box, Handlers(d, s, f), Money(d, loads, f), p.view # "gate" => publicKey' # None,
         Family!Render(p, d, s, f), old' \subseteq Boxes, Family!SessionTypeOK'
  PROVE  FamilyInv'
<1> DEFINE b == Family!Shown(p)
<1>1. /\ page' = p /\ slot' = s /\ flow' = Family!Rehosted(f, p, d)
      /\ dash' = IF b = None THEN Family!NoDash
                 ELSE IF d = Family!NoDash THEN Family!Opened(b, s)
                 ELSE IF d.box # b THEN [d EXCEPT !.box = b, !.pending = Family!PendingOf(b, s)]
                 ELSE d
      /\ loads' = IF b = dash.box THEN loads ELSE {[box |-> c, at |-> "balance"] : c \in {b} \ {None}}
  BY DEF Family!Render, Family!Cancelled
<1>2. b \in Boxes \cup {None} /\ (b # None => p.view = "box")
  BY NullAssumption DEF Family!Shown, PageRecord
<1>3. loads \subseteq Family!Loads /\ \A x \in loads : x.box = dash.box
  BY DEF FamilyInv, Coherent
<1>4. CASE b = None
  <2>1. dash' = Family!NoDash /\ loads' = {}
    <3>1. dash.box = None => loads = {}
      BY <1>3, NullAssumption DEF Family!Loads
    <3> QED
      BY <1>1, <1>4, <3>1
  <2>2. ASSUME NEW k \in Flows, f[k] # Family!Free
        PROVE  /\ flow'[k] \in FlowRecord
               /\ flow'[k] # Family!Free /\ flow'[k].host # "dashboard"
               /\ flow'[k].kind = f[k].kind /\ flow'[k].doc = f[k].doc /\ flow'[k].after = f[k].after
               /\ flow'[k].at = f[k].at
               /\ flow'[k].ref = f[k].ref \/ (On(f, k) /\ flow'[k].ref = d.followUp)
    <3>1. f[k] \in FlowRecord
      BY <2>2 DEF DashTyped
    <3>2. On(f, k) => d \in DashRecord
      BY DEF Handlers, Hosts, DashTyped
    <3>3. CASE p.view = "gate"
      <4>1. flow'[k] = [f[k] EXCEPT !.host = "gone"]
        BY <1>1, <2>2, <3>3 DEF Family!Rehosted
      <4> QED
        BY <3>1, <4>1, FreeIsNone DEF FlowRecord
    <3>4. CASE p.view # "gate" /\ f[k].host = "dashboard"
      <4>1. flow'[k] = [f[k] EXCEPT !.host = "page", !.ref = d.followUp]
        BY <1>1, <1>4, <2>2, <3>4 DEF Family!Rehosted
      <4>2. On(f, k) /\ d.followUp \in Flows \cup {None}
        BY <2>2, <3>2, <3>4 DEF On, Begun, DashRecord
      <4> QED
        BY <3>1, <4>1, <4>2, FreeIsNone DEF FlowRecord
    <3>5. CASE p.view # "gate" /\ f[k].host # "dashboard"
      <4>1. flow'[k] = f[k]
        BY <1>1, <2>2, <3>5 DEF Family!Rehosted
      <4> QED
        BY <3>1, <3>5, <4>1, FreeIsNone
    <3> QED
      BY <3>3, <3>4, <3>5
  <2>3. \A k \in Flows : f[k] = Family!Free => flow'[k] = Family!Free
    BY <1>1 DEF Family!Rehosted
  <2>4. flow' \in [Flows -> {Family!Free} \cup FlowRecord]
    BY <1>1, <2>2, <2>3 DEF Family!Rehosted
  <2>5. Handlers(Family!NoDash, s, flow')
    BY <2>2, <2>3, <2>4, DashboardGoes
  <2>6. Handlers(dash', slot', flow') /\ DashTyped(dash', slot', flow') /\ Money(dash', loads', flow')
    BY <1>1, <2>1, <2>4, <2>5 DEF DashTyped, Money
  <2>7. Coherent(page', dash', loads')
    BY <1>1, <1>4, <2>1 DEF Coherent, Family!NoDash
  <2>8. page' \in PageRecord /\ loads' \subseteq Family!Loads /\ (page'.view # "gate" => publicKey' # None)
    BY <1>1, <2>1
  <2> HIDE DEF b
  <2> QED
    BY <2>6, <2>7, <2>8 DEF FamilyInv, DashTyped, Coherent, Handlers, Money, AllSteady, Hosts, OneHolds, Traced,
       OwnFollows, Follows, Ran, Strangers, Waiting
<1>5. CASE b # None
  <2>1. flow' = f
    BY <1>1, <1>2, <1>5 DEF Family!Rehosted, DashTyped
  <2>2. /\ dash' \in DashRecord /\ dash'.box = b
        /\ Handlers(dash', s, f) /\ Money(dash', loads', f)
        /\ loads' \subseteq Family!Loads /\ \A x \in loads' : x.box = b
    <3>p. Family!PendingOf(b, s) \in {s, None} /\ {s, None} \subseteq Family!Document \cup {None}
      BY DEF Family!PendingOf, DashTyped
    <3>1. CASE d = Family!NoDash
      <4>1. dash' = Family!Opened(b, s)
        BY <1>1, <1>5, <3>1
      <4>2. /\ dash' \in DashRecord /\ dash'.box = b /\ dash'.pending \in {s, None} /\ dash'.followUp = None
        BY <1>2, <1>5, <3>p, <4>1 DEF Family!Opened, DashRecord
      <4>3. dash.box = None
        BY <3>1 DEF Family!NoDash
      <4>4. loads' = {[box |-> b, at |-> "balance"]} /\ b \in Boxes
        BY <1>1, <1>2, <1>5, <4>3
      <4>m. Money(dash', loads', f)
        BY <4>4, LoadsAll DEF Money
      <4>l. loads' \subseteq Family!Loads /\ \A x \in loads' : x.box = b
        BY <4>4 DEF Family!Loads, Family!Parts
      <4>5. Handlers(dash', s, f)
        BY <3>1, <4>2, <4>4, DashboardShows
      <4> QED
        BY <4>2, <4>5, <4>m, <4>l
    <3>2. CASE d # Family!NoDash /\ d.box # b
      <4>1. dash' = [d EXCEPT !.box = b, !.pending = Family!PendingOf(b, s)] /\ d \in DashRecord
        BY <1>1, <1>5, <3>2 DEF DashTyped
      <4>2. /\ dash' \in DashRecord /\ dash'.box = b /\ dash'.pending \in {s, None}
            /\ dash'.followUp = d.followUp /\ dash'.busy = d.busy
        BY <1>2, <1>5, <3>p, <4>1 DEF DashRecord
      <4>4. loads' = {[box |-> b, at |-> "balance"]} /\ b \in Boxes
        BY <1>1, <1>2, <1>5, <3>2
      <4>m. Money(dash', loads', f)
        BY <4>4, LoadsAll DEF Money
      <4>l. loads' \subseteq Family!Loads /\ \A x \in loads' : x.box = b
        BY <4>4 DEF Family!Loads, Family!Parts
      <4>5. Handlers(dash', s, f)
        BY <3>2, <4>1, <4>2, <4>4, DashboardShows
      <4> QED
        BY <4>2, <4>5, <4>m, <4>l
    <3>3. CASE d # Family!NoDash /\ d.box = b
      <4>1. dash' = d /\ loads' = loads /\ d \in DashRecord
        BY <1>1, <1>5, <3>3 DEF DashTyped
      <4> QED
        BY <1>3, <3>3, <4>1
    <3> QED
      BY <3>1, <3>2, <3>3
  <2>3. Coherent(page', dash', loads')
    BY <1>1, <1>5, <2>2, FreeIsNone DEF Coherent
  <2>4. DashTyped(dash', slot', flow') /\ Handlers(dash', slot', flow') /\ Money(dash', loads', flow')
    BY <1>1, <2>1, <2>2 DEF DashTyped
  <2>5. page' \in PageRecord /\ loads' \subseteq Family!Loads /\ (page'.view # "gate" => publicKey' # None)
    BY <1>1, <1>2, <1>5, <2>2
  <2> HIDE DEF b
  <2> QED
    BY <2>3, <2>4, <2>5 DEF FamilyInv, DashTyped, Coherent, Handlers, Money, AllSteady, Hosts, OneHolds, Traced,
       OwnFollows, Follows, Ran, Strangers, Waiting
<1> QED
  BY <1>4, <1>5

\* A handler goes on, in the dashboard, under the page or after both.
LEMMA HandlerMoves ==
  ASSUME NEW d, NEW s, NEW f, DashTyped(d, s, f), Handlers(d, s, f),
         NEW k \in Flows, f[k].at \in Live,
         NEW g \in FlowRecord, g.host = f[k].host, g.kind = f[k].kind, FlowSteady(g, k),
         NEW e \in {Family!NoDash} \cup DashRecord, NEW z \in Family!Document \cup {None},
         e = Family!NoDash <=> d = Family!NoDash,
         \* whoever does not hold the buttons leaves them
         ~ Holding(f, k) => /\ On(f, k) => z = s
                            /\ e # Family!NoDash =>
                                 e.busy = d.busy /\ e.followUp = d.followUp /\ e.pending = d.pending,
         Holding(f, k) /\ g.at \in Live => e.busy = TRUE,
         z \in {s, None} \/ (z = f[k].doc /\ g.at = "done"),
         e # Family!NoDash => /\ e.pending \in {d.pending, None, f[k].doc}
                              /\ e.followUp \in {d.followUp, None, k},
         g.doc # None => g.doc.id = k \/ (f[k].doc # None /\ g.doc.id = f[k].doc.id),
         g.ref \in {None, f[k].ref, k}, g.after \in {None, f[k].after, RefOf(d, f, k)},
         On(f, k) /\ g.at = "submitting" /\ g.kind \in Setters => e.followUp = k,
         Holding(f, k) =>
           \/ e.followUp = None
           \/ g.at = "submitting" /\ g.kind \in Setters
           \/ ~ InFlight(f, k) /\ e.followUp = d.followUp /\ e.pending = d.pending /\ z = s
           \/ f[k].at = "submitting" /\ e.followUp = d.followUp /\ e.pending = z /\ z \in {None, f[k].doc},
         g.at = "signing" => g.doc = f[k].doc /\ g.ref = f[k].ref
                               /\ (g.doc # None => f[k].at = "signing"),
         g.at = "submitting" => IF g.kind \in Setters THEN g.doc.id = k /\ (~ On(f, k) => g.ref = k)
                                ELSE /\ f[k].at = "signing" /\ g.ref = f[k].ref /\ g.doc # None
                                     /\ e = d
                                     /\ g.doc.kind \in Setters =>
                                          /\ f[k].doc # None /\ g.doc.id = f[k].doc.id
                                          /\ g.doc.kind = f[k].doc.kind,
         g.at = "followUp" => /\ f[k].at = "submitting" /\ g.doc = f[k].doc /\ f[k].doc.kind \in Setters
                              /\ RefOf(d, f, k) # None /\ g.after = RefOf(d, f, k)
  PROVE  Handlers(e, z, [f EXCEPT ![k] = g])
<1> DEFINE h == [f EXCEPT ![k] = g]
<1>1. h[k] = g /\ \A j \in Flows \ {k} : h[j] = f[j]
  BY DEF DashTyped
<1>2. f[k] \in FlowRecord /\ Begun(f, k) /\ FlowSteady(f[k], k)
  <2>1. f[k] # Family!Free
    BY DEF Family!Free, Live
  <2> QED
    BY <2>1 DEF DashTyped, Begun, Handlers, AllSteady
<1> HIDE DEF h
<1>3. \A j \in Flows : (Begun(h, j) <=> Begun(f, j)) /\ (On(h, j) <=> On(f, j))
  BY <1>1, <1>2, FreeIsNone DEF Begun, On
<1>4. ASSUME NEW doc, NEW j, Matches(f, doc, j) PROVE Matches(h, doc, j)
  <2>1. \A i \in Flows : Begun(f, i) => Begun(h, i) /\ h[i].kind = f[i].kind
    BY <1>1, <1>3
  <2>2. \A i \in Flows : Begun(f, i) /\ ~ On(f, i) => ~ On(h, i)
    BY <1>3
  <2>3. \A i \in Flows : Begun(f, i) /\ f[i].at = "done" => h[i].at = "done"
    BY <1>1 DEF Live
  <2> QED
    BY <1>4, <2>1, <2>2, <2>3, MatchesStays
<1>5. AllSteady(h)
  BY <1>1, <1>3 DEF Handlers, AllSteady
<1>6. Hosts(e, h)
  BY <1>3 DEF Handlers, Hosts
<1>7. \A j \in Flows : Holding(h, j) => Holding(f, j)
  BY <1>1, <1>3 DEF Holding
<1>8. OneHolds(e, h)
  <2>1. SUFFICES ASSUME NEW j \in Flows, Holding(h, j)
                 PROVE  e.busy = TRUE /\ \A i \in Flows : Holding(h, i) => i = j
    BY DEF OneHolds
  <2>2. Holding(f, j) /\ d.busy = TRUE /\ \A i \in Flows : Holding(h, i) => i = j
    BY <1>7, <2>1 DEF Handlers, OneHolds
  <2>3. CASE Holding(f, k)
    BY <1>1, <2>1, <2>2, <2>3 DEF Handlers, OneHolds, Holding
  <2>4. CASE ~ Holding(f, k)
    BY <2>2, <2>4 DEF Handlers, Hosts, Holding
  <2> QED
    BY <2>2, <2>3, <2>4
<1>9. OfBegun(h, k) /\ \A j \in Flows \cup {None} : OfBegun(f, j) => OfBegun(h, j)
  BY <1>2, <1>3 DEF OfBegun
<1>10. /\ \A doc \in Family!Document : doc.id \in Flows \cup {None}
       /\ f[k].ref \in Flows \cup {None} /\ f[k].after \in Flows \cup {None}
       /\ \A i \in Flows : Begun(f, i) => f[i] \in FlowRecord
       /\ d # Family!NoDash => d.followUp \in Flows \cup {None} /\ d.pending \in Family!Document \cup {None}
  BY <1>2 DEF FlowRecord, DashRecord, Family!Document, DashTyped, Begun
<1>11. OfBegun(f, RefOf(d, f, k)) /\ RefOf(d, f, k) \in Flows \cup {None}
  BY <1>2, <1>10 DEF Handlers, Hosts, Traced, RefOf
<1>12. Traced(e, z, h)
  <2>1. f[k].doc # None => OfBegun(h, f[k].doc.id)
    <3>1. f[k].doc # None => OfBegun(f, f[k].doc.id) /\ f[k].doc \in Family!Document
      BY <1>2 DEF Handlers, Traced, FlowRecord
    <3> QED
      BY <1>9, <1>10, <3>1
  <2>2. z # None => OfBegun(h, z.id)
    BY <1>9, <1>10, <2>1 DEF Handlers, Traced, DashTyped
  <2>3. e # Family!NoDash => OfBegun(h, e.followUp) /\ (e.pending # None => OfBegun(h, e.pending.id))
    <3>1. SUFFICES ASSUME e # Family!NoDash
                   PROVE  OfBegun(h, e.followUp) /\ (e.pending # None => OfBegun(h, e.pending.id))
      OBVIOUS
    <3>2. OfBegun(f, d.followUp) /\ (d.pending # None => OfBegun(f, d.pending.id))
      BY <3>1 DEF Handlers, Traced
    <3>3. OfBegun(h, d.followUp) /\ OfBegun(h, None)
      BY <1>9, <1>10, <3>1, <3>2 DEF OfBegun
    <3>4. d.pending # None => OfBegun(h, d.pending.id)
      BY <1>9, <1>10, <3>1, <3>2
    <3> QED
      BY <1>9, <2>1, <3>1, <3>3, <3>4
  <2>4. ASSUME NEW j \in Flows, Begun(h, j)
        PROVE  /\ OfBegun(h, h[j].ref) /\ OfBegun(h, h[j].after)
               /\ h[j].doc # None => OfBegun(h, h[j].doc.id)
    <3>1. CASE j = k
      <4>1. OfBegun(h, None) /\ OfBegun(h, f[k].ref) /\ OfBegun(h, f[k].after) /\ OfBegun(h, RefOf(d, f, k))
        BY <1>2, <1>9, <1>10, <1>11 DEF Handlers, Traced, OfBegun
      <4> QED
        BY <1>1, <1>9, <2>1, <3>1, <4>1
    <3>2. CASE j # k
      <4>1. h[j] = f[j] /\ Begun(f, j)
        BY <1>1, <1>3, <2>4, <3>2
      <4>2. /\ OfBegun(f, f[j].ref) /\ OfBegun(f, f[j].after)
            /\ f[j].doc # None => OfBegun(f, f[j].doc.id)
        BY <4>1 DEF Handlers, Traced
      <4>3. /\ f[j].ref \in Flows \cup {None} /\ f[j].after \in Flows \cup {None}
            /\ f[j].doc # None => f[j].doc.id \in Flows \cup {None}
        BY <1>10, <4>1 DEF FlowRecord
      <4> QED
        BY <1>9, <4>1, <4>2, <4>3
    <3> QED
      BY <3>1, <3>2
  <2> QED
    BY <2>2, <2>3, <2>4 DEF Traced
<1>13. \A j \in Flows : InFlight(h, j) => IF j = k THEN g.at = "submitting" /\ g.kind \in Setters /\ On(f, k)
                                          ELSE InFlight(f, j)
  BY <1>1, <1>3 DEF InFlight
<1>14. \A j \in Flows : InFlight(f, j) => Holding(f, j)
  BY DEF InFlight, Holding, Live, Setters
<1>15. OwnFollows(e, h)
  <2>1. SUFFICES ASSUME NEW j \in Flows, InFlight(h, j), j # k PROVE e.followUp = j
    BY <1>13 DEF OwnFollows
  <2>2. InFlight(f, j) /\ Holding(f, j) /\ d.followUp = j /\ d # Family!NoDash
    BY <1>13, <1>14, <2>1 DEF Handlers, OwnFollows, Hosts, InFlight
  <2>3. ~ Holding(f, k)
    BY <2>1, <2>2 DEF Handlers, OneHolds
  <2> QED
    BY <2>2, <2>3
<1>16. Follows(e, h)
  <2>1. SUFFICES ASSUME NEW j \in Flows, Begun(h, j), h[j].at \in {"signing", "submitting"},
                        RefOf(e, h, j) # None
                 PROVE  Fits(h, h[j].doc, RefOf(e, h, j))
    BY DEF Follows
  <2>2. CASE j # k
    <3>1. h[j] = f[j] /\ Begun(f, j) /\ (On(h, j) <=> On(f, j))
      BY <1>1, <1>3, <2>1, <2>2
    <3>2. On(f, j) => Holding(f, j)
      BY <2>1, <3>1 DEF Holding, Live, Handlers, AllSteady, FlowSteady
    <3>3. On(f, j) => e.followUp = d.followUp
      BY <2>2, <3>2 DEF Handlers, OneHolds, Hosts
    <3>4. RefOf(e, h, j) = RefOf(d, f, j)
      BY <3>1, <3>3 DEF RefOf
    <3>5. Fits(f, f[j].doc, RefOf(d, f, j))
      BY <2>1, <3>1, <3>4 DEF Handlers, Follows
    <3> QED
      BY <1>4, <3>1, <3>4, <3>5 DEF Fits
  <2>3. CASE j = k /\ g.at = "signing"
    <3>1. SUFFICES ASSUME g.doc # None, g.doc.kind \in Setters PROVE Matches(h, g.doc, RefOf(e, h, k))
      BY <1>1, <2>3 DEF Fits
    <3>2. f[k].at = "signing" /\ g.doc = f[k].doc /\ g.ref = f[k].ref
      BY <2>3, <3>1
    <3>3. On(f, k) => Holding(f, k) /\ ~ InFlight(f, k)
      BY <1>2, <3>2 DEF Holding, Live, FlowSteady, InFlight
    <3>4. On(f, k) => e.followUp = None \/ e.followUp = d.followUp
      BY <2>3, <3>2, <3>3
    <3>5. RefOf(e, h, k) = RefOf(d, f, k)
      BY <1>1, <1>3, <2>1, <2>3, <3>2, <3>4 DEF RefOf
    <3> QED
      BY <1>2, <1>4, <2>1, <2>3, <3>1, <3>2, <3>5 DEF Handlers, Follows, Fits
  <2>4. CASE j = k /\ g.at = "submitting" /\ g.kind \in Setters
    <3>1. RefOf(e, h, k) = k /\ g.doc.id = k
      BY <1>1, <1>3, <2>4 DEF RefOf
    <3> QED
      BY <1>1, <2>4, <3>1 DEF Fits, Matches
  <2>5. CASE j = k /\ g.at = "submitting" /\ g.kind \notin Setters
    <3>1. SUFFICES ASSUME g.doc.kind \in Setters PROVE Matches(h, g.doc, RefOf(e, h, k))
      BY <1>1, <2>5 DEF Fits
    <3>2. /\ f[k].at = "signing" /\ f[k].doc # None /\ g.doc.id = f[k].doc.id /\ g.doc.kind = f[k].doc.kind
          /\ g.ref = f[k].ref /\ e = d
      BY <2>5, <3>1
    <3>3. RefOf(e, h, k) = RefOf(d, f, k)
      BY <1>1, <1>3, <3>2 DEF RefOf
    <3>4. Matches(f, f[k].doc, RefOf(d, f, k))
      BY <1>2, <2>1, <2>5, <3>1, <3>2, <3>3 DEF Handlers, Follows, Fits
    <3>5. Matches(f, g.doc, RefOf(d, f, k))
      BY <3>2, <3>4 DEF Matches
    <3> QED
      BY <1>4, <3>3, <3>5
  <2> QED
    BY <1>1, <2>1, <2>2, <2>3, <2>4, <2>5
<1>17. Ran(h)
  <2>1. SUFFICES ASSUME NEW j \in Flows, Begun(h, j), h[j].at = "followUp"
                 PROVE  Matches(h, h[j].doc, h[j].after)
    BY DEF Ran
  <2>2. CASE j # k
    BY <1>1, <1>3, <1>4, <2>1, <2>2 DEF Handlers, Ran
  <2>3. CASE j = k
    <3>1. /\ f[k].at = "submitting" /\ g.doc = f[k].doc /\ f[k].doc.kind \in Setters
          /\ RefOf(d, f, k) # None /\ g.after = RefOf(d, f, k)
      BY <1>1, <2>1, <2>3
    <3>2. Matches(f, f[k].doc, RefOf(d, f, k))
      BY <1>2, <3>1 DEF Handlers, Follows, Fits, FlowSteady
    <3> QED
      BY <1>1, <1>4, <2>3, <3>1, <3>2
  <2> QED
    BY <2>2, <2>3
<1>18. Strangers(h)
  <2>1. SUFFICES ASSUME NEW j \in Flows, Begun(h, j), ~ On(h, j), h[j].doc # None, h[j].doc.id # None
                 PROVE  ~ On(h, h[j].doc.id)
    BY DEF Strangers
  <2>2. h[j].doc.id \in Flows
    <3>1. h[j] \in FlowRecord
      BY <1>1, <1>3, <1>10, <2>1
    <3>2. h[j].doc \in Family!Document
      BY <2>1, <3>1 DEF FlowRecord
    <3> QED
      BY <1>10, <2>1, <3>2
  <2>3. ~ On(f, h[j].doc.id)
    BY <1>1, <1>2, <1>3, <2>1 DEF Handlers, Strangers
  <2> QED
    BY <1>3, <2>2, <2>3
<1>19. Waiting(e, z, h)
  <2>1. SUFFICES ASSUME e # Family!NoDash, e.followUp # None, ~ InFlight(h, e.followUp)
                 PROVE  Fits(h, z, e.followUp) /\ Fits(h, e.pending, e.followUp)
    BY DEF Waiting
  <2> DEFINE q == e.followUp
  <2>2. CASE ~ Holding(f, k)
    <3>1. q = d.followUp /\ e.pending = d.pending /\ d # Family!NoDash
      BY <2>1, <2>2
    <3>2. ~ InFlight(f, q)
      <4>1. q \in Flows
        BY <1>10, <2>1, <3>1
      <4> QED
        BY <1>1, <1>3, <1>14, <2>1, <2>2, <4>1 DEF InFlight
    <3>3. Fits(f, s, q) /\ Fits(f, d.pending, q)
      BY <2>1, <3>1, <3>2 DEF Handlers, Waiting
    <3>4. Fits(h, s, q) /\ Fits(h, e.pending, q) /\ Fits(h, None, q)
      BY <1>4, <3>1, <3>3 DEF Fits
    <3>5. CASE z = f[k].doc /\ g.at = "done" /\ ~ On(f, k) /\ z # None
      <4>1. k = z.id \/ f[k].kind = "sign"
        BY <1>2, <3>5 DEF FlowSteady
      <4>2. z.id = None \/ (z.id \in Flows /\ Begun(h, z.id) /\ ~ On(h, z.id))
        <5>1. z \in Family!Document /\ OfBegun(f, z.id)
          BY <1>2, <3>5 DEF Handlers, Traced
        <5> QED
          BY <1>2, <1>3, <1>10, <3>5, <5>1 DEF Handlers, Strangers, OfBegun
      <4>3. Begun(h, k) /\ ~ On(h, k) /\ h[k].at = "done" /\ h[k].kind = f[k].kind
        BY <1>1, <1>2, <1>3, <3>5
      <4>4. k \in Flows => (k = z.id => z.id # None)
        BY NullAssumption
      <4>5. Matches(h, z, q)
        BY <4>1, <4>2, <4>3, <4>4 DEF Matches
      <4> QED
        BY <3>4, <4>5 DEF Fits
    <3> QED
      BY <2>2, <3>4, <3>5
  <2>3. CASE Holding(f, k)
    <3>1. CASE g.at = "submitting" /\ g.kind \in Setters
      <4>1. q = k /\ InFlight(h, k)
        BY <1>1, <1>3, <2>3, <3>1 DEF Holding, InFlight
      <4> QED
        BY <2>1, <4>1
    <3>2. CASE ~ InFlight(f, k) /\ q = d.followUp /\ e.pending = d.pending /\ z = s
      <4>1. ~ InFlight(f, q)
        BY <1>10, <1>14, <2>1, <2>3, <3>2 DEF Handlers, OneHolds
      <4>2. Fits(f, s, q) /\ Fits(f, d.pending, q)
        BY <2>1, <3>2, <4>1 DEF Handlers, Waiting
      <4> QED
        BY <1>4, <3>2, <4>2 DEF Fits
    <3>3. CASE f[k].at = "submitting" /\ q = d.followUp /\ e.pending = z /\ z \in {None, f[k].doc}
      <4>1. RefOf(d, f, k) = q
        BY <2>3, <3>3 DEF RefOf, Holding
      <4>2. Fits(f, f[k].doc, q)
        BY <1>2, <2>1, <3>3, <4>1 DEF Handlers, Follows
      <4>3. Fits(h, f[k].doc, q) /\ Fits(h, None, q)
        BY <1>4, <4>2 DEF Fits
      <4> QED
        BY <3>3, <4>3
    <3> QED
      BY <2>1, <2>3, <3>1, <3>2, <3>3
  <2> QED
    BY <2>2, <2>3
<1>20. Handlers(e, z, h)
  BY <1>5, <1>6, <1>8, <1>12, <1>15, <1>16, <1>17, <1>18, <1>19 DEF Handlers
<1> QED
  BY <1>20 DEF h


\* A button of the dashboard starts a handler.
LEMMA HandlerBegins ==
  ASSUME NEW d, NEW s, NEW f, DashTyped(d, s, f), Handlers(d, s, f), d \in DashRecord,
         NEW k \in Flows, f[k] = Family!Free,
         NEW g \in FlowRecord, g.host = "dashboard", g.at \in {"calling", "signing"}, FlowSteady(g, k),
         g.ref = None, g.after = None, g.kind = "sign" => g.doc = d.pending,
         NEW e \in DashRecord, e.pending = d.pending, e.followUp = d.followUp,
         IF g.kind = "limits" THEN e.busy = d.busy ELSE d.busy = FALSE /\ e.busy = TRUE
  PROVE  Handlers(e, s, [f EXCEPT ![k] = g])
<1> DEFINE h == [f EXCEPT ![k] = g]
<1>1. h[k] = g /\ \A j \in Flows \ {k} : h[j] = f[j]
  BY DEF DashTyped
<1> HIDE DEF h
<1>2. /\ ~ Begun(f, k) /\ ~ On(f, k) /\ Begun(h, k) /\ On(h, k)
      /\ \A j \in Flows \ {k} : (Begun(h, j) <=> Begun(f, j)) /\ (On(h, j) <=> On(f, j))
  BY <1>1, FreeIsNone DEF Begun, On
<1>n. d # Family!NoDash /\ e # Family!NoDash
  BY FreeIsNone
<1>3. ASSUME NEW doc, NEW j, Matches(f, doc, j) PROVE Matches(h, doc, j)
  <2>1. \A i \in Flows : Begun(f, i) => i # k
    BY <1>2
  <2> QED
    BY <1>1, <1>2, <1>3, <2>1, MatchesStays
<1>4. AllSteady(h)
  BY <1>1, <1>2 DEF Handlers, AllSteady
<1>5. Hosts(e, h)
  BY <1>n DEF Hosts
<1>6. \A j \in Flows \ {k} : Holding(h, j) <=> Holding(f, j)
  BY <1>1, <1>2 DEF Holding
<1>7. OneHolds(e, h)
  <2>1. CASE g.kind = "limits"
    <3>1. ~ Holding(h, k)
      BY <1>1, <2>1 DEF Holding
    <3> QED
      BY <1>6, <2>1, <3>1 DEF Handlers, OneHolds
  <2>2. CASE g.kind # "limits"
    <3>1. \A j \in Flows : ~ Holding(f, j)
      BY <2>2 DEF Handlers, OneHolds
    <3> QED
      BY <1>6, <2>2, <3>1 DEF OneHolds
  <2> QED
    BY <2>1, <2>2
<1>8. \A j \in Flows \cup {None} : OfBegun(f, j) => OfBegun(h, j)
  BY <1>2 DEF OfBegun
<1>9. /\ \A doc \in Family!Document : doc.id \in Flows \cup {None}
      /\ \A i \in Flows : Begun(f, i) => f[i] \in FlowRecord
      /\ d.followUp \in Flows \cup {None} /\ d.pending \in Family!Document \cup {None}
  BY DEF DashRecord, Family!Document, DashTyped, Begun
<1>10. g.kind # "sign" => g.doc = None
  BY DEF FlowSteady
<1>11. Traced(e, s, h)
  <2>1. s # None => OfBegun(h, s.id)
    BY <1>8, <1>9 DEF Handlers, Traced, DashTyped
  <2>2. OfBegun(h, e.followUp) /\ (e.pending # None => OfBegun(h, e.pending.id))
    BY <1>8, <1>9, <1>n DEF Handlers, Traced
  <2>3. ASSUME NEW j \in Flows, Begun(h, j)
        PROVE  /\ OfBegun(h, h[j].ref) /\ OfBegun(h, h[j].after)
               /\ h[j].doc # None => OfBegun(h, h[j].doc.id)
    <3>1. CASE j = k
      BY <1>1, <1>10, <2>2, <3>1 DEF OfBegun
    <3>2. CASE j # k
      <4>1. h[j] = f[j] /\ Begun(f, j)
        BY <1>1, <1>2, <2>3, <3>2
      <4>2. /\ OfBegun(f, f[j].ref) /\ OfBegun(f, f[j].after)
            /\ f[j].doc # None => OfBegun(f, f[j].doc.id)
        BY <4>1 DEF Handlers, Traced
      <4>3. /\ f[j].ref \in Flows \cup {None} /\ f[j].after \in Flows \cup {None}
            /\ f[j].doc # None => f[j].doc.id \in Flows \cup {None}
        BY <1>9, <4>1 DEF FlowRecord
      <4> QED
        BY <1>8, <4>1, <4>2, <4>3
    <3> QED
      BY <3>1, <3>2
  <2> QED
    BY <2>1, <2>2, <2>3 DEF Traced
<1>12. ~ InFlight(h, k) /\ \A j \in Flows \ {k} : InFlight(h, j) <=> InFlight(f, j)
  BY <1>1, <1>2 DEF InFlight
<1>13. OwnFollows(e, h)
  BY <1>12 DEF Handlers, OwnFollows
<1>14. Follows(e, h)
  <2>1. SUFFICES ASSUME NEW j \in Flows, Begun(h, j), h[j].at \in {"signing", "submitting"},
                        RefOf(e, h, j) # None
                 PROVE  Fits(h, h[j].doc, RefOf(e, h, j))
    BY DEF Follows
  <2>2. CASE j # k
    <3>1. h[j] = f[j] /\ Begun(f, j) /\ RefOf(e, h, j) = RefOf(d, f, j)
      BY <1>1, <1>2, <2>1, <2>2 DEF RefOf
    <3> QED
      BY <1>3, <2>1, <3>1 DEF Handlers, Follows, Fits
  <2>3. CASE j = k /\ g.kind # "sign"
    BY <1>1, <1>10, <2>3 DEF Fits
  <2>4. CASE j = k /\ g.kind = "sign"
    <3>1. RefOf(e, h, k) = d.followUp /\ d.followUp # None
      BY <1>2, <2>1, <2>4 DEF RefOf
    <3>2. ~ InFlight(f, d.followUp)
      BY <1>9, <2>4, <3>1 DEF Handlers, OneHolds, InFlight, Holding, Live, Setters
    <3>3. Fits(f, d.pending, d.followUp)
      BY <1>n, <3>1, <3>2 DEF Handlers, Waiting
    <3> QED
      BY <1>1, <1>3, <2>4, <3>1, <3>3 DEF Fits
  <2> QED
    BY <2>2, <2>3, <2>4
<1>15. Ran(h)
  BY <1>1, <1>2, <1>3 DEF Handlers, Ran
<1>16. Strangers(h)
  <2>1. SUFFICES ASSUME NEW j \in Flows, Begun(h, j), ~ On(h, j), h[j].doc # None, h[j].doc.id # None
                 PROVE  ~ On(h, h[j].doc.id)
    BY DEF Strangers
  <2>2. j # k /\ h[j] = f[j] /\ Begun(f, j) /\ ~ On(f, j)
    BY <1>1, <1>2, <2>1
  <2>3. f[j].doc.id \in Flows /\ Begun(f, f[j].doc.id)
    <3>1. f[j].doc \in Family!Document
      BY <1>9, <2>1, <2>2 DEF FlowRecord
    <3> QED
      BY <1>9, <2>1, <2>2, <3>1 DEF Handlers, Traced, OfBegun
  <2> QED
    BY <1>2, <2>1, <2>2, <2>3 DEF Handlers, Strangers
<1>17. Waiting(e, s, h)
  <2>1. SUFFICES ASSUME e.followUp # None, ~ InFlight(h, e.followUp)
                 PROVE  Fits(h, s, e.followUp) /\ Fits(h, e.pending, e.followUp)
    BY DEF Waiting
  <2>2. ~ InFlight(f, d.followUp)
    BY <1>2, <1>9, <1>12, <2>1 DEF InFlight
  <2> QED
    BY <1>3, <1>n, <2>1, <2>2 DEF Handlers, Waiting, Fits
<1>18. Handlers(e, s, h)
  BY <1>4, <1>5, <1>7, <1>11, <1>13, <1>14, <1>15, <1>16, <1>17 DEF Handlers
<1> QED
  BY <1>18 DEF h

\* "Descartar": nothing waits, and nothing follows.
LEMMA HandlersDiscard ==
  ASSUME NEW d, NEW s, NEW f, DashTyped(d, s, f), Handlers(d, s, f), d \in DashRecord,
         d.busy = FALSE, NEW e \in DashRecord, e.pending = None, e.followUp = None, e.busy = FALSE
  PROVE  Handlers(e, None, f)
<1>1. e # Family!NoDash /\ d # Family!NoDash
  BY FreeIsNone
<1>2. \A k \in Flows : ~ Holding(f, k) /\ ~ InFlight(f, k)
  BY DEF Handlers, OneHolds, InFlight, Holding, Live, Setters
<1>3. Hosts(e, f) /\ OneHolds(e, f) /\ OwnFollows(e, f) /\ Waiting(e, None, f)
  BY <1>1, <1>2 DEF Hosts, OneHolds, OwnFollows, Waiting
<1>4. Traced(e, None, f)
  BY DEF Handlers, Traced, OfBegun
<1>5. Follows(e, f)
  BY DEF Handlers, Follows, RefOf
<1> QED
  BY <1>3, <1>4, <1>5 DEF Handlers

\* A handler that has not ended is not what the money shown is of.
LEMMA MoneyStays ==
  ASSUME NEW d, NEW l, NEW s, NEW f, DashTyped(d, s, f), Money(d, l, f),
         NEW k \in Flows, f[k].at # "done", NEW g \in FlowRecord,
         f[k].at = "blend" => g.at = "done" /\ g.host = f[k].host /\ g.box = f[k].box,
         NEW e, e = Family!NoDash <=> d = Family!NoDash,
         e # Family!NoDash =>
           /\ e.box = d.box
           /\ \A part \in Family!Parts :
                \/ e.money[part] = d.money[part]
                \/ e.money[part] \in {g.box, None} /\ g.host = "dashboard" /\ g.at \in Family!Past[part]
  PROVE  Money(e, l, [f EXCEPT ![k] = g])
<1> DEFINE h == [f EXCEPT ![k] = g]
<1>1. h[k] = g /\ \A j \in Flows \ {k} : h[j] = f[j]
  BY DEF DashTyped
<1> HIDE DEF h
<1>2. Money(e, l, h)
  <2>1. SUFFICES ASSUME e # Family!NoDash, NEW part \in Family!Parts, ~ Family!Awaited(part, l),
                        e.money[part] \notin {None, e.box}
                 PROVE  \E j \in Flows : On(h, j) /\ h[j].at \in Family!Past[part]
                                         /\ h[j].box = e.money[part]
    BY DEF Money
  <2>2. CASE e.money[part] = d.money[part]
    <3>1. PICK j \in Flows : On(f, j) /\ f[j].at \in Family!Past[part] /\ f[j].box = d.money[part]
      BY <2>1, <2>2 DEF Money
    <3>2. CASE j # k
      <4>1. On(h, j) /\ h[j].at \in Family!Past[part] /\ h[j].box = e.money[part]
        BY <1>1, <2>2, <3>1, <3>2 DEF On, Begun
      <4> QED
        BY <4>1
    <3>3. CASE j = k
      <4>1. f[k].at = "blend" /\ part = "balance"
        BY <3>1, <3>3 DEF Family!Past, Family!Parts
      <4>2. On(h, k) /\ h[k].at \in Family!Past[part] /\ h[k].box = e.money[part]
        BY <1>1, <2>2, <3>1, <3>3, <4>1, FreeIsNone DEF On, Begun, Family!Past
      <4> QED
        BY <4>2
    <3> QED
      BY <3>2, <3>3
  <2>3. CASE e.money[part] \in {g.box, None} /\ g.host = "dashboard" /\ g.at \in Family!Past[part]
    <3>1. On(h, k) /\ h[k].at \in Family!Past[part] /\ h[k].box = e.money[part]
      BY <1>1, <2>1, <2>3, FreeIsNone DEF On, Begun
    <3> QED
      BY <3>1
  <2> QED
    BY <2>1, <2>2, <2>3
<1> QED
  BY <1>2 DEF h

\* The finally of a handler leaves what the page shows and what waits.
LEMMA FinallyKeeps ==
  ASSUME NEW k, NEW d \in DashRecord, NEW e \in Family!Finally(k, d)
  PROVE  /\ e \in DashRecord /\ e.box = d.box /\ e.pending = d.pending /\ e.followUp = d.followUp
         /\ e.money = d.money /\ (flow[k].kind = "limits" => e.busy = d.busy)
<1>1. CASE flow[k].kind = "limits"
  <2>1. e = [d EXCEPT !.limitsBusy = FALSE]
    BY <1>1 DEF Family!Finally
  <2> QED
    BY <2>1 DEF DashRecord
<1>2. CASE flow[k].kind = "power"
  BY <1>2 DEF Family!Finally
<1>3. CASE flow[k].kind = "save"
  <2>1. PICK m \in {{}, d.edits} : e = [d EXCEPT !.busy = FALSE, !.edits = m]
    BY <1>3 DEF Family!Finally
  <2> QED
    BY <1>3, <2>1 DEF DashRecord
<1>4. CASE flow[k].kind \notin {"limits", "power", "save"}
  <2>1. e = [d EXCEPT !.busy = FALSE]
    BY <1>4 DEF Family!Finally
  <2> QED
    BY <1>4, <2>1 DEF DashRecord
<1> QED
  BY <1>1, <1>2, <1>3, <1>4

\* A handler ends, with c in the dashboard if it is its own, and z in the slot.
LEMMA HandlerEnds ==
  ASSUME FamilyInv, NEW k \in Flows, flow[k].at \in Live,
         NEW p \in PageRecord, p.view = "box" => p.selected \in p.pools,
         p.view # "gate" => publicKey' # None, NEW c, NEW e \in Family!Left(k, c), NEW z \in Family!Document \cup {None},
         Family!Render(p, e, z, Family!Done(k)), old' \subseteq Boxes, Family!SessionTypeOK',
         z \in {slot, None, flow[k].doc},
         On(flow, k) =>
           /\ c \in DashRecord /\ c.box = dash.box
           /\ \A part \in Family!Parts : \/ c.money[part] = dash.money[part]
                                         \/ part # "moves" /\ c.money[part] \in {flow[k].box, None}
           /\ IF flow[k].kind = "limits"
              THEN z = slot /\ c.busy = dash.busy /\ c.pending = dash.pending /\ c.followUp = dash.followUp
              ELSE \/ c.followUp = None /\ c.pending = dash.pending
                   \/ ~ InFlight(flow, k) /\ c.followUp = dash.followUp /\ c.pending = dash.pending /\ z = slot
                   \/ flow[k].at = "submitting" /\ c.followUp = dash.followUp /\ c.pending = z
                        /\ z \in {None, flow[k].doc}
  PROVE  FamilyInv'
<1> DEFINE g == [flow[k] EXCEPT !.at = "done", !.doc = None, !.ref = None, !.after = None]
<1>1. DashTyped(dash, slot, flow) /\ Handlers(dash, slot, flow) /\ Money(dash, loads, flow)
  BY DEF FamilyInv
<1>2. flow[k] \in FlowRecord /\ flow[k] # Family!Free /\ FlowSteady(flow[k], k)
  <2>1. flow[k] # Family!Free
    BY DEF Family!Free, Live
  <2> QED
    BY <1>1, <2>1 DEF DashTyped, Begun, Handlers, AllSteady
<1>3. /\ g \in FlowRecord /\ g.at = "done" /\ g.host = flow[k].host /\ g.kind = flow[k].kind
      /\ g.doc = None /\ g.ref = None /\ g.after = None /\ g.box = flow[k].box
  BY <1>2 DEF FlowRecord, Family!Steps
<1>4. FlowSteady(g, k)
  BY <1>3 DEF FlowSteady, Live
<1>5. Family!Done(k) = [flow EXCEPT ![k] = g]
  BY DEF Family!Done
<1> HIDE DEF g
<1>6. On(flow, k) <=> Family!Hosted(k)
  BY <1>2 DEF On, Begun, Family!Hosted
<1>7. CASE On(flow, k)
  <2>1. /\ e \in DashRecord /\ e.box = c.box /\ e.pending = c.pending /\ e.followUp = c.followUp
        /\ e.money = c.money /\ (flow[k].kind = "limits" => e.busy = c.busy)
    BY <1>6, <1>7, FinallyKeeps DEF Family!Left
  <2>2. e # Family!NoDash /\ dash # Family!NoDash
    BY <1>1, <1>7, <2>1, FreeIsNone DEF Handlers, Hosts
  <2>3. Holding(flow, k) <=> flow[k].kind # "limits"
    BY <1>7 DEF Holding
  <2>4. Handlers(e, z, [flow EXCEPT ![k] = g])
    <3>1. /\ g.at \notin Live
          /\ z \in {slot, None} \/ (z = flow[k].doc /\ g.at = "done")
          /\ e.pending \in {dash.pending, None, flow[k].doc} /\ e.followUp \in {dash.followUp, None}
      BY <1>3, <1>7, <2>1 DEF Live
    <3>2. ~ Holding(flow, k) => z = slot /\ e.busy = dash.busy /\ e.followUp = dash.followUp /\ e.pending = dash.pending
      BY <1>7, <2>1, <2>3
    <3>3. Holding(flow, k) =>
            \/ e.followUp = None
            \/ ~ InFlight(flow, k) /\ e.followUp = dash.followUp /\ e.pending = dash.pending /\ z = slot
            \/ flow[k].at = "submitting" /\ e.followUp = dash.followUp /\ e.pending = z /\ z \in {None, flow[k].doc}
      BY <1>7, <2>1, <2>3
    <3> QED
      BY <1>1, <1>3, <1>4, <2>1, <2>2, <3>1, <3>2, <3>3, HandlerMoves
  <2>5. Money(e, loads, [flow EXCEPT ![k] = g])
    <3>1. /\ e.box = dash.box
          /\ \A part \in Family!Parts :
               \/ e.money[part] = dash.money[part]
               \/ e.money[part] \in {g.box, None} /\ g.host = "dashboard" /\ g.at \in Family!Past[part]
      BY <1>3, <1>7, <2>1 DEF On, Family!Past, Family!Parts
    <3>2. flow[k].at # "done"
      BY DEF Live
    <3> QED
      BY <1>1, <1>3, <2>2, <3>1, <3>2, MoneyStays
  <2>6. DashTyped(e, z, [flow EXCEPT ![k] = g])
    BY <1>1, <1>3, <2>1 DEF DashTyped
  <2> QED
    BY <1>5, <1>7, <2>1, <2>2, <2>4, <2>5, <2>6, FamilyRender
<1>8. CASE ~ On(flow, k)
  <2>1. e = dash
    BY <1>6, <1>8 DEF Family!Left
  <2>2. ~ Holding(flow, k)
    BY <1>8 DEF Holding
  <2>3. /\ g.at \notin Live
        /\ z \in {slot, None} \/ (z = flow[k].doc /\ g.at = "done")
    BY <1>3 DEF Live
  <2>4. Handlers(dash, z, [flow EXCEPT ![k] = g])
    <3>1. dash \in {Family!NoDash} \cup DashRecord
      BY <1>1 DEF DashTyped
    <3> QED
      BY <1>1, <1>3, <1>4, <1>8, <2>2, <2>3, <3>1, HandlerMoves
  <2>5. Money(dash, loads, [flow EXCEPT ![k] = g])
    <3>1. flow[k].at # "done"
      BY DEF Live
    <3> QED
      BY <1>1, <1>3, <3>1, MoneyStays
  <2>6. DashTyped(dash, z, [flow EXCEPT ![k] = g])
    BY <1>1, <1>3 DEF DashTyped
  <2> QED
    BY <1>5, <2>1, <2>4, <2>5, <2>6, FamilyRender
<1> QED
  BY <1>7, <1>8


LEMMA FamilyNext == ASSUME FamilyInv, Family!Next PROVE FamilyInv'
<1>t. /\ Family!SessionTypeOK /\ page \in PageRecord /\ loads \subseteq Family!Loads /\ old \subseteq Boxes
      /\ DashTyped(dash, slot, flow) /\ Coherent(page, dash, loads)
      /\ Handlers(dash, slot, flow) /\ Money(dash, loads, flow) /\ (page.view # "gate" => publicKey # None)
  BY DEF FamilyInv
<1>s. UNCHANGED Family!sessionVars => Family!SessionTypeOK' /\ publicKey' = publicKey
  BY <1>t, FamilySessionTyped DEF OnlyAsks, Family!sessionVars, sessionVars
<1>d. dash # Family!NoDash => dash \in DashRecord /\ publicKey \in Accounts /\ page.view = "box"
  <2>1. dash # Family!NoDash => page.view = "box"
    BY <1>t DEF Coherent, Family!Shown
  <2> QED
    BY <1>t, <2>1 DEF DashTyped, Family!SessionTypeOK, Family!Keys
<1>c. page.view = "box" => page.selected \in page.pools
  BY <1>t DEF Coherent
<1>r. ASSUME NEW b \in Boxes, NEW host
      PROVE  /\ Family!Remember(b, host) \in PageRecord
             /\ Family!Remember(b, host).view = "box" =>
                  Family!Remember(b, host).selected \in Family!Remember(b, host).pools
             /\ Family!Remember(b, host).view # "gate" => publicKey # None
  <2>1. CASE host = "gone"
    BY <1>c, <1>t, <2>1 DEF Family!Remember
  <2>2. CASE host # "gone"
    <3> DEFINE p == [view |-> IF page.view = "form" THEN "box" ELSE page.view,
                     pools |-> page.pools \cup {b}, selected |-> b]
    <3>1. p \in PageRecord /\ p.selected \in p.pools /\ (p.view # "gate" => page.view # "gate")
      BY <1>t DEF PageRecord
    <3>2. Family!Remember(b, host) = p
      BY <2>2 DEF Family!Remember
    <3> HIDE DEF p
    <3> QED
      BY <1>t, <3>1, <3>2
  <2> QED
    BY <2>1, <2>2
<1>k. ASSUME NEW k \in Flows, flow[k].at \in Live
      PROVE  flow[k] \in FlowRecord /\ Begun(flow, k) /\ FlowSteady(flow[k], k)
  <2>1. flow[k] # Family!Free
    BY <1>k DEF Family!Free, Live
  <2> QED
    BY <1>t, <2>1 DEF DashTyped, Begun, Handlers, AllSteady
<1>h. ASSUME NEW k \in Flows, On(flow, k)
      PROVE  dash # Family!NoDash /\ dash \in DashRecord
  BY <1>d, <1>h, <1>t DEF Handlers, Hosts
\* The page moves under handlers that stay as they are.
<1>1. ASSUME NEW p \in PageRecord, p.view = "box" => p.selected \in p.pools,
             p.view # "gate" => publicKey' # None,
             Family!Render(p, dash, slot, flow), old' \subseteq Boxes, Family!SessionTypeOK'
      PROVE  FamilyInv'
  BY <1>1, <1>t, FamilyRender
<1>2. CASE Family!ListArrives
  <2>1. Family!Listed(publicKey) \subseteq Boxes
    BY DEF Family!Listed
  <2>2. ASSUME NEW b \in Family!Listed(publicKey)
        PROVE  [view |-> "box", pools |-> Family!Listed(publicKey), selected |-> b] \in PageRecord
    BY <2>1 DEF PageRecord
  <2>3. [view |-> "form", pools |-> {}, selected |-> None] \in PageRecord
    BY DEF PageRecord
  <2>4. [page EXCEPT !.view = "error"] \in PageRecord
    BY <1>t DEF PageRecord
  <2>5. PICK p \in PageRecord : (p.view = "box" => p.selected \in p.pools) /\ Family!Render(p, dash, slot, flow)
    <3>1. CASE \E b \in Family!Listed(publicKey) :
                 Family!Render([view |-> "box", pools |-> Family!Listed(publicKey), selected |-> b],
                               dash, slot, flow)
      BY <2>2, <3>1
    <3>2. CASE Family!Render([view |-> "form", pools |-> {}, selected |-> None], dash, slot, flow)
      BY <2>3, <3>2
    <3>3. CASE Family!Render([page EXCEPT !.view = "error"], dash, slot, flow)
      <4>1. [page EXCEPT !.view = "error"].view = "error"
        BY <1>t DEF PageRecord
      <4> QED
        BY <2>4, <3>3, <4>1
    <3> QED
      BY <1>2, <3>1, <3>2, <3>3 DEF Family!ListArrives
  <2>6. old' \subseteq Boxes /\ Family!SessionTypeOK' /\ publicKey' # None
    BY <1>2, <1>s, <1>t DEF Family!ListArrives
  <2> QED
    BY <1>1, <2>5, <2>6
<1>3. ASSUME NEW b \in Boxes, Family!Tab(b) PROVE FamilyInv'
  <2> DEFINE p == [page EXCEPT !.view = "box", !.selected = b]
  <2>1. p \in PageRecord /\ p.selected = b /\ p.pools = page.pools
    BY <1>t DEF PageRecord
  <2>2. b \in page.pools /\ Family!Render(p, dash, slot, flow)
    BY <1>3 DEF Family!Tab
  <2>3. old' \subseteq Boxes /\ Family!SessionTypeOK' /\ publicKey' # None
    BY <1>3, <1>s, <1>t DEF Family!Tab
  <2> HIDE DEF p
  <2> QED
    BY <1>1, <2>1, <2>2, <2>3
<1>4. CASE Family!NewBox
  <2> DEFINE p == [page EXCEPT !.view = "form"]
  <2>1. p \in PageRecord /\ p.view = "form"
    BY <1>t DEF PageRecord
  <2>2. Family!Render(p, dash, slot, flow)
    BY <1>4 DEF Family!NewBox
  <2>3. old' \subseteq Boxes /\ Family!SessionTypeOK' /\ publicKey' # None
    BY <1>4, <1>s, <1>t DEF Family!NewBox
  <2> HIDE DEF p
  <2> QED
    BY <1>1, <2>1, <2>2, <2>3
<1>l. \A x \in loads : x.box = dash.box
  BY <1>t DEF Coherent
\* The dashboard moves under a page that stays as it is.
<1>5. ASSUME NEW e \in DashRecord, dash # Family!NoDash, dash' = e, e.box = dash.box,
             UNCHANGED <<page, old>>, UNCHANGED Family!sessionVars,
             loads' \subseteq Family!Loads, \A x \in loads' : x.box = dash.box,
             DashTyped(e, slot', flow'), Handlers(e, slot', flow'), Money(e, loads', flow')
      PROVE  FamilyInv'
  <2>1. Coherent(page', dash', loads')
    BY <1>5, <1>t, FreeIsNone DEF Coherent
  <2> QED
    BY <1>5, <1>s, <1>t, <2>1 DEF FamilyInv, DashTyped, Coherent, Handlers, Money, AllSteady, Hosts, OneHolds,
       Traced, OwnFollows, Follows, Ran, Strangers, Waiting
<1>6. CASE Family!EditMember
  <2>1. PICK m \in SUBSET Boxes : dash' = [dash EXCEPT !.edits = m] /\ dash \in DashRecord
    BY <1>6, <1>d DEF Family!EditMember, DashRecord
  <2> DEFINE e == [dash EXCEPT !.edits = m]
  <2>2. /\ e \in DashRecord /\ e.box = dash.box /\ e.followUp = dash.followUp /\ e.busy = dash.busy
        /\ e.pending = dash.pending /\ e.money = dash.money
    BY <2>1 DEF DashRecord
  <2>3. dash' = e
    BY <2>1
  <2> HIDE DEF e
  <2>4. Handlers(e, slot, flow) /\ Money(e, loads, flow) /\ DashTyped(e, slot, flow)
    BY <1>t, <2>1, <2>2, DashboardKeeps, FreeIsNone DEF Money, DashTyped
  <2>5. UNCHANGED <<page, slot, old, flow, loads>> /\ UNCHANGED Family!sessionVars /\ dash # Family!NoDash
    BY <1>6 DEF Family!EditMember
  <2> QED
    BY <1>5, <1>l, <1>t, <2>2, <2>3, <2>4, <2>5
<1>7. CASE Family!DiscardPending
  <2> DEFINE e == [dash EXCEPT !.pending = None, !.followUp = None]
  <2>1. dash \in DashRecord /\ dash.busy = FALSE /\ dash # Family!NoDash
    BY <1>7, <1>d DEF Family!DiscardPending, DashRecord
  <2>2. /\ e \in DashRecord /\ e.box = dash.box /\ e.followUp = None /\ e.busy = FALSE
        /\ e.pending = None /\ e.money = dash.money
    BY <2>1 DEF DashRecord
  <2>3. dash' = e /\ slot' = None /\ UNCHANGED <<page, old, flow, loads>> /\ UNCHANGED Family!sessionVars
    BY <1>7 DEF Family!DiscardPending
  <2> HIDE DEF e
  <2>4. Handlers(e, None, flow) /\ Money(e, loads, flow) /\ DashTyped(e, None, flow)
    BY <1>t, <2>1, <2>2, HandlersDiscard, FreeIsNone DEF Money, DashTyped
  <2> QED
    BY <1>5, <1>l, <1>t, <2>1, <2>2, <2>3, <2>4
<1>8. ASSUME NEW x \in loads, Family!LoadArrives(x) PROVE FamilyInv'
  <2>1. /\ x \in Family!Loads /\ x.box \in Boxes /\ x.at \in Family!Parts
        /\ dash # Family!NoDash /\ x.box = dash.box /\ dash \in DashRecord
    <3>1. x \in Family!Loads /\ x.box \in Boxes /\ x.at \in Family!Parts /\ x.box = dash.box
      BY <1>l, <1>t DEF Family!Loads
    <3> QED
      BY <1>d, <3>1, NullAssumption DEF Family!NoDash
  <2>2. PICK m \in {x.box, None} : dash' = [dash EXCEPT !.money[x.at] = m]
    BY <1>8, <2>1 DEF Family!LoadArrives
  <2> DEFINE e == [dash EXCEPT !.money[x.at] = m]
  <2>3. /\ e \in DashRecord /\ e.box = dash.box /\ e.followUp = dash.followUp /\ e.busy = dash.busy
        /\ e.pending = dash.pending /\ e.money = [dash.money EXCEPT ![x.at] = m]
        /\ dash.money \in [Family!Parts -> Boxes \cup {None}]
    BY <2>1, <2>2 DEF DashRecord
  <2>4. dash' = e
    BY <2>2
  <2> HIDE DEF e
  <2>5. PICK next \in SUBSET Family!Loads :
          /\ loads' = (loads \ {x}) \cup next
          /\ next = {[x EXCEPT !.at = Family!Then[x.at]]} \cap Family!Loads
    BY <1>8 DEF Family!LoadArrives
  <2>6. loads' \subseteq Family!Loads /\ \A y \in loads' : y.box = dash.box
    <3>1. [x EXCEPT !.at = Family!Then[x.at]].box = x.box
      BY <2>1 DEF Family!Loads
    <3> QED
      BY <1>l, <1>t, <2>1, <2>5, <3>1
  <2>7. ASSUME NEW part \in Family!Parts, part # x.at, Family!Awaited(part, loads)
        PROVE  Family!Awaited(part, loads')
    <3>1. PICK y \in loads : part = y.at \/ part \in Family!Later[y.at]
      BY <2>7 DEF Family!Awaited
    <3>2. CASE y # x
      BY <2>5, <3>1, <3>2 DEF Family!Awaited
    <3>3. CASE y = x
      <4> DEFINE z == [x EXCEPT !.at = Family!Then[x.at]]
      <4>1. part \in Family!Later[x.at]
        BY <2>7, <3>1, <3>3
      <4>2. /\ Family!Then[x.at] \in Family!Parts
            /\ part = Family!Then[x.at] \/ part \in Family!Later[Family!Then[x.at]]
        BY <2>1, <4>1 DEF Family!Parts, Family!Later, Family!Then
      <4>3. z \in Family!Loads /\ z.at = Family!Then[x.at]
        BY <2>1, <4>2 DEF Family!Loads
      <4>4. z \in loads'
        BY <2>5, <4>3
      <4> HIDE DEF z
      <4> QED
        BY <4>2, <4>3, <4>4 DEF Family!Awaited
    <3> QED
      BY <3>2, <3>3
  <2>8. Money(e, loads', flow)
    <3>1. SUFFICES ASSUME NEW part \in Family!Parts, ~ Family!Awaited(part, loads'),
                          e.money[part] \notin {None, e.box}
                   PROVE  \E k \in Flows : On(flow, k) /\ flow[k].at \in Family!Past[part]
                                           /\ flow[k].box = e.money[part]
      BY DEF Money
    <3>2. part # x.at
      BY <2>1, <2>2, <2>3, <3>1
    <3>3. e.money[part] = dash.money[part]
      BY <2>3, <3>2
    <3>4. ~ Family!Awaited(part, loads)
      BY <2>7, <3>1, <3>2
    <3> QED
      BY <1>t, <2>1, <2>3, <3>1, <3>3, <3>4 DEF Money
  <2>9. Handlers(e, slot, flow) /\ DashTyped(e, slot, flow)
    BY <1>t, <2>1, <2>3, DashboardKeeps DEF DashTyped
  <2>10. UNCHANGED <<page, slot, old, flow>> /\ UNCHANGED Family!sessionVars
    BY <1>8 DEF Family!LoadArrives
  <2> QED
    BY <1>5, <2>1, <2>3, <2>4, <2>6, <2>8, <2>9, <2>10
<1>9. ASSUME NEW k \in Flows, Family!Start(k) PROVE FamilyInv'
  <2>a. PICK kind \in Family!Kinds : Family!Begins(k, kind) /\ (kind = "sign" => dash.pending # None)
    <3>1. "sign" \in Family!PendingButtons => dash.pending # None
      BY DEF Family!PendingButtons
    <3>2. CASE Family!AddPendingSignature(k)
      BY <3>1, <3>2 DEF Family!AddPendingSignature, Family!Kinds
    <3>3. CASE Family!SaveLimits(k)
      BY <3>3 DEF Family!SaveLimits, Family!Kinds
    <3>4. CASE Family!AddSigner(k) \/ Family!SaveEdits(k)
      BY <3>4 DEF Family!AddSigner, Family!SaveEdits, Family!Kinds
    <3>5. CASE Family!Deposit(k) \/ Family!SignedFlow(k) \/ Family!Trustline(k) \/ Family!SetCreatorPower(k)
      BY <3>5 DEF Family!Deposit, Family!SignedFlow, Family!Trustline, Family!SetCreatorPower, Family!Kinds
    <3> QED
      BY <1>9, <3>2, <3>3, <3>4, <3>5 DEF Family!Start
  <2> DEFINE waits == Family!Waits[kind]
  <2>b. /\ waits \subseteq {"calling", "signing"}
        /\ kind = "limits" => waits = {"calling"}
        /\ kind = "sign" => waits = {"signing"}
    BY <2>a DEF Family!Waits, Family!Kinds
  <2>c. PICK at \in waits :
          flow' = [flow EXCEPT ![k] =
            [at |-> at, host |-> "dashboard", kind |-> kind, box |-> dash.box, key |-> publicKey,
             doc |-> IF kind = "sign" THEN dash.pending ELSE None, ref |-> None, after |-> None]]
    BY <2>a DEF Family!Begins
  <2> HIDE DEF waits
  <2>2. dash \in DashRecord /\ dash # Family!NoDash /\ publicKey \in Accounts
    BY <1>9, <1>d DEF Family!Start
  <2> DEFINE g == [at |-> at, host |-> "dashboard", kind |-> kind, box |-> dash.box, key |-> publicKey,
                   doc |-> IF kind = "sign" THEN dash.pending ELSE None, ref |-> None, after |-> None]
             e == IF kind = "limits" THEN [dash EXCEPT !.limitsBusy = TRUE] ELSE [dash EXCEPT !.busy = TRUE]
  <2>4. /\ g \in FlowRecord /\ g.at = at /\ g.host = "dashboard" /\ g.kind = kind /\ g.ref = None
        /\ g.after = None /\ g.doc = (IF kind = "sign" THEN dash.pending ELSE None)
    <3>1. at \in {"calling", "signing"}
      BY <2>b, <2>c
    <3>2. dash.pending \in Family!Document \cup {None} /\ dash.box \in Boxes
      BY <2>2 DEF DashRecord
    <3> QED
      BY <2>a, <2>2, <3>1, <3>2 DEF FlowRecord, Family!Steps
  <2>5. /\ e \in DashRecord /\ e.box = dash.box /\ e.pending = dash.pending /\ e.followUp = dash.followUp
        /\ e.money = dash.money
        /\ IF kind = "limits" THEN e.busy = dash.busy ELSE e.busy = TRUE
    BY <2>2 DEF DashRecord
  <2>6. dash' = e /\ flow' = [flow EXCEPT ![k] = g] /\ flow[k] = Family!Free
    BY <2>a, <2>c DEF Family!Begins
  <2>7. kind # "limits" => dash.busy = FALSE
    BY <2>a, <2>2 DEF Family!Begins, DashRecord
  <2> HIDE DEF g, e
  <2>8. FlowSteady(g, k)
    BY <2>a, <2>b, <2>c, <2>4 DEF FlowSteady
  <2>9. Handlers(e, slot, [flow EXCEPT ![k] = g])
    <3>1. at \in {"calling", "signing"}
      BY <2>b, <2>c
    <3> QED
      BY <1>t, <2>2, <2>4, <2>5, <2>6, <2>7, <2>8, <3>1, HandlerBegins
  <2>10. Money(e, loads, [flow EXCEPT ![k] = g])
    <3>1. flow[k].at \notin {"done", "blend"} /\ e # Family!NoDash
      BY <2>5, <2>6, FreeIsNone DEF Family!Free
    <3> QED
      BY <1>t, <2>2, <2>4, <2>5, <3>1, MoneyStays
  <2>11. DashTyped(e, slot, [flow EXCEPT ![k] = g])
    BY <1>t, <2>4, <2>5 DEF DashTyped
  <2>12. UNCHANGED <<page, slot, old, loads>> /\ UNCHANGED Family!sessionVars
    BY <2>a DEF Family!Begins
  <2> QED
    BY <1>5, <1>l, <1>t, <2>2, <2>5, <2>6, <2>9, <2>10, <2>11, <2>12
\* A handler that ends.
<1>10. ASSUME NEW k \in Flows, Family!Fails(k) PROVE FamilyInv'
  <2>1. flow[k].at \in {"calling", "signing", "submitting", "followUp"} /\ flow[k].at \in Live
    BY <1>10 DEF Family!Fails, Live
  <2> DEFINE c == Family!ErrorFollowUp(k, dash)
  <2>2. PICK e \in Family!Left(k, c) : Family!Render(page, e, slot, Family!Done(k))
    BY <1>10 DEF Family!Fails
  <2>3. old' \subseteq Boxes /\ Family!SessionTypeOK' /\ publicKey' = publicKey
    BY <1>10, <1>s, <1>t DEF Family!Fails
  <2>4. ASSUME On(flow, k)
        PROVE  /\ c \in DashRecord /\ c.box = dash.box /\ c.money = dash.money /\ c.busy = dash.busy
               /\ c.pending = dash.pending
               /\ IF flow[k].kind \in Setters /\ flow[k].at # "calling" THEN c.followUp = None
                  ELSE c.followUp = dash.followUp
    <3>1. dash \in DashRecord
      BY <1>h, <2>4
    <3> QED
      BY <3>1 DEF Family!ErrorFollowUp, Family!SetsSigner, Setters, DashRecord
  <2> HIDE DEF c
  <2>5. ~ (flow[k].kind \in Setters /\ flow[k].at # "calling") => ~ InFlight(flow, k)
    BY DEF InFlight
  <2>6. On(flow, k) =>
          /\ c \in DashRecord /\ c.box = dash.box /\ c.money = dash.money
          /\ IF flow[k].kind = "limits"
             THEN slot = slot /\ c.busy = dash.busy /\ c.pending = dash.pending /\ c.followUp = dash.followUp
             ELSE \/ c.followUp = None /\ c.pending = dash.pending
                  \/ ~ InFlight(flow, k) /\ c.followUp = dash.followUp /\ c.pending = dash.pending /\ slot = slot
    BY <2>4, <2>5 DEF Setters
  <2>7. slot \in Family!Document \cup {None}
    BY <1>t DEF DashTyped
  <2> QED
    BY <1>c, <1>t, <2>1, <2>2, <2>3, <2>6, <2>7, HandlerEnds
<1>11. ASSUME NEW k \in Flows, flow[k].at = "calling", NEW e \in Family!Left(k, dash),
              Family!Render(Family!Remember(flow[k].box, flow[k].host), e, slot, Family!Done(k)),
              UNCHANGED <<old, Family!sessionVars>>
       PROVE  FamilyInv'
  <2>1. flow[k].at \in Live /\ ~ InFlight(flow, k)
    BY <1>11 DEF Live, InFlight
  <2>2. flow[k].box \in Boxes
    BY <1>k, <2>1 DEF FlowRecord
  <2>3. old' \subseteq Boxes /\ Family!SessionTypeOK' /\ publicKey' = publicKey
    BY <1>11, <1>s, <1>t
  <2>4. On(flow, k) => dash \in DashRecord
    BY <1>h
  <2>5. slot \in Family!Document \cup {None}
    BY <1>t DEF DashTyped
  <2> DEFINE p == Family!Remember(flow[k].box, flow[k].host)
  <2>6. p \in PageRecord /\ (p.view = "box" => p.selected \in p.pools) /\ (p.view # "gate" => publicKey' # None)
    BY <1>r, <2>2, <2>3
  <2>7. Family!Render(p, e, slot, Family!Done(k))
    BY <1>11
  <2> HIDE DEF p
  <2> QED
    BY <1>11, <2>1, <2>3, <2>4, <2>5, <2>6, <2>7, HandlerEnds
<1>12. ASSUME NEW k \in Flows, Family!MissingSignatures(k) PROVE FamilyInv'
  <2>1. flow[k].at = "submitting" /\ flow[k].at \in Live
    BY <1>12 DEF Family!MissingSignatures, Live
  <2>2. flow[k].doc \in Family!Document /\ flow[k].kind # "limits"
    BY <1>k, <2>1 DEF FlowRecord, FlowSteady
  <2> DEFINE c == [dash EXCEPT !.pending = Family!DocOf(k)]
             z == Family!DocOf(k)
  <2>3. PICK e \in Family!Left(k, c) : Family!Render(page, e, z, Family!Done(k))
    BY <1>12 DEF Family!MissingSignatures
  <2>4. old' \subseteq Boxes /\ Family!SessionTypeOK' /\ publicKey' = publicKey
    BY <1>12, <1>s, <1>t DEF Family!MissingSignatures
  <2>5. z = flow[k].doc /\ z \in Family!Document
    BY <2>2 DEF Family!DocOf
  <2>6. On(flow, k) => /\ c \in DashRecord /\ c.box = dash.box /\ c.money = dash.money
                       /\ c.followUp = dash.followUp /\ c.pending = z
    BY <1>h, <2>5 DEF DashRecord
  <2> HIDE DEF c, z
  <2> QED
    BY <1>c, <1>t, <2>1, <2>2, <2>3, <2>4, <2>5, <2>6, HandlerEnds
<1>13. ASSUME NEW k \in Flows, Family!NotResynced(k) PROVE FamilyInv'
  <2>1. flow[k].at = "submitting" /\ flow[k].at \in Live
    BY <1>13 DEF Family!NotResynced, Live
  <2>2. flow[k].doc \in Family!Document /\ flow[k].kind # "limits"
    BY <1>k, <2>1 DEF FlowRecord, FlowSteady
  <2> DEFINE c == [dash EXCEPT !.pending = None]
             p == Family!Remember(Family!DocOf(k).box, flow[k].host)
  <2>3. PICK e \in Family!Left(k, c) : Family!Render(p, e, None, Family!Done(k))
    BY <1>13 DEF Family!NotResynced
  <2>4. old' \subseteq Boxes /\ Family!SessionTypeOK' /\ publicKey' = publicKey
    BY <1>13, <1>s, <1>t DEF Family!NotResynced
  <2>5. Family!DocOf(k).box \in Boxes
    BY <2>2 DEF Family!DocOf, Family!Document
  <2>6. On(flow, k) => /\ c \in DashRecord /\ c.box = dash.box /\ c.money = dash.money
                       /\ c.followUp = dash.followUp /\ c.pending = None
    BY <1>h DEF DashRecord
  <2>7. p \in PageRecord /\ (p.view = "box" => p.selected \in p.pools) /\ (p.view # "gate" => publicKey' # None)
    BY <1>r, <2>4, <2>5
  <2> HIDE DEF c, p
  <2> QED
    BY <2>1, <2>2, <2>3, <2>4, <2>6, <2>7, HandlerEnds
<1>14. ASSUME NEW k \in Flows, Family!RefreshedBlend(k) PROVE FamilyInv'
  <2>1. flow[k].at = "blend" /\ flow[k].at \in Live /\ ~ InFlight(flow, k)
    BY <1>14 DEF Family!RefreshedBlend, Live, InFlight
  <2>2. flow[k].kind # "limits" /\ flow[k].box \in Boxes /\ flow[k].key \in Accounts
    BY <1>k, <2>1 DEF FlowRecord, FlowSteady
  <2>3. PICK m \in {flow[k].box, None} :
          \E e \in Family!Left(k, [dash EXCEPT !.money["blend"] = m]) : Family!Render(page, e, slot, Family!Done(k))
    BY <1>14 DEF Family!RefreshedBlend
  <2> DEFINE c == [dash EXCEPT !.money["blend"] = m]
  <2>4. PICK e \in Family!Left(k, c) : Family!Render(page, e, slot, Family!Done(k))
    BY <2>3
  <2>5. OnlyAsks /\ publicKey' = publicKey /\ old' \subseteq Boxes
    BY <1>14, <1>t, <2>2 DEF Family!RefreshedBlend, Family!Refresh, Refresh, OnlyAsks
  <2>6. Family!SessionTypeOK'
    BY <1>t, <2>5, FamilySessionTyped
  <2>7. On(flow, k) => /\ c \in DashRecord /\ c.box = dash.box
                       /\ \A part \in Family!Parts : \/ c.money[part] = dash.money[part]
                                                     \/ part = "blend" /\ c.money[part] \in {flow[k].box, None}
                       /\ c.followUp = dash.followUp /\ c.pending = dash.pending
    <3>1. SUFFICES ASSUME dash \in DashRecord
                   PROVE  /\ c \in DashRecord /\ c.box = dash.box /\ c.money = [dash.money EXCEPT !["blend"] = m]
                          /\ dash.money \in [Family!Parts -> Boxes \cup {None}]
                          /\ c.followUp = dash.followUp /\ c.pending = dash.pending
      BY <1>h, <2>3
    <3> QED
      BY <2>2, <2>3, <3>1 DEF DashRecord
  <2>8. slot \in Family!Document \cup {None}
    BY <1>t DEF DashTyped
  <2> HIDE DEF c
  <2> QED
    BY <1>c, <1>t, <2>1, <2>2, <2>4, <2>5, <2>6, <2>7, <2>8, HandlerEnds
\* A handler that goes on, under a page rendered and a dashboard left as it was.
<1>15. ASSUME NEW k \in Flows, flow[k].at \in {"calling", "followUp"}, NEW at,
              flow[k].at = "calling" => flow[k].kind = "save" /\ at = "signing",
              flow[k].at = "followUp" => at = "refreshing", NEW p \in PageRecord,
              p.view = "box" => p.selected \in p.pools, p.view # "gate" => publicKey' # None,
              Family!Render(p, dash, slot, Family!At(k, at)), UNCHANGED <<old, Family!sessionVars>>
       PROVE  FamilyInv'
  <2> DEFINE g == [flow[k] EXCEPT !.at = at]
  <2>1. flow[k].at \in Live /\ ~ InFlight(flow, k) /\ flow[k].at # "done"
    BY <1>15 DEF Live, InFlight
  <2>2. flow[k] \in FlowRecord /\ FlowSteady(flow[k], k) /\ Begun(flow, k) /\ at \in Family!Steps
    BY <1>15, <1>k, <2>1 DEF Family!Steps
  <2>3. /\ g \in FlowRecord /\ g.host = flow[k].host /\ g.kind = flow[k].kind /\ g.at = at
        /\ g.doc = flow[k].doc /\ g.ref = flow[k].ref /\ g.after = flow[k].after
    BY <2>2 DEF FlowRecord
  <2>4. Family!At(k, at) = [flow EXCEPT ![k] = g]
    BY <1>t, <2>2 DEF Family!At, DashTyped
  <2> HIDE DEF g
  <2>5. FlowSteady(g, k)
    BY <1>15, <2>2, <2>3 DEF FlowSteady, Live
  <2>6. dash \in {Family!NoDash} \cup DashRecord /\ slot \in Family!Document \cup {None}
    BY <1>t DEF DashTyped
  <2>7. Holding(flow, k) => dash.busy = TRUE
    BY <1>t DEF Handlers, OneHolds
  <2>8. g.at = "signing" => g.doc = None
    BY <1>15, <2>2, <2>3 DEF FlowSteady
  <2>9. g.at \notin {"submitting", "followUp"}
    BY <1>15, <2>3
  <2>10. Handlers(dash, slot, [flow EXCEPT ![k] = g])
    BY <1>t, <2>1, <2>3, <2>5, <2>6, <2>7, <2>8, <2>9, HandlerMoves
  <2>11. Money(dash, loads, [flow EXCEPT ![k] = g])
    BY <1>15, <1>t, <2>1, <2>3, MoneyStays
  <2>12. DashTyped(dash, slot, [flow EXCEPT ![k] = g])
    BY <1>t, <2>3 DEF DashTyped
  <2>13. old' \subseteq Boxes /\ Family!SessionTypeOK'
    BY <1>15, <1>s, <1>t
  <2> QED
    BY <1>15, <2>4, <2>10, <2>11, <2>12, <2>13, FamilyRender
<1>16. ASSUME NEW k \in Flows, Family!Called(k) PROVE FamilyInv'
  <2>1. flow[k].at = "calling" /\ UNCHANGED <<old, Family!sessionVars>>
    BY <1>16 DEF Family!Called
  <2>2. CASE \E e \in Family!Left(k, dash) :
               Family!Render(Family!Remember(flow[k].box, flow[k].host), e, slot, Family!Done(k))
    BY <1>11, <2>1, <2>2
  <2>3. CASE /\ flow[k].kind = "save"
             /\ \E p \in {page, Family!Remember(flow[k].box, flow[k].host)} :
                  Family!Render(p, dash, slot, Family!At(k, "signing"))
    <3>1. flow[k].box \in Boxes
      BY <1>k, <2>1 DEF FlowRecord, Live
    <3>2. publicKey' = publicKey
      BY <1>s, <2>1
    <3>3. PICK p \in PageRecord :
            /\ p.view = "box" => p.selected \in p.pools
            /\ p.view # "gate" => publicKey' # None
            /\ Family!Render(p, dash, slot, Family!At(k, "signing"))
      BY <1>c, <1>r, <1>t, <2>3, <3>1, <3>2
    <3> QED
      BY <1>15, <2>1, <2>3, <3>3
  <2> QED
    BY <1>16, <2>2, <2>3 DEF Family!Called
<1>17. ASSUME NEW k \in Flows, Family!FollowUp(k) PROVE FamilyInv'
  <2>1. flow[k].at = "followUp" /\ flow[k].at \in Live /\ UNCHANGED <<old, Family!sessionVars>>
    BY <1>17 DEF Family!FollowUp, Live
  <2>2. flow[k].after \in Flows /\ Begun(flow, flow[k].after)
    <3>1. flow[k].after # None /\ flow[k].after \in Flows \cup {None} /\ Begun(flow, k)
      BY <1>k, <2>1 DEF FlowRecord, FlowSteady
    <3> QED
      BY <1>t, <3>1 DEF Handlers, Traced, OfBegun
  <2>3. flow[flow[k].after].box \in Boxes
    BY <1>t, <2>2 DEF DashTyped, Begun, FlowRecord
  <2>4. publicKey' = publicKey
    BY <1>s, <2>1
  <2>5. PICK p \in {page, Family!Remember(flow[flow[k].after].box, flow[k].host)} :
          Family!Render(p, dash, slot, Family!At(k, "refreshing"))
    BY <1>17 DEF Family!FollowUp
  <2>6. p \in PageRecord /\ (p.view = "box" => p.selected \in p.pools) /\ (p.view # "gate" => publicKey' # None)
    BY <1>c, <1>r, <1>t, <2>3, <2>4, <2>5
  <2> QED
    BY <1>15, <2>1, <2>5, <2>6
<1>18. ASSUME NEW k \in Flows, Family!Submitted(k) PROVE FamilyInv'
  <2> DEFINE after == Family!FollowUpOf(k)
             at == IF Family!ChangesSigners(flow[k].doc) /\ after # None THEN "followUp" ELSE "refreshing"
             g == [flow[k] EXCEPT !.at = at, !.ref = None, !.after = after]
             e == Family!Dash(k, [dash EXCEPT !.pending = None, !.followUp = None])
             p == IF Family!ChangesSigners(flow[k].doc) THEN Family!Remember(flow[k].doc.box, flow[k].host)
                  ELSE page
  <2>1. /\ flow[k].at = "submitting" /\ flow[k].at \in Live /\ flow[k].at # "done"
        /\ Family!Render(p, e, None, [flow EXCEPT ![k] = g])
    BY <1>18 DEF Family!Submitted, Live
  <2>2. flow[k] \in FlowRecord /\ FlowSteady(flow[k], k) /\ Begun(flow, k)
    BY <1>k, <2>1
  <2>3. flow[k].doc \in Family!Document /\ flow[k].doc.box \in Boxes /\ flow[k].kind # "limits"
    BY <2>1, <2>2 DEF FlowRecord, FlowSteady, Family!Document
  <2>4. old' \subseteq Boxes /\ Family!SessionTypeOK' /\ publicKey' = publicKey
    BY <1>18, <1>s, <1>t DEF Family!Submitted
  <2>5. p \in PageRecord /\ (p.view = "box" => p.selected \in p.pools) /\ (p.view # "gate" => publicKey' # None)
    BY <1>c, <1>r, <1>t, <2>3, <2>4
  <2>6. after = RefOf(dash, flow, k) /\ after \in Flows \cup {None}
    BY <1>h, <2>2 DEF Family!FollowUpOf, Family!Hosted, RefOf, On, FlowRecord, DashRecord
  <2>7. /\ On(flow, k) => e \in DashRecord /\ e.box = dash.box /\ e.money = dash.money /\ e.busy = dash.busy
                             /\ e.pending = None /\ e.followUp = None
        /\ ~ On(flow, k) => e = dash
    <3>1. On(flow, k) <=> Family!Hosted(k)
      BY <2>2 DEF On, Family!Hosted
    <3> QED
      BY <1>h, <3>1 DEF Family!Dash, DashRecord
  <2>8. at \in {"followUp", "refreshing"} /\ (at = "followUp" => flow[k].doc.kind \in Setters /\ after # None)
    BY DEF Family!ChangesSigners, Setters
  <2>9. /\ g \in FlowRecord /\ g.at = at /\ g.ref = None /\ g.after = after
        /\ g.host = flow[k].host /\ g.kind = flow[k].kind /\ g.doc = flow[k].doc
    BY <2>2, <2>6, <2>8 DEF FlowRecord, Family!Steps
  <2> HIDE DEF after, at, g, e, p
  <2>10. FlowSteady(g, k)
    BY <2>1, <2>2, <2>3, <2>8, <2>9 DEF FlowSteady, Live
  <2>11. /\ e \in {Family!NoDash} \cup DashRecord /\ (e = Family!NoDash <=> dash = Family!NoDash)
         /\ e.box = dash.box /\ (e # Family!NoDash => e.money = dash.money)
    BY <1>h, <1>t, <2>7, FreeIsNone DEF DashTyped
  <2>12. Holding(flow, k) <=> On(flow, k)
    BY <2>1, <2>3 DEF Holding
  <2>13. Holding(flow, k) => dash.busy = TRUE
    BY <1>t DEF Handlers, OneHolds
  <2>14. Handlers(e, None, [flow EXCEPT ![k] = g])
    <3>1. /\ ~ Holding(flow, k) => e = dash /\ ~ On(flow, k)
          /\ Holding(flow, k) => e.busy = TRUE /\ e.followUp = None
          /\ e # Family!NoDash => e.pending \in {dash.pending, None} /\ e.followUp \in {dash.followUp, None}
      BY <2>7, <2>12, <2>13
    <3>2. /\ g.at \notin {"signing", "submitting", "done"} /\ (g.doc # None => g.doc.id = flow[k].doc.id)
          /\ g.at = "followUp" =>
               /\ flow[k].at = "submitting" /\ g.doc = flow[k].doc /\ flow[k].doc.kind \in Setters
               /\ RefOf(dash, flow, k) # None /\ g.after = RefOf(dash, flow, k)
      BY <2>1, <2>6, <2>8, <2>9
    <3>3. flow[k].doc # None
      BY <2>3, NullAssumption
    <3> QED
      BY <1>t, <2>1, <2>6, <2>9, <2>10, <2>11, <3>1, <3>2, <3>3, HandlerMoves
  <2>15. Money(e, loads, [flow EXCEPT ![k] = g])
    BY <1>t, <2>1, <2>9, <2>11, MoneyStays
  <2>16. DashTyped(e, None, [flow EXCEPT ![k] = g])
    BY <1>t, <2>9, <2>11 DEF DashTyped
  <2> QED
    BY <2>1, <2>4, <2>5, <2>11, <2>14, <2>15, <2>16, FamilyRender
\* A handler that goes on in a dashboard that may be gone.
<1>19. ASSUME NEW e \in {Family!NoDash} \cup DashRecord, e = Family!NoDash <=> dash = Family!NoDash,
              dash' = e, e.box = dash.box, UNCHANGED <<page, old, loads, slot>>, UNCHANGED Family!sessionVars,
              DashTyped(e, slot, flow'), Handlers(e, slot, flow'), Money(e, loads, flow')
       PROVE  FamilyInv'
  <2>1. Coherent(page', dash', loads')
    BY <1>19, <1>t DEF Coherent
  <2> QED
    BY <1>19, <1>s, <1>t, <2>1 DEF FamilyInv, DashTyped, Coherent, Handlers, Money, AllSteady, Hosts, OneHolds,
       Traced, OwnFollows, Follows, Ran, Strangers, Waiting
<1>20. ASSUME NEW k \in Flows, Family!Deposited(k) PROVE FamilyInv'
  <2> DEFINE g == [flow[k] EXCEPT !.at = "refreshing"]
  <2>1. /\ flow[k].at = "submitting" /\ flow[k].kind = "deposit" /\ flow[k].at \in Live /\ flow[k].at # "done"
        /\ UNCHANGED <<page, dash, slot, old, loads>> /\ UNCHANGED Family!sessionVars
    BY <1>20 DEF Family!Deposited, Live
  <2>2. flow[k] \in FlowRecord /\ FlowSteady(flow[k], k) /\ Begun(flow, k)
    BY <1>k, <2>1
  <2>3. /\ g \in FlowRecord /\ g.host = flow[k].host /\ g.kind = flow[k].kind /\ g.at = "refreshing"
        /\ g.doc = flow[k].doc /\ g.ref = flow[k].ref /\ g.after = flow[k].after
    BY <2>2 DEF FlowRecord, Family!Steps
  <2>4. flow' = [flow EXCEPT ![k] = g]
    BY <1>20, <1>t, <2>2 DEF Family!Deposited, Family!At, DashTyped
  <2> HIDE DEF g
  <2>5. FlowSteady(g, k)
    BY <2>1, <2>2, <2>3 DEF FlowSteady, Live
  <2>6. dash \in {Family!NoDash} \cup DashRecord /\ slot \in Family!Document \cup {None}
    BY <1>t DEF DashTyped
  <2>7. Holding(flow, k) => dash.busy = TRUE
    BY <1>t DEF Handlers, OneHolds
  <2>8. ~ InFlight(flow, k) /\ g.at \notin {"signing", "submitting", "followUp", "done"}
    BY <2>1, <2>3 DEF InFlight, Setters
  <2>9. Handlers(dash, slot, [flow EXCEPT ![k] = g])
    BY <1>t, <2>1, <2>3, <2>5, <2>6, <2>7, <2>8, HandlerMoves
  <2>10. Money(dash, loads, [flow EXCEPT ![k] = g])
    BY <1>t, <2>1, <2>3, MoneyStays
  <2>11. DashTyped(dash, slot, [flow EXCEPT ![k] = g])
    BY <1>t, <2>3 DEF DashTyped
  <2> QED
    BY <1>19, <2>1, <2>4, <2>6, <2>9, <2>10, <2>11
<1>27. ASSUME NEW k \in Flows, Family!RefreshedBalance(k) PROVE FamilyInv'
  <2>1. /\ flow[k].at = "refreshing" /\ flow[k].at \in Live /\ flow[k].at # "done" /\ ~ InFlight(flow, k)
        /\ UNCHANGED <<page, slot, old, loads>> /\ UNCHANGED Family!sessionVars
    BY <1>27 DEF Family!RefreshedBalance, Live, InFlight
  <2>2. flow[k] \in FlowRecord /\ FlowSteady(flow[k], k) /\ Begun(flow, k)
    BY <1>k, <2>1
  <2>3. PICK m \in {flow[k].box, None} :
          dash' = Family!Dash(k, [dash EXCEPT !.money["balance"] = m])
    BY <1>27 DEF Family!RefreshedBalance
  <2> DEFINE g == [flow[k] EXCEPT !.at = "blend"]
             e == Family!Dash(k, [dash EXCEPT !.money["balance"] = m])
  <2>4. /\ g \in FlowRecord /\ g.host = flow[k].host /\ g.kind = flow[k].kind /\ g.at = "blend"
        /\ g.doc = flow[k].doc /\ g.ref = flow[k].ref /\ g.after = flow[k].after /\ g.box = flow[k].box
    BY <2>2 DEF FlowRecord, Family!Steps
  <2>5. flow' = [flow EXCEPT ![k] = g]
    BY <1>27, <1>t, <2>2 DEF Family!RefreshedBalance, Family!At, DashTyped
  <2>6. /\ On(flow, k) => /\ e \in DashRecord /\ e.box = dash.box /\ e.busy = dash.busy
                          /\ e.pending = dash.pending /\ e.followUp = dash.followUp
                          /\ e.money = [dash.money EXCEPT !["balance"] = m]
                          /\ dash.money \in [Family!Parts -> Boxes \cup {None}]
        /\ ~ On(flow, k) => e = dash
    <3>1. On(flow, k) <=> Family!Hosted(k)
      BY <2>2 DEF On, Family!Hosted
    <3>2. flow[k].box \in Boxes
      BY <2>2 DEF FlowRecord
    <3>3. CASE On(flow, k)
      <4>1. e = [dash EXCEPT !.money["balance"] = m] /\ dash \in DashRecord
        BY <1>h, <3>1, <3>3 DEF Family!Dash
      <4> HIDE DEF e
      <4> QED
        BY <2>3, <3>2, <3>3, <4>1 DEF DashRecord
    <3>4. CASE ~ On(flow, k)
      BY <3>1, <3>4 DEF Family!Dash
    <3> QED
      BY <3>3, <3>4
  <2> HIDE DEF g, e
  <2>7. FlowSteady(g, k)
    BY <2>1, <2>2, <2>4 DEF FlowSteady, Live
  <2>8. /\ e \in {Family!NoDash} \cup DashRecord /\ (e = Family!NoDash <=> dash = Family!NoDash)
        /\ e.box = dash.box /\ slot \in Family!Document \cup {None}
    BY <1>h, <1>t, <2>6, FreeIsNone DEF DashTyped
  <2>9. Holding(flow, k) => dash.busy = TRUE /\ On(flow, k)
    BY <1>t DEF Handlers, OneHolds, Holding
  <2>10. Handlers(e, slot, [flow EXCEPT ![k] = g])
    <3>1. ~ Holding(flow, k) /\ e # Family!NoDash =>
            e.busy = dash.busy /\ e.followUp = dash.followUp /\ e.pending = dash.pending
      BY <2>6
    <3>2. e # Family!NoDash => e.pending = dash.pending /\ e.followUp = dash.followUp
      BY <2>6
    <3>3. Holding(flow, k) => e.busy = TRUE /\ e.followUp = dash.followUp /\ e.pending = dash.pending
      BY <2>6, <2>9
    <3>4. g.at \notin {"signing", "submitting", "followUp", "done"}
      BY <2>4
    <3> QED
      BY <1>t, <2>1, <2>4, <2>7, <2>8, <3>1, <3>2, <3>3, <3>4, HandlerMoves
  <2>11. Money(e, loads, [flow EXCEPT ![k] = g])
    <3>1. e # Family!NoDash =>
            \A part \in Family!Parts :
              \/ e.money[part] = dash.money[part]
              \/ e.money[part] \in {g.box, None} /\ g.host = "dashboard" /\ g.at \in Family!Past[part]
      <4>1. CASE On(flow, k)
        BY <2>3, <2>4, <2>6, <4>1 DEF On, Family!Past, Family!Parts
      <4>2. CASE ~ On(flow, k)
        BY <2>6, <4>2
      <4> QED
        BY <4>1, <4>2
    <3>2. flow[k].at # "blend" /\ flow[k].at # "done"
      BY <2>1
    <3> QED
      BY <1>t, <2>4, <2>8, <3>1, <3>2, MoneyStays
  <2>12. DashTyped(e, slot, [flow EXCEPT ![k] = g])
    BY <1>t, <2>4, <2>8 DEF DashTyped
  <2> QED
    BY <1>19, <2>1, <2>3, <2>5, <2>8, <2>10, <2>11, <2>12 DEF e
<1>21. ASSUME NEW k \in Flows, Family!Signed(k) PROVE FamilyInv'
  <2> DEFINE setter == flow[k].kind \in Setters
             doc == IF flow[k].kind = "sign" THEN [flow[k].doc EXCEPT !.by = @ \cup {flow[k].key}]
                    ELSE [id |-> k, kind |-> flow[k].kind, box |-> flow[k].box, by |-> {flow[k].key}]
             ref == IF setter /\ ~ On(flow, k) THEN k ELSE flow[k].ref
             g == [flow[k] EXCEPT !.at = "submitting", !.doc = doc, !.ref = ref]
             e == IF setter /\ On(flow, k) THEN [dash EXCEPT !.followUp = k] ELSE dash
  <2>1. /\ flow[k].at = "signing" /\ flow[k].at \in Live /\ flow[k].at # "done" /\ ~ InFlight(flow, k)
        /\ UNCHANGED <<page, slot, old, loads>> /\ UNCHANGED Family!sessionVars
    BY <1>21 DEF Family!Signed, Live, InFlight
  <2>2. flow[k] \in FlowRecord /\ FlowSteady(flow[k], k) /\ Begun(flow, k)
    BY <1>k, <2>1
  <2>3. On(flow, k) <=> Family!Hosted(k)
    BY <2>2 DEF On, Family!Hosted
  <2>4. flow' = [flow EXCEPT ![k] = g] /\ dash' = e
    BY <1>21, <2>3 DEF Family!Signed, Family!SetsSigner, Family!Dash, Setters
  <2>5. /\ doc \in Family!Document
        /\ flow[k].kind # "sign" => doc.id = k /\ doc.kind = flow[k].kind
        /\ flow[k].kind = "sign" => flow[k].doc # None /\ doc.id = flow[k].doc.id /\ doc.kind = flow[k].doc.kind
    <3>1. flow[k].kind \in Family!Kinds /\ flow[k].box \in Boxes /\ flow[k].key \in Accounts
      BY <2>2 DEF FlowRecord
    <3>2. flow[k].kind = "sign" => flow[k].doc # None /\ flow[k].doc \in Family!Document
      BY <2>1, <2>2 DEF FlowRecord, FlowSteady, Live
    <3> QED
      BY <3>1, <3>2 DEF Family!Document
  <2>6. ref \in Flows \cup {None} /\ ref \in {flow[k].ref, k} /\ (On(flow, k) => ref = None)
    BY <2>2 DEF FlowRecord, FlowSteady, On
  <2>7. /\ On(flow, k) => e \in DashRecord /\ e.box = dash.box /\ e.money = dash.money /\ e.busy = dash.busy
                            /\ e.pending = dash.pending /\ e.followUp = IF setter THEN k ELSE dash.followUp
        /\ ~ (setter /\ On(flow, k)) => e = dash
    BY <1>h DEF DashRecord
  <2> HIDE DEF doc, e
  <2>8. /\ g \in FlowRecord /\ g.at = "submitting" /\ g.ref = ref /\ g.doc = doc /\ g.after = flow[k].after
        /\ g.host = flow[k].host /\ g.kind = flow[k].kind
    BY <2>2, <2>5, <2>6 DEF FlowRecord, Family!Steps
  <2> HIDE DEF g
  <2>9. FlowSteady(g, k)
    <3>1. doc # None
      BY <2>5, NullAssumption
    <3> QED
      BY <2>1, <2>2, <2>5, <2>6, <2>8, <3>1 DEF FlowSteady, Live, On
  <2>10. /\ e \in {Family!NoDash} \cup DashRecord /\ (e = Family!NoDash <=> dash = Family!NoDash)
         /\ e.box = dash.box /\ (e # Family!NoDash => e.money = dash.money)
    BY <1>h, <1>t, <2>7, FreeIsNone DEF DashTyped
  <2>11. flow[k].kind # "limits"
    BY <2>1, <2>2 DEF FlowSteady
  <2>12. Holding(flow, k) <=> On(flow, k)
    BY <2>1, <2>11 DEF Holding
  <2>13. Holding(flow, k) => dash.busy = TRUE
    BY <1>t DEF Handlers, OneHolds
  <2>14. Handlers(e, slot, [flow EXCEPT ![k] = g])
    <3>1. slot \in Family!Document \cup {None}
      BY <1>t DEF DashTyped
    <3>2. /\ ~ Holding(flow, k) => e = dash
          /\ Holding(flow, k) => e.busy = TRUE
          /\ e # Family!NoDash => e.pending = dash.pending /\ e.followUp \in {dash.followUp, k}
      BY <2>7, <2>12, <2>13
    <3>3. g.doc.id = k \/ (flow[k].doc # None /\ g.doc.id = flow[k].doc.id)
      BY <2>5, <2>8
    <3>4. On(flow, k) /\ g.kind \in Setters => e.followUp = k
      BY <2>7, <2>8
    <3>5. Holding(flow, k) =>
            \/ g.at = "submitting" /\ g.kind \in Setters
            \/ ~ InFlight(flow, k) /\ e.followUp = dash.followUp /\ e.pending = dash.pending
      BY <2>1, <2>7, <2>8, <2>12
    <3>6. IF g.kind \in Setters THEN g.doc.id = k /\ (~ On(flow, k) => g.ref = k)
          ELSE /\ flow[k].at = "signing" /\ g.ref = flow[k].ref /\ g.doc # None
               /\ e = dash
               /\ g.doc.kind \in Setters =>
                    flow[k].doc # None /\ g.doc.id = flow[k].doc.id /\ g.doc.kind = flow[k].doc.kind
      <4>1. g.doc # None
        BY <2>5, <2>8, NullAssumption
      <4>2. CASE setter
        BY <2>5, <2>8, <4>2 DEF Setters
      <4>3. CASE ~ setter
        BY <2>1, <2>5, <2>7, <2>8, <4>1, <4>3
      <4> QED
        BY <4>2, <4>3
    <3> HIDE DEF setter, ref
    <3> QED
      BY <1>t, <2>1, <2>6, <2>8, <2>9, <2>10, <3>1, <3>2, <3>3, <3>4, <3>5, <3>6, HandlerMoves
  <2>15. Money(e, loads, [flow EXCEPT ![k] = g])
    BY <1>t, <2>1, <2>8, <2>10, MoneyStays
  <2>16. DashTyped(e, slot, [flow EXCEPT ![k] = g])
    BY <1>t, <2>8, <2>10 DEF DashTyped
  <2> QED
    BY <1>19, <2>1, <2>4, <2>10, <2>14, <2>15, <2>16
\* The session moves under the page, or the page is mounted anew.
<1>22. CASE Family!SessionMoves
  <2>1. Family!SessionTypeOK' /\ old' \subseteq Boxes
    BY <1>22, <1>t, FamilySessionTyped DEF Family!SessionMoves
  <2>2. CASE publicKey' = publicKey
    <3>1. UNCHANGED <<page, dash, slot, flow, loads>>
      BY <1>22, <2>2 DEF Family!SessionMoves
    <3> QED
      BY <1>t, <2>1, <2>2, <3>1 DEF FamilyInv, DashTyped, Coherent, Handlers, Money, AllSteady, Hosts,
         OneHolds, Traced, OwnFollows, Follows, Ran, Strangers, Waiting
  <2>3. CASE publicKey' # publicKey
    <3>1. Family!NoPage \in PageRecord /\ Family!NoPage.view = "gate"
      BY DEF PageRecord, Family!NoPage
    <3>2. Family!Loading \in PageRecord /\ Family!Loading.view = "loading"
      BY <1>t DEF PageRecord, Family!Loading
    <3>3. PICK p \in PageRecord : /\ p.view # "box" /\ (p.view # "gate" => publicKey' # None)
                                  /\ Family!Render(p, dash, slot, flow)
      BY <1>22, <2>3, <3>1, <3>2 DEF Family!SessionMoves
    <3> QED
      BY <1>1, <2>1, <3>3
  <2> QED
    BY <2>2, <2>3
<1>23. ASSUME /\ page' \in {Family!NoPage, [Family!NoPage EXCEPT !.view = "loading"]}
              /\ page'.view # "gate" => publicKey' # None
              /\ dash' = Family!NoDash /\ loads' = {} /\ UNCHANGED <<slot, old>> /\ Family!SessionTypeOK',
              NEW g \in [Flows -> {Family!Free} \cup FlowRecord], flow' = g,
              \A k \in Flows : flow[k] = Family!Free => g[k] = Family!Free,
              \A k \in Flows : flow[k] # Family!Free =>
                /\ g[k] # Family!Free /\ g[k].host # "dashboard"
                /\ g[k].kind = flow[k].kind /\ g[k].doc = flow[k].doc /\ g[k].after = flow[k].after
                /\ g[k].at \in {flow[k].at, "stopped"} /\ (flow[k].at = "done" => g[k].at = "done")
                /\ g[k].ref = flow[k].ref
       PROVE  FamilyInv'
  <2>1. Handlers(Family!NoDash, slot, g)
    BY <1>23, <1>t, DashboardGoes
  <2>2. Handlers(dash', slot', flow') /\ DashTyped(dash', slot', flow')
    BY <1>23, <1>t, <2>1 DEF DashTyped
  <2>3. page' \in PageRecord /\ page'.view \in {"gate", "loading"}
    BY <1>23 DEF PageRecord, Family!NoPage
  <2>4. Coherent(page', dash', loads') /\ Money(dash', loads', flow')
    BY <1>23, <2>3 DEF Coherent, Money, Family!Shown, Family!NoDash
  <2>5. loads' \subseteq Family!Loads /\ old' \subseteq Boxes
    BY <1>23, <1>t
  <2> QED
    BY <1>23, <2>2, <2>3, <2>4, <2>5 DEF FamilyInv, DashTyped, Coherent, Handlers, Money, AllSteady, Hosts,
       OneHolds, Traced, OwnFollows, Follows, Ran, Strangers, Waiting
<1>24. CASE Family!PageReloads
  <2>1. Family!SessionTypeOK' /\ publicKey' = stored
    BY <1>24, <1>t, FamilySession, FamilySessionTyped DEF Family!PageReloads, Reload
  <2> DEFINE g == [k \in Flows |-> IF flow[k] = Family!Free THEN Family!Free
                                   ELSE [flow[k] EXCEPT !.at = IF @ = "done" THEN @ ELSE "stopped",
                                                        !.host = "gone"]]
  <2>2. flow' = g
    BY <1>24 DEF Family!PageReloads
  <2>3. ASSUME NEW k \in Flows, flow[k] # Family!Free
        PROVE  /\ g[k] \in FlowRecord /\ g[k].host # "dashboard"
               /\ g[k].kind = flow[k].kind /\ g[k].doc = flow[k].doc /\ g[k].after = flow[k].after
               /\ g[k].at \in {flow[k].at, "stopped"} /\ (flow[k].at = "done" => g[k].at = "done")
               /\ g[k].ref = flow[k].ref
    <3>1. flow[k] \in FlowRecord
      BY <1>t, <2>3 DEF DashTyped
    <3>2. g[k] = [flow[k] EXCEPT !.at = IF flow[k].at = "done" THEN "done" ELSE "stopped", !.host = "gone"]
      BY <2>3, <3>1 DEF FlowRecord
    <3> HIDE DEF g
    <3> QED
      BY <3>1, <3>2 DEF FlowRecord, Family!Steps
  <2>4. /\ g \in [Flows -> {Family!Free} \cup FlowRecord]
        /\ \A k \in Flows : flow[k] = Family!Free => g[k] = Family!Free
    BY <2>3
  <2>5. /\ page' \in {Family!NoPage, [Family!NoPage EXCEPT !.view = "loading"]}
        /\ page'.view # "gate" => publicKey' # None
    BY <1>24, <2>1 DEF Family!PageReloads, Family!NoPage
  <2>6. dash' = Family!NoDash /\ loads' = {} /\ UNCHANGED <<slot, old>>
    BY <1>24 DEF Family!PageReloads
  <2> HIDE DEF g
  <2> QED
    BY <1>23, <2>1, <2>2, <2>3, <2>4, <2>5, <2>6, FreeIsNone
<1>25. CASE Family!PageRevisited
  <2>1. Family!SessionTypeOK' /\ publicKey' = publicKey
    BY <1>25, <1>t, FamilySession, FamilySessionTyped DEF Family!PageRevisited, Revisit
  <2> DEFINE g == Family!Rehosted(flow, Family!NoPage, dash)
  <2>2. flow' = g
    BY <1>25 DEF Family!PageRevisited
  <2>3. ASSUME NEW k \in Flows, flow[k] # Family!Free
        PROVE  /\ g[k] \in FlowRecord /\ g[k].host # "dashboard"
               /\ g[k].kind = flow[k].kind /\ g[k].doc = flow[k].doc /\ g[k].after = flow[k].after
               /\ g[k].at = flow[k].at /\ g[k].ref = flow[k].ref
    <3>1. flow[k] \in FlowRecord
      BY <1>t, <2>3 DEF DashTyped
    <3>2. g[k] = [flow[k] EXCEPT !.host = "gone"]
      BY <2>3 DEF Family!Rehosted, Family!NoPage
    <3> HIDE DEF g
    <3> QED
      BY <3>1, <3>2 DEF FlowRecord
  <2>4. \A k \in Flows : flow[k] = Family!Free => g[k] = Family!Free
    BY DEF Family!Rehosted
  <2>5. g \in [Flows -> {Family!Free} \cup FlowRecord]
    BY <2>3, <2>4 DEF Family!Rehosted
  <2>6. /\ page' \in {Family!NoPage, [Family!NoPage EXCEPT !.view = "loading"]}
        /\ page'.view # "gate" => publicKey' # None
    BY <1>25, <2>1 DEF Family!PageRevisited, Family!NoPage
  <2>7. dash' = Family!NoDash /\ loads' = {} /\ UNCHANGED <<slot, old>>
    BY <1>25 DEF Family!PageRevisited
  <2> HIDE DEF g
  <2> QED
    BY <1>23, <2>1, <2>2, <2>3, <2>4, <2>5, <2>6, <2>7, FreeIsNone
<1>26. ASSUME NEW k \in Flows, Family!Goes(k) PROVE FamilyInv'
  BY <1>10, <1>12, <1>13, <1>14, <1>16, <1>17, <1>18, <1>20, <1>21, <1>26, <1>27 DEF Family!Goes
<1> QED
  BY <1>2, <1>3, <1>4, <1>6, <1>7, <1>8, <1>9, <1>22, <1>24, <1>25, <1>26 DEF Family!Next

\* The invariant of the page, of whatever visit is to it.
FamilyOpen == route = "family" => FamilyInv

LEMMA FamilyInductive ==
  /\ Init => FamilyOpen
  /\ FamilyOpen /\ [Next]_vars => FamilyOpen'
<1>1. FamilyInv /\ UNCHANGED Family!vars => FamilyInv'
  BY DEF FamilyInv, DashTyped, Coherent, Handlers, Money, AllSteady, Hosts, OneHolds, Traced, OwnFollows,
     Follows, Ran, Strangers, Waiting, Family!vars, Family!sessionVars, Family!SessionTypeOK, Family!Keys
<1> QED
  BY <1>1, FamilyPageSteps, FamilyInit, FamilyNext DEF FamilyOpen

LEMMA FamilyTypeFollows == FamilyInv => Family!TypeOK
<1> SUFFICES ASSUME FamilyInv PROVE Family!TypeOK
  OBVIOUS
<1>1. dash = Family!NoDash \/ (dash \in DashRecord /\ dash.box \in page.pools)
  <2>1. dash # Family!NoDash => page.view = "box" /\ dash.box = page.selected
    BY DEF FamilyInv, Coherent, Family!Shown
  <2> QED
    BY <2>1 DEF FamilyInv, DashTyped, Coherent
<1>2. \A k \in Flows : flow[k] = Family!Free \/ flow[k] \in FlowRecord
  BY DEF FamilyInv, DashTyped
<1>3. /\ Family!SessionTypeOK /\ page \in PageRecord /\ loads \subseteq Family!Loads /\ old \subseteq Boxes
      /\ slot \in Family!Document \cup {None}
  BY DEF FamilyInv, DashTyped
<1> QED
  BY <1>1, <1>2, <1>3 DEF Family!TypeOK, PageRecord, DashRecord, FlowRecord

\* What follows a change of signers in the rows of a family box follows its own transaction,
\* however many handlers, accounts, tabs and reloads there were between its signature and its
\* submission, unless a dashboard that is gone put that transaction in the slot
\* (FamilyPoolPage.tsx, FamilyPage).
THEOREM FollowUpsMatch == Spec => []FollowUpMatches
<1>1. ASSUME FamilyInv, NEW k \in Flows, flow[k].at = "followUp"
      PROVE  \/ flow[k].after = flow[k].doc.id
             \/ \E j \in Flows :
                  /\ flow[j] # Family!Free /\ ~ Family!Hosted(j)
                  /\ \/ j = flow[k].doc.id
                     \/ flow[k].doc.id = None /\ flow[j].kind = "sign" /\ flow[j].at = "done"
  <2>1. Begun(flow, k)
    BY <1>1 DEF Begun, Family!Free
  <2>2. Matches(flow, flow[k].doc, flow[k].after)
    BY <1>1, <2>1 DEF FamilyInv, Handlers, Ran
  <2> QED
    BY <2>2 DEF Matches, Begun, On, Family!Hosted
<1>2. FamilyInv => Family!FollowUpMatches
  BY <1>1 DEF Family!FollowUpMatches
<1>3. FamilyOpen => FollowUpMatches
  BY <1>2 DEF FamilyOpen, FollowUpMatches
<1> QED
  BY <1>3, FamilyInductive, PTL DEF Spec

\* With nothing on its way, the money shown under a family box is that box's, or what a
\* handler begun in another box of the dashboard refreshed, for any boxes, loads cancelled by
\* a change of tab and handlers that end under another tab (FamilyPoolPage.tsx, FamilyPage).
THEOREM MoneyIsSettled == Spec => []MoneySettled
<1>1. FamilyInv => Family!MoneySettled
  BY DEF FamilyInv, Money, Family!MoneySettled, On, Begun, Family!Hosted
<1>2. FamilyOpen => MoneySettled
  BY <1>1 DEF FamilyOpen, MoneySettled
<1> QED
  BY <1>2, FamilyInductive, PTL DEF Spec

----------------------------------------------------------------------------
(* The whole browser *)

\* Where no page keeps its own account of the session.
LEMMA SessionAlone ==
  /\ Init /\ route \notin {"send", "setup", "family", "pool", "history", "profile"} => SessionTypeOK
  /\ SessionTypeOK /\ [Next]_vars /\ route' \notin {"send", "setup", "family", "pool", "history", "profile"}
       => SessionTypeOK'
<1>1. ASSUME Init, route \notin {"send", "setup", "family", "pool", "history", "profile"}
      PROVE  SessionTypeOK
  <2>1. SessionInit
    BY <1>1 DEF Init, Opens, Routes
  <2> QED
    BY <2>1, SessionInitTyped
<1>2. ASSUME SessionTypeOK, [Next]_vars,
             route' \notin {"send", "setup", "family", "pool", "history", "profile"}
      PROVE  SessionTypeOK'
  <2>1. SessionMove \/ OnlyAsks
    BY <1>2 DEF Next, SessionStep, SendStep, SetupStep, FamilyStep, PoolStep, HistoryStep, ProfileStep, vars,
       SessionMove, OnlyAsks, sessionVars
  <2> QED
    BY <1>2, <2>1, SessionTyped, AskingTyped
<1> QED
  BY <1>1, <1>2

LEMMA AppSessionFollows ==
  /\ SendInv /\ route = "send" => SessionTypeOK
  /\ SetupOpen /\ route = "setup" => SessionTypeOK
  /\ FamilyOpen /\ route = "family" => SessionTypeOK
  /\ PoolOpen /\ route = "pool" => SessionTypeOK
  /\ HistoryOpen /\ route = "history" => SessionTypeOK
  /\ ProfileOpen /\ route = "profile" => SessionTypeOK
<1>1. SendInv /\ route = "send" => SessionTypeOK
  BY SendSession DEF SendInv, Send!TypeOK
<1>2. SetupOpen /\ route = "setup" => SessionTypeOK
  BY SetupSession DEF SetupOpen, SetupInv
<1>3. FamilyOpen /\ route = "family" => SessionTypeOK
  BY FamilySession DEF FamilyOpen, FamilyInv
<1>4. PoolOpen /\ route = "pool" => SessionTypeOK
  BY PoolSession DEF PoolOpen, PoolInv, PoolTyped
<1>5. HistoryOpen /\ route = "history" => SessionTypeOK
  BY HistorySession DEF HistoryOpen, HistoryInv
<1>6. ProfileOpen /\ route = "profile" => SessionTypeOK
  BY ProfileSession DEF ProfileOpen, ProfileInv
<1> QED
  BY <1>1, <1>2, <1>3, <1>4, <1>5, <1>6

\* The session and the page open hold what they may hold, whatever page it is: the accounts
\* of this Freighter, the states a handler has, the boxes of the family, the records of the
\* payments (WalletContext.tsx and the pages, App).
THEOREM AppTypeCorrect == Spec => []TypeOK
<1> DEFINE pages == {"send", "setup", "family", "pool", "history", "profile"}
           Open == SendInv /\ SetupOpen /\ FamilyOpen /\ PoolOpen /\ HistoryOpen /\ ProfileOpen
           Session == route \notin pages => SessionTypeOK
<1>1. Open /\ Session => TypeOK
  <2>1. Open /\ Session => SessionTypeOK
    BY AppSessionFollows
  <2>2. /\ SendInv => (route = "send" => Send!TypeOK)
        /\ SetupOpen => (route = "setup" => Setup!TypeOK)
        /\ FamilyOpen => (route = "family" => Family!TypeOK)
        /\ PoolOpen => (route = "pool" => Pool!TypeOK)
        /\ HistoryOpen => (route = "history" => History!TypeOK)
        /\ ProfileOpen => (route = "profile" => Profile!TypeOK)
    BY SetupTypeFollows, FamilyTypeFollows, PoolTypeFollows, HistoryTypeFollows, ProfileTypeFollows
       DEF SendInv, SetupOpen, FamilyOpen, PoolOpen, HistoryOpen, ProfileOpen
  <2> QED
    BY <2>1, <2>2 DEF TypeOK
<1>2. Init => Open
  BY SendInvInductive, SetupInductive, FamilyInductive, PoolInductive, HistoryInductive, ProfileInductive
<1>3. Open /\ [Next]_vars => Open'
  BY SendInvInductive, SetupInductive, FamilyInductive, PoolInductive, HistoryInductive, ProfileInductive
<1>4. Init => Session
  BY SessionAlone
<1>5. Session /\ [Next]_vars => Session'
  BY SessionAlone DEF Next, vars, sessionVars
<1> QED
  BY <1>1, <1>2, <1>3, <1>4, <1>5, PTL DEF Spec

=============================================================================
