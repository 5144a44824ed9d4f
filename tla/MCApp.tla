------------------------------- MODULE MCApp -------------------------------
(***************************************************************************)
(* Two accounts of one Freighter.  Box x is of the first, who in y may only *)
(* deposit; the pool's wallet is the second.                                *)
(*                                                                          *)
(* The visits of App, each with its bounds (Starts, Within): what two kinds *)
(* of steps have in common is one visit, and what never meets in a property *)
(* is two, so that TLC can walk them all.                                   *)
(***************************************************************************)
EXTENDS App

CONSTANTS ana, beto, x, y

VARIABLE visit

XLMToXLM == [send |-> "XLM", dest |-> "XLM"]
XLMToUSDC == [send |-> "XLM", dest |-> "USDC"]
PairsV == {XLMToXLM, XLMToUSDC}

CreatorV == [box \in {x, y} |-> IF box = x THEN ana ELSE beto]
PowerV ==
  [box \in {x, y} |-> [m \in {ana, beto} |->
     IF box = y /\ m = ana THEN {"deposit"} ELSE {"deposit", "withdraw", "sign"}]]

\* The route of each visit.
VisitsOf == [none |-> {"session"}, send |-> {"typing", "paying"}, setup |-> {"setup"},
             family |-> {"signers", "all", "money"}, pool |-> {"reading", "donating", "filling", "withdrawing"},
             history |-> {"history"}, profile |-> {"rules", "profile"}]

\* Active rules of an account, due from the first day.
Due(key) == [sender : {key}, active : {TRUE}, paid : {None}, next : {0}]

\* The detection of Freighter and the balances in the header are the session's visit; in the
\* others the account changes s times at most, the page is mounted again r times, and l
\* answers of Freighter are on their way.
SessionMovesLittle(s, r, l) ==
  /\ available' = available /\ connecting' = connecting
  /\ balances' = balances /\ asking \subseteq asking'
  /\ switches' <= s /\ reloads' <= r /\ Cardinality(lookups') <= l

Starts ==
  CASE visit = "session" -> TRUE
    [] visit \in {"typing", "setup"} -> stored = active
    [] visit = "history" -> \* beto has one payment
         stored = active /\ ledger[beto] = [last |-> 1, payments |-> {1}]
    [] visit = "rules" -> stored = ana /\ active = ana /\ \A r \in Rules : rules[r] \in Due(ana)
    [] visit = "profile" -> stored = ana /\ active = ana /\ rules[1] \in Due(ana) /\ rules[2] = None
    [] visit = "paying" -> stored = active /\ form.amount = 1
    [] visit = "signers" -> stored = beto /\ active = beto /\ old = {} /\ (slot # None => slot.box = x)
    [] visit = "all" -> stored = active /\ slot = None /\ old = {y}
    [] visit = "money" -> stored = ana /\ active = ana /\ slot = None /\ old = {}
    [] visit = "reading" -> stored = ana /\ active = ana /\ contract = "none" /\ progress = "short"
    [] visit = "donating" ->
         stored = ana /\ active = ana /\ row = (contract # "none") /\ progress = "short"
    [] visit = "filling" -> stored = ana /\ active = ana /\ row = (contract # "none")
    [] visit = "withdrawing" -> \* the contract holds what completes the pool
         stored = beto /\ active = beto /\ row = (contract # "none") /\ progress = "short"

\* Calls are numbered as they begin.
InTurn == \A k \in Calls \ {1} : call'[k] = Profile!Free \/ call'[k - 1] # Profile!Free
NoneCreated == \A k \in Calls : call'[k] # Profile!Free => call'[k].kind # "create"

NothingShown ==
  /\ dash' # Family!NoDash => \A part \in Family!Parts : dash'.money[part] = None
  /\ \A l \in loads' : l.at = "balance"

NoPolls == \A r \in reads' : r.for # "poll"

Within ==
  CASE visit = "session" -> TRUE
    [] visit = "typing" -> \* one attempt
         SessionMovesLittle(0, 1, 0) /\ \A k \in Attempts : k # 1 => attempt'[k] = Send!Free
    [] visit = "paying" -> \* the form stays as it is
         SessionMovesLittle(1, 1, 0) /\ form' = form
    [] visit = "setup" -> SessionMovesLittle(1, 1, 0)
    [] visit = "signers" -> \* signers and signatures, two handlers
         /\ SessionMovesLittle(0, 1, 0) /\ NothingShown
         /\ dash' # Family!NoDash => dash'.edits = {}
         /\ \A k \in Flows : flow'[k] # Family!Free => flow'[k].kind \in {"signer", "sign"}
    [] visit = "all" -> \* every button, one handler
         /\ SessionMovesLittle(1, 0, 1) /\ NothingShown
         /\ \A k \in Flows : k # 1 => flow'[k] = Family!Free
    [] visit = "money" -> \* what is shown of the boxes while two deposits are made
         /\ SessionMovesLittle(0, 0, 0) /\ publicKey' = publicKey
         /\ dash' # Family!NoDash => dash'.edits = {}
         /\ \A k \in Flows : flow'[k] # Family!Free => flow'[k].kind = "deposit"
    [] visit = "reading" -> \* no handler
         /\ SessionMovesLittle(0, 0, 0) /\ publicKey' = publicKey
         /\ asset' = asset /\ progress' = progress /\ vaultBusy' = "idle" /\ donation' = donation
    [] visit = "donating" -> \* the row stays, answers are lost to donations only
         /\ SessionMovesLittle(0, 1, 0) /\ NoPolls /\ vaultBusy' = "idle" /\ row' = row
         /\ progress' = progress
         /\ contract' # contract => contract' = "complete"
         /\ failures' # failures => donation' # donation
    [] visit = "filling" -> \* one donation, in XLM, while others pay
         /\ SessionMovesLittle(0, 0, 0) /\ publicKey' = publicKey /\ NoPolls /\ vaultBusy' = "idle"
         /\ asset' = asset /\ row' = row /\ (contract' # contract => contract' = "complete")
         /\ \A k \in Donations : k # 1 => donation'[k] = Pool!Free
    [] visit = "withdrawing" -> \* the contract stays, nobody donates
         /\ SessionMovesLittle(1, 1, 1) /\ NoPolls /\ contract' = contract
         /\ progress' = progress /\ donation' = donation /\ failures' = failures
    [] visit = "history" -> SessionMovesLittle(1, 1, 1) /\ ledger'[beto] = ledger[beto]
    [] visit = "rules" -> \* three buttons on two rules, the first on 1
         /\ SessionMovesLittle(0, 0, 0) /\ InTurn /\ NoneCreated /\ failures' = failures
         /\ call'[1] # Profile!Free => call'[1].rule = 1
         /\ Cardinality(lists') <= 2 /\ publicKey' = publicKey /\ today' = today
    [] visit = "profile" -> \* two, and one thing that happens
         /\ SessionMovesLittle(1, 1, switches') /\ switches' + reloads' + failures' <= 1
         /\ InTurn /\ call'[3] = Profile!Free /\ Cardinality(lists') <= 2

MCInit == Init /\ visit \in VisitsOf[route] /\ Starts
MCNext == Next /\ visit' = visit /\ Within

\* Fairness where the bounds leave room for it.
MCFairness ==
  /\ SF_sessionVars(visit = "session" /\ Focus)
  /\ SF_sessionVars(visit = "session" /\ \E l \in lookups : Answer(l))
  /\ WF_sessionVars(visit = "session" /\ \E l \in lookups : Deliver(l))
  /\ Family!Served
  /\ Pool!Answered
  /\ SF_reads(visit = "reading" /\ Pool!Poll)

MCSpec == MCInit /\ [][MCNext]_<<vars, visit>> /\ MCFairness

\* The session of the visit that has fairness for it.
SessionSettles == visit = "session" => Settles

=============================================================================
