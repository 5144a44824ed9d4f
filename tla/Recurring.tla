----------------------------- MODULE Recurring -----------------------------
(***************************************************************************)
(* The scheduled payments of the profile (RecurringPanel in                 *)
(* ProfilePage.tsx) over payments/views.py: rules that remind of a payment, *)
(* kept in the database and changed by the buttons of a list.               *)
(*                                                                          *)
(* A request that changes a rule reads it, changes a copy and saves the     *)
(* whole of it; another may have changed or removed the rule in between.    *)
(* The page keeps one busyId: a button pressed on another rule enables the  *)
(* buttons of the first again.  Lists are asked for after every request,    *)
(* and nothing cancels those that are late.                                 *)
(***************************************************************************)
EXTENDS WalletSession

CONSTANTS
  Rules,        \* bound: ids of rules
  Calls,        \* bound: buttons pressed
  Period,       \* days from a payment to the next
  MaxDays,      \* bound: days that pass
  MaxFailures   \* bound: requests and answers that get lost

VARIABLES
  today,
  rules,      \* RecurringTransfer: rules[r], or None
  shown,      \* the list in the page
  busyId,     \* the rule whose buttons are disabled
  lists,      \* lists on their way: of which call, whose, what the answer holds
  call,       \* call[k]: what a button asked of the server
  failures

vars == <<today, rules, shown, busyId, lists, call, failures, sessionVars>>

Free == [at |-> "free"]
Row == [sender : Accounts, active : BOOLEAN, paid : 0..MaxDays \cup {None}, next : Nat]
Shown == [rule : Rules, active : BOOLEAN]

\* What the page, its requests and the table may hold.
TypeOK ==
  /\ SessionTypeOK
  /\ today \in 0..MaxDays
  /\ rules \in [Rules -> Row \cup {None}]
  /\ shown \subseteq Shown /\ busyId \in Rules \cup {None}
  /\ \A l \in lists :
       l.for \in Calls \cup {None} /\ l.key \in Accounts /\ (l.got = None \/ l.got \subseteq Shown)
  /\ \A k \in Calls : call[k] = Free \/
       /\ call[k].at \in {"sent", "read", "saved", "done"} /\ call[k].heard \in BOOLEAN
       /\ call[k].kind \in {"create", "toggle", "paid", "remove"} /\ call[k].active \in BOOLEAN
       /\ call[k].rule \in Rules \cup {None} /\ call[k].key \in Accounts
       /\ call[k].copy \in Row \cup {None} /\ call[k].stale \in BOOLEAN
       /\ call[k].day \in 0..MaxDays \cup {None}
  /\ failures \in 0..MaxFailures

----------------------------------------------------------------------------
(* The buttons and the form *)

Asked(kind, rule, act) ==
  [at |-> "sent", heard |-> TRUE, kind |-> kind, rule |-> rule, key |-> publicKey, active |-> act,
   copy |-> None, stale |-> FALSE, day |-> None]

\* patch and remove: "Ya pagué", "Pausar" or "Reactivar", "Borrar".
Press(k) ==
  /\ publicKey # None /\ call[k] = Free
  /\ \E s \in shown, kind \in {"toggle", "paid", "remove"} :
       /\ busyId # s.rule
       /\ busyId' = s.rule
       /\ call' = [call EXCEPT ![k] = Asked(kind, s.rule, ~ s.active)]
  /\ UNCHANGED <<today, rules, shown, lists, failures, sessionVars>>

\* createRule, of a form that passes its checks; its button is always enabled.
CreateRule(k) ==
  /\ publicKey # None /\ call[k] = Free
  /\ call' = [call EXCEPT ![k] = Asked("create", None, TRUE)]
  /\ UNCHANGED <<today, rules, shown, busyId, lists, failures, sessionVars>>

----------------------------------------------------------------------------
(* RecurringListCreateView and RecurringDetailView *)

Created(k) ==
  /\ call[k].at = "sent" /\ call[k].kind = "create"
  /\ \E r \in Rules :
       /\ rules[r] = None /\ r \notin {call[j].rule : j \in {j \in Calls : call[j] # Free}}
       /\ rules' = [rules EXCEPT ![r] =
            [sender |-> call[k].key, active |-> TRUE, paid |-> None, next |-> today + Period]]
       /\ call' = [call EXCEPT ![k] = [call[k] EXCEPT !.at = "saved", !.rule = r, !.day = today]]
  /\ UNCHANGED <<today, shown, busyId, lists, failures, sessionVars>>

Allowed(c) == rules[c.rule] # None /\ rules[c.rule].sender = c.key

Reads(k) ==
  /\ call[k].at = "sent" /\ call[k].kind # "create" /\ Allowed(call[k])
  /\ call' = [call EXCEPT ![k] = [call[k] EXCEPT !.at = "read", !.copy = rules[call[k].rule]]]
  /\ UNCHANGED <<today, rules, shown, busyId, lists, failures, sessionVars>>

\* Paid today: the next payment is a period from now, however late this one was.
PatchedFromNext(row, c) ==
  CASE c.kind = "toggle" -> [row EXCEPT !.active = c.active]
    [] c.kind = "paid" -> [row EXCEPT !.paid = today, !.next = row.next + Period]
Patched(row, c) ==
  CASE c.kind = "toggle" -> [row EXCEPT !.active = c.active]
    [] c.kind = "paid" -> [row EXCEPT !.paid = today, !.next = today + Period]

\* save() writes every field of the copy, and inserts it again if the row is gone.
Saves(k) ==
  LET c == call[k] IN
    /\ c.at = "read"
    /\ rules' = [rules EXCEPT ![c.rule] = IF c.kind = "remove" THEN None ELSE Patched(c.copy, c)]
    /\ call' = [call EXCEPT ![k] = [c EXCEPT !.at = "saved", !.day = today,
                                             !.stale = c.kind # "remove" /\ rules[c.rule] # c.copy]]
    /\ UNCHANGED <<today, shown, busyId, lists, failures, sessionVars>>

----------------------------------------------------------------------------
(* The page hears *)

\* The finally of patch and remove; the form has none.
Freed(k) == IF call[k].kind = "create" THEN busyId ELSE None

List(k, key) == [for |-> k, key |-> key, got |-> None]

\* load(), by whoever changed a rule.
Answered(k) ==
  /\ call[k].at = "saved" /\ call[k].heard
  /\ call' = [call EXCEPT ![k].at = "done"]
  /\ lists' = lists \cup {List(k, call[k].key)}
  /\ UNCHANGED <<today, rules, shown, busyId, failures, sessionVars>>

\* 404, or 403: the rules of the former account stay in the list until the new one's arrive.
Forbidden(k) ==
  /\ call[k].at = "sent" /\ call[k].kind # "create" /\ ~ Allowed(call[k])
  /\ call' = [call EXCEPT ![k].at = "done"]
  /\ busyId' = IF call[k].heard THEN Freed(k) ELSE busyId
  /\ UNCHANGED <<today, rules, shown, lists, failures, sessionVars>>

\* No answer: the request may not have arrived, or the server goes on with it.
Unheard(k) ==
  /\ call[k].at \in {"sent", "read", "saved"} /\ call[k].heard
  /\ failures < MaxFailures /\ failures' = failures + 1
  /\ \E at \in {call[k].at} \cup (IF call[k].at = "sent" THEN {"done"} ELSE {}) :
       call' = [call EXCEPT ![k] = [call[k] EXCEPT !.at = at, !.heard = FALSE]]
  /\ busyId' = Freed(k)
  /\ UNCHANGED <<today, rules, shown, lists, sessionVars>>

ListServed(l) ==
  /\ l.got = None
  /\ LET own == {r \in Rules : rules[r] # None /\ rules[r].sender = l.key}
     IN  lists' = (lists \ {l}) \cup
           {[l EXCEPT !.got = {[rule |-> r, active |-> rules[r].active] : r \in own}]}
  /\ UNCHANGED <<today, rules, shown, busyId, call, failures, sessionVars>>

ListEnds(l) ==
  /\ lists' = lists \ {l}
  /\ busyId' = IF l.for = None THEN busyId ELSE Freed(l.for)
  /\ UNCHANGED <<today, rules, call, sessionVars>>

\* setRules, whoever is connected by now.
ListArrives(l) ==
  /\ l.got # None /\ shown' = l.got /\ ListEnds(l)
  /\ UNCHANGED failures

ListFails(l) ==
  /\ failures < MaxFailures /\ failures' = failures + 1
  /\ ListEnds(l)
  /\ UNCHANGED shown

----------------------------------------------------------------------------
(* Days and the session *)

NextDay ==
  /\ today < MaxDays /\ today' = today + 1
  /\ UNCHANGED <<rules, shown, busyId, lists, call, failures, sessionVars>>

\* A panel mounted anew; the server goes on with what the former one asked.
Mounted(key) ==
  /\ shown' = {} /\ busyId' = None
  /\ lists' = {List(None, a) : a \in {key} \ {None}}
  /\ call' = [k \in Calls |-> IF call[k] = Free THEN Free ELSE [call[k] EXCEPT !.heard = FALSE]]

SessionMoves ==
  /\ Stays
  /\ IF publicKey' = publicKey THEN UNCHANGED <<shown, busyId, lists, call>>
     ELSE IF None \in {publicKey, publicKey'} THEN Mounted(publicKey')
     ELSE lists' = lists \cup {List(None, publicKey')} /\ UNCHANGED <<shown, busyId, call>>
  /\ UNCHANGED <<today, rules, failures>>

PageReloads == (Reload \/ Revisit) /\ Mounted(publicKey') /\ UNCHANGED <<today, rules, failures>>

\* Rules of earlier visits, not paid yet, some of them due.
Init ==
  /\ SessionInit
  /\ today = 0
  /\ rules \in [Rules -> {None} \cup
       [sender : Accounts, active : BOOLEAN, paid : {None}, next : 0..Period]]
  /\ shown = {} /\ busyId = None
  /\ lists = {List(None, a) : a \in {publicKey} \ {None}}
  /\ call = [k \in Calls |-> Free]
  /\ failures = 0

Next ==
  \/ \E k \in Calls :
       Press(k) \/ CreateRule(k) \/ Created(k) \/ Reads(k) \/ Saves(k) \/ Answered(k) \/ Forbidden(k)
         \/ Unheard(k)
  \/ \E l \in lists : ListServed(l) \/ ListArrives(l) \/ ListFails(l)
  \/ NextDay \/ SessionMoves \/ PageReloads

Spec == Init /\ [][Next]_vars

----------------------------------------------------------------------------
(* Properties *)

\* However often a button is pressed, also again after an answer that was lost: a payment
\* noted is not asked for again before a period has passed, and a rule removed stays so;
\* unless a request that had read the rule before saved its copy over it.  In any case the
\* next payment is a period after the one noted.  (payments/views.py 196-227.)
RulesKept ==
  /\ \A k \in Calls : call[k] # Free /\ call[k].day # None =>
       LET c == call[k]
           row == rules[c.rule]
           overwritten == \E j \in Calls : call[j] # Free /\ call[j].rule = c.rule /\ call[j].stale
       IN  ~ overwritten =>
             /\ c.kind = "remove" => row = None
             /\ c.kind = "paid" /\ row # None => row.next >= c.day + Period
  /\ \A r \in Rules : rules[r] # None /\ rules[r].paid # None => rules[r].next = rules[r].paid + Period

=============================================================================
