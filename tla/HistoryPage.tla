---------------------------- MODULE HistoryPage ----------------------------
(***************************************************************************)
(* The history of payments (HistoryPage.tsx), which grows a page at a time: *)
(* the first replaces what is shown, "Cargar mas" appends what follows the  *)
(* cursor.  Nothing cancels a page that is on its way, and payments go on   *)
(* arriving at the account.                                                 *)
(*                                                                          *)
(* A page is one of Horizon's operations, payments or not: the backend drops*)
(* those that are none, so that a page may be short, or empty, although     *)
(* payments follow; the cursor is the last operation's.                     *)
(***************************************************************************)
EXTENDS WalletSession, Sequences

CONSTANTS
  PageSize,       \* operations in a page
  MaxOperations   \* bound: operations of an account

VARIABLES
  ledger,     \* ledger[a]: how many operations a has, numbered from the oldest; its payments
  records,    \* what the page holds, newest first
  cursor,     \* the last operation read, or None when nothing follows
  loading,
  requests,   \* pages on their way: whose, after which operation, replacing or not
  replaced    \* the session has changed its account since the page was mounted

vars == <<ledger, records, cursor, loading, requests, replaced, sessionVars>>

Numbers == 1..MaxOperations
Ledger == [last : 0..MaxOperations, payments : SUBSET Numbers]
Payment == [who : Accounts, n : Numbers]
First(a) == [who |-> a, after |-> None, replace |-> TRUE]

\* What the page and the ledger may hold.
TypeOK ==
  /\ SessionTypeOK
  /\ ledger \in [Accounts -> Ledger]
  /\ records \in Seq(Payment) /\ cursor \in Numbers \cup {None}
  /\ loading \in BOOLEAN /\ replaced \in BOOLEAN
  /\ requests \subseteq [who : Accounts, after : Numbers \cup {None}, replace : BOOLEAN]

Receive(a) ==
  /\ ledger[a].last < MaxOperations
  /\ LET n == ledger[a].last + 1 IN
       \E payment \in {{}, {n}} :
         ledger' = [ledger EXCEPT ![a] = [last |-> n, payments |-> ledger[a].payments \cup payment]]
  /\ UNCHANGED <<records, cursor, loading, requests, replaced, sessionVars>>

\* fetch_payment_history: the operations before the cursor, from the newest that the answer
\* saw, top down to bottom; none when top is 0.
TopAtCursor(r, newest) == IF r.after = None THEN newest ELSE r.after
Top(r, newest) == IF r.after = None THEN newest ELSE r.after - 1

BottomUnclamped(top) == top + 1 - PageSize
Bottom(top) == IF top < PageSize THEN 1 ELSE top + 1 - PageSize

\* The members of a set of numbers, each once.
NewestFirst(S) ==
  {s \in UNION {[1..k -> S] : k \in 0..PageSize} :
     /\ \A i, j \in DOMAIN s : i < j => s[i] > s[j]
     /\ \A n \in S : \E i \in DOMAIN s : s[i] = n}

\* The payments among them, and where the next page begins.
PageArrives(r) ==
  /\ requests' = requests \ {r}
  /\ \E newest \in 0..ledger[r.who].last :
       LET top == Top(r, newest)
           bottom == Bottom(top)
       IN
         /\ cursor' = IF top = 0 THEN None ELSE bottom
         /\ \E list \in NewestFirst((bottom..top) \cap ledger[r.who].payments) :
              LET got == [i \in DOMAIN list |-> [who |-> r.who, n |-> list[i]]]
              IN  records' = IF r.replace THEN got ELSE records \o got
  /\ loading' = FALSE
  /\ UNCHANGED <<ledger, replaced, sessionVars>>

PageFails(r) ==
  /\ requests' = requests \ {r}
  /\ loading' = FALSE
  /\ UNCHANGED <<ledger, records, cursor, replaced, sessionVars>>

\* "Cargar mas"; the filters only hide rows.
LoadMore ==
  /\ publicKey # None /\ cursor # None /\ ~ loading
  /\ requests' = requests \cup {[who |-> publicKey, after |-> cursor, replace |-> FALSE]}
  /\ loading' = TRUE
  /\ UNCHANGED <<ledger, records, cursor, replaced, sessionVars>>

\* The wallet gate takes the page away; another account loads over what is shown.
Mounted(key) ==
  /\ records' = <<>> /\ cursor' = None /\ replaced' = FALSE
  /\ requests' = {First(a) : a \in {key} \ {None}} /\ loading' = (key # None)

SessionMoves ==
  /\ Stays
  /\ IF publicKey' = publicKey THEN UNCHANGED <<records, cursor, loading, requests, replaced>>
     ELSE IF None \in {publicKey, publicKey'} THEN Mounted(publicKey')
     ELSE /\ requests' = requests \cup {First(publicKey')}
          /\ loading' = TRUE /\ replaced' = TRUE
          /\ UNCHANGED <<records, cursor>>
  /\ UNCHANGED ledger

PageReloads == (Reload \/ Revisit) /\ Mounted(publicKey') /\ UNCHANGED ledger

Init ==
  /\ SessionInit
  /\ ledger \in [Accounts -> Ledger] /\ \A a \in Accounts : ledger[a].payments \subseteq 1..ledger[a].last
  /\ records = <<>> /\ cursor = None /\ replaced = FALSE
  /\ requests = {First(a) : a \in {publicKey} \ {None}} /\ loading = (publicKey # None)

Next ==
  \/ \E a \in Accounts : Receive(a)
  \/ \E r \in requests : PageArrives(r) \/ PageFails(r)
  \/ LoadMore \/ SessionMoves \/ PageReloads

Spec == Init /\ [][Next]_vars

----------------------------------------------------------------------------
(* Properties *)

\* No payment of a lies between two operations.
Clear(l, a, low, high) == \A n \in l[a].payments : ~ (low < n /\ n < high)

\* Whatever arrives at the account between two pages, and whatever operations that are no
\* payments fill a page, the history has no hole and shows no payment twice, and its
\* account's alone; nothing is missing before the cursor either, and when it offers nothing
\* more it has come to the first.  As long as the session keeps its account, for a page on
\* its way to the former one is appended to the new one's.
\* (HistoryPage.tsx 81-104; stellar_client.py 141-142, 157-161.)
HistoryContiguous ==
  ~ replaced => \A i \in DOMAIN records :
    /\ records[i].who = publicKey
    /\ i > 1 => records[i].n < records[i-1].n /\ Clear(ledger, publicKey, records[i].n, records[i-1].n)
    /\ i = Len(records) =>
         Clear(ledger, publicKey, IF cursor = None THEN 0 ELSE cursor - 1, records[i].n)

=============================================================================
