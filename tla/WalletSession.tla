--------------------------- MODULE WalletSession ---------------------------
(***************************************************************************)
(* The browser's wallet session (WalletContext.tsx over freighter.ts).      *)
(*                                                                          *)
(* Freighter, the extension, has one active account, which its user changes *)
(* there.  The page keeps the key it believes in (publicKey), the copy that *)
(* survives a reload (stored), and the balances of an account.  It asks     *)
(* Freighter and Horizon without cancelling what it asked before: answers   *)
(* arrive late, in any order, also after the session was closed.            *)
(***************************************************************************)
EXTENDS Naturals, FiniteSets

CONSTANTS
  Accounts,      \* the accounts of this Freighter
  None,          \* null
  MaxSwitches,   \* bound: changes of the active account
  MaxReloads,    \* bound: times the page is loaded or mounted again
  MaxLookups     \* bound: answers of Freighter on their way

VARIABLES
  active,      \* Freighter's active account
  publicKey,   \* the session's key
  stored,      \* localStorage[STORAGE_KEY]
  available,   \* Freighter detected: "unknown" until it answers
  connecting,
  lookups,     \* getActiveAccount calls in flight: who asked, what was answered
  asking,      \* accounts whose balances are on their way
  balances,    \* the account whose balances are shown
  switches, reloads

sessionVars == <<active, publicKey, stored, available, connecting, lookups, asking, balances,
                 switches, reloads>>

Keys == Accounts \cup {None}

\* What the session may hold.
SessionTypeOK ==
  /\ active \in Accounts /\ publicKey \in Keys /\ stored \in Keys
  /\ available \in {"unknown", "yes", "no"} /\ connecting \in BOOLEAN
  /\ lookups \subseteq [key : Accounts, answer : Keys]
  /\ asking \subseteq Accounts /\ balances \in Keys
  /\ switches \in 0..MaxSwitches /\ reloads \in 0..MaxReloads

\* A visit begins with what an earlier one left in localStorage.
SessionInit ==
  /\ active \in Accounts
  /\ stored \in Keys /\ publicKey = stored
  /\ available = "unknown" /\ connecting = FALSE
  /\ lookups = {}
  /\ asking = {stored} \ {None} /\ balances = None
  /\ switches = 0 /\ reloads = 0

----------------------------------------------------------------------------
(* Freighter and the reload of the page *)

SwitchAccount ==
  /\ switches < MaxSwitches
  /\ switches' = switches + 1
  /\ active' \in Accounts \ {active}
  /\ UNCHANGED <<publicKey, stored, available, connecting, lookups, asking, balances, reloads>>

Reload ==
  /\ reloads < MaxReloads
  /\ reloads' = reloads + 1
  /\ publicKey' = stored
  /\ available' = "unknown" /\ connecting' = FALSE
  /\ lookups' = {}
  /\ asking' = {stored} \ {None} /\ balances' = None
  /\ UNCHANGED <<active, stored, switches>>

\* The page is left and opened again, or the language changes (App.tsx keys its routes by it):
\* the session stays, the page is mounted anew.  Counted with the reloads.
Revisit ==
  /\ reloads < MaxReloads
  /\ reloads' = reloads + 1
  /\ UNCHANGED <<active, publicKey, stored, available, connecting, lookups, asking, balances, switches>>

\* isFreighterAvailable at mount: an extension that answers late counts as missing.
Detect ==
  /\ available = "unknown"
  /\ available' \in {"yes", "no"}
  /\ UNCHANGED <<active, publicKey, stored, connecting, lookups, asking, balances,
                 switches, reloads>>

----------------------------------------------------------------------------
(* Connect and disconnect *)

\* setPublicKey and localStorage.setItem; the balances effect follows the key.
HoldsInStorageOnly(key) == stored' = key /\ UNCHANGED <<publicKey, asking, balances>>
Holds(key) ==
  /\ publicKey' = key /\ stored' = key
  /\ asking' = asking \cup {key} /\ UNCHANGED balances

\* The button stands where there is no session; it offers the installer instead when
\* Freighter was not detected.
ConnectBegin ==
  /\ publicKey = None /\ available # "no" /\ ~ connecting
  /\ connecting' = TRUE
  /\ UNCHANGED <<active, publicKey, stored, available, lookups, asking, balances,
                 switches, reloads>>

Granted ==
  /\ connecting
  /\ connecting' = FALSE
  /\ Holds(active)
  /\ UNCHANGED <<active, available, lookups, switches, reloads>>

\* Not installed after all, refused, or no address in the answer.
Refused ==
  /\ connecting
  /\ connecting' = FALSE
  /\ UNCHANGED <<active, publicKey, stored, available, lookups, asking, balances,
                 switches, reloads>>

Disconnect ==
  /\ publicKey # None
  /\ publicKey' = None /\ stored' = None
  /\ balances' = None
  /\ UNCHANGED <<active, available, connecting, lookups, asking, switches, reloads>>

----------------------------------------------------------------------------
(* The focus listener *)

Focus ==
  /\ publicKey # None
  /\ Cardinality(lookups) < MaxLookups
  /\ lookups' = lookups \cup {[key |-> publicKey, answer |-> None]}
  /\ UNCHANGED <<active, publicKey, stored, available, connecting, asking, balances,
                 switches, reloads>>

\* Freighter reads its active account; the answer is on its way.
Answer(l) ==
  /\ l.answer = None
  /\ lookups' = (lookups \ {l}) \cup {[l EXCEPT !.answer = active]}
  /\ UNCHANGED <<active, publicKey, stored, available, connecting, asking, balances,
                 switches, reloads>>

\* The answer is compared with the key of who asked, not with the present one.
Deliver(l) ==
  /\ l.answer # None
  /\ lookups' = lookups \ {l}
  /\ IF l.answer # l.key THEN Holds(l.answer) ELSE UNCHANGED <<publicKey, stored, asking, balances>>
  /\ UNCHANGED <<active, available, connecting, switches, reloads>>

\* getActiveAccount gives null: an old Freighter, or an error.
Unanswered(l) ==
  /\ l.answer = None
  /\ lookups' = lookups \ {l}
  /\ UNCHANGED <<active, publicKey, stored, available, connecting, asking, balances,
                 switches, reloads>>

----------------------------------------------------------------------------
(* Balances *)

\* refreshBalances, which a page calls when it has moved money: for the key that the
\* session had when the handler began.
Refresh(key) == asking' = asking \cup {key}

\* Whoever's balances arrive are shown.
BalancesArrive(a) ==
  /\ a \in asking
  /\ asking' = asking \ {a}
  /\ balances' \in {a, None}
  /\ UNCHANGED <<active, publicKey, stored, available, connecting, lookups, switches, reloads>>

\* The page's component stays, whatever the session does, but for a reload.
Stays ==
  \/ SwitchAccount \/ Detect
  \/ ConnectBegin \/ Granted \/ Refused \/ Disconnect
  \/ Focus \/ \E l \in lookups : Answer(l) \/ Deliver(l) \/ Unanswered(l)
  \/ \E a \in Accounts : BalancesArrive(a)

SessionSpec == SessionInit /\ [][Stays \/ Reload]_sessionVars

\* The window gets the focus again and again, and Freighter answers.
Attended ==
  /\ SF_sessionVars(Focus)
  /\ SF_sessionVars(\E l \in lookups : Answer(l))
  /\ WF_sessionVars(\E l \in lookups : Deliver(l))

----------------------------------------------------------------------------
(* Properties *)

\* Once the user leaves Freighter on one account, a session is of that account or
\* closed: no late answer of an earlier question brings the old account back for good.
\* (WalletContext.tsx 73-78: the session follows the active account.)
Settles ==
  \A a \in Accounts : <>[](active = a) => <>[](publicKey \in {None, a})

=============================================================================
