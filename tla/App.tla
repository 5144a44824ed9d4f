-------------------------------- MODULE App --------------------------------
(***************************************************************************)
(* The browser: the wallet session that every page shares, and one page     *)
(* under it.  App.tsx mounts the page of the route inside WalletProvider.   *)
(* A behaviour is a visit to one of them, from the moment it is opened: the *)
(* pages not open are closed and take no step.                              *)
(***************************************************************************)
EXTENDS WalletSession, Sequences

CONSTANTS
  Attempts, Amounts, Pairs, Native, Destinations, MaxQuotes, MaxSequence,   \* SendPage
  NewBoxes, Relatives,                                                      \* FamilySetup
  Boxes, Creator, Power, Flows,                                             \* FamilyPage
  Owners, Wallet, Donations, MaxPolls,                                      \* PoolPage
  PageSize, MaxOperations,                                                    \* HistoryPage
  Rules, Calls, Period, MaxDays,                                            \* Recurring
  MaxFailures                                                               \* answers lost

VARIABLES
  route,                                                     \* the page open
  form, quotes, quote, quoteLoading, quoteError, attempt, sequence,
  extra, creation, account, listed,
  page, dash, slot, old, flow, loads,
  contract, row, progress, detail, vault, failed, timer, reads, asset, trust, opening, busy, status,
  vaultBusy, donation,
  ledger, records, cursor, requests, replaced,
  today, rules, shown, busyId, lists, call,
  current, loading, failures                                 \* of the page open

sendOnly == <<form, quotes, quote, quoteLoading, quoteError, attempt, sequence>>
setupOnly == <<extra, creation, account, listed>>
familyOnly == <<page, dash, slot, old, flow, loads>>
poolOnly == <<contract, row, progress, detail, vault, failed, timer, reads, asset, trust, opening,
              busy, status, vaultBusy, donation>>
historyOnly == <<ledger, records, cursor, requests, replaced>>
profileOnly == <<today, rules, shown, busyId, lists, call>>

vars == <<route, sendOnly, setupOnly, familyOnly, poolOnly, historyOnly, profileOnly, current, loading,
          failures, sessionVars>>

Send == INSTANCE SendPage
Setup == INSTANCE FamilySetup WITH Boxes <- NewBoxes
Family == INSTANCE FamilyPage
Pool == INSTANCE PoolPage
History == INSTANCE HistoryPage
Profile == INSTANCE Recurring

\* null is none of what it stands for the absence of, and bounds are numbers.
ASSUME NullAssumption ==
  /\ None \notin Accounts /\ None \notin Attempts /\ None \notin NewBoxes /\ None \notin Boxes
  /\ None \notin Flows /\ None \notin Rules /\ None \notin Calls /\ None \notin Nat
  /\ None \notin Profile!Row /\ None # Wallet /\ None \notin Family!Document
\* The creators of the boxes are of this Freighter too.
ASSUME CreatorAssumption == Creator \in [Boxes -> Accounts]
\* Donations are numbered as they begin.
ASSUME DonationAssumption == Donations \subseteq Nat
ASSUME BoundAssumption ==
  /\ MaxSwitches \in Nat /\ MaxReloads \in Nat /\ MaxFailures \in Nat /\ MaxOperations \in Nat
  /\ MaxDays \in Nat /\ Period \in Nat /\ PageSize \in Nat \ {0}

\* "none" is a page that moves nothing: only the session lives under it.
Routes == {"none", "send", "setup", "family", "pool", "history", "profile"}

----------------------------------------------------------------------------
(* Pages that are not open *)

SendClosed ==
  /\ form = None /\ quotes = {} /\ quote = None /\ quoteLoading = FALSE /\ quoteError = FALSE
  /\ attempt = None /\ sequence = None

SetupClosed == extra = None /\ creation = None /\ account = None /\ listed = None

FamilyClosed ==
  /\ page = Family!NoPage /\ dash = Family!NoDash /\ slot = None /\ old = {}
  /\ flow = [k \in Flows |-> Family!Free] /\ loads = {}

PoolClosed ==
  /\ contract = "none" /\ row = FALSE /\ progress = "short" /\ detail = None /\ vault = None /\ failed = FALSE
  /\ timer = FALSE /\ reads = {} /\ asset = "XLM" /\ trust = None
  /\ opening = None /\ busy = FALSE /\ status = "idle" /\ vaultBusy = "idle"
  /\ donation = [k \in Donations |-> Pool!Free]

HistoryClosed == ledger = None /\ records = <<>> /\ cursor = None /\ requests = {} /\ replaced = FALSE

ProfileClosed ==
  today = None /\ rules = None /\ shown = {} /\ busyId = None /\ lists = {} /\ call = None

\* What the session and the page open may hold.
TypeOK ==
  /\ SessionTypeOK
  /\ route = "send" => Send!TypeOK
  /\ route = "setup" => Setup!TypeOK
  /\ route = "family" => Family!TypeOK
  /\ route = "pool" => Pool!TypeOK
  /\ route = "history" => History!TypeOK
  /\ route = "profile" => Profile!TypeOK

----------------------------------------------------------------------------
(* A visit *)

Opens(r) ==
  /\ route = r
  /\ route # "send" => SendClosed
  /\ route # "setup" => SetupClosed
  /\ route # "family" => FamilyClosed
  /\ route # "pool" => PoolClosed
  /\ route # "history" => HistoryClosed
  /\ route # "profile" => ProfileClosed
  /\ route \notin {"send", "setup"} => current = None
  /\ route \notin {"pool", "history"} => loading = FALSE
  /\ route \notin {"send", "setup", "pool", "profile"} => failures = 0
  /\ CASE route = "none" -> SessionInit
       [] route = "send" -> Send!Init
       [] route = "setup" -> Setup!Init
       [] route = "family" -> Family!Init
       [] route = "pool" -> Pool!Init
       [] route = "history" -> History!Init
       [] route = "profile" -> Profile!Init

Init == \E r \in Routes : Opens(r)

SessionStep ==
  /\ route = "none" /\ (Stays \/ Reload)
  /\ UNCHANGED <<sendOnly, setupOnly, familyOnly, poolOnly, historyOnly, profileOnly, current, loading,
                 failures>>

SendStep ==
  /\ route = "send" /\ Send!Next
  /\ UNCHANGED <<setupOnly, familyOnly, poolOnly, historyOnly, profileOnly, loading>>

SetupStep ==
  /\ route = "setup" /\ Setup!Next
  /\ UNCHANGED <<sendOnly, familyOnly, poolOnly, historyOnly, profileOnly, loading>>

FamilyStep ==
  /\ route = "family" /\ Family!Next
  /\ UNCHANGED <<sendOnly, setupOnly, poolOnly, historyOnly, profileOnly, current, loading, failures>>

PoolStep ==
  /\ route = "pool" /\ Pool!Next
  /\ UNCHANGED <<sendOnly, setupOnly, familyOnly, historyOnly, profileOnly, current>>

HistoryStep ==
  /\ route = "history" /\ History!Next
  /\ UNCHANGED <<sendOnly, setupOnly, familyOnly, poolOnly, profileOnly, current, failures>>

ProfileStep ==
  /\ route = "profile" /\ Profile!Next
  /\ UNCHANGED <<sendOnly, setupOnly, familyOnly, poolOnly, historyOnly, current, loading>>

Next ==
  /\ SessionStep \/ SendStep \/ SetupStep \/ FamilyStep \/ PoolStep \/ HistoryStep \/ ProfileStep
  /\ route' = route

\* The window gets the focus again and again and Freighter answers; requests are answered,
\* Freighter's windows too; the page of a pool is visible again and again.
Fairness == Attended /\ Family!Served /\ Pool!Answered /\ SF_reads(route = "pool" /\ Pool!Poll)

Spec == Init /\ [][Next]_vars /\ Fairness

----------------------------------------------------------------------------
(* What each page promises *)

QuoteFresh == route = "send" => Send!QuoteFresh
PaidOnce == route = "send" => Send!PaidOnce
BoxesGoverned == route = "setup" => Setup!BoxesGoverned
FollowUpMatches == route = "family" => Family!FollowUpMatches
MoneySettled == route = "family" => Family!MoneySettled
BusyEnds == Family!BusyEnds
ModeSettles == Pool!ModeSettles
StepperHonest == route = "pool" => Pool!StepperHonest
HistoryContiguous == route = "history" => History!HistoryContiguous
RulesKept == route = "profile" => Profile!RulesKept

=============================================================================
