----------------------------- MODULE FamilyPage -----------------------------
(***************************************************************************)
(* The page of the family boxes (FamilyPoolPage.tsx): the list, its tabs,   *)
(* and the dashboard of the box shown, whose buttons start handlers that    *)
(* build a transaction, have it signed and submit it, or keep it in the     *)
(* one slot of localStorage until another relative signs.                   *)
(*                                                                          *)
(* A change of tab keeps the dashboard and changes the box under its        *)
(* handlers; another account or the form of a new box takes the dashboard   *)
(* away, and its handlers go on without it: what they set in it is lost,    *)
(* what they store and what they tell the page is not.                      *)
(***************************************************************************)
EXTENDS WalletSession

CONSTANTS
  Boxes,     \* boxes of the family
  Creator,   \* Creator[b]
  Power,     \* Power[b][a]: "deposit" and "withdraw" of the role of a in b, "sign" of a signer
  Flows      \* bound: handlers started

VARIABLES
  page,      \* FamilyContent: what it shows, the boxes it has, the tab selected
  dash,      \* FamilyDashboard: its box and its state, or NoDash
  slot,      \* localStorage: the transaction that waits for signatures
  old,       \* boxes whose creator cannot change the signers alone
  flow,      \* flow[k]: a handler
  loads      \* the dashboard's loads on their way: of which box, and what each waits for

vars == <<page, dash, slot, old, flow, loads, sessionVars>>

NoPage == [view |-> "gate", pools |-> {}, selected |-> None]
NoDash == [box |-> None]
Free == [at |-> "free"]
Kinds == {"deposit", "spend", "trustline", "signer", "power", "save", "limits", "sign"}
Steps == {"calling", "signing", "submitting", "followUp", "refreshing", "blend", "done",
          "stopped"}

\* What the dashboard shows of a box, in the order in which a load asks for it.
Parts == {"balance", "blend", "moves"}
Then == [balance |-> "blend", blend |-> "moves", moves |-> "end"]
Loads == [box : Boxes, at : Parts]

\* A transaction that waits for signatures, named by the handler that made it, if it is
\* one of this visit.
Document == [id : Flows \cup {None}, kind : Kinds, box : Boxes, by : SUBSET Accounts]

\* What the page, its handlers and the slot may hold.
TypeOK ==
  /\ SessionTypeOK
  /\ page \in [view : {"gate", "loading", "error", "form", "box"}, pools : SUBSET Boxes,
               selected : Boxes \cup {None}]
  /\ dash = NoDash \/
       /\ dash.box \in page.pools /\ dash.pending \in Document \cup {None}
       /\ {dash.busy, dash.limitsBusy} \subseteq BOOLEAN
       /\ dash.followUp \in Flows \cup {None} /\ dash.money \in [Parts -> Boxes \cup {None}]
       /\ dash.edits \subseteq Boxes
  /\ slot \in Document \cup {None}
  /\ old \subseteq Boxes
  /\ \A k \in Flows : flow[k] = Free \/
       /\ flow[k].at \in Steps /\ flow[k].host \in {"dashboard", "page", "gone"}
       /\ flow[k].kind \in Kinds /\ flow[k].box \in Boxes /\ flow[k].key \in Accounts
       /\ flow[k].doc \in Document \cup {None} /\ {flow[k].ref, flow[k].after} \subseteq Flows \cup {None}
  /\ loads \subseteq Loads

----------------------------------------------------------------------------
(* Rendering *)

Shown(p) == IF p.view = "box" THEN p.selected ELSE None

\* The effect of a dashboard whose box has changed: the former load is cancelled, and does
\* nothing when it arrives.
CancelledNone(l) == l
Cancelled(l) == {}

PendingOf(b, s) == IF s # None /\ s.box = b THEN s ELSE None

Opened(b, s) ==
  [box |-> b, pending |-> PendingOf(b, s), busy |-> FALSE, limitsBusy |-> FALSE,
   followUp |-> None, money |-> [part \in Parts |-> None], edits |-> {}]

\* The handlers f of a page that becomes p; a dashboard taken away leaves its follow-up
\* with the handler that it ran.
Rehosted(f, p, d) ==
  [k \in Flows |->
     IF f[k] = Free THEN Free
     ELSE IF p.view = "gate" THEN [f[k] EXCEPT !.host = "gone"]
     ELSE IF Shown(p) = None /\ f[k].host = "dashboard"
       THEN [f[k] EXCEPT !.host = "page", !.ref = d.followUp]
     ELSE f[k]]

\* The page, the dashboard, the slot and the handlers, as an action leaves them, rendered.
Render(p, d, s, f) ==
  /\ page' = p /\ slot' = s /\ flow' = Rehosted(f, p, d)
  /\ dash' = IF Shown(p) = None THEN NoDash
             ELSE IF d = NoDash THEN Opened(Shown(p), s)
             ELSE IF d.box # Shown(p) THEN [d EXCEPT !.box = Shown(p), !.pending = PendingOf(Shown(p), s)]
             ELSE d
  /\ loads' = IF Shown(p) = dash.box THEN loads
              ELSE Cancelled(loads) \cup
                     {[box |-> b, at |-> "balance"] : b \in {Shown(p)} \ {None}}

\* remember: the box given is the one shown, where the page is the handler's still.
Remember(b, host) ==
  IF host = "gone" THEN page
  ELSE [view |-> IF page.view = "form" THEN "box" ELSE page.view,
        pools |-> page.pools \cup {b}, selected |-> b]

----------------------------------------------------------------------------
(* The list and the tabs *)

Listed(a) == {b \in Boxes : Power[b][a] # {}}

ListArrives ==
  /\ page.view = "loading"
  /\ \/ /\ Listed(publicKey) # {}
        /\ \E b \in IF page.selected \in Listed(publicKey) THEN {page.selected} ELSE Listed(publicKey) :
             Render([view |-> "box", pools |-> Listed(publicKey), selected |-> b], dash, slot, flow)
     \/ /\ Listed(publicKey) = {}
        /\ Render([view |-> "form", pools |-> {}, selected |-> None], dash, slot, flow)
     \/ Render([page EXCEPT !.view = "error"], dash, slot, flow)
  /\ UNCHANGED <<old, sessionVars>>

\* A tab, or "Cancelar" in the form.
Tab(b) ==
  /\ page.view \in {"form", "box"} /\ b \in page.pools /\ b # Shown(page)
  /\ Render([page EXCEPT !.view = "box", !.selected = b], dash, slot, flow)
  /\ UNCHANGED <<old, sessionVars>>

NewBox ==
  /\ page.view = "box"
  /\ Render([page EXCEPT !.view = "form"], dash, slot, flow)
  /\ UNCHANGED <<old, sessionVars>>

\* getAccountBalance, then getBlendPosition, then getPaymentHistory: each is shown, or nothing
\* in its place, and the load goes on.
LoadArrives(x) ==
  /\ loads' = (loads \ {x}) \cup ({[x EXCEPT !.at = Then[x.at]]} \cap Loads)
  /\ dash' \in IF dash = NoDash THEN {dash} ELSE {[dash EXCEPT !.money[x.at] = m] : m \in {x.box, None}}
  /\ UNCHANGED <<page, slot, old, flow, sessionVars>>

----------------------------------------------------------------------------
(* The buttons of the dashboard *)

Mine(right) == right \in Power[dash.box][publicKey]
IsCreator == publicKey = Creator[dash.box]
Only(kind, condition) == IF condition THEN {kind} ELSE {}

FundButtons ==
  Only("deposit", Mine("deposit")) \cup Only("spend", Mine("withdraw"))
    \cup Only("trustline", Mine("withdraw"))

WalletButtons ==
  Only("signer", IsCreator) \cup Only("save", IsCreator /\ dash.edits # {})
    \cup Only("power", IsCreator /\ dash.box \in old)

LimitButtons == Only("limits", IsCreator)

PendingButtons ==
  IF dash.pending = None THEN {}
  ELSE {"discard"} \cup Only("sign", Mine("sign") /\ publicKey \notin dash.pending.by)

\* What a handler waits for first: the signature of a transaction that is built, or the box
\* with a row of it changed.  A depositor is a row alone, and so are a role and a limit;
\* whoever withdraws is a signer of the ledger too.
Waits == [kind \in Kinds |-> CASE kind = "limits" -> {"calling"}
                               [] kind \in {"signer", "save"} -> {"calling", "signing"}
                               [] OTHER -> {"signing"}]

\* A button that is not disabled starts a handler of the box shown.
Begins(k, kind) ==
  /\ flow[k] = Free
  /\ IF kind = "limits" THEN ~ dash.limitsBusy ELSE ~ dash.busy
  /\ \E at \in Waits[kind] :
       flow' = [flow EXCEPT ![k] =
         [at |-> at, host |-> "dashboard", kind |-> kind, box |-> dash.box, key |-> publicKey,
          doc |-> IF kind = "sign" THEN dash.pending ELSE None, ref |-> None, after |-> None]]
  /\ dash' = IF kind = "limits" THEN [dash EXCEPT !.limitsBusy = TRUE] ELSE [dash EXCEPT !.busy = TRUE]
  /\ UNCHANGED <<page, slot, old, loads, sessionVars>>

\* The forms' checks passed; a form that fails them changes nothing here.
Deposit(k) == "deposit" \in FundButtons /\ Begins(k, "deposit")

\* startSignedFlow: a withdrawal, a supply to Blend or a withdrawal from it.
SignedFlow(k) == "spend" \in FundButtons /\ Begins(k, "spend")

Trustline(k) == "trustline" \in FundButtons /\ Begins(k, "trustline")

AddSigner(k) == "signer" \in WalletButtons /\ Begins(k, "signer")

SetCreatorPower(k) == "power" \in WalletButtons /\ Begins(k, "power")

SaveEdits(k) == "save" \in WalletButtons /\ Begins(k, "save")

SaveLimits(k) == "limits" \in LimitButtons /\ Begins(k, "limits")

AddPendingSignature(k) == "sign" \in PendingButtons /\ Begins(k, "sign")

Start(k) ==
  /\ dash # NoDash
  /\ \/ Deposit(k) \/ SignedFlow(k) \/ Trustline(k) \/ AddSigner(k) \/ SetCreatorPower(k)
     \/ SaveEdits(k) \/ SaveLimits(k) \/ AddPendingSignature(k)

\* The creator edits a member, or takes the edit back: a nickname under a handler too.  Edits
\* are kept when the tab changes.
EditMember ==
  /\ dash # NoDash /\ IsCreator
  /\ \E e \in {dash.edits \cup {dash.box}, dash.edits \ {dash.box}} : dash' = [dash EXCEPT !.edits = e]
  /\ UNCHANGED <<page, slot, old, flow, loads, sessionVars>>

DiscardPending ==
  /\ dash # NoDash /\ "discard" \in PendingButtons /\ ~ dash.busy
  /\ slot' = None
  /\ dash' = [dash EXCEPT !.pending = None, !.followUp = None]
  /\ UNCHANGED <<page, old, flow, loads, sessionVars>>

----------------------------------------------------------------------------
(* A handler goes on *)

Hosted(k) == flow[k].host = "dashboard"

\* The finally of a handler, which the button of an old box does not have; a save drops the
\* edits that it tried, and keeps those that wait for another.
FinallyNotSave(k, d) == {IF flow[k].kind \in {"power", "save"} THEN d ELSE [d EXCEPT !.busy = FALSE]}
Finally(k, d) ==
  CASE flow[k].kind = "limits" -> {[d EXCEPT !.limitsBusy = FALSE]}
    [] flow[k].kind = "power" -> {d}
    [] flow[k].kind = "save" -> {[d EXCEPT !.busy = FALSE, !.edits = e] : e \in {{}, d.edits}}
    [] OTHER -> {[d EXCEPT !.busy = FALSE]}

\* startSetSignerFlow clears the follow-up when it fails; a change of the rows alone has none.
SetsSigner(k) == flow[k].kind \in {"signer", "power", "save"}
ErrorFollowUpKept(k, d) == d
ErrorFollowUp(k, d) ==
  IF SetsSigner(k) /\ flow[k].at # "calling" THEN [d EXCEPT !.followUp = None] ELSE d

At(k, at) == [flow EXCEPT ![k].at = at]
Done(k) == [flow EXCEPT ![k] = [flow[k] EXCEPT !.at = "done", !.doc = None, !.ref = None,
                                               !.after = None]]
Dash(k, d) == IF Hosted(k) THEN d ELSE dash

\* The dashboards that handler k may leave when it ends with d in it.
Left(k, d) == IF Hosted(k) THEN Finally(k, d) ELSE {dash}

\* The handler ends with an error: nothing built, a signature refused, a rejection.
Fails(k) ==
  /\ flow[k].at \in {"calling", "signing", "submitting", "followUp"}
  /\ \E d \in Left(k, ErrorFollowUp(k, dash)) : Render(page, d, slot, Done(k))
  /\ UNCHANGED <<old, sessionVars>>

\* A change of the rows alone is saved.  The desk saves those it has one by one, failed or
\* not, and then starts one that the ledger must know.
Called(k) ==
  /\ flow[k].at = "calling"
  /\ \/ \E d \in Left(k, dash) : Render(Remember(flow[k].box, flow[k].host), d, slot, Done(k))
     \/ /\ flow[k].kind = "save"
        /\ \E p \in {page, Remember(flow[k].box, flow[k].host)} : Render(p, dash, slot, At(k, "signing"))
  /\ UNCHANGED <<old, sessionVars>>

\* The transaction is built and signed; a change of signers leaves what has to
\* follow it in the dashboard.
Signed(k) ==
  LET f == flow[k]
      doc == IF f.kind = "sign" THEN [f.doc EXCEPT !.by = @ \cup {f.key}]
             ELSE [id |-> k, kind |-> f.kind, box |-> f.box, by |-> {f.key}]
  IN
    /\ f.at = "signing"
    /\ flow' = [flow EXCEPT ![k] = [f EXCEPT !.at = "submitting", !.doc = doc,
                  !.ref = IF SetsSigner(k) /\ ~ Hosted(k) THEN k ELSE f.ref]]
    /\ dash' = IF SetsSigner(k) THEN Dash(k, [dash EXCEPT !.followUp = k]) ELSE dash
    /\ UNCHANGED <<page, slot, old, loads, sessionVars>>

----------------------------------------------------------------------------
(* submitOrKeep *)

DocOf(k) == flow[k].doc
ChangesSigners(doc) == doc.kind \in {"signer", "power", "save"}
FollowUpOf(k) == IF Hosted(k) THEN dash.followUp ELSE flow[k].ref

\* The deposit of a member is not a transaction of the box.
Deposited(k) ==
  /\ flow[k].at = "submitting" /\ flow[k].kind = "deposit"
  /\ flow' = At(k, "refreshing")
  /\ UNCHANGED <<page, dash, slot, old, loads, sessionVars>>

\* The transaction waits in the slot, whatever was there.
MissingSignatures(k) ==
  /\ flow[k].at = "submitting" /\ flow[k].kind # "deposit"
  /\ \E d \in Left(k, [dash EXCEPT !.pending = DocOf(k)]) : Render(page, d, DocOf(k), Done(k))
  /\ UNCHANGED <<old, sessionVars>>

\* The signers have changed and the box could not be read again.
NotResynced(k) ==
  /\ flow[k].at = "submitting" /\ flow[k].kind # "deposit" /\ ChangesSigners(DocOf(k))
  /\ \E d \in Left(k, [dash EXCEPT !.pending = None]) :
       Render(Remember(DocOf(k).box, flow[k].host), d, None, Done(k))
  /\ UNCHANGED <<old, sessionVars>>

\* The follow-up is taken by whatever succeeds, and run after a change of signers.
Submitted(k) ==
  LET f == flow[k]
      runs == ChangesSigners(f.doc) /\ FollowUpOf(k) # None
  IN
    /\ f.at = "submitting" /\ f.kind # "deposit"
    /\ Render(IF ChangesSigners(f.doc) THEN Remember(f.doc.box, f.host) ELSE page,
              Dash(k, [dash EXCEPT !.pending = None, !.followUp = None]), None,
              [flow EXCEPT ![k] = [f EXCEPT !.at = IF runs THEN "followUp" ELSE "refreshing",
                                            !.ref = None, !.after = FollowUpOf(k)]])
    /\ old' = IF f.doc.kind = "power" THEN old \ {f.doc.box} ELSE old
    /\ UNCHANGED sessionVars

\* The rows of the members follow what the ledger has.
FollowUp(k) ==
  /\ flow[k].at = "followUp"
  /\ \E p \in {page, Remember(flow[flow[k].after].box, flow[k].host)} :
       Render(p, dash, slot, At(k, "refreshing"))
  /\ UNCHANGED <<old, sessionVars>>

\* refreshPoolMoney, which nothing cancels: the box is the one the handler began with.
RefreshedBalance(k) ==
  /\ flow[k].at = "refreshing"
  /\ \E m \in {flow[k].box, None} : dash' = Dash(k, [dash EXCEPT !.money["balance"] = m])
  /\ flow' = At(k, "blend")
  /\ UNCHANGED <<page, slot, old, loads, sessionVars>>

RefreshedBlend(k) ==
  /\ flow[k].at = "blend"
  /\ \E m \in {flow[k].box, None} :
       \E d \in Left(k, [dash EXCEPT !.money["blend"] = m]) : Render(page, d, slot, Done(k))
  /\ Refresh(flow[k].key)
  /\ UNCHANGED <<old, active, publicKey, stored, available, connecting, lookups, balances,
                 switches, reloads>>

----------------------------------------------------------------------------
(* The session *)

Loading == [view |-> "loading", pools |-> page.pools, selected |-> page.selected]

SessionMoves ==
  /\ Stays
  /\ IF publicKey' = publicKey THEN UNCHANGED <<page, dash, slot, flow, loads>>
     ELSE Render(IF publicKey' = None THEN NoPage ELSE Loading, dash, slot, flow)
  /\ UNCHANGED old

PageReloads ==
  /\ Reload
  /\ page' = IF stored = None THEN NoPage ELSE [NoPage EXCEPT !.view = "loading"]
  /\ dash' = NoDash /\ loads' = {}
  /\ flow' = [k \in Flows |-> IF flow[k] = Free THEN Free
                              ELSE [flow[k] EXCEPT !.at = IF @ = "done" THEN @ ELSE "stopped",
                                                   !.host = "gone"]]
  /\ UNCHANGED <<slot, old>>

\* The page is mounted anew; what the former one left running goes on without it.
PageRevisited ==
  /\ Revisit
  /\ page' = IF publicKey = None THEN NoPage ELSE [NoPage EXCEPT !.view = "loading"]
  /\ dash' = NoDash /\ loads' = {}
  /\ flow' = Rehosted(flow, NoPage, dash)
  /\ UNCHANGED <<slot, old>>

\* What an earlier visit may have left waiting: a change of signers.
Leftover ==
  {[id |-> None, kind |-> "signer", box |-> b, by |-> {Creator[b]}] : b \in Boxes}

Init ==
  /\ SessionInit
  /\ page = IF stored = None THEN NoPage ELSE [NoPage EXCEPT !.view = "loading"]
  /\ dash = NoDash /\ slot \in {None} \cup Leftover /\ old \in SUBSET Boxes
  /\ flow = [k \in Flows |-> Free] /\ loads = {}

Goes(k) ==
  \/ Fails(k) \/ Called(k) \/ Signed(k) \/ Deposited(k) \/ MissingSignatures(k)
  \/ NotResynced(k) \/ Submitted(k) \/ FollowUp(k)
  \/ RefreshedBalance(k) \/ RefreshedBlend(k)

Next ==
  \/ ListArrives \/ NewBox \/ EditMember \/ DiscardPending \/ \E b \in Boxes : Tab(b)
  \/ \E x \in loads : LoadArrives(x)
  \/ \E k \in Flows : Goes(k) \/ Start(k)
  \/ SessionMoves \/ PageReloads \/ PageRevisited

Spec == Init /\ [][Next]_vars

\* Every request is answered, and Freighter's window is answered or closed.
Served == \A k \in Flows : WF_vars(Goes(k))

----------------------------------------------------------------------------
(* Properties *)

Ended(k) == flow[k].at \in {"free", "done", "stopped"}

\* The dashboard's buttons come back, whatever its handlers meet: a box that changes under
\* them, a signature refused, a box that could not be read again.  One handler never gives
\* them back: the button of an old box.  (FamilyPoolPage.tsx 797-799, 873-875, 961-963,
\* 1048-1050, 1259-1261; 1791-1799 has no finally.)
BusyEnds ==
  LET gone == \E k \in Flows : flow[k] # Free /\ Hosted(k) /\ flow[k].kind = "power"
  IN  dash # NoDash /\ dash.busy /\ ~ gone ~> dash = NoDash \/ ~ dash.busy

\* What follows a change of signers in the rows follows its own transaction, not the one
\* that was in the slot when it failed or was discarded; unless a dashboard that is gone put
\* that transaction in the slot, whether its handler had made it or only signed it.
\* (FamilyPoolPage.tsx 640-643, 996, 1006, 1216-1220.)
FollowUpMatches ==
  \A k \in Flows :
    flow[k].at = "followUp" =>
      \/ flow[k].after = flow[k].doc.id
      \/ \E j \in Flows :
           /\ flow[j] # Free /\ ~ Hosted(j)
           /\ \/ j = flow[k].doc.id
              \/ flow[k].doc.id = None /\ flow[j].kind = "sign" /\ flow[j].at = "done"

\* A load waits for a part of what is shown, or for one that it asks for before it.
Later == [balance |-> {"blend", "moves"}, blend |-> {"moves"}, moves |-> {}]
Awaited(part, l) == \E x \in l : part = x.at \/ part \in Later[x.at]

\* Where a handler is once refreshPoolMoney has shown a part; the payments it leaves.
Past == [balance |-> {"blend", "done"}, blend |-> {"done"}, moves |-> {}]

\* What no load waits for and is shown under a box is that box's, or what a handler begun in
\* another box of this dashboard refreshed.  (FamilyPoolPage.tsx 658-701.)
MoneySettled ==
  dash # NoDash =>
    \A part \in Parts :
      ~ Awaited(part, loads) /\ dash.money[part] \notin {None, dash.box} =>
        \E k \in Flows : flow[k].at \in Past[part] /\ Hosted(k) /\ flow[k].box = dash.money[part]

=============================================================================
