------------------------- MODULE DonationSyncProofs -------------------------
(***************************************************************************)
(* Why the cached progress of a pool is the ledger's.  The row and every    *)
(* copy of it that a request works on say what the donations up to their    *)
(* own cursor add up to; the row's lock lets one request at a time work on  *)
(* a copy, which is never behind the row; and no operation before the       *)
(* pool's creation carries its short_code.                                  *)
(***************************************************************************)
EXTENDS DonationSync, SumTheorems

\* What a row says is what the ledger holds up to the row's cursor.
Counts(row) ==
  /\ row.count = Cardinality(Donations(row.cursor))
  /\ row.total = Given(Donations(row.cursor))

\* A row is not behind another one in anything.
AtLeast(row, before) ==
  /\ before.cursor <= row.cursor /\ before.count <= row.count
  /\ \A a \in Assets : before.total[a] <= row.total[a]

Working(r) == request[r].at # "idle"

Copies ==
  \A r \in Requests :
    Working(r) => created /\ Counts(request[r].row) /\ AtLeast(request[r].row, pool)

OneAtATime == \A r, s \in Requests : Working(r) /\ Working(s) => r = s

\* Before the pool exists nobody knows its short_code, and its row is empty.
Unnamed ==
  ~ created => pool = Nothing /\ \A k \in 1..Len(ledger) : ledger[k].memo # ShortCode

IInv == TypeOK /\ CountedOnce /\ Copies /\ OneAtATime /\ Unnamed

----------------------------------------------------------------------------
(* What donations add up to *)

\* What the operation at place k adds to asset a.
Share(k, a) == IF ledger[k].asset = a THEN ledger[k].amount ELSE 0

LEMMA ShareTyped ==
  ASSUME TypeOK, NEW k \in 1..Len(ledger), NEW a PROVE Share(k, a) \in Nat
<1>1. ledger[k] \in Operations
  BY DEF TypeOK
<1> QED
  BY <1>1, SyncAssumption DEF Share

\* The sums of a set of places, over any function that agrees on them.
LEMMA GivenIs ==
  ASSUME TypeOK, NEW n \in Nat, n <= Len(ledger), NEW places \in SUBSET (1..n), NEW a \in Assets
  PROVE  /\ IsFiniteSet(places)
         /\ Given(places)[a] = SumFunctionOnSet([k \in 1..n |-> Share(k, a)], places)
         /\ Given(places)[a] \in Nat
<1> DEFINE f == [k \in places |-> IF ledger[k].asset = a THEN ledger[k].amount ELSE 0]
           g == [k \in 1..n |-> Share(k, a)]
<1>1. IsFiniteSet(1..n)
  BY FS_Interval
<1>2. IsFiniteSet(places)
  BY <1>1, FS_Subset
<1>3. \A k \in places : f[k] = g[k] /\ f[k] \in Nat
  <2> SUFFICES ASSUME NEW k \in places PROVE f[k] = g[k] /\ f[k] \in Nat
    OBVIOUS
  <2>1. k \in 1..n /\ k \in 1..Len(ledger)
    BY DEF TypeOK
  <2>2. f[k] = Share(k, a) /\ g[k] = Share(k, a)
    BY <2>1 DEF Share
  <2> QED
    BY <2>1, <2>2, ShareTyped
<1>4. Given(places)[a] = SumFunctionOnSet(f, places)
  BY DEF Given
<1> HIDE DEF f, g
<1>5. SumFunctionOnSet(f, places) = SumFunctionOnSet(g, places)
  BY <1>2, <1>3, SumAgree
<1>6. SumFunctionOnSet(f, places) \in Nat
  BY <1>2, <1>3, SumNat
<1> QED
  BY <1>2, <1>4, <1>5, <1>6 DEF g

\* More donations, further on: they add what they add.
LEMMA GivenMore ==
  ASSUME TypeOK, NEW n \in Nat, n <= Len(ledger),
         NEW some \in SUBSET (1..n), NEW more \in SUBSET (1..n), some \cap more = {},
         NEW a \in Assets
  PROVE  Given(some \cup more)[a] = Given(some)[a] + Given(more)[a]
<1> DEFINE g == [k \in 1..n |-> Share(k, a)]
<1>1. \A k \in 1..n : g[k] \in Int
  BY ShareTyped DEF TypeOK
<1>2. some \cup more \in SUBSET (1..n)
  OBVIOUS
<1>3. /\ Given(some)[a] = SumFunctionOnSet(g, some) /\ IsFiniteSet(some)
      /\ Given(more)[a] = SumFunctionOnSet(g, more) /\ IsFiniteSet(more)
      /\ Given(some \cup more)[a] = SumFunctionOnSet(g, some \cup more)
  BY <1>2, GivenIs
<1> HIDE DEF g
<1>4. SumFunctionOnSet(g, some \cup more)
        = SumFunctionOnSet(g, some) + SumFunctionOnSet(g, more)
  BY <1>1, <1>3, SumUnion
<1> QED
  BY <1>3, <1>4

\* An operation that arrives leaves what was given before it.
LEMMA AppendKeeps ==
  ASSUME TypeOK, NEW op \in Operations, ledger' = Append(ledger, op),
         NEW n \in Nat, n <= Len(ledger)
  PROVE  /\ Donations(n)' = Donations(n)
         /\ Given(Donations(n))' = Given(Donations(n))
<1>1. \A k \in 1..n : ledger'[k] = ledger[k]
  BY DEF TypeOK
<1>2. Donations(n)' = Donations(n) /\ Donations(n) \subseteq 1..n
  BY <1>1 DEF Donations, Donation, Incoming
<1>3. \A k \in Donations(n) : ledger'[k] = ledger[k]
  BY <1>1, <1>2
<1>4. Given(Donations(n))' = Given(Donations(n))
  <2>1. \A a : [k \in Donations(n) |-> IF ledger'[k].asset = a THEN ledger'[k].amount ELSE 0]
             = [k \in Donations(n) |-> IF ledger[k].asset = a THEN ledger[k].amount ELSE 0]
    BY <1>3
  <2> QED
    BY <1>2, <2>1 DEF Given
<1> QED
  BY <1>2, <1>4

----------------------------------------------------------------------------
(* One page *)

\* The operations of a page follow the cursor without a gap.
LEMMA PageIs ==
  ASSUME TypeOK, NEW c \in Nat, c <= Len(ledger)
  PROVE  /\ After(c) \in Nat /\ c <= After(c) /\ After(c) <= Len(ledger)
         /\ Page(c) = (c + 1)..After(c)
         /\ Cardinality(Page(c)) = After(c) - c
<1> DEFINE last == IF c + PageSize <= Len(ledger) THEN c + PageSize ELSE Len(ledger)
<1>1. Len(ledger) \in Nat /\ PageSize \in Nat \ {0}
  BY SyncAssumption DEF TypeOK
<1>2. last \in Nat /\ c <= last /\ last <= Len(ledger)
  BY <1>1
<1>3. Page(c) = (c + 1)..last
  BY <1>1 DEF Page
<1> HIDE DEF last
<1>4. Cardinality((c + 1)..last) = last - c
  <2>1. c + 1 \in Int /\ last \in Int
    BY <1>2
  <2>2. Cardinality((c + 1)..last) = IF c + 1 > last THEN 0 ELSE last - (c + 1) + 1
    BY <2>1, FS_Interval
  <2> QED
    BY <1>2, <2>2
<1>5. After(c) = last
  BY <1>2, <1>3, <1>4 DEF After
<1> QED
  BY <1>2, <1>3, <1>4, <1>5

\* The donations of a page are those between the two cursors.
LEMMA PageAdds ==
  ASSUME TypeOK, NEW c \in Nat, c <= Len(ledger)
  PROVE  /\ PageDonations(c) \in SUBSET (1..Len(ledger))
         /\ Donations(c) \in SUBSET (1..Len(ledger))
         /\ Donations(c) \cap PageDonations(c) = {}
         /\ Donations(After(c)) = Donations(c) \cup PageDonations(c)
<1>1. /\ After(c) \in Nat /\ c <= After(c) /\ After(c) <= Len(ledger)
      /\ Page(c) = (c + 1)..After(c) /\ Len(ledger) \in Nat
  BY PageIs DEF TypeOK
<1> QED
  BY <1>1 DEF PageDonations, Donations

LEMMA DonationsFinite == ASSUME NEW n \in Int PROVE IsFiniteSet(Donations(n))
<1>1. IsFiniteSet(1..n)
  BY FS_Interval
<1>2. Donations(n) \in SUBSET (1..n)
  BY DEF Donations
<1> QED
  BY <1>1, <1>2, FS_Subset

\* What the sync adds to a row is what the page holds.
LEMMA AddedCounts ==
  ASSUME TypeOK, NEW row \in Progress, row.cursor <= Len(ledger), Counts(row)
  PROVE  LET added == Added(row, PageDonations(row.cursor))
         IN  /\ added \in Progress /\ added.cursor <= Len(ledger)
             /\ Counts(added) /\ AtLeast(added, row)
<1> DEFINE c == row.cursor
           more == PageDonations(c)
           added == Added(row, more)
<1>1. c \in Nat /\ row.count \in Nat /\ row.total \in [Assets -> Nat] /\ Len(ledger) \in Nat
  BY DEF Progress, TypeOK
<1>2. /\ After(c) \in Nat /\ c <= After(c) /\ After(c) <= Len(ledger)
      /\ more \in SUBSET (1..Len(ledger)) /\ Donations(c) \in SUBSET (1..Len(ledger))
      /\ Donations(c) \cap more = {} /\ Donations(After(c)) = Donations(c) \cup more
  BY <1>1, PageIs, PageAdds
<1>3. added.cursor = After(c) /\ added.count = row.count + Cardinality(more)
      /\ added.total = [a \in Assets |-> row.total[a] + Given(more)[a]]
  BY DEF Added
<1> HIDE DEF c, more, added
<1>4. IsFiniteSet(more) /\ IsFiniteSet(Donations(c))
  <2>1. IsFiniteSet(1..Len(ledger))
    BY <1>1, FS_Interval
  <2> QED
    BY <1>2, <2>1, FS_Subset
<1>5. Cardinality(more) \in Nat /\ Cardinality(Donations(c)) \in Nat
  BY <1>4, FS_CardinalityType
<1>6. Cardinality(Donations(After(c))) = Cardinality(Donations(c)) + Cardinality(more)
  <2>1. Cardinality(Donations(c) \cup more)
          = Cardinality(Donations(c)) + Cardinality(more) - Cardinality(Donations(c) \cap more)
    BY <1>4, FS_Union
  <2>2. Cardinality(Donations(c) \cap more) = 0
    BY <1>2, FS_EmptySet
  <2>3. Donations(After(c)) = Donations(c) \cup more
    BY <1>2
  <2> QED
    BY <1>5, <2>1, <2>2, <2>3
<1>7. ASSUME NEW a \in Assets
      PROVE  /\ Given(more)[a] \in Nat /\ Given(Donations(c))[a] \in Nat
             /\ Given(Donations(After(c)))[a] = Given(Donations(c))[a] + Given(more)[a]
  <2>1. Given(more)[a] \in Nat /\ Given(Donations(c))[a] \in Nat
    <3>1. Len(ledger) \in Nat /\ Len(ledger) <= Len(ledger)
      BY <1>1
    <3>2. ASSUME NEW places \in SUBSET (1..Len(ledger)) PROVE Given(places)[a] \in Nat
      BY <3>1, GivenIs
    <3> QED
      BY <1>2, <3>2
  <2>2. Given(Donations(c) \cup more)[a] = Given(Donations(c))[a] + Given(more)[a]
    BY <1>1, <1>2, GivenMore
  <2>3. Donations(After(c)) = Donations(c) \cup more
    BY <1>2
  <2> QED
    BY <2>1, <2>2, <2>3
<1>8. added \in Progress
  <2>1. added.total \in [Assets -> Nat] /\ added.count \in Nat /\ added.cursor \in Nat
    BY <1>1, <1>2, <1>3, <1>5, <1>7
  <2>2. added = [count |-> added.count, total |-> added.total, cursor |-> added.cursor]
    BY DEF added, Added
  <2> QED
    BY <2>1, <2>2 DEF Progress
<1>9. Counts(added)
  <2>1. added.count = Cardinality(Donations(added.cursor))
    BY <1>3, <1>6 DEF Counts, c
  <2>2. row.total = Given(Donations(c))
    BY DEF Counts, c
  <2>3. Given(Donations(After(c))) = [a \in Assets |-> Given(Donations(After(c)))[a]]
    BY DEF Given
  <2>4. added.total = Given(Donations(After(c)))
    BY <1>3, <1>7, <2>2, <2>3
  <2> QED
    BY <1>3, <2>1, <2>4 DEF Counts
<1>10. AtLeast(added, row)
  BY <1>1, <1>2, <1>3, <1>5, <1>7 DEF AtLeast, c
<1> QED
  BY <1>2, <1>3, <1>8, <1>9, <1>10 DEF added, more, c

----------------------------------------------------------------------------
(* The steps *)

LEMMA Shapes ==
  ASSUME IInv
  PROVE  /\ Len(ledger) \in Nat /\ pool \in Progress /\ pool.cursor \in Nat /\ pool.count \in Nat
         /\ pool.total \in [Assets -> Nat] /\ pool.cursor <= Len(ledger)
         /\ \A r \in Requests : /\ request[r].row \in Progress
                               /\ request[r].row.cursor <= Len(ledger)
BY DEF IInv, TypeOK, Progress

LEMMA NothingTyped == Nothing \in Progress /\ Nothing.cursor = 0
BY DEF Nothing, Progress

LEMMA AtLeastItself == ASSUME NEW row \in Progress PROVE AtLeast(row, row)
BY DEF AtLeast, Progress

LEMMA AtLeastTransitive ==
  ASSUME NEW a \in Progress, NEW b \in Progress, NEW c \in Progress, AtLeast(a, b), AtLeast(b, c)
  PROVE  AtLeast(a, c)
BY DEF AtLeast, Progress

LEMMA SameLedger ==
  ASSUME ledger' = ledger
  PROVE  /\ \A n : Donations(n)' = Donations(n)
         /\ \A places : Given(places)' = Given(places)
BY DEF Donations, Donation, Incoming, Given

LEMMA PayStep == ASSUME IInv, NEW op \in Operations, Pay(op) PROVE IInv'
<1>1. /\ ledger' = Append(ledger, op) /\ ledger \in Seq(Operations) /\ TypeOK
      /\ UNCHANGED <<start, created, pool, request, failures>>
      /\ op.memo = ShortCode => created
  BY DEF Pay, IInv, TypeOK
<1>2. /\ ledger' \in Seq(Operations) /\ Len(ledger) \in Nat /\ Len(ledger') = Len(ledger) + 1
      /\ \A k \in 1..Len(ledger) : ledger'[k] = ledger[k]
      /\ ledger'[Len(ledger) + 1] = op
  BY <1>1
<1>3. TypeOK'
  <2>1. start' \in {-1} \cup (0..Len(ledger'))
    BY <1>1, <1>2 DEF TypeOK
  <2>2. pool' \in Progress /\ pool'.cursor <= Len(ledger')
    BY <1>1, <1>2, Shapes
  <2>3. ASSUME NEW r \in Requests
        PROVE  request'[r].row \in Progress /\ request'[r].row.cursor <= Len(ledger')
    <3>1. request'[r].row \in Progress /\ request'[r].row.cursor <= Len(ledger)
          /\ request'[r].row.cursor \in Nat
      BY <1>1, Shapes DEF Progress
    <3> QED
      BY <1>2, <3>1
  <2> QED
    BY <1>1, <1>2, <2>1, <2>2, <2>3 DEF TypeOK
<1>4. CountedOnce'
  BY <1>1, Shapes, AppendKeeps DEF IInv, CountedOnce
<1>5. Copies'
  <2> SUFFICES ASSUME NEW r \in Requests, Working(r)
               PROVE  created /\ Counts(request[r].row)' /\ AtLeast(request[r].row, pool)
    BY <1>1 DEF Copies, Working, AtLeast
  <2>1. created /\ Counts(request[r].row) /\ AtLeast(request[r].row, pool)
    BY DEF IInv, Copies
  <2>2. request[r].row.cursor \in Nat /\ request[r].row.cursor <= Len(ledger)
    BY Shapes DEF Progress
  <2> QED
    BY <1>1, <2>1, <2>2, AppendKeeps DEF Counts
<1>6. OneAtATime' /\ Unnamed'
  BY <1>1, <1>2 DEF IInv, OneAtATime, Working, Unnamed
<1> QED
  BY <1>3, <1>4, <1>5, <1>6 DEF IInv

\* Nothing on the ledger so far carries the short_code that the new row generates.
LEMMA CreateStep == ASSUME IInv, Create PROVE IInv'
<1>1. /\ start \in 0..Len(ledger) /\ ~ created /\ created' = TRUE
      /\ pool' = [Nothing EXCEPT !.cursor = start]
      /\ UNCHANGED <<ledger, start, request, failures>> /\ TypeOK
  BY DEF Create, IInv, TypeOK
<1>2. /\ pool' \in Progress /\ pool'.cursor = start /\ pool'.count = 0
      /\ pool'.total = [a \in Assets |-> 0] /\ start \in Nat /\ start <= Len(ledger)
  BY <1>1, Shapes DEF Nothing, Progress
<1>3. TypeOK'
  BY <1>1, <1>2 DEF TypeOK
<1>4. Donations(start) = {}
  BY <1>1, Shapes DEF Donations, Donation, IInv, Unnamed
<1>5. CountedOnce'
  <2>1. Given({}) = [a \in Assets |-> 0]
    BY SumEmpty DEF Given
  <2>2. Cardinality({}) = 0
    BY FS_EmptySet
  <2>3. Donations(pool.cursor)' = {} /\ Given(Donations(pool.cursor))' = Given({})
    BY <1>1, <1>2, <1>4, SameLedger
  <2> QED
    BY <1>2, <2>1, <2>2, <2>3 DEF CountedOnce
<1>6. Copies' /\ OneAtATime' /\ Unnamed'
  BY <1>1 DEF IInv, Copies, Working, OneAtATime, Unnamed
<1> QED
  BY <1>3, <1>5, <1>6 DEF IInv

LEMMA ReadStartStep == ASSUME IInv, ReadStart PROVE IInv'
<1>1. UNCHANGED <<ledger, created, pool, request, failures>> /\ start' = Len(ledger)
  BY DEF ReadStart
<1>2. TypeOK'
  BY <1>1, Shapes DEF IInv, TypeOK
<1> QED
  BY <1>1, <1>2, SameLedger
  DEF IInv, CountedOnce, Copies, Working, OneAtATime, Unnamed, Counts, AtLeast

\* A request that is about to work, works on or gives up a copy of the row.
LEMMA CopyStep ==
  ASSUME IInv, NEW r \in Requests, NEW at \in {"idle", "syncing", "saving"}, NEW row \in Progress,
         request' = [request EXCEPT ![r] = [at |-> at, row |-> row]],
         row.cursor <= Len(ledger),
         at # "idle" => created /\ Counts(row) /\ AtLeast(row, pool)
                        /\ \A s \in Requests : Working(s) => s = r,
         UNCHANGED <<ledger, start, created, pool>>, failures' \in Nat
  PROVE  IInv'
<1>1. DOMAIN request = Requests
  BY DEF IInv, TypeOK
<1>2. /\ DOMAIN request' = Requests
      /\ \A s \in Requests : request'[s] = IF s = r THEN [at |-> at, row |-> row] ELSE request[s]
  BY <1>1
<1>3. TypeOK'
  BY <1>2 DEF IInv, TypeOK
<1>4. CountedOnce' /\ Unnamed'
  BY SameLedger DEF IInv, CountedOnce, Unnamed
<1>5. Copies'
  <2> SUFFICES ASSUME NEW s \in Requests, request'[s].at # "idle"
               PROVE  created /\ Counts(request'[s].row) /\ AtLeast(request'[s].row, pool)
    BY SameLedger DEF Copies, Working, Counts, AtLeast
  <2> QED
    BY <1>2 DEF IInv, Copies, Working
<1>6. OneAtATime'
  BY <1>2 DEF IInv, OneAtATime, Working
<1> QED
  BY <1>3, <1>4, <1>5, <1>6 DEF IInv

LEMMA IdleIs == Idle = [at |-> "idle", row |-> Nothing] /\ Nothing.cursor = 0
BY DEF Idle, Nothing

LEMMA BeginStep == ASSUME IInv, NEW r \in Requests, Begin(r) PROVE IInv'
<1>1. /\ created /\ Unlocked
      /\ request' = [request EXCEPT ![r] = [at |-> "syncing", row |-> pool]]
      /\ UNCHANGED <<ledger, start, created, pool, failures>>
  BY DEF Begin
<1>2. failures' \in Nat /\ Counts(pool) /\ AtLeast(pool, pool)
  BY <1>1, Shapes, AtLeastItself DEF IInv, TypeOK, CountedOnce, Counts
<1>3. \A s \in Requests : Working(s) => s = r
  BY <1>1 DEF Unlocked, Working
<1> QED
  BY <1>1, <1>2, <1>3, Shapes, CopyStep

LEMMA FetchPageStep == ASSUME IInv, NEW r \in Requests, FetchPage(r) PROVE IInv'
<1> DEFINE row == request[r].row
           after == IF Page(row.cursor) = {} THEN row ELSE Added(row, PageDonations(row.cursor))
           at == IF Cardinality(Page(row.cursor)) < PageSize THEN "saving" ELSE "syncing"
<1>1. /\ request[r].at = "syncing"
      /\ request' = [request EXCEPT ![r] = [at |-> at, row |-> after]]
      /\ UNCHANGED <<ledger, start, created, pool, failures>>
  BY DEF FetchPage
<1>2. /\ created /\ Counts(row) /\ AtLeast(row, pool)
      /\ row \in Progress /\ row.cursor <= Len(ledger)
      /\ \A s \in Requests : Working(s) => s = r
  BY <1>1, Shapes DEF IInv, Copies, OneAtATime, Working
<1>3. TypeOK /\ failures' \in Nat /\ pool \in Progress
  BY <1>1, Shapes DEF IInv, TypeOK
<1> HIDE DEF row
<1>4. /\ after \in Progress /\ after.cursor <= Len(ledger)
      /\ Counts(after) /\ AtLeast(after, row)
  BY <1>2, <1>3, AddedCounts, AtLeastItself
<1> HIDE DEF after
<1>5. AtLeast(after, pool)
  BY <1>2, <1>3, <1>4, AtLeastTransitive
<1>6. at \in {"idle", "syncing", "saving"}
  OBVIOUS
<1> HIDE DEF at
<1> QED
  BY <1>1, <1>2, <1>3, <1>4, <1>5, <1>6, CopyStep

\* The copy that is saved is the only one, and it is not behind the row.
LEMMA SaveFacts ==
  ASSUME IInv, NEW r \in Requests, Save(r)
  PROVE  /\ created /\ pool' = request[r].row
         /\ Counts(request[r].row) /\ AtLeast(request[r].row, pool)
         /\ \A s \in Requests : Working(s) => s = r
BY DEF Save, Saved, IInv, Copies, OneAtATime, Working

LEMMA SaveStep == ASSUME IInv, NEW r \in Requests, Save(r) PROVE IInv'
<1>1. /\ request' = [request EXCEPT ![r] = [at |-> "idle", row |-> Nothing]]
      /\ UNCHANGED <<ledger, start, created, failures>>
      /\ DOMAIN request = Requests
  BY IdleIs DEF Save, IInv, TypeOK
<1>2. /\ DOMAIN request' = Requests
      /\ \A s \in Requests :
           request'[s] = IF s = r THEN [at |-> "idle", row |-> Nothing] ELSE request[s]
  BY <1>1
<1>3. TypeOK'
  <2>1. pool' \in Progress /\ pool'.cursor <= Len(ledger')
    BY <1>1, Shapes, SaveFacts
  <2>2. \A s \in Requests : /\ request'[s].at \in {"idle", "syncing", "saving"}
                          /\ request'[s].row \in Progress /\ request'[s].row.cursor <= Len(ledger')
    BY <1>1, <1>2, Shapes, NothingTyped DEF IInv, TypeOK
  <2> QED
    BY <1>1, <1>2, <2>1, <2>2 DEF IInv, TypeOK
<1>4. CountedOnce'
  BY <1>1, SaveFacts, SameLedger DEF CountedOnce, Counts
<1>5. \A s \in Requests : request'[s].at = "idle"
  BY <1>2, SaveFacts DEF Working
<1>6. Copies' /\ OneAtATime' /\ Unnamed'
  BY <1>1, <1>5, SaveFacts DEF Copies, OneAtATime, Working, Unnamed
<1> QED
  BY <1>3, <1>4, <1>6 DEF IInv

LEMMA FailStep == ASSUME IInv, NEW r \in Requests, Fail(r) PROVE IInv'
<1>1. /\ request' = [request EXCEPT ![r] = [at |-> "idle", row |-> Nothing]]
      /\ UNCHANGED <<ledger, start, created, pool>> /\ failures' \in Nat
  BY IdleIs DEF Fail, IInv, TypeOK
<1>2. Nothing \in Progress /\ Nothing.cursor <= Len(ledger)
  BY Shapes, NothingTyped
<1> QED
  BY <1>1, <1>2, CopyStep

LEMMA NextKeeps == IInv /\ [Next]_vars => IInv'
<1> SUFFICES ASSUME IInv, [Next]_vars PROVE IInv'
  OBVIOUS
<1>1. ASSUME UNCHANGED vars PROVE IInv'
  BY <1>1, SameLedger
  DEF vars, IInv, TypeOK, CountedOnce, Copies, Working, OneAtATime, Unnamed, Counts, AtLeast
<1> QED
  BY <1>1, PayStep, ReadStartStep, CreateStep, BeginStep, FetchPageStep, SaveStep, FailStep DEF Next

LEMMA Initially == Init => IInv
<1> SUFFICES ASSUME Init PROVE IInv
  OBVIOUS
<1>1. ledger = <<>> /\ Len(ledger) = 0 /\ ledger \in Seq(Operations)
  BY DEF Init
<1>2. TypeOK
  <2>1. created \in BOOLEAN /\ failures \in Nat /\ start \in {-1} \cup (0..Len(ledger))
    BY DEF Init
  <2>2. pool \in Progress /\ pool.cursor <= Len(ledger)
    BY <1>1, NothingTyped DEF Init
  <2>3. /\ DOMAIN request = Requests
        /\ \A r \in Requests : request[r].at = "idle" /\ request[r].row = Nothing
    BY IdleIs DEF Init
  <2> QED
    BY <1>1, <2>1, <2>2, <2>3, NothingTyped DEF TypeOK
<1>3. CountedOnce /\ Copies /\ OneAtATime /\ Unnamed
  BY <1>1, IdleIs DEF Init, CountedOnce, Copies, OneAtATime, Working, Unnamed
<1> QED
  BY <1>2, <1>3 DEF IInv

LEMMA Invariance == Spec => []IInv
BY Initially, NextKeeps, PTL DEF Spec

----------------------------------------------------------------------------
(* The theorems *)

\* Whatever requests overlap or fail, what is stored has its type.
THEOREM SyncTypeCorrect == Spec => []TypeOK
<1>1. IInv => TypeOK
  BY DEF IInv
<1> QED
  BY <1>1, Invariance, PTL

\* For every wallet, page size and number of overlapping and failing requests, the
\* cached progress is exactly the donations up to its cursor
\* (_sync_pool_donations_locked, get_pool_with_synced_progress).
THEOREM SyncCountsOnce == Spec => []CountedOnce
<1>1. IInv => CountedOnce
  BY DEF IInv
<1> QED
  BY <1>1, Invariance, PTL

\* The feed shows no donation that a finished sync has not counted
\* (fetch_pool_donations beside _sync_pool_donations_locked).
THEOREM SyncFeedCounted == Spec => []FeedCounted
<1>1. ASSUME IInv PROVE FeedCounted
  <2> SUFFICES ASSUME created, pool.cursor = Len(ledger) PROVE Cardinality(Feed) <= pool.count
    BY DEF FeedCounted
  <2>1. Len(ledger) \in Nat /\ pool.count = Cardinality(Donations(Len(ledger)))
    BY <1>1, Shapes DEF IInv, CountedOnce
  <2>2. Feed \in SUBSET Donations(Len(ledger))
    BY DEF Feed, FeedIncoming, Donations, Donation, Incoming
  <2>3. IsFiniteSet(Donations(Len(ledger)))
    BY <2>1, DonationsFinite
  <2> QED
    BY <2>1, <2>2, <2>3, FS_Subset
<1>2. IInv => FeedCounted
  BY <1>1
<1> QED
  BY <1>2, Invariance, PTL

\* The row of a pool only ever moves forward.
LEMMA RowMoves == IInv /\ [Next]_vars => (created => AtLeast(pool', pool))
<1> SUFFICES ASSUME IInv, [Next]_vars, created PROVE AtLeast(pool', pool)
  OBVIOUS
<1>1. ASSUME pool' = pool PROVE AtLeast(pool', pool)
  BY <1>1, Shapes, AtLeastItself
<1>2. ASSUME NEW r \in Requests, Save(r) PROVE AtLeast(pool', pool)
  BY <1>2, SaveFacts
<1>3. \/ pool' = pool
      \/ \E r \in Requests : Save(r)
  BY DEF Next, vars, Pay, ReadStart, Create, Begin, FetchPage, Fail
<1> QED
  BY <1>1, <1>2, <1>3

\* A slow GET never takes a pool's progress back (select_for_update of the row).
THEOREM SyncKeepsProgress == Spec => ProgressKept
<1>1. IInv /\ [Next]_vars =>
        [created => /\ pool.cursor <= pool'.cursor /\ pool.count <= pool'.count
                    /\ \A a \in Assets : pool.total[a] <= pool'.total[a]]_vars
  BY RowMoves DEF AtLeast
<1> QED
  BY <1>1, Invariance, PTL DEF Spec, ProgressKept

\* A product with a rate does not shrink when the total grows.
LEMMA ProductGrows ==
  ASSUME NEW a \in Nat, NEW b \in Nat, a <= b, NEW rate \in Nat
  PROVE  a * rate \in Nat /\ b * rate \in Nat /\ a * rate <= b * rate
<1>1. PICK d \in Nat : b = a + d
  <2>1. b - a \in Nat /\ b = a + (b - a)
    OBVIOUS
  <2> QED
    BY <2>1
<1>2. (a + d) * rate = a * rate + d * rate
  OBVIOUS
<1>3. a * rate \in Nat /\ d * rate \in Nat
  OBVIOUS
<1> QED
  BY <1>1, <1>2, <1>3

LEMMA EquivalentGrows ==
  ASSUME NEW less \in [Assets -> Nat], NEW more \in [Assets -> Nat],
         \A a \in Assets : less[a] <= more[a]
  PROVE  /\ XlmEquivalent(less) \in Nat /\ XlmEquivalent(more) \in Nat
         /\ XlmEquivalent(less) <= XlmEquivalent(more)
<1> DEFINE f == [a \in Assets |-> less[a] * Rates[a]]
           g == [a \in Assets |-> more[a] * Rates[a]]
<1>1. IsFiniteSet(Assets) /\ Rates \in [Assets -> Nat]
  BY SyncAssumption
<1>2. \A a \in Assets : f[a] \in Nat /\ g[a] \in Nat /\ f[a] <= g[a]
  BY <1>1, ProductGrows
<1>3. XlmEquivalent(less) = SumFunctionOnSet(f, Assets)
      /\ XlmEquivalent(more) = SumFunctionOnSet(g, Assets)
  BY DEF XlmEquivalent
<1> HIDE DEF f, g
<1>4. SumFunctionOnSet(f, Assets) \in Nat /\ SumFunctionOnSet(g, Assets) \in Nat
  BY <1>1, <1>2, SumNat
<1>5. \A a \in Assets : f[a] \in Int /\ g[a] \in Int /\ f[a] <= g[a]
  BY <1>2
<1>6. SumFunctionOnSet(f, Assets) <= SumFunctionOnSet(g, Assets)
  BY <1>1, <1>5, SumMonotone
<1> QED
  BY <1>3, <1>4, <1>6

\* A pool that is complete stays so, for any assets, rates and goal, until somebody
\* gives an asset without a reference rate (progress_summary).
THEOREM SyncKeepsCompletion == Spec => CompletionKept
<1>1. ASSUME IInv, IInv', [Next]_vars, Completed(pool.total), RatesComplete(pool'.total)
      PROVE  Completed(pool'.total)
  <2>1. pool.total \in [Assets -> Nat] /\ pool'.total \in [Assets -> Nat]
    <3>1. pool \in Progress /\ pool' \in Progress
      BY <1>1 DEF IInv, TypeOK
    <3> QED
      BY <3>1 DEF Progress
  <2>2. \A a \in Assets : pool.total[a] <= pool'.total[a]
    <3>1. CASE created
      BY <1>1, <3>1, RowMoves DEF AtLeast
    <3>2. CASE ~ created
      <4>1. pool = Nothing
        BY <1>1, <3>2 DEF IInv, Unnamed
      <4>2. pool.total = [a \in Assets |-> 0]
        BY <4>1 DEF Nothing
      <4> QED
        BY <2>1, <4>2
    <3> QED
      BY <3>1, <3>2
  <2>3. /\ XlmEquivalent(pool.total) \in Nat /\ XlmEquivalent(pool'.total) \in Nat
        /\ XlmEquivalent(pool.total) <= XlmEquivalent(pool'.total)
    BY <2>1, <2>2, EquivalentGrows
  <2> QED
    BY <1>1, <2>3, SyncAssumption DEF Completed
<1>2. IInv /\ IInv' /\ [Next]_vars =>
        [Completed(pool.total) => Completed(pool'.total) \/ ~ RatesComplete(pool'.total)]_vars
  BY <1>1
<1> QED
  BY <1>2, Invariance, PTL DEF Spec, CompletionKept

=============================================================================
