------------------------- MODULE LeaderboardProofs -------------------------
(***************************************************************************)
(* The insertion sort ranks any number of donors with any credits.  While   *)
(* an entry sinks, every pair of places among the first i is in order       *)
(* except, perhaps, those whose lower place is the sinking entry's.         *)
(***************************************************************************)
EXTENDS Leaderboard, TLAPS

\* The places beyond i still hold the map's own order, and the entry that sinks
\* comes later in the map than everything before it: that makes the sort stable.
SInv ==
  /\ Listed
  /\ \A p \in 1..N : p > i => entries[p] = p
  /\ \A p \in 1..N : p <= i => entries[p] <= i
  /\ \A p \in 1..N : p < j => entries[p] < entries[j]
  /\ \A p, q \in 1..N : p < q /\ q <= i /\ q # j => Ahead(entries[p], entries[q])

\* Before the first comparison one entry is in order.
LEMMA SortInit == BoardInit => SInv
<1> SUFFICES ASSUME BoardInit PROVE SInv
  OBVIOUS
<1>1. Listed
  BY SizeAssumption DEF BoardInit, Listed
<1>2. \A p \in 1..N : entries[p] = p
  BY DEF BoardInit
<1>3. i = 1 /\ j = 1 /\ N \in Nat
  BY SizeAssumption DEF BoardInit
<1>4. QED
  BY <1>1, <1>2, <1>3 DEF SInv

\* The types, in the form the steps below use them.
LEMMA SortTypes ==
  ASSUME SInv
  PROVE  /\ N \in Nat /\ i \in Nat /\ j \in Nat /\ 1 <= j /\ j <= i
         /\ \A d \in 1..N : credit[d] \in Int
         /\ \A x \in 1..N : entries[x] \in 1..N
<1>1. Listed
  BY DEF SInv
<1>2. N \in Nat /\ i \in Nat /\ j \in Nat /\ 1 <= j /\ j <= i
  BY <1>1, SizeAssumption DEF Listed
<1>3. \A d \in 1..N : credit[d] \in Int
  BY <1>1, CreditAssumption DEF Listed
<1>4. \A x \in 1..N : entries[x] \in 1..N
  BY <1>1 DEF Listed
<1>5. QED
  BY <1>2, <1>3, <1>4

\* With the sinking entry at rest, the exception disappears.
LEMMA SettledInOrder ==
  ASSUME SInv, ~ Sinking, NEW p \in 1..N, NEW q \in 1..N, p < q, q <= i
  PROVE  Ahead(entries[p], entries[q])
<1>0. /\ N \in Nat /\ i \in Nat /\ j \in Nat
      /\ \A d \in 1..N : credit[d] \in Int
      /\ \A x \in 1..N : entries[x] \in 1..N
  BY SortTypes
<1>1. CASE q # j
  BY <1>1 DEF SInv
<1>2. CASE q = j
  <2>1. j > 1 /\ j - 1 \in 1..N /\ p <= j - 1
    BY <1>0, <1>2
  <2>2. credit[entries[j - 1]] >= credit[entries[j]]
    BY <1>0, <1>2, <2>1 DEF Sinking, OutOfOrder
  <2>3. Ahead(entries[j - 1], entries[j])
    <3>1. entries[j - 1] < entries[j]
      BY <1>0, <2>1 DEF SInv
    <3> QED BY <1>0, <1>2, <2>1, <2>2, <3>1 DEF Ahead
  <2>4. CASE p = j - 1
    BY <1>2, <2>3, <2>4
  <2>5. CASE p < j - 1
    <3>1. Ahead(entries[p], entries[j - 1])
      BY <1>0, <1>2, <2>1, <2>5 DEF SInv
    <3> QED BY <1>0, <1>2, <2>1, <2>3, <3>1 DEF Ahead
  <2> QED BY <1>0, <2>1, <2>4, <2>5
<1>3. QED
  BY <1>1, <1>2

\* A swap moves the new entry one place up and keeps the rest in order.
LEMMA SinkPreserves == SInv /\ Sink => SInv'
<1> SUFFICES ASSUME SInv, Sink PROVE SInv'
  OBVIOUS
<1>0. /\ N \in Nat /\ i \in Nat /\ j \in Nat /\ Listed /\ i <= N /\ j <= i /\ j > 1
      /\ \A d \in 1..N : credit[d] \in Int
      /\ \A x \in 1..N : entries[x] \in 1..N
      /\ credit' = credit /\ i' = i /\ j' = j - 1
      /\ \A x, y \in 1..N : entries[x] = entries[y] => x = y
  <2>1. Listed /\ j > 1 /\ credit' = credit /\ i' = i /\ j' = j - 1
    BY DEF SInv, Sink, Sinking
  <2>2. i <= N /\ \A x, y \in 1..N : entries[x] = entries[y] => x = y
    BY <2>1, SortTypes DEF Listed
  <2> QED BY <2>1, <2>2, SortTypes
<1>1. /\ entries' \in [1..N -> 1..N]
      /\ entries'[j - 1] = entries[j] /\ entries'[j] = entries[j - 1]
      /\ \A q \in 1..N : q # j /\ q # j - 1 => entries'[q] = entries[q]
  BY <1>0 DEF Sink, Swapped
<1> DEFINE from(q) == IF q = j THEN j - 1 ELSE IF q = j - 1 THEN j ELSE q
<1>2. ASSUME NEW q \in 1..N PROVE from(q) \in 1..N /\ entries'[q] = entries[from(q)]
  <2>1. j \in 1..N /\ j - 1 \in 1..N /\ j - 1 # j
    BY <1>0
  <2>2. CASE q = j
    BY <1>1, <2>1, <2>2
  <2>3. CASE q = j - 1
    BY <1>1, <2>1, <2>3
  <2>4. CASE q # j /\ q # j - 1
    BY <1>1, <2>4
  <2> QED BY <2>2, <2>3, <2>4
<1>3. Listed'
  <2>1. ASSUME NEW p \in 1..N, NEW q \in 1..N, entries'[p] = entries'[q] PROVE p = q
    <3>1. from(p) = from(q)
      <4> HIDE DEF from
      <4> QED BY <1>0, <1>2, <2>1
    <3> QED BY <1>0, <3>1
  <2>2. j' \in Nat /\ 1 <= j' /\ j' <= i'
    BY <1>0
  <2>3. credit' \in [1..N -> Credits]
    BY <1>0 DEF Listed
  <2> QED BY <1>0, <1>1, <2>1, <2>2, <2>3 DEF Listed
<1>4. ASSUME NEW p \in 1..N
      PROVE  /\ p > i' => entries'[p] = p
             /\ p <= i' => entries'[p] <= i'
  <2>1. (p > i <=> from(p) > i) /\ (p > i => from(p) = p)
    BY <1>0
  <2>2. /\ from(p) > i => entries[from(p)] = from(p)
        /\ from(p) <= i => entries[from(p)] <= i
    <3> HIDE DEF from
    <3> QED BY <1>2 DEF SInv
  <2>3. from(p) \in Int /\ i \in Int /\ i' = i /\ entries'[p] = entries[from(p)]
    BY <1>0, <1>2
  <2> HIDE DEF from
  <2> QED BY <2>1, <2>2, <2>3
<1>5. ASSUME NEW p \in 1..N, p < j' PROVE entries'[p] < entries'[j']
  <2>1. p < j /\ entries'[p] = entries[p] /\ entries'[j'] = entries[j]
    BY <1>0, <1>1, <1>5
  <2> QED BY <2>1 DEF SInv
<1>6. ASSUME NEW p \in 1..N, NEW q \in 1..N, p < q, q <= i', q # j'
      PROVE  Ahead(entries[p], entries[q])'
  <2>1. credit[entries[j - 1]] < credit[entries[j]]
    BY DEF Sink, Sinking, OutOfOrder
  <2>2. CASE q = j
    <3>1. CASE p = j - 1
      BY <1>0, <1>1, <2>1, <2>2, <3>1 DEF Ahead
    <3>2. CASE p < j - 1
      <4>1. Ahead(entries[p], entries[j - 1])
        BY <1>0, <1>6, <2>2, <3>2 DEF SInv
      <4> QED BY <1>0, <1>1, <2>2, <3>2, <4>1 DEF Ahead
    <3> QED BY <1>0, <1>6, <2>2, <3>1, <3>2
  <2>3. CASE q # j
    <3>1. Ahead(entries[IF p = j THEN j - 1 ELSE IF p = j - 1 THEN j ELSE p], entries[q])
      BY <1>0, <1>6, <2>3 DEF SInv
    <3> QED BY <1>0, <1>1, <1>6, <2>3, <3>1 DEF Ahead
  <2> QED BY <2>2, <2>3
<1>7. QED
  BY <1>3, <1>4, <1>5, <1>6 DEF SInv

\* When the new entry stops, one more entry is in order.
LEMMA NextEntryPreserves == SInv /\ NextEntry => SInv'
<1> SUFFICES ASSUME SInv, NextEntry PROVE SInv'
  OBVIOUS
<1>0. /\ N \in Nat /\ i \in Nat /\ j \in Nat /\ Listed /\ i < N /\ j <= i
      /\ \A d \in 1..N : credit[d] \in Int
      /\ \A x \in 1..N : entries[x] \in 1..N
      /\ credit' = credit /\ entries' = entries /\ i' = i + 1 /\ j' = i + 1
  <2>1. /\ Listed /\ i < N
        /\ credit' = credit /\ entries' = entries /\ i' = i + 1 /\ j' = i + 1
    BY DEF SInv, NextEntry
  <2> QED BY <2>1, SortTypes
<1>1. Listed'
  BY <1>0 DEF Listed
<1>2. entries[i + 1] = i + 1
  BY <1>0 DEF SInv
<1>3. /\ \A p \in 1..N : p > i' => entries'[p] = p
      /\ \A p \in 1..N : p <= i' => entries'[p] <= i'
  BY <1>0, <1>2 DEF SInv
<1>4. \A p \in 1..N : p < j' => entries'[p] < entries'[j']
  BY <1>0, <1>2 DEF SInv
<1>5. ASSUME NEW p \in 1..N, NEW q \in 1..N, p < q, q <= i', q # j'
      PROVE  Ahead(entries[p], entries[q])'
  <2>1. q <= i
    BY <1>0, <1>5
  <2>2. Ahead(entries[p], entries[q])
    BY <1>5, <2>1, SettledInOrder DEF NextEntry
  <2> QED BY <1>0, <2>2 DEF Ahead
<1>6. QED
  BY <1>1, <1>3, <1>4, <1>5 DEF SInv

\* The sort's invariant holds at every comparison.
LEMMA SortInvariant == BoardSpec => []SInv
<1>1. SInv /\ UNCHANGED boardVars => SInv'
  BY DEF SInv, Listed, Ahead, boardVars
<1>2. SInv /\ [BoardNext]_boardVars => SInv'
  BY <1>1, SinkPreserves, NextEntryPreserves DEF BoardNext
<1>3. QED
  BY <1>2, SortInit, PTL DEF BoardSpec

\* When the loops end, the leaderboard lists every donor once, the larger credits
\* first and equal credits in the map's order, whatever the number of donors.
THEOREM LeaderboardRanked == BoardSpec => [](Listed /\ Ranked)
<1>1. SInv => Listed /\ Ranked
  <2> SUFFICES ASSUME SInv, Done, NEW p \in 1..N, NEW q \in 1..N, p < q
               PROVE  Ahead(entries[p], entries[q])
    BY DEF SInv, Ranked
  <2>1. q <= i
    BY SizeAssumption DEF SInv, Listed, Done
  <2> QED BY <2>1, SettledInOrder DEF Done
<1>2. QED
  BY <1>1, SortInvariant, PTL

\* At every comparison the list holds every donor once and the loops stay in its bounds.
THEOREM LeaderboardTypeCorrect == BoardSpec => []Listed
<1>1. Listed /\ Ranked => Listed
  OBVIOUS
<1> QED
  BY <1>1, LeaderboardRanked, PTL

=============================================================================
