------------------------ MODULE ResultSnapshotsProofs ------------------------
(***************************************************************************)
(* The safety properties of ResultSnapshots, for any number of processes   *)
(* and options.  Totals are sums over the options: their lemmas are proved *)
(* by induction over the options' numbers (Induct).                        *)
(***************************************************************************)
EXTENDS ResultSnapshots, FiniteSetTheorems, WellFoundedInduction, TLAPS

(* A worker in a leader's tick holds the lease. *)
Led == Punctual => \A w \in Busy : holder = w /\ clock < expiry

(* Nothing Redis, Postgres or a worker knows of exceeds what was cast. *)
AtMostCast(count) == \A o \in Option : count[o] <= cast[o]
Counted ==
  /\ AtMostCast(tally)
  /\ \A t \in Written : AtMostCast(rows[t].count)
  /\ \A w \in Worker : AtMostCast(reading[w]) /\ AtMostCast(prev[w].count)

(* There is a latest row, and none lies in the future. *)
Dated ==
  /\ Written = {} \/ \E m \in Written : \A t \in Written : t <= m
  /\ \A t \in Written : t <= clock

(* The leader's row will be the latest, and it floors at the latest one. *)
Writing == {w \in Worker : pc[w] \in {"read", "load", "insert"}}
Floored ==
  /\ \A w \in Writing : at[w] \in Time /\ at[w] <= clock
  /\ Punctual =>
       /\ \A w \in Writing, t \in Written : t <= at[w]
       /\ \A w \in Worker : pc[w] = "insert" => prev[w] = Latest

(* No option has more votes than its row claims in total. *)
Bounded(row) == \A o \in Option : row.count[o] <= row.total
Shared ==
  /\ \A t \in Written : Bounded(rows[t])
  /\ \A w \in Worker : Bounded(prev[w])

(* Until Redis loses data, whatever counts are around are stages of one    *)
(* count, the tally the last of them: merging two of them picks one, and   *)
(* the larger sum is its sum.                                              *)
Below(a, b) == \A o \in Option : a[o] <= b[o]
Exact(row)  == row.total = Sum(row.count)
Known ==
  {tally} \cup {rows[t].count : t \in Written}
          \cup {reading[w] : w \in Worker} \cup {prev[w].count : w \in Worker}
Staged ==
  /\ \A a \in Known : Below(a, tally)
  /\ \A a, b \in Known : Below(a, b) \/ Below(b, a)
  /\ \A t \in Written : Exact(rows[t])
  /\ \A w \in Worker : Exact(prev[w])

IInv ==
  /\ TypeOK /\ Led /\ Counted /\ Dated /\ Floored
  /\ Punctual => RowsGrow
  /\ Shared
  /\ losses = 0 => Staged

-----------------------------------------------------------------------------
LEMMA Constants ==
  /\ Lease \in Nat /\ Lease > 0 /\ MaxTime \in Nat /\ MaxTime > 0
  /\ NumOptions \in Nat /\ NumOptions > 0
  /\ Punctual \in BOOLEAN
  /\ NoWorker \notin Worker
  /\ Written \subseteq Time /\ Time \subseteq Nat
  /\ NoVotes \in Counts /\ Empty \in Row /\ Empty.count = NoVotes
BY SnapshotAssumption DEF Written, Time, NoVotes, Counts, Option, Empty, Row

-----------------------------------------------------------------------------
(* Sums *)

(* Induction over 0 .. NumOptions: a set that holds 0, and each number     *)
(* whose predecessor it holds, holds them all.                             *)
LEMMA Induct ==
  ASSUME NEW T, 0 \in T,
         \A n \in Option : n - 1 \in T => n \in T
  PROVE  0 .. NumOptions \subseteq T
<1> USE Constants
<1> DEFINE Rest == {n \in 0 .. NumOptions : n \notin T}
<1> SUFFICES ASSUME Rest # {} PROVE FALSE
  OBVIOUS
<1>1. PICK m \in Rest : \A n \in Rest : <<n, m>> \notin OpToRel(<, Nat)
  <2>1. Rest \subseteq Nat
    OBVIOUS
  <2> QED  BY <2>1, WFMin, NatLessThanWellFounded, Zenon
<1>2. \A n \in Rest : ~(n < m)
  <2>1. \A n \in Rest : n \in Nat
    OBVIOUS
  <2> QED  BY <1>1, <2>1 DEF OpToRel
<1>3. m \in Option /\ m - 1 \in 0 .. NumOptions
  BY DEF Option
<1>4. m - 1 \in T
  BY <1>2, <1>3
<1> QED  BY <1>3, <1>4

(* The partial sums that Sum adds up. *)
Upto(count) ==
  CHOOSE f : f = [n \in 0 .. NumOptions |-> IF n = 0 THEN 0 ELSE f[n - 1] + count[n]]

LEMMA SumIs ==
  ASSUME NEW count
  PROVE  Sum(count) = Upto(count)[NumOptions]
BY DEF Sum, Upto

(* They exist: those up to m extend those up to m - 1. *)
LEMMA UptoIs ==
  ASSUME NEW count
  PROVE  /\ Upto(count)[0] = 0
         /\ \A n \in Option : Upto(count)[n] = Upto(count)[n - 1] + count[n]
<1> USE Constants
<1> DEFINE Step(f, n) == IF n = 0 THEN 0 ELSE f[n - 1] + count[n]
           T == {m \in 0 .. NumOptions : \E f : f = [n \in 0 .. m |-> Step(f, n)]}
<1>1. 0 \in T
  <2> DEFINE f == [n \in 0 .. 0 |-> 0]
  <2>1. f = [n \in 0 .. 0 |-> Step(f, n)]
    OBVIOUS
  <2>2. \E g : g = [n \in 0 .. 0 |-> Step(g, n)]
    BY <2>1
  <2> QED  BY <2>2
<1>2. ASSUME NEW m \in Option, m - 1 \in T
      PROVE  m \in T
  <2>1. PICK g : g = [n \in 0 .. m - 1 |-> Step(g, n)]
    BY <1>2
  <2> DEFINE f == [n \in 0 .. m |-> IF n = m THEN g[m - 1] + count[m] ELSE g[n]]
  <2>2. \A n \in 0 .. m : f[n] = Step(f, n)
    BY <2>1 DEF Option
  <2>3. f = [n \in 0 .. m |-> Step(f, n)]
    BY <2>2, Zenon
  <2>4. \E h : h = [n \in 0 .. m |-> Step(h, n)]
    BY <2>3
  <2>5. m \in 0 .. NumOptions
    BY DEF Option
  <2> QED  BY <2>4, <2>5
<1>3. NumOptions \in T
  <2>1. 0 .. NumOptions \subseteq T
    <3> HIDE DEF T
    <3> QED  BY <1>1, <1>2, Induct
  <2> QED  BY <2>1
<1>4. Upto(count) = [n \in 0 .. NumOptions |-> Step(Upto(count), n)]
  <2>1. \E f : f = [n \in 0 .. NumOptions |-> Step(f, n)]
    BY <1>3
  <2> QED  BY <2>1, Zenon DEF Upto
<1> QED  BY <1>4 DEF Option

(* A sum of counts is a number no smaller than any of them. *)
LEMMA SumBound ==
  ASSUME NEW count \in Counts
  PROVE  Sum(count) \in Nat /\ \A o \in Option : count[o] <= Sum(count)
<1> USE Constants
<1> DEFINE T == {n \in 0 .. NumOptions :
                   /\ Upto(count)[n] \in Nat
                   /\ \A o \in 1 .. n : count[o] <= Upto(count)[n]}
<1>1. 0 \in T
  BY UptoIs
<1>2. ASSUME NEW n \in Option, n - 1 \in T
      PROVE  n \in T
  <2>1. Upto(count)[n] = Upto(count)[n - 1] + count[n] /\ count[n] \in Nat
    BY UptoIs DEF Counts
  <2>2. Upto(count)[n] \in Nat /\ Upto(count)[n - 1] \in Nat
        /\ Upto(count)[n - 1] <= Upto(count)[n] /\ count[n] <= Upto(count)[n]
    BY <1>2, <2>1
  <2>3. ASSUME NEW o \in 1 .. n
        PROVE  count[o] <= Upto(count)[n]
    <3>1. CASE o = n
      BY <2>2, <3>1
    <3>2. CASE o # n
      <4>1. o \in 1 .. n - 1 /\ o \in Option
        BY <3>2 DEF Option
      <4>2. count[o] <= Upto(count)[n - 1] /\ count[o] \in Nat
        BY <1>2, <4>1 DEF Counts
      <4> QED  BY <2>2, <4>2
    <3> QED  BY <3>1, <3>2
  <2>4. n \in 0 .. NumOptions
    BY DEF Option
  <2> QED  BY <2>2, <2>3, <2>4
<1>3. NumOptions \in T
  <2>1. 0 .. NumOptions \subseteq T
    <3> HIDE DEF T
    <3> QED  BY <1>1, <1>2, Induct
  <2> QED  BY <2>1
<1> QED  BY <1>3, SumIs DEF Option

(* More votes of every option are more votes. *)
LEMMA SumMonotonic ==
  ASSUME NEW a \in Counts, NEW b \in Counts, Below(a, b)
  PROVE  Sum(a) <= Sum(b)
<1> USE Constants
<1> DEFINE T == {n \in 0 .. NumOptions :
                   /\ Upto(a)[n] \in Nat /\ Upto(b)[n] \in Nat
                   /\ Upto(a)[n] <= Upto(b)[n]}
<1>1. 0 \in T
  BY UptoIs
<1>2. ASSUME NEW n \in Option, n - 1 \in T
      PROVE  n \in T
  <2>1. /\ Upto(a)[n] = Upto(a)[n - 1] + a[n] /\ a[n] \in Nat
        /\ Upto(b)[n] = Upto(b)[n - 1] + b[n] /\ b[n] \in Nat
    BY UptoIs DEF Counts
  <2>2. a[n] <= b[n] /\ n \in 0 .. NumOptions
    BY DEF Below, Option
  <2> QED  BY <1>2, <2>1, <2>2
<1>3. NumOptions \in T
  <2>1. 0 .. NumOptions \subseteq T
    <3> HIDE DEF T
    <3> QED  BY <1>1, <1>2, Induct
  <2> QED  BY <2>1
<1> QED  BY <1>3, SumIs

LEMMA SumNoVotes == Sum(NoVotes) = 0
<1> USE Constants
<1> DEFINE T == {n \in 0 .. NumOptions : Upto(NoVotes)[n] = 0}
<1>1. 0 \in T
  BY UptoIs
<1>2. ASSUME NEW n \in Option, n - 1 \in T
      PROVE  n \in T
  BY <1>2, UptoIs DEF NoVotes, Option
<1>3. NumOptions \in T
  <2>1. 0 .. NumOptions \subseteq T
    <3> HIDE DEF T
    <3> QED  BY <1>1, <1>2, Induct
  <2> QED  BY <2>1
<1> QED  BY <1>3, SumIs

(* The row of no votes is as sound as any. *)
LEMMA EmptySound == Bounded(Empty) /\ Exact(Empty)
BY Constants, SumNoVotes DEF Bounded, Exact, Empty, NoVotes

-----------------------------------------------------------------------------
(* Rows *)

(* The latest row is the one none is later than. *)
LEMMA LatestIs ==
  ASSUME TypeOK, NEW m \in Written, \A t \in Written : t <= m
  PROVE  Latest = rows[m]
<1>1. Max(Written) = m
  <2>1. Written \subseteq Nat
    BY Constants
  <2>2. m \in Written /\ \A y \in Written : m >= y
    BY <2>1
  <2>3. \A x \in Written : (\A y \in Written : x >= y) => x = m
    BY <2>1, <2>2
  <2> QED  BY <2>2, <2>3 DEF Max
<1>2. rows[m] # NoRow
  BY DEF Written
<1> QED  BY <1>1, <1>2 DEF Latest, LatestSnapshot

LEMMA NoneLatest ==
  ASSUME Written = {}
  PROVE  Latest = Empty
BY DEF Latest, LatestSnapshot

(* What a tick may floor at: one of the rows, or nothing. *)
LEMMA LatestSound ==
  ASSUME TypeOK, Counted, Dated, Shared
  PROVE  /\ Latest \in Row
         /\ AtMostCast(Latest.count) /\ Bounded(Latest)
         /\ Latest = Empty \/ \E m \in Written : Latest = rows[m]
<1>1. CASE Written = {}
  <2>1. \A o \in Option : NoVotes[o] = 0 /\ cast[o] \in Nat
    BY DEF NoVotes, TypeOK, Counts
  <2> QED  BY <1>1, <2>1, NoneLatest, Constants, EmptySound DEF AtMostCast
<1>2. CASE Written # {}
  <2>1. PICK m \in Written : \A t \in Written : t <= m
    BY <1>2 DEF Dated
  <2>2. Latest = rows[m]
    BY <2>1, LatestIs
  <2>3. rows[m] \in Row
    BY DEF TypeOK, Written
  <2> QED  BY <2>2, <2>3 DEF Counted, Shared
<1> QED  BY <1>1, <1>2

(* Two workers in a leader's tick are one. *)
LEMMA Alone ==
  ASSUME Led, Punctual
  PROVE  \A v, w \in Busy : v = w
BY DEF Led

LEMMA WritingBusy == Writing \subseteq Busy
BY DEF Writing, Busy

LEMMA WrittenRow ==
  ASSUME TypeOK, NEW t \in Written
  PROVE  rows[t] \in Row
BY DEF TypeOK, Written

LEMMA KnownCounts ==
  ASSUME TypeOK
  PROVE  Known \subseteq Counts
<1>1. \A row \in Row : row.count \in Counts
  BY DEF Row
<1>2. \A t \in Written : rows[t].count \in Counts
  BY <1>1, WrittenRow
<1>3. \A w \in Worker : reading[w] \in Counts /\ prev[w].count \in Counts
  BY <1>1 DEF TypeOK
<1>4. tally \in Counts
  BY DEF TypeOK
<1> QED  BY <1>2, <1>3, <1>4 DEF Known

(* A merged row lies between what it merges and what was cast. *)
LEMMA MergeSound ==
  ASSUME NEW p \in Row, NEW next \in Counts, cast \in Counts,
         AtMostCast(p.count), AtMostCast(next), Bounded(p)
  PROVE  /\ Merge(p, next) \in Row
         /\ AtMostCast(Merge(p, next).count)
         /\ \A o \in Option : p.count[o] <= Merge(p, next).count[o]
         /\ p.total <= Merge(p, next).total
         /\ Bounded(Merge(p, next))
<1> DEFINE c == [o \in Option |-> Larger(p.count[o], next[o])]
           n == Larger(p.total, Sum(next))
<1>1. Merge(p, next) = [total |-> n, count |-> c]
  BY DEF Merge
<1>2. \A o \in Option : p.count[o] \in Nat /\ next[o] \in Nat /\ cast[o] \in Nat
  BY DEF Counts, Row
<1>3. p.total \in Nat /\ Sum(next) \in Nat /\ \A o \in Option : next[o] <= Sum(next)
  BY SumBound DEF Row
<1>4. c \in Counts
  BY <1>2 DEF Counts, Larger
<1>5. \A o \in Option : c[o] <= cast[o] /\ p.count[o] <= c[o]
  BY <1>2 DEF AtMostCast, Larger
<1>6. n \in Nat /\ p.total <= n
  BY <1>3 DEF Larger
<1>7. \A o \in Option : c[o] <= n
  BY <1>2, <1>3 DEF Bounded, Larger
<1> HIDE DEF c, n
<1>8. Merge(p, next).count = c /\ Merge(p, next).total = n
  BY <1>1
<1>9. Merge(p, next) \in Row
  BY <1>1, <1>4, <1>6 DEF Row
<1> QED  BY <1>5, <1>6, <1>7, <1>8, <1>9 DEF AtMostCast, Bounded

(* Of two stages of one count, merging picks the later. *)
LEMMA MergeExact ==
  ASSUME NEW p \in Row, NEW next \in Counts, Exact(p),
         Below(p.count, next) \/ Below(next, p.count)
  PROVE  /\ Exact(Merge(p, next))
         /\ Merge(p, next).count \in {p.count, next}
<1> DEFINE c == [o \in Option |-> Larger(p.count[o], next[o])]
           n == Larger(p.total, Sum(next))
<1>1. Merge(p, next).count = c /\ Merge(p, next).total = n
  BY DEF Merge
<1>2. /\ p.count \in Counts
      /\ \A o \in Option : p.count[o] \in Nat /\ next[o] \in Nat
  BY DEF Counts, Row
<1>3. p.total = Sum(p.count) /\ Sum(p.count) \in Nat /\ Sum(next) \in Nat
  BY <1>2, SumBound DEF Exact
<1>4. CASE Below(p.count, next)
  <2>1. \A o \in Option : c[o] = next[o]
    BY <1>2, <1>4 DEF Below, Larger
  <2>2. c = next
    BY <2>1 DEF Counts
  <2>3. n = Sum(next)
    BY <1>2, <1>3, <1>4, SumMonotonic DEF Larger
  <2> QED  BY <1>1, <2>2, <2>3 DEF Exact
<1>5. CASE Below(next, p.count)
  <2>1. \A o \in Option : c[o] = p.count[o]
    BY <1>2, <1>5 DEF Below, Larger
  <2>2. c = p.count
    BY <1>2, <2>1 DEF Counts
  <2>3. n = Sum(p.count)
    BY <1>2, <1>3, <1>5, SumMonotonic DEF Larger
  <2> QED  BY <1>1, <2>2, <2>3 DEF Exact
<1> QED  BY <1>4, <1>5

-----------------------------------------------------------------------------
(* Counts that are known already, or none, keep the stages one count's. *)
LEMMA StagedKept ==
  ASSUME TypeOK, Staged, tally' = tally,
         Known' \subseteq Known \cup {NoVotes},
         \A t \in Written' : Exact(rows[t])',
         \A w \in Worker : Exact(prev[w])'
  PROVE  Staged'
<1>1. \A a \in Known : Below(NoVotes, a) /\ a \in Counts
  <2>1. \A a \in Counts, o \in Option : NoVotes[o] <= a[o]
    BY DEF NoVotes, Counts
  <2> QED  BY <2>1, KnownCounts DEF Below
<1>2. Below(NoVotes, NoVotes) /\ tally \in Known
  BY DEF Below, NoVotes, Known
<1>3. \A a \in Known' : Below(a, tally')
  BY <1>1, <1>2 DEF Staged
<1>4. \A a, b \in Known' : Below(a, b) \/ Below(b, a)
  BY <1>1, <1>2 DEF Staged
<1> QED  BY <1>3, <1>4 DEF Staged

LEMMA SameCounts ==
  ASSUME UNCHANGED <<countVars, rows, reading, prev>>
  PROVE  /\ Shared => Shared'
         /\ (losses = 0 => Staged) => (losses = 0 => Staged)'
<1>1. Written' = Written
  BY DEF Written
<1>2. Known' = Known
  BY <1>1 DEF Known, countVars
<1> QED  BY <1>1, <1>2 DEF Shared, Staged, countVars

(* Steps that leave the rows, and so the chart and the latest row, alone. *)
LEMMA SameRows ==
  ASSUME rows' = rows
  PROVE  Written' = Written /\ Latest' = Latest /\ RowsGrow' = RowsGrow
         /\ LatestSnapshot' = LatestSnapshot
<1>1. Written' = Written
  BY DEF Written
<1>2. LatestSnapshot' = LatestSnapshot
  BY <1>1 DEF LatestSnapshot
<1> QED  BY <1>1, <1>2 DEF Latest, RowsGrow, Timeseries

LEMMA AdvanceStep ==
  ASSUME IInv, Advance
  PROVE  IInv'
<1> USE Constants DEF IInv
<1>1. Written' = Written /\ Latest' = Latest /\ RowsGrow' = RowsGrow
      /\ Busy' = Busy /\ Writing' = Writing
  BY SameRows DEF Advance, Busy, Writing, workVars
<1>2. clock \in Nat /\ clock' = clock + 1 /\ clock' \in Time
  BY DEF Advance, TypeOK, Time
<1>3. TypeOK'
  BY <1>1, <1>2 DEF Advance, TypeOK, leaseVars, countVars, workVars
<1>4. Led'
  BY <1>1, <1>2 DEF Advance, Led, TypeOK, leaseVars
<1>5. Counted'
  BY <1>1 DEF Advance, Counted, AtMostCast, countVars, workVars
<1>6. Dated'
  BY <1>1, <1>2 DEF Advance, Dated, Time
<1>7. Floored'
  BY <1>1, <1>2 DEF Advance, Floored, workVars, Time, Writing
<1>8. Shared' /\ (losses = 0 => Staged)'
  BY SameCounts DEF Advance, workVars
<1> QED  BY <1>1, <1>3, <1>4, <1>5, <1>6, <1>7, <1>8

LEMMA FlushStep ==
  ASSUME IInv, NEW p \in Option, FlushVote(p)
  PROVE  IInv'
<1> USE Constants DEF IInv
<1>1. Written' = Written /\ Latest' = Latest /\ RowsGrow' = RowsGrow
      /\ Busy' = Busy /\ Writing' = Writing
  BY SameRows DEF FlushVote, Busy, Writing, workVars
<1>2. tally' \in Counts /\ cast' \in Counts
  BY DEF FlushVote, TypeOK, Counts
<1>3. \A o \in Option : cast[o] \in Nat /\ cast'[o] \in Nat
                        /\ cast[o] <= cast'[o] /\ tally[o] \in Nat
  BY <1>2 DEF FlushVote, TypeOK, Counts
<1>4. TypeOK'
  BY <1>1, <1>2 DEF FlushVote, TypeOK, leaseVars, workVars
<1>5. Counted'
  <2>1. AtMostCast(tally)'
    BY <1>3 DEF FlushVote, Counted, AtMostCast, TypeOK, Counts
  <2>2. ASSUME NEW count \in Counts, AtMostCast(count)
        PROVE  \A o \in Option : count[o] <= cast'[o]
    BY <1>3, <2>2 DEF AtMostCast, Counts
  <2>3. \A t \in Written : AtMostCast(rows[t].count)'
    <3>1. \A t \in Written : rows[t].count \in Counts
      BY WrittenRow DEF Row
    <3>2. rows' = rows
      BY DEF FlushVote
    <3> QED  BY <2>2, <3>1, <3>2 DEF Counted, AtMostCast
  <2>4. \A w \in Worker : AtMostCast(reading[w])' /\ AtMostCast(prev[w].count)'
    BY <2>2 DEF FlushVote, Counted, AtMostCast, TypeOK, Row, workVars
  <2> QED  BY <1>1, <2>1, <2>3, <2>4 DEF Counted
<1>6. Led' /\ Dated' /\ Floored'
  BY <1>1 DEF FlushVote, Led, Dated, Floored, leaseVars, workVars
<1>7. Shared'
  BY <1>1 DEF FlushVote, Shared, workVars
<1>8. ASSUME losses = 0 PROVE Staged'
  <2> DEFINE Others == Known \cup {tally'}
  <2>1. \A o \in Option : tally[o] <= tally'[o]
    BY <1>3 DEF FlushVote, TypeOK, Counts
  <2>2. \A a \in Others : Below(a, tally')
    <3>1. ASSUME NEW a \in Known PROVE Below(a, tally')
      <4>1. Below(a, tally) /\ a \in Counts
        BY <1>8, KnownCounts DEF Staged
      <4>2. \A o \in Option : a[o] \in Nat /\ tally[o] \in Nat /\ tally'[o] \in Nat
        BY <1>2, <1>3, <4>1 DEF Counts
      <4> QED  BY <2>1, <4>1, <4>2 DEF Below
    <3>2. Below(tally', tally')
      BY <1>2 DEF Below, Counts
    <3> QED  BY <3>1, <3>2
  <2>3. Known' \subseteq Others
    BY <1>1 DEF FlushVote, Known, workVars
  <2>4. \A a, b \in Others : Below(a, b) \/ Below(b, a)
    BY <1>8, <2>2 DEF Staged
  <2>5. rows' = rows /\ prev' = prev
    BY DEF FlushVote, workVars
  <2> HIDE DEF Others
  <2>6. (\A t \in Written : Exact(rows[t]))' /\ (\A w \in Worker : Exact(prev[w]))'
    BY <1>1, <1>8, <2>5 DEF Staged
  <2>7. \A a \in Known' : Below(a, tally')
    BY <2>2, <2>3
  <2>8. \A a, b \in Known' : Below(a, b) \/ Below(b, a)
    BY <2>3, <2>4
  <2> QED  BY <2>6, <2>7, <2>8 DEF Staged
<1>9. (losses = 0 => Staged)'
  BY <1>8 DEF FlushVote
<1> QED  BY <1>1, <1>4, <1>5, <1>6, <1>7, <1>9

LEMMA LossStep ==
  ASSUME IInv, LoseRedis
  PROVE  IInv'
<1> USE Constants DEF IInv
<1>1. Written' = Written /\ Latest' = Latest /\ RowsGrow' = RowsGrow
      /\ Busy' = Busy /\ Writing' = Writing
  BY SameRows DEF LoseRedis, Busy, Writing, workVars
<1>2. TypeOK'
  BY <1>1 DEF LoseRedis, TypeOK, workVars
<1>3. Led'
  BY <1>1 DEF LoseRedis, Led
<1>4. Counted'
  <2>1. \A o \in Option : tally'[o] = 0 /\ cast'[o] \in Nat
    BY DEF LoseRedis, NoVotes, TypeOK, Counts
  <2>2. AtMostCast(tally)'
    BY <2>1 DEF AtMostCast
  <2>3. cast' = cast /\ rows' = rows /\ reading' = reading /\ prev' = prev
    BY DEF LoseRedis, workVars
  <2> QED  BY <1>1, <2>2, <2>3 DEF Counted, AtMostCast
<1>5. Dated' /\ Floored'
  BY <1>1 DEF LoseRedis, Dated, Floored, workVars
<1>6. Shared' /\ losses' # 0
  BY <1>1 DEF LoseRedis, Shared, workVars, TypeOK
<1> QED  BY <1>1, <1>2, <1>3, <1>4, <1>5, <1>6

LEMMA ElectStep ==
  ASSUME IInv, NEW w \in Worker, Elect(w)
  PROVE  IInv'
<1> USE Constants DEF IInv
<1>1. /\ UNCHANGED <<clock, countVars, rows, at, reading, prev>>
      /\ pc' \in [Worker -> {"idle", "check", "renew", "start", "read", "load",
                             "insert"}]
      /\ \A v \in Worker \ {w} : pc'[v] = pc[v]
      /\ pc'[w] \in {"idle", "check", "renew", "start"}
  BY DEF Elect, Claim, Check, Renew, TypeOK
<1>2. holder' \in Worker \cup {NoWorker} /\ expiry' \in Nat
  BY DEF Elect, Claim, Check, Renew, TypeOK, Time, leaseVars
<1>3. Written' = Written /\ Latest' = Latest /\ RowsGrow' = RowsGrow
  BY <1>1, SameRows
<1>4. TypeOK'
  BY <1>1, <1>2, <1>3 DEF TypeOK, countVars
<1>5. Led'
  <2> SUFFICES ASSUME Punctual, NEW v \in Busy'
               PROVE  holder' = v /\ clock' < expiry'
    BY DEF Led
  <2> USE DEF Busy
  <2>1. CASE Claim(w)
    <3>1. v \in Busy /\ v # w
      BY <2>1 DEF Claim, TypeOK
    <3>2. Held
      BY <3>1 DEF Led, Held
    <3> QED  BY <2>1, <3>1, <3>2 DEF Claim, Led, leaseVars
  <2>2. CASE Check(w)
    BY <2>2 DEF Check, Led, Held, TypeOK, leaseVars
  <2>3. CASE Renew(w)
    <3>1. v \in Busy
      BY <2>3 DEF Renew, TypeOK
    <3>2. clock \in Nat
      BY DEF TypeOK
    <3> QED  BY <2>3, <3>1, <3>2 DEF Renew, Led
  <2> QED  BY <2>1, <2>2, <2>3 DEF Elect
<1>6. Counted' /\ Dated'
  BY <1>1, <1>3 DEF Counted, AtMostCast, Dated, countVars
<1>7. Floored'
  BY <1>1, <1>3 DEF Floored, Writing
<1>8. Shared' /\ (losses = 0 => Staged)'
  BY <1>1, SameCounts
<1> QED  BY <1>3, <1>4, <1>5, <1>6, <1>7, <1>8

LEMMA StartStep ==
  ASSUME IInv, NEW w \in Worker, Start(w)
  PROVE  IInv'
<1> USE Constants DEF IInv
<1>1. Written' = Written /\ Latest' = Latest /\ RowsGrow' = RowsGrow
  BY SameRows DEF Start
<1>2. Busy' = Busy
  BY DEF Start, Busy, TypeOK
<1>3. TypeOK'
  BY <1>1 DEF Start, TypeOK, leaseVars, countVars
<1>4. Led' /\ Counted' /\ Dated'
  BY <1>1, <1>2 DEF Start, Led, Counted, AtMostCast, Dated, leaseVars, countVars
<1>5. Floored'
  <2>1. at'[w] = clock /\ clock \in Time /\ clock \in Nat /\ clock' = clock
    BY DEF Start, TypeOK
  <2>2. \A v \in Writing' : v = w \/ (v \in Writing /\ at'[v] = at[v])
    BY DEF Start, Writing, TypeOK
  <2>3. \A v \in Worker : pc'[v] = "insert" => pc[v] = "insert" /\ prev'[v] = prev[v]
    BY DEF Start, TypeOK
  <2>4. \A v \in Writing' : at'[v] \in Time /\ at'[v] <= clock'
    BY <2>1, <2>2 DEF Floored
  <2>5. ASSUME Punctual, NEW v \in Writing', NEW t \in Written
        PROVE  t <= at'[v]
    BY <2>1, <2>2, <2>5 DEF Floored, Dated
  <2> QED  BY <1>1, <2>3, <2>4, <2>5 DEF Floored
<1>6. Shared' /\ (losses = 0 => Staged)'
  BY SameCounts DEF Start
<1> QED  BY <1>1, <1>3, <1>4, <1>5, <1>6

LEMMA ReadStep ==
  ASSUME IInv, NEW w \in Worker, ReadCounts(w)
  PROVE  IInv'
<1> USE Constants DEF IInv
<1>1. Written' = Written /\ Latest' = Latest /\ RowsGrow' = RowsGrow
  BY SameRows DEF ReadCounts
<1>2. Busy' = Busy /\ Writing' = Writing
  BY DEF ReadCounts, Busy, Writing, TypeOK
<1>3. TypeOK'
  BY <1>1 DEF ReadCounts, TypeOK, leaseVars, countVars
<1>4. Counted'
  <2>1. \A v \in Worker : reading'[v] = reading[v] \/ reading'[v] = tally
    BY DEF ReadCounts, TypeOK
  <2> QED  BY <1>1, <2>1 DEF ReadCounts, Counted, AtMostCast, countVars
<1>5. Led' /\ Dated'
  BY <1>1, <1>2 DEF ReadCounts, Led, Dated, leaseVars
<1>6. Floored'
  <2>1. \A v \in Worker : pc'[v] = "insert" => pc[v] = "insert"
    BY DEF ReadCounts, TypeOK
  <2> QED  BY <1>1, <1>2, <2>1 DEF ReadCounts, Floored
<1>7. Shared'
  BY <1>1 DEF ReadCounts, Shared
<1>8. (losses = 0 => Staged)'
  <2> SUFFICES ASSUME losses = 0 PROVE Staged'
    BY DEF ReadCounts, countVars
  <2>1. \A v \in Worker : reading'[v] = reading[v] \/ reading'[v] = tally
    BY DEF ReadCounts, TypeOK
  <2>2. tally' = tally /\ rows' = rows /\ prev' = prev
    BY DEF ReadCounts, countVars
  <2>3. Known' \subseteq Known
    BY <1>1, <2>1, <2>2 DEF Known
  <2>4. (\A t \in Written : Exact(rows[t]))' /\ (\A v \in Worker : Exact(prev[v]))'
    BY <1>1, <2>2 DEF Staged
  <2> QED  BY <2>2, <2>3, <2>4, StagedKept
<1> QED  BY <1>1, <1>3, <1>4, <1>5, <1>6, <1>7, <1>8

LEMMA LoadStep ==
  ASSUME IInv, NEW w \in Worker, LoadPrevious(w)
  PROVE  IInv'
<1> USE Constants DEF IInv
<1>1. Written' = Written /\ Latest' = Latest /\ RowsGrow' = RowsGrow
  BY SameRows DEF LoadPrevious
<1>2. Busy' = Busy /\ Writing' = Writing
  BY DEF LoadPrevious, Busy, Writing, TypeOK
<1>3. /\ Latest \in Row /\ AtMostCast(Latest.count) /\ Bounded(Latest)
      /\ Latest = Empty \/ \E m \in Written : Latest = rows[m]
  BY LatestSound
<1>4. /\ prev' \in [Worker -> Row]
      /\ \A v \in Worker : prev'[v] = IF v = w THEN Latest ELSE prev[v]
  BY <1>3 DEF LoadPrevious, TypeOK
<1>5. TypeOK'
  <2>1. pc' \in [Worker -> {"idle", "check", "renew", "start", "read", "load",
                            "insert"}]
    BY DEF LoadPrevious, TypeOK
  <2> QED
    BY <1>1, <1>4, <2>1
    DEF LoadPrevious, TypeOK, leaseVars, countVars
<1>6. Counted'
  BY <1>1, <1>3, <1>4 DEF LoadPrevious, Counted, AtMostCast, countVars
<1>7. Led' /\ Dated'
  BY <1>1, <1>2 DEF LoadPrevious, Led, Dated, leaseVars
<1>8. Floored'
  <2>1. \A v \in Worker : pc'[v] = "insert" => v = w \/ pc[v] = "insert"
    BY DEF LoadPrevious, TypeOK
  <2> QED  BY <1>1, <1>2, <1>4, <2>1 DEF LoadPrevious, Floored
<1>9. Shared'
  BY <1>1, <1>3, <1>4 DEF LoadPrevious, Shared
<1>10. (losses = 0 => Staged)'
  <2> SUFFICES ASSUME losses = 0 PROVE Staged'
    BY DEF LoadPrevious, countVars
  <2>1. tally' = tally /\ rows' = rows /\ reading' = reading
    BY DEF LoadPrevious, countVars
  <2>2. Latest.count \in Known \cup {NoVotes}
    BY <1>3, Constants DEF Known
  <2>3. \A v \in Worker : prev'[v].count \in Known \cup {NoVotes}
    BY <1>4, <2>2 DEF Known
  <2>4. Known' \subseteq Known \cup {NoVotes}
    BY <1>1, <2>1, <2>3 DEF Known
  <2>5. Exact(Latest)
    BY <1>3, EmptySound DEF Staged
  <2>6. (\A t \in Written : Exact(rows[t]))' /\ (\A v \in Worker : Exact(prev[v]))'
    BY <1>1, <1>4, <2>1, <2>5 DEF Staged
  <2> QED  BY <2>1, <2>4, <2>6, StagedKept
<1> QED  BY <1>1, <1>5, <1>6, <1>7, <1>8, <1>9, <1>10

(* A worker that is done keeps nothing. *)
LEMMA FinishStep ==
  ASSUME IInv, NEW w \in Worker, Finish(w), UNCHANGED <<clock, leaseVars, countVars>>
  PROVE  /\ pc' \in [Worker -> {"idle", "check", "renew", "start", "read", "load",
                                "insert"}]
         /\ at' \in [Worker -> Time \cup {0}]
         /\ reading' \in [Worker -> Counts]
         /\ prev' \in [Worker -> Row]
         /\ \A v \in Worker : /\ reading'[v] \in {reading[v], NoVotes}
                              /\ prev'[v] \in {prev[v], Empty}
                              /\ Bounded(prev[v])'
                              /\ AtMostCast(reading[v])' /\ AtMostCast(prev[v].count)'
         /\ Busy' \subseteq Busy \ {w} /\ Writing' \subseteq Writing \ {w}
         /\ \A v \in Worker \ {w} : pc'[v] = pc[v] /\ at'[v] = at[v]
                                     /\ prev'[v] = prev[v]
         /\ pc'[w] = "idle"
<1> USE Constants DEF IInv
<1>1. /\ pc' \in [Worker -> {"idle", "check", "renew", "start", "read", "load",
                             "insert"}]
      /\ at' \in [Worker -> Time \cup {0}]
      /\ reading' \in [Worker -> Counts]
      /\ prev' \in [Worker -> Row]
  BY DEF Finish, TypeOK
<1>2. /\ \A v \in Worker \ {w} : /\ pc'[v] = pc[v] /\ at'[v] = at[v]
                                  /\ prev'[v] = prev[v] /\ reading'[v] = reading[v]
      /\ pc'[w] = "idle" /\ prev'[w] = Empty /\ reading'[w] = NoVotes
  BY DEF Finish, TypeOK
<1>3. AtMostCast(NoVotes)
  BY DEF AtMostCast, NoVotes, TypeOK, Counts
<1>4. \A v \in Worker : AtMostCast(reading[v])' /\ AtMostCast(prev[v].count)'
  BY <1>2, <1>3 DEF Counted, AtMostCast, countVars
<1>5. \A v \in Worker : Bounded(prev[v])'
  BY <1>2, EmptySound DEF Shared
<1>6. Busy' \subseteq Busy \ {w} /\ Writing' \subseteq Writing \ {w}
  BY <1>2 DEF Busy, Writing
<1> QED  BY <1>1, <1>2, <1>4, <1>5, <1>6

(* Nor does it change which stages are around. *)
LEMMA FinishStaged ==
  ASSUME IInv, NEW w \in Worker, Finish(w), UNCHANGED <<clock, leaseVars, countVars>>,
         losses = 0
  PROVE  \A v \in Worker : /\ reading'[v] \in Known \cup {NoVotes}
                           /\ prev'[v].count \in Known \cup {NoVotes}
                           /\ Exact(prev[v])'
<1>1. \A v \in Worker : /\ reading'[v] \in {reading[v], NoVotes}
                        /\ prev'[v] \in {prev[v], Empty}
  BY FinishStep
<1>2. \A v \in Worker : Exact(prev[v])'
  BY <1>1, EmptySound DEF IInv, Staged
<1> QED  BY <1>1, <1>2, Constants DEF Known

LEMMA AbortStep ==
  ASSUME IInv, NEW w \in Worker, Abort(w)
  PROVE  IInv'
<1> USE Constants DEF IInv
<1>1. Written' = Written /\ Latest' = Latest /\ RowsGrow' = RowsGrow
  BY SameRows DEF Abort
<1> USE FinishStep DEF Abort
<1>2. TypeOK'
  BY <1>1 DEF TypeOK, leaseVars, countVars
<1>3. Led' /\ Dated'
  BY <1>1 DEF Led, Dated, leaseVars
<1>4. Counted'
  BY <1>1 DEF Counted, AtMostCast, countVars
<1>5. Floored'
  BY <1>1 DEF Floored, Writing
<1>6. Shared'
  BY <1>1 DEF Shared
<1>7. (losses = 0 => Staged)'
  <2> SUFFICES ASSUME losses = 0 PROVE Staged'
    BY DEF countVars
  <2>1. Known' \subseteq Known \cup {NoVotes}
    BY <1>1, FinishStaged DEF Known, countVars
  <2>2. (\A t \in Written : Exact(rows[t]))' /\ (\A v \in Worker : Exact(prev[v]))'
    BY <1>1, FinishStaged DEF Staged
  <2> QED  BY <2>1, <2>2, StagedKept DEF countVars
<1> QED  BY <1>1, <1>2, <1>3, <1>4, <1>5, <1>6, <1>7

LEMMA InsertStep ==
  ASSUME IInv, NEW w \in Worker, InsertSnapshot(w)
  PROVE  IInv'
<1> USE Constants DEF IInv
<1> DEFINE m == Merge(prev[w], reading[w])
           a == at[w]
<1>1. w \in Writing /\ pc[w] = "insert" /\ a \in Time /\ a <= clock
  BY DEF InsertSnapshot, Writing, Floored
<1>2. /\ m \in Row /\ AtMostCast(m.count) /\ Bounded(m)
      /\ \A o \in Option : prev[w].count[o] <= m.count[o]
      /\ prev[w].total <= m.total
  BY MergeSound DEF TypeOK, Counted, Shared
<1>3. /\ rows' \in [Time -> Row \cup {NoRow}]
      /\ rows'[a] = m
      /\ \A t \in Time \ {a} : rows'[t] = rows[t]
  BY <1>1, <1>2 DEF InsertSnapshot, TypeOK
<1>4. a \notin Written /\ Written \subseteq Written' /\ Written' \subseteq Written \cup {a}
  BY <1>3 DEF InsertSnapshot, Written
<1>5. UNCHANGED <<clock, leaseVars, countVars>> /\ Finish(w)
  BY DEF InsertSnapshot
<1>6. \A t \in Written : rows'[t] = rows[t]
  BY <1>3, <1>4
<1>7. TypeOK'
  <2> QED  BY <1>3, <1>5, FinishStep DEF TypeOK, leaseVars, countVars
<1>8. Led'
  BY <1>5, FinishStep DEF Led, leaseVars
<1>9. Counted'
  <2>1. cast' = cast /\ tally' = tally
    BY <1>5 DEF countVars
  <2>2. \A t \in Written' : AtMostCast(rows[t].count)'
    BY <1>2, <1>3, <1>4, <1>6, <2>1 DEF Counted, AtMostCast
  <2> QED  BY <1>5, <2>1, <2>2, FinishStep DEF Counted, AtMostCast
<1>10. Dated'
  <2>1. clock' = clock /\ clock \in Nat /\ a \in Nat /\ Written \subseteq Nat
    BY <1>1, <1>5 DEF TypeOK
  <2>2. \A t \in Written' : t <= clock'
    BY <1>1, <1>4, <2>1 DEF Dated
  <2>3. Written' = {} \/ \E n \in Written' : \A t \in Written' : t <= n
    <3>1. CASE Written' = Written
      BY <3>1 DEF Dated
    <3>2. CASE Written' = Written \cup {a} /\ Written = {}
      BY <3>2, <2>1
    <3>3. CASE Written' = Written \cup {a} /\ Written # {}
      <4>1. PICK n \in Written : \A t \in Written : t <= n
        BY <3>3 DEF Dated
      <4>2. CASE a <= n
        BY <3>3, <4>1, <4>2, <2>1
      <4>3. CASE n < a
        <5>1. a \in Written' /\ \A t \in Written' : t <= a
          BY <3>3, <4>1, <4>3, <2>1
        <5> QED  BY <5>1
      <4> QED  BY <4>1, <4>2, <4>3, <2>1
    <3> QED  BY <1>4, <3>1, <3>2, <3>3
  <2> QED  BY <2>2, <2>3 DEF Dated
<1>11. Floored'
  <2>1. \A v \in Writing' : at'[v] \in Time /\ at'[v] <= clock'
    BY <1>5, FinishStep DEF Floored, Writing
  <2>2. ASSUME Punctual PROVE Writing' = {} /\ \A v \in Worker : pc'[v] # "insert"
    <3>1. \A v \in Writing : v = w
      BY <1>1, <2>2, Alone, WritingBusy
    <3>2. Writing' = {}
      BY <1>5, <3>1, FinishStep
    <3> QED  BY <3>2 DEF Writing
  <2> QED  BY <2>1, <2>2 DEF Floored
<1>12. ASSUME Punctual PROVE RowsGrow'
  <2> SUFFICES ASSUME NEW s \in Written', NEW t \in Written', s < t
               PROVE  /\ rows'[s].total <= rows'[t].total
                      /\ \A o \in Option : rows'[s].count[o] <= rows'[t].count[o]
    BY DEF RowsGrow, Timeseries
  <2>1. \A r \in Written : r <= a /\ r \in Nat /\ a \in Nat
    BY <1>1, <1>12 DEF Floored
  <2>2. s \in Written
    BY <1>4, <2>1
  <2>3. CASE t \in Written
    BY <1>6, <1>12, <2>2, <2>3 DEF RowsGrow, Timeseries
  <2>4. CASE t = a
    <3>1. PICK n \in Written : \A r \in Written : r <= n
      BY <2>2 DEF Dated
    <3>2. prev[w] = rows[n]
      BY <1>1, <1>12, <3>1, LatestIs DEF Floored
    <3>3. /\ rows[s].total <= rows[n].total
          /\ \A o \in Option : rows[s].count[o] <= rows[n].count[o]
      <4>1. rows[s].total \in Nat /\ \A o \in Option : rows[s].count[o] \in Nat
        BY <2>2, WrittenRow DEF Row, Counts
      <4>2. CASE s = n
        BY <4>1, <4>2
      <4>3. CASE s < n
        BY <1>12, <2>2, <3>1, <4>3 DEF RowsGrow, Timeseries
      <4> QED  BY <2>1, <2>2, <3>1, <4>2, <4>3
    <3>4. \A row \in {rows[s], rows[n], m} :
            row.total \in Nat /\ \A o \in Option : row.count[o] \in Nat
      BY <1>2, <2>2, <3>1, WrittenRow DEF Row, Counts
    <3>5. rows[n].total <= m.total /\ \A o \in Option : rows[n].count[o] <= m.count[o]
      BY <1>2, <3>2
    <3> QED  BY <1>3, <1>6, <2>2, <2>4, <3>3, <3>4, <3>5
  <2> QED  BY <1>4, <2>3, <2>4
<1>13. Shared'
  BY <1>2, <1>3, <1>4, <1>5, <1>6, FinishStep DEF Shared
<1>14. (losses = 0 => Staged)'
  <2> SUFFICES ASSUME losses = 0 PROVE Staged'
    BY <1>5 DEF countVars
  <2>1. prev[w] \in Row /\ reading[w] \in Counts /\ Exact(prev[w])
        /\ prev[w].count \in Known /\ reading[w] \in Known
    BY DEF TypeOK, Staged, Known
  <2>2. Exact(m) /\ m.count \in Known
    BY <2>1, MergeExact DEF Staged
  <2>3. \A t \in Written' : Exact(rows[t])' /\ rows'[t].count \in Known
    BY <1>3, <1>4, <1>6, <2>2 DEF Staged, Known
  <2>4. tally' = tally /\ tally \in Known
    BY <1>5 DEF countVars, Known
  <2>5. Known' \subseteq Known \cup {NoVotes}
    BY <1>5, <2>3, <2>4, FinishStaged DEF Known
  <2>6. \A v \in Worker : Exact(prev[v])'
    BY <1>5, FinishStaged
  <2> QED  BY <2>3, <2>4, <2>5, <2>6, StagedKept
<1> QED  BY <1>7, <1>8, <1>9, <1>10, <1>11, <1>12, <1>13, <1>14 DEF InsertSnapshot

-----------------------------------------------------------------------------
(* What every reachable state satisfies. *)
THEOREM Inductive == Spec => []IInv
<1>1. Init => IInv
  <2> SUFFICES ASSUME Init PROVE IInv
    OBVIOUS
  <2> USE Constants
  <2>1. Written = {} /\ Busy = {} /\ Writing = {}
    BY DEF Init, Written, Busy, Writing
  <2>2. clock \in Time
    BY DEF Init, Time
  <2>3. TypeOK
    BY <2>1, <2>2 DEF Init, TypeOK
  <2>4. Counted
    <3>1. \A o \in Option : NoVotes[o] = 0
      BY DEF NoVotes
    <3> QED  BY <2>1, <3>1 DEF Init, Counted, AtMostCast
  <2>5. Led /\ Dated /\ Floored
    BY <2>1 DEF Init, Led, Dated, Floored
  <2>6. RowsGrow
    BY <2>1 DEF RowsGrow, Timeseries
  <2>7. Shared
    BY <2>1, EmptySound DEF Init, Shared
  <2>8. Staged
    <3>1. Known \subseteq {NoVotes}
      BY <2>1 DEF Init, Known
    <3>2. Below(NoVotes, NoVotes)
      BY DEF Below, NoVotes
    <3>3. tally = NoVotes /\ \A w \in Worker : prev[w] = Empty
      BY DEF Init
    <3> QED  BY <2>1, <3>1, <3>2, <3>3, EmptySound DEF Staged
  <2> QED  BY <2>3, <2>4, <2>5, <2>6, <2>7, <2>8 DEF IInv
<1>2. IInv /\ [Next]_vars => IInv'
  <2> SUFFICES ASSUME IInv, [Next]_vars PROVE IInv'
    OBVIOUS
  <2>1. CASE Advance \/ LoseRedis \/ \E o \in Option : FlushVote(o)
    BY <2>1, AdvanceStep, LossStep, FlushStep
  <2>2. ASSUME NEW w \in Worker, Elect(w) \/ Snapshot(w) \/ Abort(w)
        PROVE  IInv'
    BY <2>2, ElectStep, StartStep, ReadStep, LoadStep, InsertStep, AbortStep
    DEF Snapshot
  <2>3. CASE UNCHANGED vars
    <3>1. rows' = rows
      BY <2>3 DEF vars
    <3>2. Written' = Written /\ Latest' = Latest /\ RowsGrow' = RowsGrow
          /\ Busy' = Busy /\ Writing' = Writing
      BY <2>3, <3>1, SameRows DEF vars, workVars, Busy, Writing
    <3>3. Shared' /\ (losses = 0 => Staged)'
      BY <2>3, SameCounts DEF IInv, vars, workVars
    <3> QED
      BY <2>3, <3>2, <3>3
      DEF IInv, TypeOK, Led, Counted, AtMostCast, Dated, Floored, vars,
          leaseVars, countVars, workVars
  <2> QED  BY <2>1, <2>2, <2>3 DEF Next
<1> QED  BY <1>1, <1>2, PTL DEF Spec

(* leader.go: while ticks end within the lease, and Redis does not lose it *)
(* under one, no two processes are in a leader's tick.                     *)
THEOREM OneLeader == Spec => []LeaderAlone
<1>1. IInv => LeaderAlone
  <2> SUFFICES ASSUME IInv, Punctual PROVE Cardinality(Busy) <= 1
    BY DEF LeaderAlone
  <2>1. \A v, w \in Busy : v = w
    BY Alone DEF IInv
  <2>2. CASE Busy = {}
    BY <2>2, FS_EmptySet
  <2>3. CASE Busy # {}
    <3>1. PICK w \in Busy : Busy = {w}
      BY <2>1, <2>3
    <3> QED  BY <3>1, FS_Singleton
  <2> QED  BY <2>2, <2>3
<1> QED  BY <1>1, Inductive, PTL

(* mergeSnapshot: no row claims a vote that was never flushed, leaders     *)
(* that overlap and Redis losing its data under a tick included.           *)
THEOREM NoRowOvercounts == Spec => []NeverOvercounts
<1>1. IInv => NeverOvercounts
  BY DEF IInv, Counted, AtMostCast, NeverOvercounts
<1> QED  BY <1>1, Inductive, PTL

(* The chart never falls from a point to a later one, in no option and not *)
(* in total, as long as ticks are punctual; otherwise it may (two_leaders). *)
THEOREM ChartGrows == Spec => [](Punctual => RowsGrow)
<1>1. IInv => (Punctual => RowsGrow)
  BY DEF IInv
<1> QED  BY <1>1, Inductive, PTL

(* mergeSnapshot floors the options and the total apart; still no option's *)
(* share of the results page exceeds the whole, and the shares are the     *)
(* whole until Redis loses data, leaders that overlap included.            *)
THEOREM ResultsAddUp == Spec => []SharesAddUp
<1>1. IInv => SharesAddUp
  <2> SUFFICES ASSUME IInv PROVE SharesAddUp
    OBVIOUS
  <2>1. Results = Latest
    BY DEF Results, Latest
  <2>2. Bounded(Latest) /\ (Latest = Empty \/ \E m \in Written : Latest = rows[m])
    BY LatestSound DEF IInv
  <2>3. losses = 0 => Exact(Latest)
    BY <2>2, EmptySound DEF IInv, Staged
  <2> QED  BY <2>1, <2>2, <2>3 DEF SharesAddUp, Bounded, Exact
<1> QED  BY <1>1, Inductive, PTL

(* Every state is typed: rows and floors are rows, counts are numbers.     *)
THEOREM Typed == Spec => []TypeOK
<1>1. IInv => TypeOK
  BY DEF IInv
<1> QED  BY <1>1, Inductive, PTL

-----------------------------------------------------------------------------
(* What the floor is for *)

(* Until Redis loses data, a punctual tick has read at least what any row  *)
(* counts.                                                                 *)
Fresh ==
  Punctual /\ losses = 0 =>
    \A w \in Worker, t \in Written :
      pc[w] \in {"load", "insert"} => Below(rows[t].count, reading[w])

LEMMA FreshKept ==
  ASSUME IInv, Fresh, [Next]_vars
  PROVE  Fresh'
<1> USE Constants
<1>1. CASE \/ UNCHANGED vars
           \/ Advance
           \/ \E o \in Option : FlushVote(o)
  <2>1. UNCHANGED <<rows, pc, reading, losses>>
    BY <1>1 DEF vars, Advance, FlushVote, workVars, countVars
  <2>2. Written' = Written
    BY <2>1, SameRows
  <2> QED  BY <2>1, <2>2 DEF Fresh
<1>2. CASE LoseRedis
  <2>1. losses \in Nat /\ losses' = losses + 1
    BY <1>2 DEF LoseRedis, IInv, TypeOK
  <2> QED  BY <2>1 DEF Fresh
<1>3. ASSUME NEW w \in Worker, Elect(w) \/ Start(w) \/ LoadPrevious(w)
      PROVE  Fresh'
  <2>1. UNCHANGED <<rows, reading, losses>>
    BY <1>3 DEF Elect, Claim, Check, Renew, Start, LoadPrevious, countVars
  <2>2. Written' = Written
    BY <2>1, SameRows
  <2>3. \A v \in Worker :
          pc'[v] \in {"load", "insert"} => pc[v] \in {"load", "insert"}
    BY <1>3 DEF Elect, Claim, Check, Renew, Start, LoadPrevious, IInv, TypeOK
  <2> QED  BY <2>1, <2>2, <2>3 DEF Fresh
<1>4. ASSUME NEW w \in Worker, ReadCounts(w)
      PROVE  Fresh'
  <2> SUFFICES ASSUME Punctual, losses = 0, NEW v \in Worker, NEW t \in Written,
                      pc'[v] \in {"load", "insert"}
               PROVE  Below(rows[t].count, reading'[v])
    BY <1>4, SameRows DEF Fresh, ReadCounts, countVars
  <2>1. CASE v = w
    <3>1. Below(rows[t].count, tally)
      BY DEF IInv, Staged, Known
    <3>2. reading'[v] = tally
      BY <1>4, <2>1 DEF ReadCounts, IInv, TypeOK
    <3> QED  BY <3>1, <3>2
  <2>2. CASE v # w
    <3>1. reading'[v] = reading[v] /\ pc'[v] = pc[v]
      BY <1>4, <2>2 DEF ReadCounts, IInv, TypeOK
    <3> QED  BY <3>1 DEF Fresh
  <2> QED  BY <2>1, <2>2
<1>5. ASSUME NEW w \in Worker, InsertSnapshot(w)
      PROVE  Fresh'
  <2> SUFFICES ASSUME Punctual, NEW v \in Worker
               PROVE  pc'[v] \notin {"load", "insert"}
    BY DEF Fresh
  <2>1. w \in Busy /\ pc' = [pc EXCEPT ![w] = "idle"]
    BY <1>5 DEF InsertSnapshot, Finish, Busy
  <2>2. CASE v = w
    BY <2>1, <2>2 DEF IInv, TypeOK
  <2>3. CASE v # w
    <3>1. v \notin Busy
      BY <2>1, <2>3, Alone DEF IInv
    <3> QED  BY <2>1, <2>3, <3>1 DEF Busy, IInv, TypeOK
  <2> QED  BY <2>2, <2>3
<1>6. ASSUME NEW w \in Worker, Abort(w)
      PROVE  Fresh'
  <2>1. UNCHANGED <<rows, losses>> /\ Written' = Written
    BY <1>6, SameRows DEF Abort, countVars
  <2>2. \A v \in Worker :
          pc'[v] \in {"load", "insert"} => pc[v] = pc'[v] /\ reading'[v] = reading[v]
    BY <1>6 DEF Abort, Finish, IInv, TypeOK
  <2> QED  BY <2>1, <2>2 DEF Fresh
<1> QED  BY <1>1, <1>2, <1>3, <1>4, <1>5, <1>6 DEF Next, Snapshot

(* Fresh readings, in every reachable state. *)
LEMMA AlwaysFresh == Spec => [](IInv /\ Fresh)
<1>1. Init => Fresh
  BY DEF Init, Fresh
<1>2. IInv /\ Fresh /\ [Next]_vars => Fresh'
  BY FreshKept
<1> QED  BY <1>1, <1>2, Inductive, PTL DEF Spec

(* mergeSnapshot's floor matters only after Redis lost data, or when ticks *)
(* outlast their lease: otherwise each row is the reading of its tick, and *)
(* its total their sum.                                                    *)
RowIsReading(w) ==
  Punctual /\ losses = 0 =>
    rows'[at[w]] = [total |-> Sum(reading[w]), count |-> reading[w]]
THEOREM FloorIsIdle == Spec => [][\A w \in Worker : InsertSnapshot(w) => RowIsReading(w)]_vars
<1>1. ASSUME IInv, Fresh, NEW w \in Worker, InsertSnapshot(w), Punctual, losses = 0
      PROVE  rows'[at[w]] = [total |-> Sum(reading[w]), count |-> reading[w]]
  <2> DEFINE p == prev[w]
             r == reading[w]
  <2> USE Constants
  <2>1. p = Latest /\ pc[w] = "insert" /\ w \in Writing
    BY <1>1 DEF InsertSnapshot, IInv, Floored, Writing
  <2>2. p \in Row /\ r \in Counts /\ Exact(p)
    BY <1>1 DEF IInv, TypeOK, Staged
  <2>3. Below(p.count, r)
    <3>1. CASE p = Empty
      <4>1. \A o \in Option : NoVotes[o] = 0 /\ 0 <= r[o]
        BY <2>2 DEF NoVotes, Counts
      <4> QED  BY <3>1, <4>1 DEF Below
    <3>2. ASSUME NEW m \in Written, p = rows[m] PROVE Below(p.count, r)
      BY <1>1, <2>1, <3>2 DEF Fresh
    <3> QED  BY <1>1, <2>1, <3>1, <3>2, LatestSound DEF IInv
  <2>4. p.count \in Counts
    BY <2>2 DEF Row
  <2>5. \A o \in Option : p.count[o] \in Nat /\ r[o] \in Nat /\ p.count[o] <= r[o]
    BY <2>2, <2>3, <2>4 DEF Counts, Below
  <2>6. p.total \in Nat /\ Sum(r) \in Nat /\ p.total <= Sum(r)
    BY <2>2, <2>3, <2>4, SumBound, SumMonotonic DEF Exact
  <2>7. Larger(p.total, Sum(r)) = Sum(r)
    BY <2>6 DEF Larger
  <2>8. [o \in Option |-> Larger(p.count[o], r[o])] = r
    <3>1. \A o \in Option : Larger(p.count[o], r[o]) = r[o]
      BY <2>5 DEF Larger
    <3>2. r = [o \in Option |-> r[o]]
      BY <2>2 DEF Counts
    <3> QED  BY <3>1, <3>2
  <2>9. rows'[at[w]] = Merge(p, r)
    <3>1. at[w] \in Time
      BY <1>1, <2>1 DEF IInv, Floored
    <3> QED  BY <1>1, <3>1 DEF InsertSnapshot, IInv, TypeOK
  <2> QED  BY <2>7, <2>8, <2>9 DEF Merge
<1>2. IInv /\ Fresh /\ [Next]_vars =>
        [\A w \in Worker : InsertSnapshot(w) => RowIsReading(w)]_vars
  BY <1>1 DEF RowIsReading
<1> QED  BY <1>2, AlwaysFresh, PTL DEF Spec

(* poll_result_snapshots is only appended to: no row is ever replaced, and *)
(* while ticks are punctual no row is inserted before another.             *)
Appended ==
  /\ \A t \in Written : rows'[t] = rows[t]
  /\ Punctual => \A s \in Written' \ Written, t \in Written : t < s
THEOREM ChartAppended == Spec => [][Appended]_vars
<1>1. ASSUME IInv, Next PROVE Appended
  <2>1. CASE rows' = rows
    <3>1. Written' = Written
      BY <2>1, SameRows
    <3> QED  BY <2>1, <3>1 DEF Appended
  <2>2. ASSUME NEW w \in Worker, InsertSnapshot(w) PROVE Appended
    <3>1. /\ rows' = [rows EXCEPT ![at[w]] = Merge(prev[w], reading[w])]
          /\ at[w] \in Time /\ at[w] \notin Written /\ w \in Writing
      BY <1>1, <2>2 DEF InsertSnapshot, Written, Writing, IInv, Floored
    <3>2. /\ \A t \in Time \ {at[w]} : rows'[t] = rows[t]
          /\ Written' \ Written \subseteq {at[w]}
      BY <1>1, <3>1 DEF Written, IInv, TypeOK
    <3>3. Punctual => \A t \in Written : t < at[w]
      <4>1. ASSUME Punctual, NEW t \in Written PROVE t < at[w]
        <5>1. t <= at[w] /\ t # at[w]
          BY <1>1, <3>1, <4>1 DEF IInv, Floored
        <5>2. t \in Nat /\ at[w] \in Nat
          BY <3>1, Constants
        <5> QED  BY <5>1, <5>2
      <4> QED  BY <4>1
    <3>4. \A t \in Written : rows'[t] = rows[t]
      BY <3>1, <3>2 DEF Written
    <3> QED  BY <3>2, <3>3, <3>4 DEF Appended
  <2>3. rows' = rows \/ \E w \in Worker : InsertSnapshot(w)
    BY <1>1
    DEF Next, Advance, FlushVote, LoseRedis, Elect, Claim, Check, Renew,
        Snapshot, Start, ReadCounts, LoadPrevious, Abort
  <2> QED  BY <2>1, <2>2, <2>3
<1>2. IInv /\ [Next]_vars => [Appended]_vars
  BY <1>1
<1> QED  BY <1>2, Inductive, PTL DEF Spec
=============================================================================
