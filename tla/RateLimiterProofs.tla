------------------------- MODULE RateLimiterProofs -------------------------
(***************************************************************************)
(* The limiter against an unbounded one, for any clients, polls, burst and *)
(* capacity.                                                               *)
(***************************************************************************)
EXTENDS RateLimiter, FiniteSetTheorems, SequenceTheorems, TLAPS

LEMMA Constants ==
  /\ Burst \in Nat /\ MaxKeys \in Nat \ {0}
  /\ NoAddress \notin Client /\ Proxy \notin Client /\ TrustProxy \in BOOLEAN
BY LimiterAssumption

(* Whatever the headers, a delivered request is charged to its client.     *)
LEMMA ChargedToClient ==
  ASSUME NEW p \in Poll, NEW c \in Client, NEW req \in Delivered(c)
  PROVE  VoteRateLimitKey(p, req) = <<p, c>>
<1>1. CASE TrustProxy
  BY <1>1, Constants DEF Delivered, ClientIP, VoteRateLimitKey
<1>2. CASE ~TrustProxy
  BY <1>2, Constants DEF Delivered, ClientIP, VoteRateLimitKey
<1> QED BY <1>1, <1>2

Numbers ==
  /\ clock \in Nat
  /\ requests \in Nat
  /\ tokens \in [Key -> 0 .. Burst]
  /\ evicted \in [Key -> Nat]
  /\ ideal \in [Voter -> 0 .. Burst]
  /\ granted \in [Voter -> Nat]
  /\ lead \in [Voter -> Int]
  /\ others \in [Voter -> SUBSET Voter]

(* A client's bucket holds at least what the unbounded limiter's would,    *)
(* but for the requests it was let through more often; and what it holds   *)
(* and has given away came from refills and from fresh buckets.            *)
Ledger ==
  \A v \in Voter :
    /\ lead[v] >= 0
    /\ ideal[v] <= tokens[v] + lead[v]
    /\ granted[v] + tokens[v] <= Burst * (1 + evicted[v]) + clock

LEMMA VoterIsKey == Voter \subseteq Key
BY DEF Voter, Key

LEMMA NumbersStep == Numbers /\ [Next]_vars => Numbers'
<1> SUFFICES ASSUME Numbers, [Next]_vars PROVE Numbers'
    OBVIOUS
<1> USE Constants, VoterIsKey DEF Numbers
<1>1. ASSUME NEW p \in Poll, NEW c \in Client, NEW req \in Delivered(c),
             Allow(p, c, req)
      PROVE  Numbers'
  <2> DEFINE me  == <<p, c>>
             out == ToSet(recent) \ ToSet(Fitting(Used(me)))
  <2>1. me \in Voter /\ me \in Key
    BY DEF Voter
  <2>2. VoteRateLimitKey(p, req) = me
    BY ChargedToClient
  <2> HIDE DEF me
  <2>3. /\ tokens' = [x \in Key |-> IF x \in out THEN Fresh
                        ELSE IF x = me THEN Left(tokens[me]) ELSE tokens[x]]
        /\ evicted' = [x \in Key |-> IF x \in out THEN evicted[x] + 1
                                                   ELSE evicted[x]]
        /\ ideal' = [ideal EXCEPT ![me] = Left(@)]
        /\ granted' = [granted EXCEPT ![me] = @ + One(tokens[me])]
        /\ lead' = [lead EXCEPT ![me] = @ + One(tokens[me]) - One(ideal[me])]
        /\ others' = [v \in Voter |-> IF v = me THEN {} ELSE others[v] \cup {me}]
        /\ clock' = clock
        /\ requests' = requests + 1
    BY <1>1, <2>2 DEF Allow, me
  <2>4. Left(tokens[me]) \in 0 .. Burst /\ Left(ideal[me]) \in 0 .. Burst
    BY <2>1 DEF Left
  <2>5. Fresh \in 0 .. Burst /\ One(tokens[me]) \in Nat /\ One(ideal[me]) \in Nat
    BY DEF Fresh, One
  <2> HIDE DEF out
  <2>6. tokens' \in [Key -> 0 .. Burst] /\ evicted' \in [Key -> Nat]
    BY <2>3, <2>4, <2>5
  <2>7. /\ ideal' \in [Voter -> 0 .. Burst]
        /\ granted' \in [Voter -> Nat]
        /\ lead' \in [Voter -> Int]
    BY <2>1, <2>3, <2>4, <2>5
  <2>8. others' \in [Voter -> SUBSET Voter]
    BY <2>1, <2>3
  <2> QED BY <2>3, <2>6, <2>7, <2>8
<1>2. CASE Tick
  BY <1>2 DEF Tick, Refilled
<1>3. CASE UNCHANGED vars
  BY <1>3 DEF vars
<1> QED BY <1>1, <1>2, <1>3 DEF Next

LEMMA LedgerStep == Numbers /\ Ledger /\ [Next]_vars => Ledger'
<1> SUFFICES ASSUME Numbers, Ledger, [Next]_vars, NEW v \in Voter
             PROVE  (/\ lead[v] >= 0
                     /\ ideal[v] <= tokens[v] + lead[v]
                     /\ granted[v] + tokens[v]
                          <= Burst * (1 + evicted[v]) + clock)'
    BY DEF Ledger
<1> USE Constants, VoterIsKey DEF Numbers
<1>0. /\ lead[v] >= 0
      /\ ideal[v] <= tokens[v] + lead[v]
      /\ granted[v] + tokens[v] <= Burst * (1 + evicted[v]) + clock
  BY DEF Ledger
<1>1. ASSUME NEW p \in Poll, NEW c \in Client, NEW req \in Delivered(c),
             Allow(p, c, req)
      PROVE  (/\ lead[v] >= 0
              /\ ideal[v] <= tokens[v] + lead[v]
              /\ granted[v] + tokens[v] <= Burst * (1 + evicted[v]) + clock)'
  <2> DEFINE me  == <<p, c>>
             out == ToSet(recent) \ ToSet(Fitting(Used(me)))
  <2>1. me \in Voter
    BY DEF Voter
  <2>2. VoteRateLimitKey(p, req) = me
    BY ChargedToClient
  <2> HIDE DEF me
  <2>3. /\ tokens'[v] = IF v \in out THEN Burst
                        ELSE IF v = me THEN Left(tokens[v]) ELSE tokens[v]
        /\ evicted'[v] = IF v \in out THEN evicted[v] + 1 ELSE evicted[v]
        /\ clock' = clock
    BY <1>1, <2>2 DEF Allow, me, Fresh
  <2>4. CASE v = me
    <3>1. /\ ideal'[v] = Left(ideal[v])
          /\ granted'[v] = granted[v] + One(tokens[v])
          /\ lead'[v] = lead[v] + One(tokens[v]) - One(ideal[v])
      BY <1>1, <2>1, <2>2, <2>4 DEF Allow, me
    <3>2. granted'[v] + Left(tokens[v]) = granted[v] + tokens[v]
      BY <3>1 DEF Left, One
    <3>3. Burst * (1 + (evicted[v] + 1)) = Burst * (1 + evicted[v]) + Burst
      OBVIOUS
    <3>4. lead'[v] >= 0 /\ ideal'[v] <= Left(tokens[v]) + lead'[v]
      BY <1>0, <3>1 DEF Left, One
    <3>5. /\ Left(tokens[v]) \in Nat /\ Left(tokens[v]) <= Burst
          /\ ideal'[v] <= Burst /\ ideal'[v] \in Nat
          /\ granted'[v] \in Nat /\ lead'[v] \in Int
      BY <3>1 DEF Left, One
    <3> DEFINE due == Burst * (1 + evicted[v])
    <3>6. due \in Nat
      BY VoterIsKey
    <3>7. granted[v] + tokens[v] <= due + clock
      BY <1>0
    <3>8. Burst * (1 + evicted'[v]) = IF v \in out THEN due + Burst ELSE due
      BY <2>3, <3>3
    <3> HIDE DEF due, out
    <3>9. granted'[v] + Left(tokens[v]) <= due + clock
      BY <3>2, <3>7
    <3>10. granted'[v] + tokens'[v] <= Burst * (1 + evicted'[v]) + clock
      BY <2>3, <2>4, <3>5, <3>6, <3>8, <3>9
    <3>11. lead'[v] >= 0 /\ ideal'[v] <= tokens'[v] + lead'[v]
      BY <2>3, <2>4, <3>4, <3>5
    <3> QED BY <2>3, <3>10, <3>11
  <2>5. CASE v # me
    <3>1. ideal'[v] = ideal[v] /\ granted'[v] = granted[v] /\ lead'[v] = lead[v]
      BY <1>1, <2>5 DEF Allow, me
    <3>2. Burst * (1 + (evicted[v] + 1)) = Burst * (1 + evicted[v]) + Burst
      OBVIOUS
    <3> QED BY <1>0, <2>3, <2>5, <3>1, <3>2
  <2> QED BY <2>4, <2>5
<1>2. CASE Tick
  BY <1>0, <1>2 DEF Tick, Refilled
<1>3. CASE UNCHANGED vars
  BY <1>0, <1>3 DEF vars
<1> QED BY <1>1, <1>2, <1>3 DEF Next

LEMMA LedgerHolds == Spec => [](Numbers /\ Ledger)
<1>1. Init => Numbers /\ Ledger
  <2> SUFFICES ASSUME Init PROVE Numbers /\ Ledger
    OBVIOUS
  <2>1. Burst * (1 + 0) = Burst
    BY Constants
  <2> QED BY <2>1, Constants, VoterIsKey DEF Init, Numbers, Ledger
<1>2. Numbers /\ Ledger /\ [Next]_vars => (Numbers /\ Ledger)'
  BY NumbersStep, LedgerStep
<1> QED BY <1>1, <1>2, PTL DEF Spec

(* Evictions never make the limiter stricter, for any number of clients.   *)
THEOREM FailOpen == Spec => []FailsOpen
<1>1. Ledger => FailsOpen
  BY DEF Ledger, FailsOpen
<1> QED BY <1>1, LedgerHolds, PTL

(* A client gets no more than its burst per bucket and the refills.        *)
THEOREM Limited == Spec => []Bounded
<1>1. Numbers /\ Ledger => Bounded
  BY Constants, VoterIsKey DEF Numbers, Ledger, Bounded
<1> QED BY <1>1, LedgerHolds, PTL

-----------------------------------------------------------------------------
(* The LRU *)

Lru ==
  /\ recent \in Seq(Key)
  /\ Len(recent) <= MaxKeys
  /\ \A m, n \in 1 .. Len(recent) : recent[m] = recent[n] => m = n

(* Who is in it was seen after all who are behind; who is not has been     *)
(* pushed out by MaxKeys others.                                           *)
Order ==
  /\ \A n \in 1 .. Len(recent) :
       /\ recent[n] \in Voter
       /\ recent[n] \notin others[recent[n]]
       /\ \A m \in 1 .. n - 1 : recent[m] \in others[recent[n]]
  /\ \A v \in Voter : v \notin others[v] /\ v \notin ToSet(recent)
                        => Cardinality(others[v]) >= MaxKeys

LEMMA FiniteVoters ==
  ASSUME NEW T \in SUBSET Voter
  PROVE  IsFiniteSet(T)
<1>1. IsFiniteSet(Voter)
  BY LimiterAssumption, FS_Product DEF Voter
<1> QED BY <1>1, FS_Subset

(* Using a key moves it to the front and leaves the order of the others:   *)
(* those before position j move back by one.                               *)
LEMMA UsedOrder ==
  ASSUME Lru, NEW k \in Key
  PROVE  \E j \in 1 .. Len(recent) + 1 :
           /\ Used(k) \in Seq(Key)
           /\ Len(Used(k)) = IF j > Len(recent) THEN j ELSE Len(recent)
           /\ j <= Len(recent) => recent[j] = k
           /\ j > Len(recent) => k \notin ToSet(recent)
           /\ Used(k)[1] = k
           /\ \A n \in 2 .. Len(Used(k)) :
                Used(k)[n] = IF n <= j THEN recent[n - 1] ELSE recent[n]
<1> USE DEF Lru
<1>1. CASE k \notin ToSet(recent)
  <2>1. Used(k) = <<k>> \o recent
    BY <1>1 DEF Used
  <2> QED
    <3>1. Len(recent) \in Nat /\ <<k>> \in Seq(Key) /\ recent \in Seq(Key)
      OBVIOUS
    <3>2. /\ <<k>> \o recent \in Seq(Key)
          /\ Len(<<k>> \o recent) = 1 + Len(recent)
          /\ \A i \in 1 .. 1 + Len(recent) :
               (<<k>> \o recent)[i] = IF i <= 1 THEN k ELSE recent[i - 1]
      BY <3>1, ConcatProperties
    <3> WITNESS Len(recent) + 1 \in 1 .. Len(recent) + 1
    <3> QED BY <1>1, <2>1, <3>1, <3>2
<1>2. CASE k \in ToSet(recent)
  <2> DEFINE j == CHOOSE n \in DOMAIN recent : recent[n] = k
  <2>1. j \in 1 .. Len(recent) /\ recent[j] = k
    BY <1>2 DEF ToSet
  <2>2. Used(k) = <<k>> \o (SubSeq(recent, 1, j - 1)
                             \o SubSeq(recent, j + 1, Len(recent)))
    BY <1>2 DEF Used, RemoveAt
  <2> HIDE DEF j
  <2> DEFINE front == SubSeq(recent, 1, j - 1)
             back  == SubSeq(recent, j + 1, Len(recent))
  <2>3. /\ front \in Seq(Key) /\ Len(front) = j - 1
        /\ \A n \in 1 .. j - 1 : front[n] = recent[n]
    BY <2>1
  <2>4. /\ back \in Seq(Key) /\ Len(back) = Len(recent) - j
        /\ \A n \in 1 .. Len(recent) - j : back[n] = recent[j + n]
    BY <2>1
  <2> HIDE DEF front, back
  <2> DEFINE rest == front \o back
  <2>6. Used(k) = <<k>> \o rest
    BY <2>2 DEF front, back
  <2>5. /\ rest \in Seq(Key) /\ Len(rest) = Len(recent) - 1
        /\ \A n \in 1 .. Len(recent) - 1 :
             rest[n] = IF n < j THEN recent[n] ELSE recent[n + 1]
    <3>1. /\ rest \in Seq(Key)
          /\ Len(rest) = Len(front) + Len(back)
          /\ \A i \in 1 .. Len(front) + Len(back) :
               rest[i] = IF i <= Len(front) THEN front[i] ELSE back[i - Len(front)]
      BY <2>3, <2>4, ConcatProperties
    <3> HIDE DEF rest
    <3>2. Len(front) + Len(back) = Len(recent) - 1
      BY <2>1, <2>3, <2>4
    <3>3. ASSUME NEW n \in 1 .. Len(recent) - 1
          PROVE  rest[n] = IF n < j THEN recent[n] ELSE recent[n + 1]
      <4>1. CASE n < j
        BY <2>1, <2>3, <3>1, <3>2, <3>3, <4>1
      <4>2. CASE n >= j
        <5>1. n - (j - 1) \in 1 .. Len(recent) - j
          BY <2>1, <3>3, <4>2
        <5>2. back[n - (j - 1)] = recent[j + (n - (j - 1))]
          BY <2>4, <5>1
        <5>3. j + (n - (j - 1)) = n + 1
          BY <2>1
        <5>4. rest[n] = back[n - (j - 1)]
          BY <2>1, <2>3, <3>1, <3>2, <3>3, <4>2
        <5> QED  BY <2>1, <4>2, <5>2, <5>3, <5>4
      <4> QED  BY <2>1, <4>1, <4>2
    <3> QED  BY <3>1, <3>2, <3>3
  <2> HIDE DEF rest
  <2>7. /\ Used(k) \in Seq(Key) /\ Len(Used(k)) = Len(recent) /\ Used(k)[1] = k
        /\ \A n \in 2 .. Len(recent) : Used(k)[n] = rest[n - 1]
    <3>1. <<k>> \in Seq(Key) /\ Len(<<k>>) = 1 /\ <<k>>[1] = k
      OBVIOUS
    <3>2. /\ <<k>> \o rest \in Seq(Key)
          /\ Len(<<k>> \o rest) = 1 + Len(rest)
          /\ \A i \in 1 .. 1 + Len(rest) :
               (<<k>> \o rest)[i] = IF i <= 1 THEN k ELSE rest[i - 1]
      BY <2>5, <3>1, ConcatProperties
    <3> QED  BY <2>1, <2>5, <2>6, <3>2
  <2>8. ASSUME NEW n \in 2 .. Len(recent)
        PROVE  Used(k)[n] = IF n <= j THEN recent[n - 1] ELSE recent[n]
    <3>1. n - 1 \in 1 .. Len(recent) - 1 /\ (n - 1) + 1 = n /\ (n - 1 < j <=> n <= j)
      BY <2>1, <2>8
    <3>2. rest[n - 1] = IF n <= j THEN recent[n - 1] ELSE recent[n]
      BY <2>5, <3>1
    <3> QED  BY <2>7, <3>2
  <2>9. j \in 1 .. Len(recent) + 1 /\ ~(j > Len(recent))
    BY <2>1
  <2> QED
    <3> USE <2>9
    <3> WITNESS j \in 1 .. Len(recent) + 1
    <3> QED BY <2>1, <2>7, <2>8, <2>9
<1> QED BY <1>1, <1>2

(* The LRU after a request of v: v moves to the front, the others keep     *)
(* their order, and of them only the last may go.                          *)
LEMMA LruStep ==
  ASSUME Lru, Order, others \in [Voter -> SUBSET Voter], NEW v \in Voter,
         recent' = Fitting(Used(v)),
         others' = [u \in Voter |-> IF u = v THEN {} ELSE others[u] \cup {v}]
  PROVE  Lru' /\ Order'
<1> USE Constants
<1> DEFINE u == Used(v)
           kept == recent'
<1>1. v \in Key
  BY DEF Voter, Key
<1>2. PICK j \in 1 .. Len(recent) + 1 :
        /\ u \in Seq(Key)
        /\ Len(u) = IF j > Len(recent) THEN j ELSE Len(recent)
        /\ j <= Len(recent) => recent[j] = v
        /\ j > Len(recent) => v \notin ToSet(recent)
        /\ u[1] = v
        /\ \A n \in 2 .. Len(u) : u[n] = IF n <= j THEN recent[n - 1] ELSE recent[n]
  BY <1>1, UsedOrder
<1> DEFINE L == Len(recent)
           size == IF Len(u) > MaxKeys THEN MaxKeys ELSE Len(u)
<1>3. /\ recent \in Seq(Key) /\ L \in Nat /\ L <= MaxKeys
      /\ \A m, n \in 1 .. L : recent[m] = recent[n] => m = n
      /\ j \in Nat /\ 1 <= j /\ j <= L + 1
  BY DEF Lru
<1>4. Len(u) \in Nat /\ Len(u) >= 1 /\ Len(u) <= L + 1 /\ Len(u) >= L
  BY <1>2, <1>3
<1> HIDE DEF u, L
<1>5. kept = SubSeq(u, 1, size)
  BY DEF Fitting, u
<1>6. size \in Nat /\ 1 <= size /\ size <= Len(u) /\ size <= MaxKeys
  BY <1>4
<1> HIDE DEF size
<1>7. \A i \in 1 .. size : u[i] \in Key
  BY <1>2, <1>4, <1>6
<1>8. /\ kept \in Seq(Key) /\ Len(kept) = size
      /\ \A i \in 1 .. size : kept[i] = u[i]
  BY <1>5, <1>6, <1>7, SubSeqProperties
<1> HIDE DEF kept
(* Where the others come from. *)
<1> DEFINE from(n) == IF n <= j THEN n - 1 ELSE n
<1>9. ASSUME NEW n \in 2 .. Len(u)
      PROVE  from(n) \in 1 .. L /\ from(n) # j /\ u[n] = recent[from(n)] /\ u[n] # v
  <2>1. from(n) \in 1 .. L /\ from(n) # j
    BY <1>2, <1>3, <1>4, <1>9 DEF L
  <2>2. u[n] = recent[from(n)]
    BY <1>2, <1>9
  <2>3. CASE j <= L
    BY <1>2, <1>3, <2>1, <2>2, <2>3 DEF L
  <2>4. CASE j > L
    <3>1. recent[from(n)] \in ToSet(recent)
      BY <1>3, <2>1 DEF ToSet, L
    <3> QED  BY <1>2, <2>1, <2>2, <2>4, <3>1 DEF L
  <2> QED  BY <1>3, <2>1, <2>2, <2>3, <2>4
<1>10. ASSUME NEW m \in 1 .. Len(u), NEW n \in 1 .. Len(u), u[m] = u[n]
       PROVE  m = n
  <2>1. CASE m = 1 \/ n = 1
    BY <1>2, <1>4, <1>9, <1>10, <2>1
  <2>2. CASE m # 1 /\ n # 1
    <3>1. m \in 2 .. Len(u) /\ n \in 2 .. Len(u)
      BY <1>4, <2>2
    <3>2. from(m) = from(n)
      BY <1>3, <1>9, <1>10, <3>1 DEF L
    <3> QED  BY <1>3, <1>9, <3>1, <3>2
  <2> QED  BY <2>1, <2>2
<1>11. Lru'
  <2>1. kept \in Seq(Key) /\ Len(kept) <= MaxKeys
    BY <1>6, <1>8
  <2>2. ASSUME NEW m \in 1 .. Len(kept), NEW n \in 1 .. Len(kept), kept[m] = kept[n]
        PROVE  m = n
    <3>1. m \in 1 .. size /\ n \in 1 .. size
      BY <1>8
    <3>2. m \in 1 .. Len(u) /\ n \in 1 .. Len(u)
      BY <1>4, <1>6, <3>1
    <3>3. u[m] = u[n]
      BY <1>8, <2>2, <3>1
    <3> QED  BY <1>10, <3>2, <3>3
  <2> QED  BY <2>1, <2>2 DEF Lru, kept
<1>12. ASSUME NEW n \in 1 .. size
       PROVE  /\ kept[n] \in Voter /\ kept[n] \notin others'[kept[n]]
              /\ \A m \in 1 .. n - 1 : kept[m] \in others'[kept[n]]
  <2>1. CASE n = 1
    BY <1>2, <1>6, <1>8, <2>1
  <2>2. CASE n # 1
    <3>1. n \in 2 .. Len(u) /\ kept[n] = recent[from(n)] /\ from(n) \in 1 .. L
          /\ kept[n] # v
      <4>1. n \in 2 .. Len(u)
        BY <1>4, <1>6, <1>12, <2>2
      <4>2. kept[n] = u[n]
        BY <1>8, <1>12
      <4> QED  BY <1>9, <4>1, <4>2
    <3>2. kept[n] \in Voter /\ kept[n] \notin others[kept[n]]
          /\ \A m \in 1 .. from(n) - 1 : recent[m] \in others[kept[n]]
      BY <3>1 DEF Order, L
    <3>3. others'[kept[n]] = others[kept[n]] \cup {v}
      BY <3>1, <3>2
    <3>4. ASSUME NEW m \in 1 .. n - 1
          PROVE  kept[m] \in others'[kept[n]]
      <4>1. CASE m = 1
        <5>1. kept[m] = v
          BY <1>2, <1>6, <1>8, <4>1
        <5> QED  BY <3>3, <5>1
      <4>2. CASE m # 1
        <5>1. m \in 2 .. Len(u) /\ m \in 1 .. size /\ m < n
          BY <1>6, <3>4, <4>2
        <5>2. kept[m] = recent[from(m)] /\ from(m) \in 1 .. L
          BY <1>8, <1>9, <5>1
        <5>3. from(m) \in 1 .. from(n) - 1
          BY <1>3, <3>1, <5>1, <5>2
        <5> QED  BY <3>2, <3>3, <5>2, <5>3
      <4> QED  BY <4>1, <4>2
    <3> QED  BY <3>1, <3>2, <3>3, <3>4
  <2> QED  BY <2>1, <2>2
(* Who goes has MaxKeys behind which it came. *)
<1>13. ASSUME NEW w \in Voter, w \notin others'[w], w \notin ToSet(kept)
       PROVE  Cardinality(others'[w]) >= MaxKeys
  <2>1. w # v
    <3>1. kept[1] = v /\ 1 \in 1 .. Len(kept)
      BY <1>2, <1>6, <1>8
    <3> QED  BY <1>8, <1>13, <3>1 DEF ToSet
  <2>2. others'[w] = others[w] \cup {v} /\ others'[w] \in SUBSET Voter
        /\ others[w] \in SUBSET Voter /\ w \notin others[w]
    BY <1>13, <2>1
  <2>3. IsFiniteSet(others'[w]) /\ IsFiniteSet(others[w])
    BY <2>2, FiniteVoters
  <2>4. CASE w \notin ToSet(recent)
    <3>1. Cardinality(others[w]) >= MaxKeys
      BY <2>2, <2>4 DEF Order
    <3>2. Cardinality(others[w]) <= Cardinality(others'[w])
      BY <2>2, <2>3, FS_Subset
    <3>3. Cardinality(others[w]) \in Nat /\ Cardinality(others'[w]) \in Nat
      BY <2>3, FS_CardinalityType
    <3> QED  BY <3>1, <3>2, <3>3
  <2>5. CASE w \in ToSet(recent)
    <3>1. PICK i \in 1 .. L : recent[i] = w
      BY <1>3, <2>5 DEF ToSet, L
    <3>2. i # j
      BY <1>2, <1>3, <2>1, <3>1 DEF L
    <3> DEFINE n == IF i < j THEN i + 1 ELSE i
    <3>3. n \in 2 .. Len(u) /\ from(n) = i
      BY <1>2, <1>3, <1>4, <3>1, <3>2 DEF L
    <3>4. u[n] = w
      BY <1>9, <3>1, <3>3
    <3> HIDE DEF n
    <3>5. ~(n \in 1 .. size)
      BY <1>8, <1>13, <3>4 DEF ToSet
    <3>6. size = MaxKeys /\ n > MaxKeys
      BY <1>4, <1>6, <3>3, <3>5 DEF size
    <3>7. ASSUME NEW m \in 1 .. MaxKeys
          PROVE  u[m] \in others'[w]
      <4>1. CASE m = 1
        BY <1>2, <2>2, <4>1
      <4>2. CASE m # 1
        <5>1. m \in 2 .. Len(u) /\ m < n
          BY <1>4, <3>3, <3>6, <3>7, <4>2
        <5>2. u[m] = recent[from(m)] /\ from(m) \in 1 .. L
          BY <1>9, <5>1
        <5>3. from(m) \in 1 .. i - 1
          BY <1>3, <3>3, <5>1, <5>2
        <5>4. recent[from(m)] \in others[w]
          BY <3>1, <5>3 DEF Order, L
        <5> QED  BY <2>2, <5>2, <5>4
      <4> QED  BY <4>1, <4>2
    <3> DEFINE f == [m \in 1 .. MaxKeys |-> u[m]]
    <3>8. f \in Injection(1 .. MaxKeys, others'[w])
      <4>1. f \in [1 .. MaxKeys -> others'[w]]
        BY <3>7
      <4>2. \A a, b \in 1 .. MaxKeys : f[a] = f[b] => a = b
        BY <1>4, <1>6, <1>10, <3>6
      <4> QED  BY <4>1, <4>2 DEF Injection, IsInjective
    <3>9. Cardinality(1 .. MaxKeys) <= Cardinality(others'[w])
      BY <2>3, <3>8, FS_Injection
    <3>10. Cardinality(1 .. MaxKeys) = MaxKeys
      BY FS_Interval
    <3> QED  BY <3>9, <3>10
  <2> QED  BY <2>4, <2>5
<1>14. Order'
  BY <1>8, <1>12, <1>13 DEF Order, kept
<1> QED  BY <1>11, <1>14

LEMMA LruHolds == Spec => [](Numbers /\ Lru /\ Order)
<1>1. Init => Lru /\ Order
  <2> SUFFICES ASSUME Init PROVE Lru /\ Order
    OBVIOUS
  <2>1. recent = << >> /\ Len(recent) = 0 /\ recent \in Seq(Key)
    BY DEF Init
  <2>2. \A v \in Voter : v \in others[v]
    BY DEF Init
  <2> QED  BY <2>1, <2>2, Constants DEF Lru, Order
<1>2. Numbers /\ Lru /\ Order /\ [Next]_vars => (Lru /\ Order)'
  <2> SUFFICES ASSUME Numbers, Lru, Order, [Next]_vars PROVE (Lru /\ Order)'
    OBVIOUS
  <2>1. ASSUME NEW p \in Poll, NEW c \in Client, NEW req \in Delivered(c),
               Allow(p, c, req)
        PROVE  (Lru /\ Order)'
    <3>1. <<p, c>> \in Voter /\ VoteRateLimitKey(p, req) = <<p, c>>
      BY ChargedToClient DEF Voter
    <3>2. /\ recent' = Fitting(Used(<<p, c>>))
          /\ others' = [v \in Voter |-> IF v = <<p, c>> THEN {}
                                        ELSE others[v] \cup {<<p, c>>}]
      BY <2>1, <3>1 DEF Allow
    <3> QED  BY <3>1, <3>2, LruStep DEF Numbers
  <2>2. CASE Tick \/ UNCHANGED vars
    BY <2>2 DEF Tick, vars, Lru, Order
  <2> QED  BY <2>1, <2>2 DEF Next
<1>3. Init => Numbers
  <2> SUFFICES ASSUME Init PROVE Numbers
    OBVIOUS
  <2> QED  BY Constants DEF Init, Numbers
<1>4. Numbers /\ [Next]_vars => Numbers'
  BY NumbersStep
<1> QED  BY <1>1, <1>2, <1>3, <1>4, PTL DEF Spec

(* The LRU and the buckets hold what they are meant to hold. *)
THEOREM TypeCorrect == Spec => []TypeOK
<1>1. Numbers /\ Lru => TypeOK
  BY DEF Numbers, Lru, TypeOK
<1> QED  BY <1>1, LruHolds, PTL

(* limiter.go's LRU drops nobody before MaxKeys others asked. *)
THEOREM BusyKept == Spec => []BusyClientsKept
<1>1. Numbers /\ Order => BusyClientsKept
  <2> SUFFICES ASSUME Numbers, Order, NEW v \in Voter, v \notin others[v],
                      Cardinality(others[v]) < MaxKeys, v \notin ToSet(recent)
               PROVE  FALSE
    BY DEF BusyClientsKept
  <2>1. Cardinality(others[v]) \in Nat
    <3>1. others[v] \in SUBSET Voter
      BY DEF Numbers
    <3> QED  BY <3>1, FiniteVoters, FS_CardinalityType
  <2>2. Cardinality(others[v]) >= MaxKeys
    BY DEF Order
  <2> QED  BY <2>1, <2>2, Constants
<1> QED  BY <1>1, LruHolds, PTL
=============================================================================
