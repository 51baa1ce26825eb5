------------------------------- MODULE SeqLemmas -------------------------------
(***************************************************************************)
(* The lemmas about sequences that the proofs share: what an Append and a  *)
(* Tail make of a queue and of the message last put in it, and what is in  *)
(* the entries picked from an array.                                       *)
(***************************************************************************)
EXTENDS Picks, FiniteSetTheorems, WellFoundedInduction, TLAPS

Newest(q) == q[Len(q)]

(* A message put into a queue is its newest, the others stay in place.     *)
LEMMA PutIn ==
  ASSUME NEW S, NEW q \in Seq(S), NEW m \in S
  PROVE  /\ Append(q, m) \in Seq(S) /\ Append(q, m) # <<>>
         /\ Len(Append(q, m)) = Len(q) + 1
         /\ Newest(Append(q, m)) = m
         /\ \A i \in 1 .. Len(q) : Append(q, m)[i] = q[i]
         /\ Append(q, m)[Len(q) + 1] = m
BY DEF Newest

(* Taking the first message leaves the newest one, unless it was the last. *)
LEMMA TakenOut ==
  ASSUME NEW S, NEW q \in Seq(S), q # <<>>
  PROVE  /\ Head(q) \in S /\ Head(q) = q[1]
         /\ Tail(q) \in Seq(S) /\ Len(Tail(q)) = Len(q) - 1 /\ Len(q) \in Nat \ {0}
         /\ \A i \in 1 .. Len(Tail(q)) : Tail(q)[i] = q[i + 1]
         /\ Tail(q) = <<>> => Newest(q) = Head(q)
         /\ Tail(q) # <<>> => Newest(Tail(q)) = Newest(q)
<1>1. /\ Head(q) \in S /\ Head(q) = q[1] /\ Tail(q) \in Seq(S)
      /\ Len(Tail(q)) = Len(q) - 1 /\ Len(q) \in Nat \ {0}
      /\ \A i \in 1 .. Len(Tail(q)) : Tail(q)[i] = q[i + 1]
  OBVIOUS
<1>2. ASSUME Tail(q) = <<>>  PROVE Newest(q) = Head(q)
  <2>0. Len(<<>>) = 0
    OBVIOUS
  <2>1. Len(Tail(q)) = 0
    BY ONLY <1>2, <2>0, Zenon
  <2>2. Len(q) = 1
    BY <2>1, <1>1
  <2> QED BY <2>2, <1>1 DEF Newest
<1>3. ASSUME Tail(q) # <<>>  PROVE Newest(Tail(q)) = Newest(q)
  <2>1. Len(Tail(q)) # 0
    BY <1>1, <1>3
  <2>2. Len(Tail(q)) \in 1 .. Len(Tail(q)) /\ Len(Tail(q)) + 1 = Len(q)
    BY <2>1, <1>1
  <2> QED BY <2>2, <1>1 DEF Newest
<1> QED BY <1>1, <1>2, <1>3

-----------------------------------------------------------------------------
(* Counting the places up to i, one at a time, meets every number: there   *)
(* is a k-th place for each k up to how many there are.                    *)
LEMMA KthPlace ==
  ASSUME NEW n \in Nat, NEW P, P \subseteq 1 .. n, NEW k \in 1 .. Cardinality(P)
  PROVE  \E i \in P : Rank(P, i) = k
<1> DEFINE Late == {i \in Nat : Rank(P, i) >= k}
<1>0. \A i \in P : i \in Nat /\ 1 <= i /\ i <= n
  OBVIOUS
<1>1. IsFiniteSet(P) /\ Cardinality(P) \in Nat
  <2>1. IsFiniteSet(1 .. n)
    BY FS_Interval
  <2>2. P \in SUBSET (1 .. n)
    OBVIOUS
  <2>3. IsFiniteSet(P)
    BY <2>1, <2>2, FS_Subset
  <2> QED BY <2>3, FS_CardinalityType
<1>2. ASSUME NEW i PROVE IsFiniteSet(Upto(P, i)) /\ Rank(P, i) \in Nat
  <2>1. Upto(P, i) \in SUBSET P
    BY DEF Upto
  <2>2. IsFiniteSet(Upto(P, i))
    BY <1>1, <2>1, FS_Subset
  <2> QED BY <2>2, FS_CardinalityType DEF Rank
<1>3. n \in Late
  <2>1. Upto(P, n) = P
    BY <1>0, Zenon DEF Upto
  <2> QED BY <1>1, <2>1 DEF Rank
<1>4. PICK m \in Late : \A i \in Late : ~(<<i, m>> \in OpToRel(<, Nat))
  BY <1>3, NatLessThanWellFounded, WFMin
<1>5. m \in Nat /\ Rank(P, m) >= k /\ \A i \in Late : ~(i < m)
  BY <1>4 DEF OpToRel
<1> HIDE DEF Late
<1>6. m # 0
  <2>1. \A j \in P : ~(j <= 0)
    BY <1>0
  <2>2. Upto(P, 0) = {}
    BY <2>1, Zenon DEF Upto
  <2>3. Rank(P, 0) = 0
    BY <2>2, FS_EmptySet, Zenon DEF Rank
  <2> QED BY <2>3, <1>5, k \in Nat /\ k >= 1
<1>7. m - 1 \in Nat /\ Rank(P, m - 1) < k
  <2>1. m - 1 \in Nat /\ m - 1 < m
    BY <1>5, <1>6
  <2>2. m - 1 \notin Late
    BY <1>5, <2>1
  <2> QED BY <1>2, <2>1, <2>2 DEF Late
<1>8. \A j \in P : j <= m <=> j <= m - 1 \/ j = m
  BY <1>0, <1>5
<1>9. m \in P
  <2> SUFFICES ASSUME m \notin P PROVE FALSE
    OBVIOUS
  <2>1. \A j \in P : j <= m <=> j <= m - 1
    BY <1>8
  <2>2. Upto(P, m) = Upto(P, m - 1)
    BY <2>1, Zenon DEF Upto
  <2>3. Rank(P, m) = Rank(P, m - 1)
    BY <2>2, Zenon DEF Rank
  <2> QED BY <1>2, <1>5, <1>7, <2>3
<1>10. Rank(P, m) = Rank(P, m - 1) + 1
  <2>1. ~(m <= m - 1) /\ m <= m
    BY <1>5
  <2>2. m \notin Upto(P, m - 1)
    BY <2>1 DEF Upto
  <2>3. Upto(P, m) = Upto(P, m - 1) \cup {m}
    BY <1>8, <1>9, Zenon DEF Upto
  <2> QED BY <1>2, <2>2, <2>3, FS_AddElement DEF Rank
<1>11. Rank(P, m) = k
  BY <1>2, <1>5, <1>7, <1>10
<1> QED BY <1>9, <1>11

(* What is picked is in the array and in the set, and is not more than the *)
(* array holds; an array without repetitions yields none.                  *)
LEMMA PickedFrom ==
  ASSUME NEW S, NEW s \in Seq(S), NEW T
  PROVE  /\ Picked(s, T) \in Seq(S \cap T)
         /\ Len(Picked(s, T)) <= Len(s)
         /\ \A k \in 1 .. Len(Picked(s, T)) : \E i \in 1 .. Len(s) : Picked(s, T)[k] = s[i]
         /\ (\A i, j \in 1 .. Len(s) : s[i] = s[j] => i = j) =>
              \A k, l \in 1 .. Len(Picked(s, T)) : Picked(s, T)[k] = Picked(s, T)[l] => k = l
<1> DEFINE P == Places(s, T)
           N == Cardinality(P)
           Kth(k) == CHOOSE i \in P : Rank(P, i) = k
<1>1. P \subseteq 1 .. Len(s) /\ \A i \in P : s[i] \in S \cap T
  BY DEF Places
<1>2. N \in Nat /\ N <= Len(s)
  <2>0. Len(s) \in Nat
    OBVIOUS
  <2>1. IsFiniteSet(1 .. Len(s)) /\ Cardinality(1 .. Len(s)) = Len(s)
    BY <2>0, FS_Interval
  <2>2. P \in SUBSET (1 .. Len(s))
    BY <1>1
  <2>3. IsFiniteSet(P) /\ N <= Len(s)
    BY <2>1, <2>2, FS_Subset
  <2> QED BY <2>3, FS_CardinalityType
<1>3. ASSUME NEW k \in 1 .. N PROVE Kth(k) \in P /\ Rank(P, Kth(k)) = k
  <2>1. \E i \in P : Rank(P, i) = k
    BY <1>1, KthPlace
  <2> QED BY <2>1
<1>4. Picked(s, T) = [k \in 1 .. N |-> s[Kth(k)]]
  BY DEF Picked
<1> HIDE DEF P, N, Kth
<1>5. Picked(s, T) \in Seq(S \cap T) /\ Len(Picked(s, T)) = N
  <2>1. \A k \in 1 .. N : s[Kth(k)] \in S \cap T
    BY <1>1, <1>3
  <2>2. [k \in 1 .. N |-> s[Kth(k)]] \in [1 .. N -> S \cap T]
    BY <2>1
  <2>3. Picked(s, T) \in [1 .. N -> S \cap T]
    BY <1>4, <2>2, Zenon
  <2> QED BY <1>2, <2>3
<1>6. \A k \in 1 .. N : Picked(s, T)[k] = s[Kth(k)] /\ Kth(k) \in 1 .. Len(s)
  BY <1>1, <1>3, <1>4
<1>7. ASSUME \A i, j \in 1 .. Len(s) : s[i] = s[j] => i = j,
             NEW k \in 1 .. N, NEW l \in 1 .. N, Picked(s, T)[k] = Picked(s, T)[l]
      PROVE  k = l
  <2>1. Kth(k) = Kth(l)
    BY <1>6, <1>7
  <2> QED BY <1>3, <2>1
<1> QED BY <1>2, <1>5, <1>6, <1>7

(* What is somewhere in an array has a first place there.                  *)
LEMMA FirstPlace ==
  ASSUME NEW S, NEW s \in Seq(S), NEW x, NEW k \in 1 .. Len(s), s[k] = x
  PROVE  \E i \in 1 .. Len(s) : s[i] = x /\ \A j \in 1 .. i - 1 : s[j] # x
<1> DEFINE A == {i \in 1 .. Len(s) : s[i] = x}
<1>1. A \subseteq Nat /\ k \in A
  OBVIOUS
<1>2. PICK i \in A : \A j \in A : ~(<<j, i>> \in OpToRel(<, Nat))
  BY <1>1, NatLessThanWellFounded, WFMin
<1>3. ASSUME NEW j \in 1 .. i - 1 PROVE s[j] # x
  <2>1. i \in 1 .. Len(s) /\ j \in 1 .. Len(s) /\ j \in Nat /\ i \in Nat /\ j < i
    BY <1>3
  <2>2. j \notin A
    BY <1>2, <2>1 DEF OpToRel
  <2> QED BY <2>1, <2>2
<1> QED BY <1>3
=============================================================================
