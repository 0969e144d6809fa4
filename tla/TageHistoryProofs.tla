--------------------------- MODULE TageHistoryProofs ---------------------------
(***************************************************************************)
(* Theorems about TageHistory, for every length of the history and of its  *)
(* fold, and every sequence of branches.                                   *)
(***************************************************************************)
EXTENDS TageHistory, FiniteSetTheorems, FunctionTheorems, SequenceTheorems, TLAPS

-----------------------------------------------------------------------------
(* The remainder by the number of bits. *)

(* Quotient and remainder. *)
LEMMA Divide ==
    ASSUME NEW n \in Nat \ {0}, NEW a \in Int
    PROVE  a = n * (a \div n) + (a % n) /\ a % n \in 0 .. n - 1 /\ a \div n \in Int
OBVIOUS

(* The only multiple of n between -n and n. *)
LEMMA SmallMultiple ==
    ASSUME NEW n \in Nat \ {0}, NEW d \in Int, n * d < n, n * d > -n
    PROVE  d = 0
<1>1. CASE d >= 1
  <2>1. n * d >= n
    BY <1>1
  <2> QED
    BY <2>1
<1>2. CASE d <= -1
  <2>1. n * d <= -n
    BY <1>2
  <2> QED
    BY <2>1
<1> QED
  BY <1>1, <1>2

(* The remainder is the only one. *)
LEMMA RemainderUnique ==
    ASSUME NEW n \in Nat \ {0}, NEW p \in Int, NEW s \in 0 .. n - 1
    PROVE  (n * p + s) % n = s
<1>1. PICK b \in Int : b = n * p + s
  OBVIOUS
<1>2. PICK q \in Int, r \in 0 .. n - 1 : b = n * q + r /\ r = b % n
  BY Divide
<1>3. n * (p - q) = r - s
  BY <1>1, <1>2
<1>4. n * (p - q) < n /\ n * (p - q) > -n
  BY <1>3
<1>5. p - q = 0
  BY <1>4, SmallMultiple
<1>6. n * (p - q) = 0
  BY <1>5
<1>7. r = s
  BY <1>3, <1>6
<1> QED
  BY <1>1, <1>2, <1>7

(* The remainder of the next number. *)
LEMMA NextRemainder ==
    ASSUME NEW n \in Nat \ {0}, NEW a \in Int
    PROVE  (a + 1) % n = IF a % n = n - 1 THEN 0 ELSE (a % n) + 1
<1>1. PICK q \in Int, r \in 0 .. n - 1 : a = n * q + r /\ r = a % n
  BY Divide
<1>2. CASE r = n - 1
  <2>1. a + 1 = n * (q + 1) + 0
    BY <1>1, <1>2
  <2>2. (n * (q + 1) + 0) % n = 0
    BY RemainderUnique
  <2> QED
    BY <1>1, <1>2, <2>1, <2>2
<1>3. CASE r # n - 1
  <2>1. a + 1 = n * q + (r + 1) /\ r + 1 \in 0 .. n - 1
    BY <1>1, <1>3
  <2>2. (n * q + (r + 1)) % n = r + 1
    BY <2>1, RemainderUnique
  <2> QED
    BY <1>1, <1>3, <2>1, <2>2
<1> QED
  BY <1>2, <1>3

(* The bit an outcome comes from when the fold is rotated. *)
LEMMA BitBefore ==
    ASSUME NEW a \in Int, NEW k \in FoldBit
    PROVE  /\ (k - 1) % targetLength \in FoldBit
           /\ (a + 1) % targetLength = k <=> a % targetLength = (k - 1) % targetLength
<1>1. targetLength \in Nat \ {0} /\ k \in 0 .. targetLength - 1
  BY HistoryAssumption DEF FoldBit
<1>2. (k - 1) % targetLength = IF k = 0 THEN targetLength - 1 ELSE k - 1
  BY <1>1
<1>3. (a + 1) % targetLength = IF a % targetLength = targetLength - 1 THEN 0
                               ELSE (a % targetLength) + 1
  BY <1>1, NextRemainder
<1>4. a % targetLength \in 0 .. targetLength - 1
  BY <1>1, Divide
<1>5. PICK r \in 0 .. targetLength - 1 : r = a % targetLength
  BY <1>4
<1> QED
  BY <1>1, <1>2, <1>3, <1>5 DEF FoldBit

-----------------------------------------------------------------------------
(* Counting taken branches. *)

(* They are finitely many. *)
LEMMA TakenFinite ==
    ASSUME NEW lo \in Int, NEW hi \in Int, NEW p, NEW age, NEW k
    PROVE  IsFiniteSet(TakenAt(p, lo, hi, age, k)) /\ Cardinality(TakenAt(p, lo, hi, age, k)) \in Nat
<1>1. IsFiniteSet(lo .. hi) /\ TakenAt(p, lo, hi, age, k) \in SUBSET (lo .. hi)
  BY FS_Interval DEF TakenAt
<1>2. IsFiniteSet(TakenAt(p, lo, hi, age, k))
  BY <1>1, FS_Subset
<1> QED
  BY <1>2, FS_CardinalityType

(* 1 if the j-th last branch is taken and falls on bit k. *)
Hit(p, j, age, k) == IF (j + age) % targetLength = k /\ Outcome(p, j) = 1 THEN 1 ELSE 0

(* The newest of the branches that are counted. *)
LEMMA TakenLow ==
    ASSUME NEW lo \in Int, NEW hi \in Int, lo <= hi, NEW p, NEW age, NEW k
    PROVE  Cardinality(TakenAt(p, lo, hi, age, k))
             = Cardinality(TakenAt(p, lo + 1, hi, age, k)) + Hit(p, lo, age, k)
<1>1. /\ IsFiniteSet(TakenAt(p, lo + 1, hi, age, k))
      /\ Cardinality(TakenAt(p, lo + 1, hi, age, k)) \in Nat
  BY TakenFinite
<1>2. lo \notin TakenAt(p, lo + 1, hi, age, k)
  BY DEF TakenAt
<1>3. lo .. hi = (lo + 1 .. hi) \cup {lo}
  OBVIOUS
<1>4. CASE (lo + age) % targetLength = k /\ Outcome(p, lo) = 1
  <2>1. TakenAt(p, lo, hi, age, k) = TakenAt(p, lo + 1, hi, age, k) \cup {lo}
    BY <1>3, <1>4, Zenon DEF TakenAt
  <2> QED
    BY <1>1, <1>2, <1>4, <2>1, FS_AddElement DEF Hit
<1>5. CASE ~((lo + age) % targetLength = k /\ Outcome(p, lo) = 1)
  <2>1. TakenAt(p, lo, hi, age, k) = TakenAt(p, lo + 1, hi, age, k)
    BY <1>3, <1>5, Zenon DEF TakenAt
  <2> QED
    BY <1>1, <1>5, <2>1 DEF Hit
<1> QED
  BY <1>4, <1>5

(* The oldest of them. *)
LEMMA TakenHigh ==
    ASSUME NEW lo \in Int, NEW hi \in Int, lo <= hi, NEW p, NEW age, NEW k
    PROVE  Cardinality(TakenAt(p, lo, hi, age, k))
             = Cardinality(TakenAt(p, lo, hi - 1, age, k)) + Hit(p, hi, age, k)
<1>1. /\ IsFiniteSet(TakenAt(p, lo, hi - 1, age, k))
      /\ Cardinality(TakenAt(p, lo, hi - 1, age, k)) \in Nat
  BY TakenFinite
<1>2. hi \notin TakenAt(p, lo, hi - 1, age, k)
  BY DEF TakenAt
<1>3. lo .. hi = (lo .. hi - 1) \cup {hi}
  OBVIOUS
<1>4. CASE (hi + age) % targetLength = k /\ Outcome(p, hi) = 1
  <2>1. TakenAt(p, lo, hi, age, k) = TakenAt(p, lo, hi - 1, age, k) \cup {hi}
    BY <1>3, <1>4, Zenon DEF TakenAt
  <2> QED
    BY <1>1, <1>2, <1>4, <2>1, FS_AddElement DEF Hit
<1>5. CASE ~((hi + age) % targetLength = k /\ Outcome(p, hi) = 1)
  <2>1. TakenAt(p, lo, hi, age, k) = TakenAt(p, lo, hi - 1, age, k)
    BY <1>3, <1>5, Zenon DEF TakenAt
  <2> QED
    BY <1>1, <1>5, <2>1 DEF Hit
<1> QED
  BY <1>4, <1>5

(* A branch is resolved: it becomes the newest, and the others one older. *)
LEMMA PastGrows ==
    ASSUME NEW p \in Seq({0, 1}), NEW dir \in {0, 1}
    PROVE  /\ <<dir>> \o p \in Seq({0, 1}) /\ Len(<<dir>> \o p) = Len(p) + 1
           /\ Outcome(<<dir>> \o p, 1) = dir
           /\ \A j \in Nat \ {0} : Outcome(<<dir>> \o p, j + 1) = Outcome(p, j)
<1>1. <<dir>> \in Seq({0, 1}) /\ Len(<<dir>>) = 1 /\ <<dir>>[1] = dir
  OBVIOUS
<1>2. PICK q : q = <<dir>> \o p
  OBVIOUS
<1>3. /\ q \in Seq({0, 1}) /\ Len(q) = 1 + Len(p)
      /\ \A i \in 1 .. 1 + Len(p) : q[i] = IF i <= 1 THEN <<dir>>[i] ELSE p[i - 1]
  BY <1>1, <1>2, ConcatProperties
<1>4. PICK n \in Nat : n = Len(p)
  OBVIOUS
<1>5. DOMAIN p = 1 .. n /\ DOMAIN q = 1 .. n + 1 /\ Len(q) = n + 1
  BY <1>3, <1>4
<1>6. Outcome(q, 1) = dir
  BY <1>1, <1>3, <1>4, <1>5 DEF Outcome
<1>7. ASSUME NEW j \in Nat \ {0}
      PROVE  Outcome(q, j + 1) = Outcome(p, j)
  <2>1. (j + 1 \in 1 .. n + 1) <=> (j \in 1 .. n)
    OBVIOUS
  <2>2. j \in 1 .. n => q[j + 1] = p[j]
    BY <1>3, <1>4
  <2> QED
    BY <1>5, <2>1, <2>2 DEF Outcome
<1> QED
  BY <1>2, <1>3, <1>4, <1>5, <1>6, <1>7

(* The branches that were counted are, one older, on the next bit. *)
LEMMA TakenShift ==
    ASSUME NEW p \in Seq({0, 1}), NEW dir \in {0, 1},
           NEW lo \in Nat \ {0}, NEW hi \in Int, NEW age \in Int, NEW k \in FoldBit
    PROVE  Cardinality(TakenAt(<<dir>> \o p, lo + 1, hi + 1, age, k))
             = Cardinality(TakenAt(p, lo, hi, age, (k - 1) % targetLength))
<1> DEFINE S == TakenAt(p, lo, hi, age, (k - 1) % targetLength)
           T == TakenAt(<<dir>> \o p, lo + 1, hi + 1, age, k)
           f == [j \in S |-> j + 1]
<1>1. ASSUME NEW j \in lo .. hi
      PROVE  j \in S <=> j + 1 \in T
  <2>1. j \in Nat \ {0} /\ j + 1 \in lo + 1 .. hi + 1
    OBVIOUS
  <2>2. Outcome(<<dir>> \o p, j + 1) = Outcome(p, j)
    BY <2>1, PastGrows
  <2>3. ((j + age) + 1) % targetLength = k <=> (j + age) % targetLength = (k - 1) % targetLength
    BY BitBefore
  <2>4. (j + age) + 1 = j + 1 + age
    OBVIOUS
  <2> QED
    BY <2>1, <2>2, <2>3, <2>4 DEF TakenAt
<1>2. S \subseteq lo .. hi /\ T \subseteq lo + 1 .. hi + 1
  BY DEF TakenAt
<1>3. f \in [S -> T]
  BY <1>1, <1>2
<1>4. \A i, j \in S : f[i] = f[j] => i = j
  BY <1>2
<1>5. \A i \in T : \E j \in S : f[j] = i
  <2> TAKE i \in T
  <2>1. i - 1 \in lo .. hi /\ (i - 1) + 1 = i
    BY <1>2
  <2>2. i - 1 \in S
    BY <1>1, <2>1
  <2> QED
    BY <2>1, <2>2
<1> HIDE DEF S, T, f
<1>6. f \in Bijection(S, T)
  BY <1>3, <1>4, <1>5, Fun_IsBij
<1>7. ExistsBijection(S, T)
  BY <1>6, Zenon DEF ExistsBijection
<1>8. IsFiniteSet(S)
  BY TakenFinite DEF S
<1> QED
  BY <1>7, <1>8, FS_Bijection DEF S, T

(* Parities. *)
LEMMA Parity ==
    ASSUME NEW c \in Nat, NEW d \in Nat, NEW x \in {0, 1}, NEW y \in {0, 1}
    PROVE  /\ (((c + y) % 2) + x + y) % 2 = (c + x) % 2
           /\ ((((c % 2) + d) % 2) + x + y) % 2 = (((c + x) % 2) + (d + y)) % 2
OBVIOUS

(* An outcome is a bit. *)
LEMMA OutcomeBit ==
    ASSUME NEW p \in Seq({0, 1}), NEW j
    PROVE  Outcome(p, j) \in {0, 1}
BY DEF Outcome

(* What goes in at bit 0 is the newest branch. *)
LEMMA InAtBit ==
    ASSUME NEW p \in Seq({0, 1}), NEW dir \in {0, 1}, NEW k \in FoldBit
    PROVE  Hit(<<dir>> \o p, 1, -1, k) = IF k = 0 THEN dir ELSE 0
<1>1. Outcome(<<dir>> \o p, 1) = dir
  BY PastGrows
<1>2. (1 + -1) % targetLength = 0
  BY HistoryAssumption
<1> QED
  BY <1>1, <1>2 DEF Hit

(* What goes out at bit geomLength % targetLength is the branch that is folded *)
(* in as geomLength old.                                                       *)
LEMMA OutAtBit ==
    ASSUME NEW p \in Seq({0, 1}), NEW j \in Int, NEW age \in Int, j + age + 1 = geomLength,
           NEW k \in FoldBit
    PROVE  Hit(p, j, age, (k - 1) % targetLength)
             = IF k = geomLength % targetLength THEN Outcome(p, j) ELSE 0
<1>0. PICK a \in Int : a = j + age
  OBVIOUS
<1>1. (a + 1) % targetLength = k <=> a % targetLength = (k - 1) % targetLength
  BY BitBefore
<1>2. geomLength % targetLength = k <=> (j + age) % targetLength = (k - 1) % targetLength
  BY <1>0, <1>1
<1>3. Outcome(p, j) \in {0, 1}
  BY OutcomeBit
<1> QED
  BY <1>2, <1>3 DEF Hit

(* A resolved branch in the fold of the last n. *)
LEMMA FoldGrows ==
    ASSUME NEW p \in Seq({0, 1}), NEW dir \in {0, 1}, NEW n \in Nat, NEW k \in FoldBit
    PROVE  Cardinality(TakenAt(<<dir>> \o p, 1, n + 1, -1, k))
             = Cardinality(TakenAt(p, 1, n, -1, (k - 1) % targetLength))
               + (IF k = 0 THEN dir ELSE 0)
<1>1. Cardinality(TakenAt(<<dir>> \o p, 1, n + 1, -1, k))
        = Cardinality(TakenAt(<<dir>> \o p, 1 + 1, n + 1, -1, k)) + Hit(<<dir>> \o p, 1, -1, k)
  BY TakenLow
<1>2. Cardinality(TakenAt(<<dir>> \o p, 1 + 1, n + 1, -1, k))
        = Cardinality(TakenAt(p, 1, n, -1, (k - 1) % targetLength))
  BY TakenShift
<1> QED
  BY <1>1, <1>2, InAtBit

(* The newest of all branches, counted or, if there is none, not. *)
LEMMA TakenOne ==
    ASSUME NEW p \in Seq({0, 1}), NEW age, NEW k
    PROVE  Cardinality(TakenAt(p, 1, Len(p), age, k))
             = Cardinality(TakenAt(p, 2, Len(p), age, k)) + Hit(p, 1, age, k)
<1>1. PICK n \in Nat : n = Len(p)
  OBVIOUS
<1>2. CASE n = 0
  <2>1. TakenAt(p, 1, n, age, k) = {} /\ TakenAt(p, 2, n, age, k) = {}
    BY <1>2 DEF TakenAt
  <2>2. DOMAIN p = 1 .. n
    BY <1>1
  <2>3. 1 \notin DOMAIN p
    BY <1>2, <2>2
  <2>4. Hit(p, 1, age, k) = 0
    BY <2>3 DEF Hit, Outcome
  <2>5. Cardinality(TakenAt(p, 1, n, age, k)) = 0 /\ Cardinality(TakenAt(p, 2, n, age, k)) = 0
    BY <2>1, FS_EmptySet, Zenon
  <2>6. Cardinality(TakenAt(p, 1, n, age, k))
          = Cardinality(TakenAt(p, 2, n, age, k)) + Hit(p, 1, age, k)
    BY <2>4, <2>5
  <2> QED
    BY <1>1, <2>6, Zenon
<1>3. CASE n # 0
  <2>1. 1 <= n /\ 1 + 1 = 2
    BY <1>3
  <2>2. Cardinality(TakenAt(p, 1, n, age, k))
          = Cardinality(TakenAt(p, 1 + 1, n, age, k)) + Hit(p, 1, age, k)
    BY <2>1, TakenLow
  <2> QED
    BY <1>1, <2>1, <2>2
<1> QED
  BY <1>2, <1>3

-----------------------------------------------------------------------------
(* One more branch keeps the exact fold exact. *)
LEMMA FoldExactStep ==
    ASSUME HistoryInv, NEW dir \in {0, 1}, NEW pc, UpdateHistories(dir, pc)
    PROVE  FoldExact'
<1>1. /\ past \in Seq({0, 1}) /\ past' = <<dir>> \o past /\ exactHist = Fold(geomLength)
      /\ exactHist' = compute_history(exactHist, dir, Outcome(past, geomLength))
  BY DEF HistoryInv, FoldExact, UpdateHistories
<1>2. PICK q : q = <<dir>> \o past
  OBVIOUS
<1>3. geomLength \in Nat /\ geomLength >= 1 /\ geomLength - 1 \in Nat
      /\ (geomLength - 1) + 1 = geomLength
  BY HistoryAssumption
<1>4. ASSUME NEW k \in FoldBit
      PROVE  exactHist'[k] = Cardinality(TakenAt(q, 1, geomLength, -1, k)) % 2
  <2>1. PICK kb \in FoldBit : kb = (k - 1) % targetLength
    BY BitBefore
  <2>2. PICK c \in Nat : c = Cardinality(TakenAt(past, 1, geomLength - 1, -1, kb))
    BY <1>3, TakenFinite
  <2>3. PICK x \in {0, 1} : x = IF k = 0 THEN dir ELSE 0
    OBVIOUS
  <2>4. PICK y \in {0, 1} :
          y = IF k = geomLength % targetLength THEN Outcome(past, geomLength) ELSE 0
    BY <1>1, OutcomeBit
  <2>5. Cardinality(TakenAt(q, 1, geomLength, -1, k)) = c + x
    <3>1. Cardinality(TakenAt(<<dir>> \o past, 1, (geomLength - 1) + 1, -1, k))
            = Cardinality(TakenAt(past, 1, geomLength - 1, -1, (k - 1) % targetLength))
              + (IF k = 0 THEN dir ELSE 0)
      BY <1>1, <1>3, FoldGrows
    <3> QED
      BY <1>2, <1>3, <2>1, <2>2, <2>3, <3>1
  <2>6. Cardinality(TakenAt(past, 1, geomLength, -1, kb)) = c + y
    <3>1. Cardinality(TakenAt(past, 1, geomLength, -1, kb))
            = Cardinality(TakenAt(past, 1, geomLength - 1, -1, kb)) + Hit(past, geomLength, -1, kb)
      BY <1>3, TakenHigh
    <3>2. geomLength + -1 + 1 = geomLength
      BY <1>3
    <3>3. Hit(past, geomLength, -1, kb) = y
      BY <1>1, <1>3, <2>1, <2>4, <3>2, OutAtBit
    <3> QED
      BY <2>2, <3>1, <3>3
  <2>7. exactHist[kb] = (c + y) % 2
    BY <1>1, <2>6 DEF Fold
  <2>8. exactHist'[k] = (exactHist[kb] + x + y) % 2
    BY <1>1, <2>1, <2>3, <2>4 DEF compute_history
  <2>9. (((c + y) % 2) + x + y) % 2 = (c + x) % 2
    BY Parity
  <2> QED
    BY <2>5, <2>7, <2>8, <2>9
<1>5. exactHist' = [k \in FoldBit |-> exactHist'[k]]
  BY <1>1 DEF compute_history
<1> QED
  BY <1>1, <1>2, <1>4, <1>5 DEF FoldExact, Fold

(* One more branch leaves all the others in the compressed history. *)
LEMMA NothingLeavesStep ==
    ASSUME HistoryInv, NEW dir \in {0, 1}, NEW pc, UpdateHistories(dir, pc)
    PROVE  NothingLeaves' /\ ghr' \in [0 .. GHRLNGTH - 1 -> {0, 1}] /\ ghr'[0] = dir
<1>1. /\ past \in Seq({0, 1}) /\ past' = <<dir>> \o past /\ NothingLeaves
      /\ ghr \in [0 .. GHRLNGTH - 1 -> {0, 1}] /\ ghr[0] = Outcome(past, 1)
      /\ ghr' = ShiftGhr(dir)
      /\ compHist' = compute_history(compHist, ghr'[0], ghr'[geomLength])
  BY DEF HistoryInv, UpdateHistories
<1>2. /\ geomLength \in Nat /\ geomLength # 0 /\ geomLength \in 0 .. GHRLNGTH - 1
      /\ 0 \in 0 .. GHRLNGTH - 1
  BY HistoryAssumption
<1>3. /\ ghr' \in [0 .. GHRLNGTH - 1 -> {0, 1}] /\ ghr'[0] = dir
      /\ ghr'[geomLength] = Outcome(past, 1)
  BY <1>1, <1>2 DEF ShiftGhr
<1>4. PICK n \in Nat : n = Len(past)
  BY <1>1
<1>5. PICK q \in Seq({0, 1}) : q = <<dir>> \o past /\ Len(q) = n + 1
  BY <1>1, <1>4, PastGrows
<1>6. ASSUME NEW k \in FoldBit
      PROVE  compHist'[k] = ((Cardinality(TakenAt(q, 1, n + 1, -1, k)) % 2)
                             + Cardinality(TakenAt(q, 2, n + 1, geomLength - 2, k))) % 2
  <2>1. PICK kb \in FoldBit : kb = (k - 1) % targetLength
    BY BitBefore
  <2>2. PICK c \in Nat : c = Cardinality(TakenAt(past, 1, n, -1, kb))
    BY TakenFinite
  <2>3. PICK d \in Nat : d = Cardinality(TakenAt(past, 2, n, geomLength - 2, kb))
    BY TakenFinite
  <2>4. PICK x \in {0, 1} : x = IF k = 0 THEN dir ELSE 0
    OBVIOUS
  <2>5. PICK y \in {0, 1} :
          y = IF k = geomLength % targetLength THEN Outcome(past, 1) ELSE 0
    BY <1>1, OutcomeBit
  <2>6. Cardinality(TakenAt(q, 1, n + 1, -1, k)) = c + x
    <3>1. Cardinality(TakenAt(<<dir>> \o past, 1, n + 1, -1, k))
            = Cardinality(TakenAt(past, 1, n, -1, (k - 1) % targetLength))
              + (IF k = 0 THEN dir ELSE 0)
      BY <1>1, FoldGrows
    <3> QED
      BY <1>5, <2>1, <2>2, <2>4, <3>1
  <2>7. Cardinality(TakenAt(q, 2, n + 1, geomLength - 2, k)) = d + y
    <3>1. geomLength - 2 \in Int /\ 1 + (geomLength - 2) + 1 = geomLength /\ 1 + 1 = 2
      BY <1>2
    <3>2. Cardinality(TakenAt(<<dir>> \o past, 1 + 1, n + 1, geomLength - 2, k))
            = Cardinality(TakenAt(past, 1, n, geomLength - 2, (k - 1) % targetLength))
      <4>1. past \in Seq({0, 1}) /\ 1 \in Nat \ {0} /\ n \in Int
        BY <1>1
      <4> QED
        BY <4>1, <3>1, TakenShift
    <3>3. Cardinality(TakenAt(past, 1, n, geomLength - 2, kb))
            = Cardinality(TakenAt(past, 2, n, geomLength - 2, kb)) + Hit(past, 1, geomLength - 2, kb)
      BY <1>1, <1>4, TakenOne
    <3>4. Hit(past, 1, geomLength - 2, kb) = y
      BY <1>1, <2>1, <2>5, <3>1, OutAtBit
    <3> QED
      BY <1>5, <2>1, <2>3, <3>1, <3>2, <3>3, <3>4
  <2>8. compHist[kb] = ((c % 2) + d) % 2
    BY <1>1, <1>4, <2>2, <2>3 DEF NothingLeaves, Fold
  <2>9. compHist'[k] = (compHist[kb] + x + y) % 2
    BY <1>1, <1>3, <2>1, <2>4, <2>5 DEF compute_history
  <2>10. ((((c % 2) + d) % 2) + x + y) % 2 = (((c + x) % 2) + (d + y)) % 2
    BY Parity
  <2> QED
    BY <2>6, <2>7, <2>8, <2>9, <2>10
<1>7. compHist' = [k \in FoldBit |-> compHist'[k]]
  BY <1>1 DEF compute_history
<1>8. past' = q /\ Len(past') = n + 1
  BY <1>1, <1>5
<1>9. NothingLeaves'
  BY <1>6, <1>7, <1>8 DEF NothingLeaves, Fold
<1> QED
  BY <1>3, <1>9

(* Before the first branch every history is empty. *)
LEMMA InitHistoryInv == HistoryInit => HistoryInv
<1> SUFFICES ASSUME HistoryInit PROVE HistoryInv
  OBVIOUS
<1>1. /\ past = <<>> /\ exactHist = [k \in FoldBit |-> 0] /\ compHist = [k \in FoldBit |-> 0]
      /\ ghr = [j \in 0 .. GHRLNGTH - 1 |-> 0]
  BY DEF HistoryInit
<1>2. past \in Seq({0, 1}) /\ Len(past) = 0
  BY <1>1, EmptySeq
<1>3. \A j : Outcome(past, j) = 0
  BY <1>1 DEF Outcome
<1>4. \A lo, hi, age, k : Cardinality(TakenAt(past, lo, hi, age, k)) = 0
  <2>1. \A lo, hi, age, k : TakenAt(past, lo, hi, age, k) = {}
    BY <1>3 DEF TakenAt
  <2> QED
    BY <2>1, FS_EmptySet
<1>5. ghr \in [0 .. GHRLNGTH - 1 -> {0, 1}] /\ ghr[0] = 0
  BY <1>1, HistoryAssumption
<1>6. \A n : Fold(n) = [k \in FoldBit |-> 0]
  BY <1>4 DEF Fold
<1>7. FoldExact
  BY <1>1, <1>6 DEF FoldExact
<1>8. NothingLeaves
  BY <1>1, <1>4, <1>6 DEF NothingLeaves
<1> QED
  BY <1>2, <1>3, <1>5, <1>7, <1>8 DEF HistoryInv

(* Every branch keeps the invariant. *)
LEMMA NextHistoryInv == HistoryInv /\ [HistoryNext]_historyVars => HistoryInv'
<1> SUFFICES ASSUME HistoryInv, [HistoryNext]_historyVars PROVE HistoryInv'
  OBVIOUS
<1>1. CASE UNCHANGED historyVars
  BY <1>1 DEF historyVars, HistoryInv, FoldExact, NothingLeaves, Fold
<1>2. ASSUME NEW dir \in {0, 1}, NEW pc \in {0, 1}, UpdateHistories(dir, pc)
      PROVE  HistoryInv'
  <2>1. FoldExact' /\ NothingLeaves' /\ ghr' \in [0 .. GHRLNGTH - 1 -> {0, 1}] /\ ghr'[0] = dir
    BY <1>2, FoldExactStep, NothingLeavesStep
  <2>2. past' = <<dir>> \o past /\ past \in Seq({0, 1})
    BY <1>2 DEF UpdateHistories, HistoryInv
  <2>3. past' \in Seq({0, 1}) /\ Outcome(past', 1) = dir
    BY <2>2, PastGrows
  <2> QED
    BY <2>1, <2>3 DEF HistoryInv
<1> QED
  BY <1>1, <1>2 DEF HistoryNext

(* The invariant holds after any branches. *)
LEMMA HistoryInvariant == HistorySpec => []HistoryInv
BY InitHistoryInv, NextHistoryInv, PTL DEF HistorySpec

(* compute_history with the outcome that is geomLength branches old is the     *)
(* fold of the last geomLength outcomes: for every geomLength and targetLength *)
(* the bit it takes the old outcome out of is the one it has rotated to.       *)
THEOREM HistoryFolds == HistorySpec => []FoldExact
BY HistoryInvariant, PTL DEF HistoryInv

(* The extent of LastOutcomesFolded's failure: with the register as            *)
(* update_predictor shifts it, no outcome ever leaves a compressed history,    *)
(* whatever the lengths are.                                                   *)
THEOREM HistoryKeepsAll == HistorySpec => []NothingLeaves
BY HistoryInvariant, PTL DEF HistoryInv
=============================================================================
