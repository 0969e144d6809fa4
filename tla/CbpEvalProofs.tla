---------------------------- MODULE CbpEvalProofs ----------------------------
(***************************************************************************)
(* Theorems about the evaluation program and its trace reader, for every    *)
(* trace file, every even window size and every predictor.                  *)
(***************************************************************************)
EXTENDS CbpEval, TLAPS, FiniteSetTheorems, SequenceTheorems, WellFoundedInduction

----------------------------------------------------------------------------
(* Numbers. *)

(* A set of natural numbers that is not empty has a least element. *)
LEMMA LeastNumber ==
  ASSUME NEW S \in SUBSET Nat, S # {}
  PROVE  \E i \in S : \A j \in S : i <= j
<1>1. PICK i \in S : \A j \in S : <<j, i>> \notin OpToRel(<, Nat)
  BY NatLessThanWellFounded, WFMin
<1>2. ASSUME NEW j \in S PROVE ~(j < i)
  <2>1. <<j, i>> \notin OpToRel(<, Nat)
    BY <1>1
  <2> QED
    BY <2>1, Zenon DEF OpToRel
<1>3. \A j \in S : i <= j
  BY <1>2
<1> QED
  BY <1>3

(* Quotient and remainder of a natural number. *)
LEMMA Quotient ==
  ASSUME NEW n \in Nat \ {0}, NEW a \in Nat
  PROVE  a = n * (a \div n) + (a % n) /\ a % n \in 0 .. n - 1 /\ a \div n \in Nat
OBVIOUS

(* A multiple of n between -n and n is 0. *)
LEMMA NoSmallMultiple ==
  ASSUME NEW n \in Nat \ {0}, NEW p \in Int, -n < n * p, n * p < n
  PROVE  p = 0
<1>1. CASE p >= 1
  <2>1. n * p >= n * 1
    BY <1>1
  <2> QED
    BY <2>1
<1>2. CASE p <= -1
  <2>1. n * p <= n * (-1)
    BY <1>2
  <2> QED
    BY <2>1
<1> QED
  BY <1>1, <1>2

(* Quotient and remainder are unique. *)
LEMMA RemainderOf ==
  ASSUME NEW n \in Nat \ {0}, NEW p \in Nat, NEW s \in 0 .. n - 1
  PROVE  (n * p + s) % n = s
<1>0. n * p \in Nat
  OBVIOUS
<1>1. PICK b \in Nat : b = n * p + s
  BY <1>0
<1>2. PICK q \in Nat, r \in 0 .. n - 1 : b = n * q + r /\ r = b % n
  BY Quotient
<1>3. n * (p - q) = r - s
  <2>1. n * p + s = n * q + r
    BY <1>1, <1>2
  <2>2. n * (p - q) = n * p - n * q
    OBVIOUS
  <2>3. n * p \in Int /\ n * q \in Int
    OBVIOUS
  <2> QED
    BY <2>1, <2>2, <2>3
<1>4. -n < n * (p - q) /\ n * (p - q) < n
  BY <1>3
<1>5. p - q = 0
  BY <1>4, NoSmallMultiple
<1>6. n * (p - q) = 0
  BY <1>5
<1>7. r = s
  BY <1>3, <1>6
<1> QED
  BY <1>1, <1>2, <1>7

(* Fewer than n numbers in a row have different remainders. *)
LEMMA RemaindersDiffer ==
  ASSUME NEW n \in Nat \ {0}, NEW a \in Nat, NEW b \in Nat, a < b, b < a + n
  PROVE  a % n # b % n
<1>1. PICK p \in Nat, r \in 0 .. n - 1 : a = n * p + r /\ r = a % n
  BY Quotient
<1>2. PICK q \in Nat, s \in 0 .. n - 1 : b = n * q + s /\ s = b % n
  BY Quotient
<1>3. SUFFICES ASSUME r = s PROVE FALSE
  BY <1>1, <1>2
<1>4. n * (q - p) = b - a
  BY <1>1, <1>2, <1>3
<1>5. q - p \in Int /\ -n < n * (q - p) /\ n * (q - p) < n
  BY <1>1, <1>2, <1>4
<1>6. q - p = 0
  BY <1>5, NoSmallMultiple
<1>7. n * (q - p) = 0
  BY <1>6
<1> QED
  BY <1>4, <1>7

----------------------------------------------------------------------------
(* The place of a line among others. *)

(* Places are natural numbers. *)
LEMMA PlaceNat ==
  ASSUME NEW S \in SUBSET Nat, NEW i \in Nat
  PROVE  IsFiniteSet({j \in S : j <= i}) /\ Place(S, i) \in Nat
<1>1. IsFiniteSet({j \in S : j <= i})
  BY FS_BoundedSetOfNaturals
<1> QED
  BY <1>1, FS_CardinalityType DEF Place

(* One line more that is not among them changes nothing. *)
LEMMA PlaceSkips ==
  ASSUME NEW S \in SUBSET Nat, NEW i \in Nat, i + 1 \notin S
  PROVE  Place(S, i + 1) = Place(S, i)
<1>1. \A j \in S : j <= i + 1 <=> j <= i
  OBVIOUS
<1>2. {j \in S : j <= i + 1} = {j \in S : j <= i}
  BY <1>1, Zenon
<1> QED
  BY <1>2 DEF Place

(* One that is adds one. *)
LEMMA PlaceCounts ==
  ASSUME NEW S \in SUBSET Nat, NEW i \in Nat, i + 1 \in S
  PROVE  Place(S, i + 1) = Place(S, i) + 1
<1> DEFINE T == {j \in S : j <= i}
<1>0. \A j \in S : j <= i + 1 <=> (j <= i \/ j = i + 1)
  OBVIOUS
<1>1. {j \in S : j <= i + 1} = T \cup {i + 1} /\ i + 1 \notin T
  <2>1. ASSUME NEW j PROVE j \in {k \in S : k <= i + 1} <=> j \in T \cup {i + 1}
    BY <1>0, i + 1 \in S
  <2>2. {k \in S : k <= i + 1} = T \cup {i + 1}
    BY <2>1, Zenon
  <2>3. ~(i + 1 <= i)
    OBVIOUS
  <2> QED
    BY <2>2, <2>3
<1>2. IsFiniteSet(T)
  BY PlaceNat
<1>3. Cardinality(T \cup {i + 1}) = Cardinality(T) + 1
  BY <1>1, <1>2, FS_AddElement
<1> QED
  BY <1>1, <1>3 DEF Place

(* Places do not decrease. *)
LEMMA PlaceGrows ==
  ASSUME NEW S \in SUBSET Nat, NEW i \in Nat, NEW j \in Nat, i <= j
  PROVE  Place(S, i) <= Place(S, j)
<1>0. \A k \in S : k <= i => k <= j
  OBVIOUS
<1>1. {k \in S : k <= i} \in SUBSET {k \in S : k <= j}
  BY <1>0
<1> QED
  BY <1>1, PlaceNat, FS_Subset DEF Place

(* Each line is behind the ones before it. *)
LEMMA PlaceStrict ==
  ASSUME NEW S \in SUBSET Nat, NEW i \in Nat, NEW j \in S, i < j
  PROVE  Place(S, i) < Place(S, j)
<1> DEFINE T == {k \in S : k <= i}
           U == {k \in S : k <= j}
<1>0. (\A k \in S : k <= i => k <= j) /\ j <= j /\ ~(j <= i)
  OBVIOUS
<1>1. T \in SUBSET U /\ T # U
  BY <1>0
<1>2. IsFiniteSet(U) /\ Cardinality(T) \in Nat /\ Cardinality(U) \in Nat
  BY PlaceNat DEF Place
<1>3. Cardinality(T) <= Cardinality(U) /\ Cardinality(U) # Cardinality(T)
  BY <1>1, <1>2, FS_Subset
<1> QED
  BY <1>2, <1>3 DEF Place

(* The first has place 1. *)
LEMMA PlacePositive ==
  ASSUME NEW S \in SUBSET Nat, NEW i \in S
  PROVE  Place(S, i) >= 1
<1>1. {j \in S : j <= i} # {}
  OBVIOUS
<1>2. Cardinality({j \in S : j <= i}) # 0
  BY <1>1, PlaceNat, FS_EmptySet
<1> QED
  BY <1>2, PlaceNat DEF Place

(* A further line at the end leaves the places of the others. *)
LEMMA PlaceAtEnd ==
  ASSUME NEW S \in SUBSET Nat, IsFiniteSet(S), NEW m \in Nat, \A j \in S : j < m
  PROVE  /\ Place(S \cup {m}, m) = Cardinality(S) + 1
         /\ Cardinality(S \cup {m}) = Cardinality(S) + 1
         /\ \A i \in S : Place(S \cup {m}, i) = Place(S, i)
<1>0. m \notin S /\ m <= m /\ \A j \in S : j <= m
  OBVIOUS
<1>1. m \notin S /\ {j \in S \cup {m} : j <= m} = S \cup {m}
  BY <1>0, Zenon
<1>2. Cardinality(S \cup {m}) = Cardinality(S) + 1
  BY <1>1, FS_AddElement
<1>3. ASSUME NEW i \in S PROVE {j \in S \cup {m} : j <= i} = {j \in S : j <= i}
  <2>1. ~(m <= i)
    OBVIOUS
  <2> QED
    BY <2>1, Zenon
<1> QED
  BY <1>1, <1>2, <1>3 DEF Place

(* The last line has the number of lines for its place. *)
LEMMA PlaceOfAll ==
  ASSUME NEW S \in SUBSET Nat, NEW i \in Nat, \A j \in S : j <= i
  PROVE  IsFiniteSet(S) /\ Place(S, i) = Cardinality(S)
<1>1. {j \in S : j <= i} = S
  OBVIOUS
<1> QED
  BY <1>1, PlaceNat DEF Place

----------------------------------------------------------------------------
(* What does not change while the file, the tables and the order of the     *)
(* records stay.                                                            *)

(* The file is the same throughout, so that its sections are. *)
LEMMA FileStays ==
  ASSUME file' = file
  PROVE  /\ NodesAt' = NodesAt /\ EdgesAt' = EdgesAt /\ SequenceAt' = SequenceAt
         /\ SequenceLines' = SequenceLines
<1>0. \A w, k : NextWith(w, k)' = NextWith(w, k)
  BY Zenon DEF NextWith, IsNext, HasWord, FirstWord
<1>1. NodesAt' = NodesAt
  BY <1>0 DEF NodesAt
<1>2. EdgesAt' = EdgesAt
  BY <1>0, <1>1 DEF EdgesAt
<1>3. SequenceAt' = SequenceAt
  BY <1>0, <1>2 DEF SequenceAt
<1>4. SequenceLines' = SequenceLines
  BY <1>3 DEF SequenceLines, HasWord, FirstWord
<1> QED
  BY <1>1, <1>2, <1>3, <1>4

(* While the tables stay, so does what an entry means. *)
LEMMA TablesStay ==
  ASSUME file' = file, tables' = tables
  PROVE  /\ \A i : HasWord(i)' = HasWord(i) /\ FirstWord(i)' = FirstWord(i)
         /\ \A w : EntryVerdict(w)' = EntryVerdict(w)
         /\ \A i : BranchAt(i)' = BranchAt(i)
         /\ \A S : BranchesOf(S)' = BranchesOf(S)
<1> USE DEF tables
<1>1. \A i : HasWord(i)' = HasWord(i) /\ FirstWord(i)' = FirstWord(i)
  BY DEF HasWord, FirstWord
<1>2. \A w : EntryVerdict(w)' = EntryVerdict(w)
  BY DEF EntryVerdict, stoi, stoull, Verdict, isValidEdgeIndex_
<1>3. \A i : BranchAt(i)' = BranchAt(i)
  BY DEF BranchAt, Instance, Event, FirstWord
<1>4. ASSUME NEW S PROVE BranchesOf(S)' = BranchesOf(S)
  BY <1>3 DEF BranchesOf
<1> QED
  BY <1>1, <1>2, <1>3, <1>4

(* The first line with a word is the only one. *)
LEMMA NextIs ==
  ASSUME file \in Seq(Text), NEW word, NEW from \in Nat, NEW i, IsNext(word, from, i)
  PROVE  NextWith(word, from) = i
<1>1. i \in 1 .. Len(file) /\ Len(file) \in Nat
  BY DEF IsNext
<1>2. ASSUME NEW j \in 1 .. Len(file), IsNext(word, from, j) PROVE j = i
  BY <1>1, <1>2 DEF IsNext
<1>3. NextWith(word, from) \in 1 .. Len(file) /\ IsNext(word, from, NextWith(word, from))
  BY <1>1, Zenon DEF NextWith
<1> QED
  BY <1>2, <1>3

(* A section goes on until the line with the word of the next one. *)
LEMMA Section ==
  ASSUME file \in Seq(Text), NEW word, NEW from \in Nat, NEW n \in Nat,
         from <= n, n < Len(file), Without(word, from, n)
  PROVE  /\ HasWord(n + 1) /\ FirstWord(n + 1) = word => NextWith(word, from) = n + 1
         /\ (HasWord(n + 1) => FirstWord(n + 1) # word) => Without(word, from, n + 1)
<1>0. Len(file) \in Nat
  OBVIOUS
<1>1. ASSUME HasWord(n + 1), FirstWord(n + 1) = word PROVE NextWith(word, from) = n + 1
  <2>1. n + 1 \in from + 1 .. Len(file)
    BY <1>0
  <2>2. \A j \in from + 1 .. (n + 1) - 1 : j \in from + 1 .. n
    OBVIOUS
  <2>3. IsNext(word, from, n + 1)
    BY <1>1, <2>1, <2>2 DEF IsNext, Without
  <2> QED
    BY <2>3, NextIs
<1>2. ASSUME HasWord(n + 1) => FirstWord(n + 1) # word PROVE Without(word, from, n + 1)
  <2>1. \A j \in from + 1 .. n + 1 : j \in from + 1 .. n \/ j = n + 1
    OBVIOUS
  <2> QED
    BY <1>2, <2>1 DEF Without
<1> QED
  BY <1>1, <1>2

----------------------------------------------------------------------------
(* Verdicts. *)

Verdicts == {"ok", "exit", "abort"}

(* The verdict on a line is one of the verdicts on its fields. *)
LEMMA FirstBadIsVerdict ==
  ASSUME NEW v \in Seq(Verdicts)
  PROVE  FirstBad(v) \in Verdicts
<1> DEFINE bad == {i \in DOMAIN v : v[i] # "ok"}
<1>1. CASE bad = {}
  BY <1>1 DEF FirstBad, Verdicts
<1>2. CASE bad # {}
  <2>1. bad \in SUBSET Nat
    OBVIOUS
  <2>2. \E i \in bad : \A j \in bad : i <= j
    BY <1>2, <2>1, LeastNumber
  <2>3. (CHOOSE i \in bad : \A j \in bad : i <= j) \in DOMAIN v
    BY <2>2
  <2>4. v[CHOOSE i \in bad : \A j \in bad : i <= j] \in Verdicts
    BY <2>3
  <2> QED
    BY <1>2, <2>4 DEF FirstBad
<1> QED
  BY <1>1, <1>2

(* The conversions give verdicts. *)
LEMMA ConversionVerdicts ==
  /\ \A b : Verdict(b) \in Verdicts
  /\ \A w : stoull(w) \in Verdicts /\ stoi(w) \in Verdicts /\ Physical(w) \in Verdicts
  /\ \A w : NodeIndex(w) \in Verdicts /\ EntryVerdict(w) \in Verdicts
BY DEF Verdict, Verdicts, stoull, stoi, Physical, NodeIndex, EntryVerdict

(* The optional fields of a line are finitely many. *)
LEMMA OptionsDomain ==
  ASSUME NEW words \in Seq(STRING), NEW fixed \in Nat
  PROVE  \E n \in Nat : DOMAIN Options(words, fixed) = 1 .. n
<1>0. Len(words) \in Nat
  OBVIOUS
<1>1. PICK n \in Nat : n = IF Len(words) > fixed THEN Len(words) - fixed ELSE 0
  BY <1>0
<1>2. (n + 1) \div 2 \in Nat
  BY Quotient
<1>3. DOMAIN Options(words, fixed) = 1 .. (n + 1) \div 2
  BY <1>1 DEF Options
<1> QED
  BY <1>2, <1>3

(* A list of verdicts made element by element. *)
LEMMA VerdictList ==
  ASSUME NEW v, NEW n \in Nat, DOMAIN v = 1 .. n, v = [i \in DOMAIN v |-> v[i]],
         \A i \in 1 .. n : v[i] \in Verdicts
  PROVE  v \in Seq(Verdicts)
<1>1. v \in [1 .. n -> Verdicts]
  BY Zenon
<1> QED
  BY <1>1, SeqDef

(* The verdict on a node line is a verdict. *)
LEMMA NodeVerdicts ==
  ASSUME NEW words \in Seq(STRING), NEW comment
  PROVE  NodeVerdict(words, comment) \in Verdicts
<1> DEFINE fixed == parseNodeRecordFixedFields_(words)
           optional == parseNodeRecordOptionalFields_(words)
           last == <<parseNodeMnemonicsFromComments_(comment)>>
<1>1. fixed \in Seq(Verdicts)
  <2>1. PICK n \in Nat : n <= 5 /\ n = IF Len(words) < 5 THEN Len(words) ELSE 5
    <3>1. Len(words) \in Nat
      OBVIOUS
    <3> QED
      BY <3>1
  <2>2. DOMAIN fixed = 1 .. n /\ fixed = [i \in DOMAIN fixed |-> fixed[i]]
    BY <2>1 DEF parseNodeRecordFixedFields_
  <2>3. ASSUME NEW i \in 1 .. n PROVE fixed[i] \in Verdicts
    <3>1. i \in {1, 5} \/ i \in {2, 4} \/ i = 3
      BY <2>1
    <3>2. fixed[i] = CASE i \in {1, 5} -> stoi(words[i])
                       [] i \in {2, 4} -> stoull(words[i])
                       [] i = 3 -> Physical(words[i])
      BY <2>1 DEF parseNodeRecordFixedFields_
    <3> QED
      BY <3>1, <3>2, ConversionVerdicts
  <2> QED
    BY <2>2, <2>3, VerdictList
<1>2. optional \in Seq(Verdicts)
  <2>1. PICK n \in Nat : DOMAIN Options(words, 5) = 1 .. n
    BY OptionsDomain
  <2>2. DOMAIN optional = 1 .. n /\ optional = [i \in DOMAIN optional |-> optional[i]]
    BY <2>1 DEF parseNodeRecordOptionalFields_
  <2>3. ASSUME NEW i \in 1 .. n PROVE optional[i] \in Verdicts
    <3> DEFINE o == Options(words, 5)[i]
    <3>1. optional[i] = CASE o.key = "class:" -> Verdict(IsBrClass(o.value))
                          [] o.key = "behavior:" -> Verdict(IsBrBehavior(o.value))
                          [] o.key \in {"taken_cnt:", "not_taken_cnt:", "tgt_cnt:"} ->
                               stoull(o.value)
                          [] OTHER -> "ok"
      BY <2>1 DEF parseNodeRecordOptionalFields_
    <3>2. "ok" \in Verdicts
      BY DEF Verdicts
    <3> HIDE DEF o
    <3> QED
      BY <3>1, <3>2, ConversionVerdicts
  <2> QED
    BY <2>2, <2>3, VerdictList
<1>3. last \in Seq(Verdicts)
  <2>1. parseNodeMnemonicsFromComments_(comment) \in Verdicts
    BY ConversionVerdicts DEF parseNodeMnemonicsFromComments_
  <2> QED
    BY <2>1
<1>4. fixed \o optional \o last \in Seq(Verdicts)
  BY <1>1, <1>2, <1>3
<1> QED
  BY <1>4, FirstBadIsVerdict DEF NodeVerdict

(* So are the verdicts on the fields of an edge line. *)
LEMMA EdgeFieldVerdicts ==
  ASSUME NEW words \in Seq(STRING)
  PROVE  /\ parseEdgeRecordFixedFields_(words) \in Seq(Verdicts)
         /\ parseEdgeRecordOptionalFields_(words) \in Seq(Verdicts)
<1> DEFINE fixed == parseEdgeRecordFixedFields_(words)
           optional == parseEdgeRecordOptionalFields_(words)
<1>1. fixed \in Seq(Verdicts)
  <2>1. PICK n \in Nat : n <= 7 /\ n = IF Len(words) < 7 THEN Len(words) ELSE 7
    <3>1. Len(words) \in Nat
      OBVIOUS
    <3> QED
      BY <3>1
  <2>2. DOMAIN fixed = 1 .. n /\ fixed = [i \in DOMAIN fixed |-> fixed[i]]
    BY <2>1 DEF parseEdgeRecordFixedFields_
  <2>3. ASSUME NEW i \in 1 .. n PROVE fixed[i] \in Verdicts
    <3>1. i = 1 \/ i \in {2, 3} \/ i = 4 \/ i \in {5, 7} \/ i = 6
      BY <2>1
    <3>2. fixed[i] = CASE i = 1 -> stoi(words[i])
                       [] i \in {2, 3} -> NodeIndex(words[i])
                       [] i = 4 -> Verdict(words[i] \in {"T", "N"})
                       [] i \in {5, 7} -> stoull(words[i])
                       [] i = 6 -> Physical(words[i])
      BY <2>1 DEF parseEdgeRecordFixedFields_
    <3> QED
      BY <3>1, <3>2, ConversionVerdicts
  <2> QED
    BY <2>2, <2>3, VerdictList
<1>2. optional \in Seq(Verdicts)
  <2>1. PICK n \in Nat : DOMAIN Options(words, 7) = 1 .. n
    BY OptionsDomain
  <2>2. DOMAIN optional = 1 .. n /\ optional = [i \in DOMAIN optional |-> optional[i]]
    BY <2>1 DEF parseEdgeRecordOptionalFields_
  <2>3. ASSUME NEW i \in 1 .. n PROVE optional[i] \in Verdicts
    <3>1. optional[i] \in {stoull(Options(words, 7)[i].value), "ok"}
      BY <2>1 DEF parseEdgeRecordOptionalFields_
    <3> QED
      BY <3>1, ConversionVerdicts DEF Verdicts
  <2> QED
    BY <2>2, <2>3, VerdictList
<1> QED
  BY <1>1, <1>2

(* And the one on the line. *)
LEMMA EdgeVerdicts ==
  ASSUME NEW words \in Seq(STRING)
  PROVE  EdgeVerdict(words) \in Verdicts
<1>1. parseEdgeRecordFixedFields_(words) \o parseEdgeRecordOptionalFields_(words) \in Seq(Verdicts)
  BY EdgeFieldVerdicts
<1> QED
  BY <1>1, FirstBadIsVerdict DEF EdgeVerdict

----------------------------------------------------------------------------
(* The sections in front of the edge sequence. *)

(* What a step that reads a line has before it. *)
LEMMA LineRead ==
  ASSUME TypeOK, NextLine
  PROVE  /\ line_num_ \in Nat /\ line_num_ < Len(file) /\ Len(file) \in Nat
         /\ line_num_' = line_num_ + 1 /\ line_num_' \in 0 .. Len(file)
         /\ Line.words # <<>> <=> HasWord(line_num_ + 1)
         /\ Line.words[1] = FirstWord(line_num_ + 1)
         /\ Line.words \in Seq(STRING)
         /\ Line.words # <<>> => Words \in Seq(STRING)
<1>1. /\ line_num_ \in Nat /\ line_num_ < Len(file) /\ Len(file) \in Nat
      /\ line_num_' = line_num_ + 1 /\ line_num_' \in 0 .. Len(file)
  BY DEF TypeOK, NextLine, AtEnd
<1>2. line_num_ + 1 \in 1 .. Len(file)
  BY <1>1
<1>3. Line \in Text
  BY <1>2, ElementOfSeq DEF TypeOK, Line
<1>4. Line.words \in Seq(STRING)
  BY <1>3 DEF Text
<1>5. (Line.words # <<>> <=> HasWord(line_num_ + 1)) /\ Line.words[1] = FirstWord(line_num_ + 1)
  BY DEF HasWord, FirstWord, Line
<1>6. ASSUME NEW s \in Seq(STRING), s # <<>> PROVE Tail(s) \in Seq(STRING)
  BY <1>6
<1>7. Line.words # <<>> => Words \in Seq(STRING)
  BY <1>4, <1>6 DEF Words
<1> QED
  BY <1>1, <1>4, <1>5, <1>7

(* While the sections are read the window and the iterator stay new. *)
LEMMA StaysNew ==
  ASSUME TypeOK, stage \in Reading, file' = file, line_num_' \in 0 .. Len(file),
         window' = window, index_' = index_, reach_end_' = reach_end_, mainVars' = mainVars,
         stage' \in Reading \cup Running \cup Ended
  PROVE  /\ TypeOK'
         /\ buffer_begin_' = 0 /\ buffer_end_' = 0 /\ index_' = 0 /\ numIter' = 0
         /\ ~reach_eof_' /\ ~reach_end_' /\ fed' = <<>>
<1>1. /\ buffer_begin_' = 0 /\ buffer_end_' = 0 /\ index_' = 0 /\ numIter' = 0
      /\ ~reach_eof_' /\ ~reach_end_' /\ fed' = <<>>
  BY DEF TypeOK, window, mainVars
<1> QED
  BY <1>1 DEF TypeOK, window, mainVars

(* The first line is the title. *)
LEMMA TitleStep ==
  ASSUME ReaderInv, ReadTitle, UNCHANGED mainVars
  PROVE  ReaderInv'
<1> USE DEF ReaderInv, ReadTitle
<1>1. stage' \in {"header", "exit"} /\ stage = "title" /\ line_num_ = 0
  BY DEF InSection
<1>2. line_num_' \in 0 .. Len(file) /\ (stage' = "header" => line_num_' = 1)
  BY <1>1 DEF TypeOK, AtEnd
<1>3. TypeOK'
  BY <1>1, <1>2, StaysNew DEF Reading, Running, Ended
<1>4. InSection'
  BY <1>1, <1>2 DEF InSection, Without, Running
<1>5. EdgesKnown'
  BY <1>1 DEF EdgesKnown, EdgesClosed, tables, Reading
<1> QED
  BY <1>1, <1>3, <1>4, <1>5 DEF Running

(* Header lines are read until the node section starts. *)
LEMMA HeaderStep ==
  ASSUME ReaderInv, readBT9Header_, UNCHANGED mainVars
  PROVE  ReaderInv'
<1> USE DEF ReaderInv, readBT9Header_
<1>0. /\ file' = file /\ window' = window /\ index_' = index_ /\ reach_end_' = reach_end_
      /\ tables' = tables /\ stage = "header" /\ stage \in Reading /\ TypeOK /\ NodesAt' = NodesAt
      /\ Without("BT9_NODES", 1, line_num_) /\ line_num_ >= 1
  BY FileStays DEF Reading, InSection
<1>a. /\ stage' \in {"header", "nodes", "exit", "abort"} /\ line_num_' \in 0 .. Len(file)
      /\ stage' = "header" => NextLine /\ (HasWord(line_num_ + 1) => FirstWord(line_num_ + 1) # "BT9_NODES")
      /\ stage' = "nodes" => NextLine /\ HasWord(line_num_ + 1) /\ FirstWord(line_num_ + 1) = "BT9_NODES"
  <2>1. CASE NextLine /\ Line.words = <<>> /\ UNCHANGED <<stage, fields>>
    BY <2>1, <1>0, LineRead
  <2>2. CASE NextLine /\ Line.words # <<>> /\ Line.words[1] = "BT9_NODES"
             /\ stage' = "nodes" /\ UNCHANGED fields
    BY <2>2, <1>0, LineRead
  <2>3. CASE NextLine /\ Line.words # <<>> /\ Line.words[1] # "BT9_NODES"
             /\ parseHeader_(Line.words[1], Words, Line.indented)
    <3>1. stage' \in {stage} \cup (Verdicts \ {"ok"})
      BY <2>3, ConversionVerdicts DEF parseHeader_, End
    <3> QED
      BY <2>3, <3>1, <1>0, LineRead DEF Verdicts
  <2>4. CASE AtEnd /\ stage' = "exit" /\ UNCHANGED <<line_num_, fields>>
    BY <2>4, <1>0 DEF TypeOK
  <2> QED
    BY <2>1, <2>2, <2>3, <2>4
<1>1. TypeOK'
  BY <1>0, <1>a, StaysNew DEF Reading, Running, Ended
<1>2. InSection'
  <2>1. CASE stage' = "header"
    <3>1. Without("BT9_NODES", 1, line_num_ + 1) /\ line_num_' = line_num_ + 1 /\ line_num_ \in Nat
      BY <2>1, <1>0, <1>a, LineRead, Section DEF TypeOK
    <3>2. Without("BT9_NODES", 1, line_num_)'
      BY <3>1, <1>0 DEF Without, HasWord, FirstWord
    <3> QED
      BY <2>1, <3>1, <3>2, <1>0 DEF InSection, Running
  <2>2. CASE stage' = "nodes"
    <3>1. NodesAt = line_num_ + 1 /\ line_num_' = line_num_ + 1 /\ line_num_ \in Nat
      BY <2>2, <1>0, <1>a, LineRead, Section DEF TypeOK, NodesAt
    <3> QED
      BY <2>2, <3>1, <1>0 DEF InSection, Running, Without
  <2> QED
    BY <2>1, <2>2, <1>a DEF InSection, Running
<1>3. EdgesKnown'
  BY <1>a, <1>0 DEF EdgesKnown, EdgesClosed, tables, Reading
<1> QED
  BY <1>a, <1>1, <1>2, <1>3 DEF Running

(* The records of a table are found by their ids. *)
LEMMA VectorOfTable ==
  ASSUME NEW table, NEW v \in OrderVectors(table)
  PROVE  \A id \in DOMAIN v : v[id] \in table /\ v[id].id = id
<1>1. PICK ids : v \in [ids -> table] /\ \A i \in ids : v[i].id = i
  BY DEF OrderVectors
<1> QED
  BY <1>1

(* A node line ends the program or nothing. *)
LEMMA NodeStage ==
  ASSUME TypeOK, NextLine, Line.words # <<>>, ReadNode
  PROVE  stage' \in {stage} \cup (Verdicts \ {"ok"})
<1>1. Words \in Seq(STRING)
  BY LineRead
<1>2. NodeVerdict(Words, Line.comment) \in Verdicts
  BY <1>1, NodeVerdicts
<1> QED
  BY <1>2, ConversionVerdicts DEF ReadNode, updateNodeTable_, End

(* Node lines are read until the edge section starts. *)
LEMMA NodesStep ==
  ASSUME ReaderInv, readBT9NodeTable_, UNCHANGED mainVars
  PROVE  ReaderInv'
<1> USE DEF ReaderInv, readBT9NodeTable_
<1>0. /\ file' = file /\ window' = window /\ index_' = index_ /\ reach_end_' = reach_end_
      /\ edge_table_' = edge_table_ /\ edge_order_vector_' = edge_order_vector_
      /\ stage = "nodes" /\ stage \in Reading /\ TypeOK /\ NodesAt' = NodesAt /\ EdgesAt' = EdgesAt
      /\ Without("BT9_EDGES", NodesAt, line_num_) /\ NodesAt \in 0 .. line_num_
      /\ edge_table_ = {} /\ edge_order_vector_ = <<>>
  BY FileStays DEF Reading, InSection, EdgesKnown
<1>a. /\ stage' \in {"nodes", "edges", "exit", "abort", "segv"} /\ line_num_' \in 0 .. Len(file)
      /\ stage' = "nodes" => NextLine /\ (HasWord(line_num_ + 1) => FirstWord(line_num_ + 1) # "BT9_EDGES")
      /\ stage' = "edges" => NextLine /\ HasWord(line_num_ + 1) /\ FirstWord(line_num_ + 1) = "BT9_EDGES"
  <2>1. CASE NextLine /\ Line.words = <<>> /\ UNCHANGED <<stage, node_table_, node_order_vector_>>
    BY <2>1, <1>0, LineRead
  <2>2. CASE NextLine /\ Line.words # <<>> /\ Line.words[1] = "BT9_EDGES"
             /\ updateNodeOrderVector_("edges")
    BY <2>2, <1>0, LineRead DEF updateNodeOrderVector_, OrderVerdicts
  <2>3. CASE NextLine /\ Line.words # <<>> /\ Line.words[1] = "NODE" /\ ReadNode
    BY <2>3, <1>0, LineRead, NodeStage DEF Verdicts
  <2>4. CASE NextLine /\ stage' = "exit"
    BY <2>4, <1>0, LineRead
  <2>5. CASE AtEnd /\ updateNodeOrderVector_("exit") /\ UNCHANGED <<line_num_, node_table_>>
    BY <2>5, <1>0 DEF TypeOK, updateNodeOrderVector_, OrderVerdicts
  <2> QED
    BY <2>1, <2>2, <2>3, <2>4, <2>5
<1>1. TypeOK'
  BY <1>0, <1>a, StaysNew DEF Reading, Running, Ended
<1>b. NodesAt \in Nat /\ NodesAt <= line_num_
  BY <1>0 DEF TypeOK
<1>2. InSection'
  <2>1. CASE stage' = "nodes"
    <3>1. Without("BT9_EDGES", NodesAt, line_num_ + 1) /\ line_num_' = line_num_ + 1 /\ line_num_ \in Nat
      BY <2>1, <1>0, <1>a, <1>b, LineRead, Section DEF TypeOK
    <3>2. Without("BT9_EDGES", NodesAt, line_num_)'
      BY <3>1, <1>0 DEF Without, HasWord, FirstWord
    <3> QED
      BY <2>1, <3>1, <3>2, <1>0, <1>b DEF InSection, Running
  <2>2. CASE stage' = "edges"
    <3>1. EdgesAt = line_num_ + 1 /\ line_num_' = line_num_ + 1 /\ line_num_ \in Nat
      BY <2>2, <1>0, <1>a, <1>b, LineRead, Section DEF TypeOK, EdgesAt
    <3> QED
      BY <2>2, <3>1, <1>0 DEF InSection, Running, Without
  <2> QED
    BY <2>1, <2>2, <1>a DEF InSection, Running
<1>3. EdgesKnown'
  BY <1>a, <1>0 DEF EdgesKnown, EdgesClosed, Reading
<1> QED
  BY <1>a, <1>1, <1>2, <1>3 DEF Running

(* No line of the edge sequence has been read when its section starts. *)
LEMMA NothingRead ==
  ASSUME file \in Seq(Text), NEW n \in Nat, SequenceAt = n
  PROVE  /\ SequenceLines \in SUBSET Nat
         /\ \A i \in SequenceLines : i > n /\ i <= Len(file)
         /\ Place(SequenceLines, n) = 0
         /\ \A i \in SequenceLines : Place(SequenceLines, i) > 0
<1>1. \A i \in SequenceLines : i \in Nat /\ i > n /\ i <= Len(file)
  BY DEF SequenceLines
<1>2. {i \in SequenceLines : i <= n} = {}
  BY <1>1
<1>3. Place(SequenceLines, n) = 0
  BY <1>2, FS_EmptySet DEF Place
<1>4. SequenceLines \in SUBSET Nat
  BY <1>1
<1>5. ASSUME NEW i \in SequenceLines PROVE Place(SequenceLines, i) > 0
  <2>1. Place(SequenceLines, i) \in Nat
    BY <1>1, <1>4, PlaceNat
  <2>2. Place(SequenceLines, i) >= 1
    BY <1>4, PlacePositive
  <2> QED
    BY <2>1, <2>2
<1> QED
  BY <1>1, <1>3, <1>4, <1>5

(* The window is two halves. *)
LEMMA HalfOK == half \in Nat \ {0} /\ buffer_size = half + half /\ buffer_size \in Nat \ {0}
<1>1. buffer_size \in Nat \ {0} /\ buffer_size % 2 = 0
  BY BufferOK
<1>2. buffer_size = 2 * (buffer_size \div 2) + (buffer_size % 2) /\ buffer_size \div 2 \in Nat
  BY <1>1, Quotient
<1> QED
  BY <1>1, <1>2 DEF half

(* The edge section: edges join known nodes, and the sequence that follows  *)
(* starts with nothing read, nothing passed and nothing fed.                *)
LEMMA EdgesStep ==
  ASSUME ReaderInv, readBT9EdgeTable_, UNCHANGED mainVars
  PROVE  ReaderInv'
<1> USE DEF ReaderInv, readBT9EdgeTable_
<1>0. /\ file' = file /\ window' = window /\ index_' = index_ /\ reach_end_' = reach_end_
      /\ node_table_' = node_table_ /\ node_order_vector_' = node_order_vector_
      /\ stage = "edges" /\ stage \in Reading /\ TypeOK /\ EdgesAt' = EdgesAt
      /\ SequenceAt' = SequenceAt /\ SequenceLines' = SequenceLines
      /\ Without("BT9_EDGE_SEQUENCE", EdgesAt, line_num_) /\ EdgesAt \in 0 .. line_num_
      /\ EdgesKnown /\ edge_order_vector_ = <<>>
  BY FileStays DEF Reading, InSection, EdgesKnown
<1> DEFINE Known(e) == {e.src_node_id, e.dest_node_id} \subseteq DOMAIN node_order_vector_
<1>a. /\ stage' \in {"edges", "fill", "exit", "abort", "segv"} /\ line_num_' \in 0 .. Len(file)
      /\ stage' = "edges" =>
           NextLine /\ (HasWord(line_num_ + 1) => FirstWord(line_num_ + 1) # "BT9_EDGE_SEQUENCE")
      /\ stage' = "fill" =>
           NextLine /\ HasWord(line_num_ + 1) /\ FirstWord(line_num_ + 1) = "BT9_EDGE_SEQUENCE"
      /\ \A e \in edge_table_' : e \in edge_table_ \/ Known(e)
      /\ edge_order_vector_' = edge_order_vector_ \/ edge_order_vector_' \in OrderVectors(edge_table_)
      /\ stage' = "edges" => edge_order_vector_' = edge_order_vector_
  <2>1. CASE NextLine /\ Line.words = <<>> /\ UNCHANGED <<stage, edge_table_, edge_order_vector_>>
    BY <2>1, <1>0, LineRead
  <2>2. CASE NextLine /\ Line.words # <<>> /\ Line.words[1] = "BT9_EDGE_SEQUENCE"
             /\ updateEdgeOrderVector_("fill") /\ UNCHANGED edge_table_
    BY <2>2, <1>0, LineRead DEF updateEdgeOrderVector_, OrderVerdicts
  <2>3. CASE NextLine /\ Line.words # <<>> /\ Line.words[1] = "EDGE"
             /\ ReadEdge /\ UNCHANGED edge_order_vector_
    <3>0. Words \in Seq(STRING)
      BY <2>3, <1>0, LineRead
    <3>1. EdgeVerdict(Words) \in Verdicts
      BY <3>0, EdgeVerdicts
    <3>2. PICK edge, v : /\ edge = EdgeRecord(Words)
                         /\ v = IF EdgeVerdict(Words) = "ok" THEN updateEdgeTable_(edge)
                                ELSE EdgeVerdict(Words)
      OBVIOUS
    <3>3. /\ stage' = IF v = "ok" THEN stage ELSE v
          /\ edge_table_' = IF v = "ok" THEN edge_table_ \cup {edge} ELSE edge_table_
      BY <2>3, <3>2 DEF ReadEdge, End
    <3>4. updateEdgeTable_(edge) \in Verdicts \cup {"segv"}
      BY ConversionVerdicts DEF updateEdgeTable_
    <3>5. v = "ok" => Known(edge)
      BY <3>2 DEF updateEdgeTable_, isValidNodeIndex_
    <3>6. \A e \in edge_table_' : e \in edge_table_ \/ Known(e)
      BY <3>3, <3>5
    <3>7. stage' \in {"edges", "exit", "abort", "segv"}
      BY <3>1, <3>2, <3>3, <3>4, <1>0 DEF Verdicts
    <3> HIDE DEF Known
    <3> QED
      BY <2>3, <3>6, <3>7, <1>0, LineRead
  <2>4. CASE NextLine /\ stage' = "exit" /\ UNCHANGED <<edge_table_, edge_order_vector_>>
    BY <2>4, <1>0, LineRead
  <2>5. CASE AtEnd /\ updateEdgeOrderVector_("exit") /\ UNCHANGED <<line_num_, edge_table_>>
    BY <2>5, <1>0 DEF TypeOK, updateEdgeOrderVector_, OrderVerdicts
  <2> QED
    BY <2>1, <2>2, <2>3, <2>4, <2>5
<1>1. TypeOK'
  BY <1>0, <1>a, StaysNew DEF Reading, Running, Ended
<1>b. EdgesAt \in Nat /\ EdgesAt <= line_num_
  BY <1>0 DEF TypeOK
<1>c. stage' = "fill" => SequenceAt = line_num_ + 1 /\ line_num_' = line_num_ + 1 /\ line_num_ \in Nat
  BY <1>0, <1>a, <1>b, LineRead, Section DEF TypeOK, SequenceAt
<1>2. InSection'
  <2>1. CASE stage' = "edges"
    <3>1. /\ Without("BT9_EDGE_SEQUENCE", EdgesAt, line_num_ + 1)
          /\ line_num_' = line_num_ + 1 /\ line_num_ \in Nat
      BY <2>1, <1>0, <1>a, <1>b, LineRead, Section DEF TypeOK
    <3>2. Without("BT9_EDGE_SEQUENCE", EdgesAt, line_num_)'
      BY <3>1, <1>0 DEF Without, HasWord, FirstWord
    <3> QED
      BY <2>1, <3>1, <3>2, <1>0, <1>b DEF InSection, Running
  <2>2. CASE stage' = "fill"
    BY <2>2, <1>c, <1>0 DEF InSection, Running
  <2> QED
    BY <2>1, <2>2, <1>a DEF InSection, Running
<1>3. EdgesKnown'
  <2>1. \A e \in edge_table_ : Known(e)
    BY <1>0 DEF EdgesKnown
  <2>2. \A e \in edge_table_' : Known(e)
    BY <2>1, <1>a
  <2>3. ASSUME NEW id \in DOMAIN edge_order_vector_'
        PROVE  edge_order_vector_'[id].id = id /\ Known(edge_order_vector_'[id])
    <3>1. CASE edge_order_vector_' = edge_order_vector_
      BY <3>1, <1>0
    <3>2. CASE edge_order_vector_' \in OrderVectors(edge_table_)
      BY <3>2, <2>1, VectorOfTable
    <3> QED
      BY <3>1, <3>2, <1>a
  <2> QED
    BY <2>2, <2>3, <1>a, <1>0 DEF EdgesKnown, EdgesClosed, Reading
<1>4. ASSUME stage' = "fill"
      PROVE  InWindow' /\ EntriesRead(SequenceLines)' /\ FedBranches(BranchesOf(Passed(SequenceLines)))'
  <2>0. /\ buffer_begin_' = 0 /\ buffer_end_' = 0 /\ index_' = 0 /\ numIter' = 0
        /\ ~reach_eof_' /\ ~reach_end_' /\ fed' = <<>>
    BY <1>0, <1>a, StaysNew DEF Reading, Running, Ended
  <2>1. PICK lines : lines = SequenceLines
    OBVIOUS
  <2>2. /\ lines \in SUBSET Nat /\ Place(lines, line_num_') = 0
        /\ \A i \in lines : ~(i <= line_num_') /\ ~(Place(lines, i) <= 0)
    <3>1. line_num_' \in Nat /\ SequenceAt = line_num_' /\ file \in Seq(Text)
      BY <1>4, <1>c, <1>0 DEF TypeOK
    <3>2. /\ lines \in SUBSET Nat /\ Place(lines, line_num_') = 0
          /\ \A i \in lines : i > line_num_' /\ Place(lines, i) > 0
      BY <3>1, <2>1, NothingRead
    <3>3. \A i \in lines : Place(lines, i) \in Nat
      BY <3>2, PlaceNat
    <3> QED
      BY <3>1, <3>2, <3>3
  <2>3. InWindow'
    <3>1. 0 \in 0 .. 0 /\ 0 = 0 * half
      BY HalfOK
    <3>2. (\E k \in 0 .. buffer_begin_ : buffer_begin_ = k * half)'
      BY <3>1, <2>0 DEF half
    <3> QED
      BY <3>2, <2>0, <1>4, HalfOK DEF InWindow, FilledFor, PassedEntries
  <2>4. EntriesRead(lines)'
    <3>1. Without("EOF", SequenceAt, line_num_)'
      BY <1>4, <1>c, <1>0 DEF Without
    <3>2. \A n \in 1 .. buffer_end_' : FALSE
      BY <2>0
    <3> QED
      BY <3>1, <3>2, <2>0, <2>2 DEF EntriesRead
  <2>5. BranchesOf(Passed(lines))' = {}
    <3>1. PassedEntries' = 0
      BY <2>0, <1>4 DEF PassedEntries
    <3> QED
      BY <3>1, <2>2 DEF BranchesOf, Passed
  <2>6. FedBranches(BranchesOf(Passed(lines)))'
    BY <2>5, <2>0, FS_EmptySet, EmptySeq DEF FedBranches
  <2> QED
    BY <2>1, <2>3, <2>4, <2>6, <1>0
<1> QED
  BY <1>a, <1>0, <1>1, <1>2, <1>3, <1>4 DEF Running

----------------------------------------------------------------------------
(* The edge sequence. *)

(* The lines of the edge sequence. *)
LEMMA LinesOK ==
  ASSUME file \in Seq(Text), SequenceAt \in Nat
  PROVE  /\ SequenceLines \in SUBSET Nat /\ IsFiniteSet(SequenceLines)
         /\ \A i \in SequenceLines :
              /\ i > SequenceAt /\ i <= Len(file) /\ HasWord(i)
              /\ \A j \in SequenceAt + 1 .. i : HasWord(j) => FirstWord(j) # "EOF"
<1>1. \A i \in SequenceLines :
        /\ i \in Nat /\ i > SequenceAt /\ i <= Len(file) /\ HasWord(i)
        /\ \A j \in SequenceAt + 1 .. i : HasWord(j) => FirstWord(j) # "EOF"
  BY DEF SequenceLines
<1>2. SequenceLines \in SUBSET Nat /\ Len(file) \in Nat
  BY <1>1
<1>3. IsFiniteSet(SequenceLines)
  BY <1>1, <1>2, PlaceOfAll
<1> QED
  BY <1>1, <1>2, <1>3

(* The tables stay closed and the section is never left. *)
LEMMA RunningKept ==
  ASSUME ReaderInv, stage \in Running, file' = file, tables' = tables,
         stage' \in Running \cup Ended, line_num_' \in 0 .. Len(file), line_num_' >= line_num_
  PROVE  InSection' /\ EdgesKnown'
<1>1. SequenceAt' = SequenceAt /\ SequenceAt \in 0 .. line_num_ /\ line_num_ \in Nat
  BY FileStays DEF ReaderInv, InSection, TypeOK
<1>2. stage' \notin Reading
  BY DEF Reading, Running, Ended
<1>3. InSection'
  BY <1>1, <1>2 DEF InSection, Reading
<1>4. EdgesKnown'
  BY <1>2 DEF ReaderInv, EdgesKnown, EdgesClosed, tables, Reading
<1> QED
  BY <1>3, <1>4

(* The predictor has what it had. *)
LEMMA FedKept ==
  ASSUME NEW lines, FedBranches(BranchesOf(Passed(lines))), file' = file, tables' = tables,
         fed' = fed, PassedEntries' = PassedEntries
  PROVE  FedBranches(BranchesOf(Passed(lines)))'
<1>1. PICK B : B = BranchesOf(Passed(lines))
  OBVIOUS
<1>2. PICK P : P = Passed(lines)
  OBVIOUS
<1>3. Passed(lines)' = P
  BY <1>2 DEF Passed
<1>4. BranchesOf(Passed(lines))' = B
  BY <1>1, <1>2, <1>3, TablesStay
<1>5. \A i : BranchAt(i)' = BranchAt(i)
  BY TablesStay
<1>6. {BranchAt(i) : i \in B}' = {BranchAt(i) : i \in B}
  BY <1>5
<1>7. FedBranches(B)
  BY <1>1
<1>8. FedBranches(B)'
  BY <1>5, <1>6, <1>7 DEF FedBranches
<1> QED
  BY <1>4, <1>8

(* What is known while the simulation runs. *)
LEMMA RunningFacts ==
  ASSUME ReaderInv, stage \in Running
  PROVE  /\ TypeOK /\ InWindow
         /\ EntriesRead(SequenceLines) /\ FedBranches(BranchesOf(Passed(SequenceLines)))
         /\ SequenceAt \in Nat /\ SequenceAt <= line_num_ /\ line_num_ \in Nat
         /\ line_num_ <= Len(file) /\ Len(file) \in Nat
         /\ buffer_begin_ \in Nat /\ buffer_end_ \in Nat /\ index_ \in Nat /\ numIter \in Nat
<1>1. TypeOK /\ InSection
  BY DEF ReaderInv
<1>2. line_num_ \in 0 .. Len(file) /\ Len(file) \in Nat
  BY <1>1 DEF TypeOK
<1>3. SequenceAt \in 0 .. line_num_
  BY <1>1 DEF InSection
<1>4. buffer_begin_ \in Nat /\ buffer_end_ \in Nat /\ index_ \in Nat /\ numIter \in Nat
  BY <1>1 DEF TypeOK
<1> QED
  BY <1>1, <1>2, <1>3, <1>4 DEF ReaderInv

(* A step that only fills the window: the iterator is where it was. *)
LEMMA StillFilling ==
  ASSUME ReaderInv, stage = "fill", ~WindowFull, stage' \in {"fill", Filled},
         buffer_end_' \in {buffer_end_, buffer_end_ + 1}, stage' # "fill" => buffer_end_' = buffer_end_,
         reach_eof_' <=> stage' # "fill",
         buffer_begin_' = buffer_begin_, index_' = index_, reach_end_' = reach_end_,
         numIter' = numIter
  PROVE  InWindow' /\ PassedEntries' = PassedEntries /\ stage' \in Running
<1>0. stage \in Running
  BY DEF Running
<1>1. /\ InWindow /\ buffer_begin_ \in Nat /\ buffer_end_ \in Nat /\ index_ \in Nat /\ numIter \in Nat
  BY <1>0, RunningFacts
<1>2. half' = half /\ FilledFor' = FilledFor /\ stage' \in {"fill", "start", "loop"}
      /\ PassedEntries = index_ /\ PassedEntries' = index_
  BY <1>1 DEF half, FilledFor, Filled, PassedEntries
<1>a. index_ = FilledFor /\ ~reach_end_ /\ numIter = PassedEntries + 0
  BY <1>1 DEF InWindow
<1>3. index_ = FilledFor /\ ~reach_end_ /\ (stage' = "start" => index_ = 0)
  BY <1>a DEF FilledFor, Filled
<1>4. buffer_end_ < buffer_begin_ + buffer_size /\ half \in Nat
  BY <1>1, HalfOK DEF WindowFull
<1>5. (\E k \in 0 .. buffer_begin_ : buffer_begin_ = k * half)'
  BY <1>1, <1>2 DEF InWindow
<1>b. index_ <= buffer_end_
  BY <1>1 DEF InWindow
<1>6. /\ FilledFor <= index_' /\ index_' <= buffer_end_'
      /\ buffer_end_' <= buffer_begin_ + buffer_size
      /\ (stage' # "fill" => (reach_eof_' <=> buffer_end_' < buffer_begin_ + buffer_size))
  BY <1>1, <1>b, <1>3, <1>4, HalfOK
<1>7. numIter' = PassedEntries' + 0
  BY <1>2, <1>a
<1>8. stage' \in Running /\ PassedEntries' = PassedEntries
  BY <1>2 DEF Running
<1>9. InWindow'
  BY <1>1, <1>2, <1>3, <1>5, <1>6, <1>7 DEF InWindow
<1> QED
  BY <1>8, <1>9

(* A line without an entry. *)
LEMMA NoEntry ==
  ASSUME NEW lines \in SUBSET Nat, EntriesRead(lines), line_num_ \in Nat, ~reach_eof_,
         file' = file, tables' = tables, buffer_' = buffer_, buffer_end_' = buffer_end_,
         buffer_begin_' = buffer_begin_,
         line_num_' = line_num_ \/ (line_num_' = line_num_ + 1 /\ line_num_ + 1 \notin lines),
         reach_eof_' => \A i \in lines : i <= line_num_,
         ~reach_eof_' => Without("EOF", SequenceAt, line_num_)'
  PROVE  EntriesRead(lines)'
<1>1. \A i \in lines : i <= line_num_' <=> i <= line_num_
  OBVIOUS
<1>2. Place(lines, line_num_') = Place(lines, line_num_)
  BY PlaceSkips
<1>3. /\ \A i : FirstWord(i)' = FirstWord(i)
      /\ \A w : EntryVerdict(w)' = EntryVerdict(w)
  BY TablesStay
<1>4. ASSUME NEW i \in lines, reach_eof_' \/ i <= line_num_'
      PROVE  /\ i <= line_num_' /\ (EntryVerdict(FirstWord(i)) = "ok")'
             /\ Place(lines, i) > buffer_begin_' =>
                  buffer_'[(Place(lines, i) - 1) % buffer_size] = Index(FirstWord(i)')
  <2>1. i <= line_num_
    BY <1>1, <1>4
  <2>2. /\ EntryVerdict(FirstWord(i)) = "ok"
        /\ Place(lines, i) > buffer_begin_ =>
             buffer_[(Place(lines, i) - 1) % buffer_size] = Index(FirstWord(i))
    BY <2>1 DEF EntriesRead
  <2> QED
    BY <1>1, <1>3, <2>1, <2>2
<1>5. \A n \in 1 .. buffer_end_' : \E i \in lines : i <= line_num_' /\ Place(lines, i) = n
  BY <1>1 DEF EntriesRead
<1>6. Place(lines, line_num_') = buffer_end_'
  BY <1>2 DEF EntriesRead
<1> QED
  BY <1>4, <1>5, <1>6 DEF EntriesRead

(* A line with an entry: it goes to the cell behind the others, where the   *)
(* window has no other entry.                                               *)
LEMMA OneEntry ==
  ASSUME NEW lines \in SUBSET Nat, EntriesRead(lines), line_num_ \in Nat, ~reach_eof_,
         buffer_begin_ \in Nat, buffer_end_ \in Nat, buffer_end_ < buffer_begin_ + buffer_size,
         DOMAIN buffer_ = 0 .. buffer_size - 1,
         file' = file, tables' = tables, buffer_begin_' = buffer_begin_,
         line_num_' = line_num_ + 1, line_num_ + 1 \in lines, ~reach_eof_',
         EntryVerdict(FirstWord(line_num_ + 1)) = "ok",
         buffer_' = [buffer_ EXCEPT ![buffer_end_ % buffer_size] = Index(FirstWord(line_num_ + 1))],
         buffer_end_' = buffer_end_ + 1,
         Without("EOF", SequenceAt, line_num_)'
  PROVE  EntriesRead(lines)'
<1>0. PICK m \in lines : m = line_num_ + 1
  OBVIOUS
<1>1. \A i \in lines : i <= line_num_' <=> (i <= line_num_ \/ i = m)
  BY <1>0
<1>2. Place(lines, m) = Place(lines, line_num_) + 1 /\ Place(lines, line_num_) = buffer_end_
  BY <1>0, PlaceCounts DEF EntriesRead
<1>3. /\ \A i : FirstWord(i)' = FirstWord(i)
      /\ \A w : EntryVerdict(w)' = EntryVerdict(w)
  BY TablesStay
<1>4. buffer_end_ % buffer_size \in 0 .. buffer_size - 1
  BY HalfOK, Quotient
<1>5. ASSUME NEW i \in lines, i <= line_num_'
      PROVE  /\ (EntryVerdict(FirstWord(i)) = "ok")'
             /\ Place(lines, i) > buffer_begin_' =>
                  buffer_'[(Place(lines, i) - 1) % buffer_size] = Index(FirstWord(i)')
  <2>1. CASE i = m
    <3>1. Place(lines, i) - 1 = buffer_end_
      BY <2>1, <1>2
    <3> QED
      BY <3>1, <2>1, <1>0, <1>3, <1>4
  <2>2. CASE i <= line_num_
    <3>1. /\ EntryVerdict(FirstWord(i)) = "ok"
          /\ Place(lines, i) > buffer_begin_ =>
               buffer_[(Place(lines, i) - 1) % buffer_size] = Index(FirstWord(i))
      BY <2>2 DEF EntriesRead
    <3>2. Place(lines, i) \in Nat /\ Place(lines, i) <= buffer_end_
      BY <2>2, <1>2, PlaceNat, PlaceGrows
    <3>3. ASSUME Place(lines, i) > buffer_begin_
          PROVE  buffer_'[(Place(lines, i) - 1) % buffer_size] = Index(FirstWord(i))
      <4>1. PICK a \in Nat : a = Place(lines, i) - 1
        BY <3>2, <3>3
      <4>2. a < buffer_end_ /\ buffer_end_ < a + buffer_size
        BY <4>1, <3>2, <3>3, HalfOK
      <4>3. a % buffer_size # buffer_end_ % buffer_size
        BY <4>2, HalfOK, RemaindersDiffer
      <4>4. a % buffer_size \in 0 .. buffer_size - 1
        BY HalfOK, Quotient
      <4> QED
        BY <4>1, <4>3, <4>4, <3>1, <3>3
    <3> QED
      BY <3>1, <3>3, <1>3
  <2> QED
    BY <1>1, <1>5, <2>1, <2>2
<1>6. ASSUME NEW n \in 1 .. buffer_end_'
      PROVE  \E i \in lines : i <= line_num_' /\ Place(lines, i) = n
  <2>1. CASE n = buffer_end_ + 1
    BY <2>1, <1>0, <1>1, <1>2
  <2>2. CASE n # buffer_end_ + 1
    <3>1. n \in 1 .. buffer_end_
      BY <2>2
    <3>2. PICK i \in lines : i <= line_num_ /\ Place(lines, i) = n
      BY <3>1 DEF EntriesRead
    <3> QED
      BY <3>2, <1>1
  <2> QED
    BY <2>1, <2>2
<1>7. Place(lines, line_num_') = buffer_end_'
  BY <1>0, <1>2
<1> QED
  BY <1>5, <1>6, <1>7 DEF EntriesRead

(* The window is filled until the sequence ends or the window is full. *)
LEMMA FillStep ==
  ASSUME ReaderInv, readNextEdgeSequenceListEntry_, UNCHANGED mainVars
  PROVE  ReaderInv'
<1>0. /\ stage = "fill" /\ stage \in Running /\ ~WindowFull
      /\ file' = file /\ tables' = tables /\ buffer_begin_' = buffer_begin_
      /\ index_' = index_ /\ reach_end_' = reach_end_ /\ fed' = fed /\ numIter' = numIter
  BY DEF readNextEdgeSequenceListEntry_, Running, mainVars
<1>1. /\ TypeOK /\ InWindow
      /\ EntriesRead(SequenceLines) /\ FedBranches(BranchesOf(Passed(SequenceLines)))
      /\ SequenceAt \in Nat /\ SequenceAt <= line_num_ /\ line_num_ \in Nat
      /\ line_num_ <= Len(file) /\ Len(file) \in Nat
      /\ buffer_begin_ \in Nat /\ buffer_end_ \in Nat /\ index_ \in Nat /\ numIter \in Nat
  BY <1>0, RunningFacts
<1>2. PICK lines : lines = SequenceLines
  OBVIOUS
<1>3. /\ lines \in SUBSET Nat /\ SequenceLines' = lines /\ SequenceAt' = SequenceAt
      /\ \A i \in lines :
           /\ i > SequenceAt /\ i <= Len(file) /\ HasWord(i)
           /\ \A j \in SequenceAt + 1 .. i : HasWord(j) => FirstWord(j) # "EOF"
  BY <1>0, <1>1, <1>2, FileStays, LinesOK DEF TypeOK
<1>4. /\ EntriesRead(lines) /\ FedBranches(BranchesOf(Passed(lines)))
      /\ ~reach_eof_ /\ Without("EOF", SequenceAt, line_num_)
      /\ buffer_end_ < buffer_begin_ + buffer_size
  <2>1. EntriesRead(lines) /\ FedBranches(BranchesOf(Passed(lines)))
    BY <1>1, <1>2
  <2>2. ~reach_eof_
    BY <1>0, <1>1 DEF InWindow
  <2>3. Without("EOF", SequenceAt, line_num_)
    BY <2>1, <2>2 DEF EntriesRead
  <2>4. buffer_end_ < buffer_begin_ + buffer_size
    BY <1>0, <1>1, HalfOK DEF WindowFull
  <2> QED
    BY <2>1, <2>2, <2>3, <2>4
<1>5. ASSUME stage' \in {"fill", Filled}, EntriesRead(lines)', TypeOK', line_num_' >= line_num_,
             buffer_end_' \in {buffer_end_, buffer_end_ + 1},
             stage' # "fill" => buffer_end_' = buffer_end_,
             reach_eof_' <=> stage' # "fill"
      PROVE  ReaderInv'
  <2>1. InWindow' /\ PassedEntries' = PassedEntries /\ stage' \in Running
    BY <1>0, <1>5, StillFilling
  <2>2. FedBranches(BranchesOf(Passed(lines)))'
    BY <2>1, <1>0, <1>4, FedKept
  <2>3. line_num_' \in 0 .. Len(file)
    BY <1>5, <1>0 DEF TypeOK
  <2>4. InSection' /\ EdgesKnown'
    BY <2>1, <2>3, <1>0, <1>5, RunningKept
  <2> QED
    BY <2>1, <2>2, <2>4, <1>3, <1>5 DEF ReaderInv
<1>t. stage' \in {"fill", "start", "loop"} /\ line_num_' \in 0 .. Len(file) /\ buffer_end_' \in Nat
      /\ buffer_' \in [0 .. buffer_size - 1 -> {Index(w) : w \in DOMAIN Number} \cup {0}] /\ reach_eof_' \in BOOLEAN
      => TypeOK'
  BY <1>0, <1>1 DEF TypeOK, Reading, Running
<1>f. Filled \in {"start", "loop"}
  BY DEF Filled
<1>6. CASE AtEnd /\ EndSequence /\ UNCHANGED line_num_
  <2>1. /\ reach_eof_' /\ stage' = Filled /\ buffer_' = buffer_ /\ buffer_end_' = buffer_end_
        /\ line_num_' = line_num_ /\ reach_eof_' \in BOOLEAN
    BY <1>6 DEF EndSequence
  <2>2. \A i \in lines : i <= line_num_
    BY <1>6, <1>3 DEF AtEnd
  <2>3. EntriesRead(lines)'
    BY <2>1, <2>2, <1>0, <1>1, <1>3, <1>4, NoEntry
  <2>4. TypeOK'
    BY <2>1, <1>1, <1>t, <1>f DEF TypeOK
  <2> QED
    BY <2>1, <2>3, <2>4, <1>1, <1>5, <1>f
<1>7. CASE NextLine /\ Line.words = <<>> /\ UNCHANGED <<stage, buffer_, buffer_end_, reach_eof_>>
  <2>1. /\ line_num_' = line_num_ + 1 /\ line_num_' \in 0 .. Len(file) /\ ~HasWord(line_num_ + 1)
        /\ line_num_ < Len(file)
    BY <1>7, <1>1, LineRead
  <2>2. line_num_ + 1 \notin lines
    BY <2>1, <1>3
  <2>3. Without("EOF", SequenceAt, line_num_ + 1)
    BY <2>1, <1>1, <1>4, Section DEF TypeOK
  <2>4. Without("EOF", SequenceAt, line_num_)'
    BY <2>1, <2>3, <1>0, <1>3 DEF Without, HasWord, FirstWord
  <2>5. EntriesRead(lines)'
    BY <2>1, <2>2, <2>4, <1>7, <1>0, <1>1, <1>3, <1>4, NoEntry
  <2>6. TypeOK'
    BY <2>1, <1>7, <1>0, <1>1, <1>t DEF TypeOK
  <2> QED
    BY <2>1, <2>5, <2>6, <1>7, <1>0, <1>1, <1>4, <1>5
<1>8. CASE NextLine /\ Line.words # <<>> /\ Line.words[1] = "EOF" /\ EndSequence
  <2>0. /\ line_num_' = line_num_ + 1 /\ line_num_' \in 0 .. Len(file)
        /\ HasWord(line_num_ + 1) /\ FirstWord(line_num_ + 1) = "EOF"
    BY <1>8, <1>1, LineRead
  <2>1. /\ reach_eof_' /\ stage' = Filled /\ buffer_' = buffer_ /\ buffer_end_' = buffer_end_
        /\ reach_eof_' \in BOOLEAN
    BY <1>8 DEF EndSequence
  <2>2. ASSUME NEW i \in lines PROVE i <= line_num_
    <3>1. SUFFICES ASSUME ~(i <= line_num_) PROVE FALSE
      OBVIOUS
    <3>2. line_num_ + 1 \in SequenceAt + 1 .. i
      BY <3>1, <1>1, <1>3
    <3> QED
      BY <3>2, <2>0, <1>3
  <2>3. line_num_ + 1 \notin lines
    BY <2>2, <1>1
  <2>4. EntriesRead(lines)'
    BY <2>0, <2>1, <2>2, <2>3, <1>0, <1>1, <1>3, <1>4, NoEntry
  <2>5. TypeOK'
    BY <2>0, <2>1, <1>1, <1>t, <1>f DEF TypeOK
  <2> QED
    BY <2>0, <2>1, <2>4, <2>5, <1>1, <1>5, <1>f
<1>9. CASE NextLine /\ Line.words # <<>> /\ Line.words[1] # "EOF"
           /\ StoreEntry(Line.words[1]) /\ UNCHANGED reach_eof_
  <2>0. /\ line_num_' = line_num_ + 1 /\ line_num_' \in 0 .. Len(file) /\ line_num_ < Len(file)
        /\ HasWord(line_num_ + 1) /\ FirstWord(line_num_ + 1) # "EOF"
        /\ Line.words[1] = FirstWord(line_num_ + 1)
    BY <1>9, <1>1, LineRead
  <2>1. PICK word : word = FirstWord(line_num_ + 1)
    OBVIOUS
  <2>2. CASE EntryVerdict(word) = "ok"
    <3>1. /\ buffer_' = [buffer_ EXCEPT ![buffer_end_ % buffer_size] = Index(word)]
          /\ buffer_end_' = buffer_end_ + 1 /\ stage' = stage
      BY <2>0, <2>1, <2>2, <1>9 DEF StoreEntry
    <3>2. word \in DOMAIN Number
      BY <2>2 DEF EntryVerdict, stoi, stoull, Verdict
    <3>3. Without("EOF", SequenceAt, line_num_ + 1)
      BY <2>0, <1>1, <1>4, Section DEF TypeOK
    <3>4. Without("EOF", SequenceAt, line_num_)'
      BY <2>0, <3>3, <1>0, <1>3 DEF Without, HasWord, FirstWord
    <3>5. line_num_ + 1 \in lines
      <4>1. line_num_ + 1 \in SequenceAt + 1 .. Len(file)
        BY <2>0, <1>1
      <4> QED
        BY <4>1, <3>3, <2>0, <1>2 DEF SequenceLines, Without
    <3>6. DOMAIN buffer_ = 0 .. buffer_size - 1
      BY <1>1 DEF TypeOK
    <3>7. EntriesRead(lines)'
      BY <3>1, <3>4, <3>5, <3>6, <2>0, <2>1, <2>2, <1>9, <1>0, <1>1, <1>3, <1>4, OneEntry
    <3>8. buffer_' \in [0 .. buffer_size - 1 -> {Index(w) : w \in DOMAIN Number} \cup {0}]
      BY <3>1, <3>2, <1>1 DEF TypeOK, Range
    <3>9. TypeOK'
      BY <3>1, <3>8, <2>0, <1>9, <1>0, <1>1, <1>t DEF TypeOK
    <3> QED
      BY <3>1, <3>7, <3>9, <2>0, <1>9, <1>0, <1>1, <1>4, <1>5
  <2>3. CASE EntryVerdict(word) # "ok"
    <3>1. /\ stage' \in Verdicts \ {"ok"} /\ buffer_' = buffer_ /\ buffer_end_' = buffer_end_
      BY <2>0, <2>1, <2>3, <1>9, ConversionVerdicts DEF StoreEntry
    <3>2. stage' \in {"exit", "abort"}
      BY <3>1 DEF Verdicts
    <3>3. TypeOK'
      BY <3>1, <3>2, <2>0, <1>9, <1>0, <1>1 DEF TypeOK, Reading, Ended
    <3>4. InSection' /\ EdgesKnown'
      BY <3>2, <2>0, <1>0, <1>1, RunningKept DEF Ended
    <3> QED
      BY <3>2, <3>3, <3>4 DEF ReaderInv, Running
  <2> QED
    BY <2>2, <2>3
<1> QED
  BY <1>6, <1>7, <1>8, <1>9 DEF readNextEdgeSequenceListEntry_

(* A step that leaves the window and the lines read alone. *)
LEMMA EntriesKept ==
  ASSUME NEW lines, EntriesRead(lines), file' = file, tables' = tables, line_num_' = line_num_,
         buffer_' = buffer_, buffer_end_' = buffer_end_, reach_eof_' = reach_eof_,
         buffer_begin_ \in Nat, buffer_begin_' \in Nat, buffer_begin_' >= buffer_begin_,
         lines \in SUBSET Nat
  PROVE  EntriesRead(lines)'
<1>1. /\ \A i : HasWord(i)' = HasWord(i) /\ FirstWord(i)' = FirstWord(i)
      /\ \A w : EntryVerdict(w)' = EntryVerdict(w)
  BY TablesStay
<1>2. SequenceAt' = SequenceAt
  BY FileStays
<1>3. ASSUME NEW i \in lines, Place(lines, i) > buffer_begin_' PROVE Place(lines, i) > buffer_begin_
  <2>1. Place(lines, i) \in Nat
    BY PlaceNat
  <2> QED
    BY <2>1, <1>3
<1>4. ASSUME ~reach_eof_ PROVE Without("EOF", SequenceAt, line_num_)'
  <2>1. Without("EOF", SequenceAt, line_num_)
    BY <1>4 DEF EntriesRead
  <2> QED
    BY <2>1, <1>1, <1>2 DEF Without
<1>5. ASSUME NEW i \in lines, reach_eof_ \/ i <= line_num_
      PROVE  /\ i <= line_num_' /\ (EntryVerdict(FirstWord(i)) = "ok")'
             /\ Place(lines, i) > buffer_begin_' =>
                  buffer_'[(Place(lines, i) - 1) % buffer_size] = Index(FirstWord(i)')
  <2>1. /\ i <= line_num_ /\ EntryVerdict(FirstWord(i)) = "ok"
        /\ Place(lines, i) > buffer_begin_ =>
             buffer_[(Place(lines, i) - 1) % buffer_size] = Index(FirstWord(i))
    BY <1>5 DEF EntriesRead
  <2> QED
    BY <2>1, <1>1, <1>3
<1>6. \A n \in 1 .. buffer_end_' : \E i \in lines : i <= line_num_' /\ Place(lines, i) = n
  BY DEF EntriesRead
<1>7. Place(lines, line_num_') = buffer_end_'
  BY DEF EntriesRead
<1> QED
  BY <1>4, <1>5, <1>6, <1>7 DEF EntriesRead

(* What the steps that read no line have in common. *)
LEMMA SameLines ==
  ASSUME ReaderInv, stage \in Running, file' = file, tables' = tables, line_num_' = line_num_,
         buffer_' = buffer_, buffer_end_' = buffer_end_, reach_eof_' = reach_eof_,
         buffer_begin_' \in Nat, buffer_begin_' >= buffer_begin_,
         index_' \in Nat, numIter' \in Nat, reach_end_' \in BOOLEAN, stage' \in Running \cup Ended
  PROVE  /\ TypeOK' /\ InSection' /\ EdgesKnown' /\ EntriesRead(SequenceLines)'
         /\ InWindow' /\ FedBranches(BranchesOf(Passed(SequenceLines)))' => ReaderInv'
<1>1. /\ TypeOK /\ EntriesRead(SequenceLines) /\ SequenceAt \in Nat /\ line_num_ \in Nat
      /\ line_num_ <= Len(file) /\ buffer_begin_ \in Nat
  BY RunningFacts
<1>2. TypeOK'
  BY <1>1 DEF TypeOK, Reading, Running, Ended
<1>3. InSection' /\ EdgesKnown'
  BY <1>1, RunningKept DEF TypeOK
<1>4. PICK lines : lines = SequenceLines
  OBVIOUS
<1>5. SequenceLines' = lines /\ lines \in SUBSET Nat
  BY <1>1, <1>4, FileStays, LinesOK DEF TypeOK
<1>6. EntriesRead(lines)'
  BY <1>1, <1>4, <1>5, EntriesKept
<1>7. EntriesRead(SequenceLines)'
  BY <1>5, <1>6
<1> QED
  BY <1>2, <1>3, <1>7 DEF ReaderInv

(* The same when the entries passed do not change either. *)
LEMMA SameFed ==
  ASSUME ReaderInv, stage \in Running, file' = file, tables' = tables, fed' = fed,
         PassedEntries' = PassedEntries
  PROVE  FedBranches(BranchesOf(Passed(SequenceLines)))'
<1>1. PICK lines : lines = SequenceLines
  OBVIOUS
<1>2. SequenceLines' = lines
  BY <1>1, FileStays
<1>3. FedBranches(BranchesOf(Passed(lines)))
  BY <1>1, RunningFacts
<1>4. FedBranches(BranchesOf(Passed(lines)))'
  BY <1>3, FedKept
<1> QED
  BY <1>2, <1>4

(* The loop that fills the window ends with the window full. *)
LEMMA FullStep ==
  ASSUME ReaderInv, initBT9EdgeSeqListAccessWindow_, UNCHANGED mainVars
  PROVE  ReaderInv'
<1>0. /\ stage = "fill" /\ stage \in Running /\ WindowFull /\ stage' = Filled
      /\ file' = file /\ tables' = tables /\ line_num_' = line_num_
      /\ buffer_' = buffer_ /\ buffer_begin_' = buffer_begin_ /\ buffer_end_' = buffer_end_
      /\ reach_eof_' = reach_eof_
      /\ index_' = index_ /\ reach_end_' = reach_end_ /\ fed' = fed /\ numIter' = numIter
  BY DEF initBT9EdgeSeqListAccessWindow_, Running, mainVars, window
<1>1. /\ TypeOK /\ InWindow
      /\ buffer_begin_ \in Nat /\ buffer_end_ \in Nat /\ index_ \in Nat /\ numIter \in Nat
      /\ reach_end_ \in BOOLEAN
  BY <1>0, RunningFacts DEF TypeOK
<1>2. /\ stage' \in {"start", "loop"} /\ (stage' = "start" => buffer_begin_ = 0)
      /\ stage' \in Running
  BY <1>0 DEF Filled, Running
<1>3. half' = half /\ FilledFor' = FilledFor /\ PassedEntries = index_ /\ PassedEntries' = index_
  BY <1>0, <1>1, <1>2 DEF half, FilledFor, PassedEntries
<1>4. /\ index_ = FilledFor /\ ~reach_eof_ /\ ~reach_end_ /\ numIter = PassedEntries + 0
      /\ index_ <= buffer_end_ /\ buffer_end_ <= buffer_begin_ + buffer_size
  BY <1>0, <1>1 DEF InWindow
<1>5. ~(buffer_end_ < buffer_begin_ + buffer_size)
  BY <1>0, <1>1, HalfOK DEF WindowFull
<1>6. buffer_begin_ = 0 => index_ = 0
  BY <1>4 DEF FilledFor
<1>7. (\E k \in 0 .. buffer_begin_ : buffer_begin_ = k * half)'
  BY <1>0, <1>1, <1>3 DEF InWindow
<1>8. InWindow'
  BY <1>0, <1>1, <1>2, <1>3, <1>4, <1>5, <1>6, <1>7 DEF InWindow
<1>9. FedBranches(BranchesOf(Passed(SequenceLines)))'
  BY <1>0, <1>3, SameFed
<1> QED
  BY <1>0, <1>1, <1>2, <1>8, <1>9, SameLines

(* Reading the counts of the header starts the loop. *)
LEMMA CountsStep ==
  ASSUME ReaderInv, ReadCounts
  PROVE  ReaderInv'
<1>0. /\ stage = "start" /\ stage \in Running /\ stage' \in {"loop", "abort"}
      /\ file' = file /\ tables' = tables /\ line_num_' = line_num_
      /\ buffer_' = buffer_ /\ buffer_begin_' = buffer_begin_ /\ buffer_end_' = buffer_end_
      /\ reach_eof_' = reach_eof_
      /\ index_' = index_ /\ reach_end_' = reach_end_ /\ fed' = fed /\ numIter' = numIter
  BY DEF ReadCounts, Running, window
<1>1. /\ TypeOK /\ InWindow
      /\ buffer_begin_ \in Nat /\ buffer_end_ \in Nat /\ index_ \in Nat /\ numIter \in Nat
      /\ reach_end_ \in BOOLEAN
  BY <1>0, RunningFacts DEF TypeOK
<1>3. half' = half /\ FilledFor' = FilledFor /\ PassedEntries = index_ /\ PassedEntries' = index_
  BY <1>0, <1>1 DEF half, FilledFor, PassedEntries
<1>4. stage' \in Running \cup Ended
  BY <1>0 DEF Running, Ended
<1>5. TypeOK' /\ InSection' /\ EdgesKnown'
  BY <1>0, <1>1, <1>4, SameLines
<1>6. CASE stage' = "loop"
  <2>1. numIter' = PassedEntries' + 0
    BY <1>0, <1>1, <1>3 DEF InWindow
  <2>2. InWindow'
    BY <1>0, <1>1, <1>3, <1>6, <2>1 DEF InWindow
  <2>3. FedBranches(BranchesOf(Passed(SequenceLines)))'
    BY <1>0, <1>3, SameFed
  <2> QED
    BY <1>0, <1>1, <1>4, <2>2, <2>3, SameLines
<1>7. CASE stage' = "abort"
  BY <1>5, <1>7 DEF ReaderInv, Running
<1> QED
  BY <1>0, <1>6, <1>7

(* The loop ends when the iterator says that the sequence has ended. *)
LEMMA FinishStep ==
  ASSUME ReaderInv, Finish
  PROVE  ReaderInv'
<1>0. /\ stage = "loop" /\ stage \in Running /\ stage' = "done" /\ reach_end_
      /\ file' = file /\ tables' = tables /\ line_num_' = line_num_
      /\ buffer_' = buffer_ /\ buffer_begin_' = buffer_begin_ /\ buffer_end_' = buffer_end_
      /\ reach_eof_' = reach_eof_
      /\ index_' = index_ /\ reach_end_' = reach_end_ /\ fed' = fed /\ numIter' = numIter
  BY DEF Finish, Running, mainVars, window
<1>1. /\ TypeOK /\ InWindow
      /\ buffer_begin_ \in Nat /\ buffer_end_ \in Nat /\ index_ \in Nat /\ numIter \in Nat
      /\ reach_end_ \in BOOLEAN
  BY <1>0, RunningFacts DEF TypeOK
<1>2. half' = half /\ FilledFor' = FilledFor /\ PassedEntries = index_ /\ PassedEntries' = index_
  BY <1>0, <1>1 DEF half, FilledFor, PassedEntries
<1>3. /\ reach_eof_ /\ index_ = buffer_end_ /\ FilledFor < buffer_end_
      /\ numIter = PassedEntries + 0
  BY <1>0, <1>1 DEF InWindow
<1>4. FilledFor \in Nat
  BY <1>1, HalfOK DEF FilledFor
<1>5. FilledFor # buffer_end_
  BY <1>1, <1>3, <1>4
<1>6. stage' \in Running \cup Ended
  BY <1>0 DEF Running
<1>7. InWindow'
  BY <1>0, <1>1, <1>2, <1>3, <1>5 DEF InWindow
<1>8. FedBranches(BranchesOf(Passed(SequenceLines)))'
  BY <1>0, <1>2, SameFed
<1> QED
  BY <1>0, <1>1, <1>6, <1>7, <1>8, SameLines

(* The iterator moves on; at the end of the window the window moves by half *)
(* its size, and the iterator is then in its middle.                        *)
LEMMA AdvanceStep ==
  ASSUME ReaderInv, Advance
  PROVE  ReaderInv'
<1>0. /\ stage = "next" /\ stage \in Running
      /\ file' = file /\ tables' = tables /\ line_num_' = line_num_
      /\ index_' = index_ + 1 /\ fed' = fed /\ numIter' = numIter
      /\ buffer_' = buffer_ /\ buffer_end_' = buffer_end_ /\ reach_eof_' = reach_eof_
      /\ IF index_ + 1 >= buffer_end_ /\ ~reach_eof_
         THEN buffer_begin_' = buffer_begin_ + half /\ stage' = "fill" /\ reach_end_' = reach_end_
         ELSE buffer_begin_' = buffer_begin_ /\ stage' = "loop"
              /\ reach_end_' = (index_ + 1 >= buffer_end_)
  BY DEF Advance, moveToNextEdgeSeqListEntry_, shiftBT9EdgeSeqListAccessWindow_, Running,
         mainVars, window, half
<1>1. /\ TypeOK /\ InWindow
      /\ buffer_begin_ \in Nat /\ buffer_end_ \in Nat /\ index_ \in Nat /\ numIter \in Nat
      /\ reach_end_ \in BOOLEAN /\ reach_eof_ \in BOOLEAN
  BY <1>0, RunningFacts DEF TypeOK
<1>2. /\ half \in Nat \ {0} /\ buffer_size = half + half /\ half' = half
  BY HalfOK DEF half
<1>3. PassedEntries = index_ + 1 /\ PassedEntries' = index_ + 1 /\ stage' \in Running
  BY <1>0, <1>1 DEF PassedEntries, Running
<1>4. /\ index_ < buffer_end_ /\ ~reach_end_ /\ numIter = PassedEntries + 0
      /\ FilledFor <= index_ /\ buffer_end_ <= buffer_begin_ + buffer_size
      /\ (reach_eof_ <=> buffer_end_ < buffer_begin_ + buffer_size)
      /\ \E k \in 0 .. buffer_begin_ : buffer_begin_ = k * half
  BY <1>0, <1>1 DEF InWindow
<1>5. FedBranches(BranchesOf(Passed(SequenceLines)))'
  BY <1>0, <1>3, SameFed
<1>6. FilledFor \in Nat
  BY <1>1, <1>2 DEF FilledFor
<1>7. CASE index_ + 1 >= buffer_end_ /\ ~reach_eof_
  <2>1. buffer_begin_' = buffer_begin_ + half /\ stage' = "fill" /\ reach_end_' = reach_end_
    BY <1>0, <1>7
  <2>2. buffer_end_ = index_ + 1 /\ buffer_end_ = buffer_begin_ + buffer_size
    BY <1>1, <1>2, <1>4, <1>7
  <2>3. FilledFor' = index_ + 1
    BY <1>1, <1>2, <2>1, <2>2 DEF FilledFor
  <2>4. PICK k \in 0 .. buffer_begin_ : buffer_begin_ = k * half
    BY <1>4
  <2>5. buffer_begin_' = (k + 1) * half /\ k + 1 \in 0 .. buffer_begin_'
    BY <1>1, <1>2, <2>1, <2>4
  <2>6. (\E j \in 0 .. buffer_begin_ : buffer_begin_ = j * half)'
    BY <1>2, <2>5
  <2>7. /\ index_' <= buffer_end_' /\ buffer_end_' <= buffer_begin_' + buffer_size
        /\ FilledFor' <= index_' /\ numIter' = PassedEntries' + 0
    BY <1>0, <1>1, <1>2, <1>3, <1>4, <2>1, <2>2, <2>3
  <2>8. InWindow'
    BY <1>0, <1>4, <1>7, <2>1, <2>3, <2>6, <2>7 DEF InWindow
  <2>9. /\ buffer_begin_' \in Nat /\ buffer_begin_' >= buffer_begin_ /\ index_' \in Nat
        /\ numIter' \in Nat /\ reach_end_' \in BOOLEAN
    BY <1>0, <1>1, <1>2, <2>1
  <2> QED
    BY <1>0, <1>3, <1>5, <2>8, <2>9, SameLines
<1>8. CASE ~(index_ + 1 >= buffer_end_ /\ ~reach_eof_)
  <2>1. buffer_begin_' = buffer_begin_ /\ stage' = "loop" /\ reach_end_' = (index_ + 1 >= buffer_end_)
    BY <1>0, <1>8
  <2>2. FilledFor' = FilledFor
    BY <2>1, <1>2 DEF FilledFor
  <2>3. (\E j \in 0 .. buffer_begin_ : buffer_begin_ = j * half)'
    BY <1>2, <1>4, <2>1
  <2>4. /\ index_' <= buffer_end_' /\ FilledFor' <= index_' /\ numIter' = PassedEntries' + 0
        /\ FilledFor < buffer_end_
    BY <1>0, <1>1, <1>3, <1>4, <1>6, <2>2
  <2>5. reach_end_' => reach_eof_ /\ index_' = buffer_end_
    BY <1>0, <1>1, <1>4, <1>8, <2>1
  <2>6. ~reach_end_' => index_' # buffer_end_
    BY <1>0, <1>1, <2>1
  <2>7. InWindow'
    BY <1>0, <1>4, <2>1, <2>2, <2>3, <2>4, <2>5, <2>6 DEF InWindow
  <2>8. /\ buffer_begin_' \in Nat /\ buffer_begin_' >= buffer_begin_ /\ index_' \in Nat
        /\ numIter' \in Nat /\ reach_end_' \in BOOLEAN
    BY <1>0, <1>1, <2>1
  <2> QED
    BY <1>0, <1>3, <1>5, <2>7, <2>8, SameLines
<1> QED
  BY <1>7, <1>8

(* One branch more for the predictor. *)
LEMMA BranchAdded ==
  ASSUME NEW B \in SUBSET Nat, IsFiniteSet(B), NEW m \in Nat, \A i \in B : i < m,
         FedBranches(B), fed' = Append(fed, BranchAt(m)), file' = file, tables' = tables
  PROVE  FedBranches(B \cup {m})'
<1>1. \A i : BranchAt(i)' = BranchAt(i)
  BY TablesStay
<1>2. /\ Place(B \cup {m}, m) = Cardinality(B) + 1
      /\ Cardinality(B \cup {m}) = Cardinality(B) + 1
      /\ \A i \in B : Place(B \cup {m}, i) = Place(B, i)
  BY PlaceAtEnd
<1>3. /\ fed \in Seq({BranchAt(i) : i \in B}) /\ Len(fed) = Cardinality(B)
      /\ \A i \in B : fed[Place(B, i)] = BranchAt(i)
  BY DEF FedBranches
<1>4. {BranchAt(i) : i \in B} \subseteq {BranchAt(i) : i \in B \cup {m}}
  OBVIOUS
<1>5. fed \in Seq({BranchAt(i) : i \in B \cup {m}}) /\ BranchAt(m) \in {BranchAt(i) : i \in B \cup {m}}
  BY <1>3, <1>4, SeqMonotonic
<1>6. PICK T : T = {BranchAt(i) : i \in B \cup {m}}
  OBVIOUS
<1>7. /\ fed' \in Seq(T) /\ Len(fed') = Len(fed) + 1 /\ fed'[Len(fed) + 1] = BranchAt(m)
      /\ \A n \in 1 .. Len(fed) : fed'[n] = fed[n]
  BY <1>5, <1>6, AppendProperties
<1>8. ASSUME NEW i \in B PROVE Place(B, i) \in 1 .. Len(fed)
  <2>1. Place(B, i) \in Nat /\ Place(B, i) >= 1
    BY PlaceNat, PlacePositive
  <2>2. Place(B, i) <= Cardinality(B)
    <3>1. {j \in B : j <= i} \in SUBSET B
      OBVIOUS
    <3> QED
      BY <3>1, FS_Subset DEF Place
  <2> QED
    BY <2>1, <2>2, <1>3
<1>9. \A i \in B \cup {m} : fed'[Place(B \cup {m}, i)] = BranchAt(i)
  BY <1>2, <1>3, <1>7, <1>8
<1> QED
  BY <1>1, <1>2, <1>3, <1>6, <1>7, <1>9 DEF FedBranches

(* An entry that can be loaded is the next of the sequence. *)
LEMMA EntryLoaded ==
  ASSUME ReaderInv, stage = "loop", ~reach_end_, ~OutOfRange
  PROVE  /\ index_ < buffer_end_
         /\ \E m \in SequenceLines :
              /\ m <= line_num_ /\ Place(SequenceLines, m) = index_ + 1
              /\ EntryVerdict(FirstWord(m)) = "ok" /\ getEdgeSeqListEntry_ = Index(FirstWord(m))
<1>0. stage \in Running
  BY DEF Running
<1>1. /\ TypeOK /\ InWindow /\ EntriesRead(SequenceLines) /\ line_num_ \in Nat
      /\ buffer_begin_ \in Nat /\ buffer_end_ \in Nat /\ index_ \in Nat
  BY <1>0, RunningFacts
<1>2. /\ FilledFor <= index_ /\ index_ <= buffer_end_
      /\ (reach_eof_ <=> buffer_end_ < buffer_begin_ + buffer_size)
      /\ (index_ = buffer_end_ => FilledFor = buffer_end_)
  BY <1>1 DEF InWindow
<1>3. FilledFor \in Nat /\ FilledFor < buffer_begin_ + buffer_size /\ buffer_begin_ <= FilledFor
  BY <1>1, HalfOK DEF FilledFor
<1>4. index_ < buffer_end_
  BY <1>1, <1>2, <1>3, HalfOK DEF OutOfRange
<1>5. index_ + 1 \in 1 .. buffer_end_
  BY <1>1, <1>4
<1>6. PICK m \in SequenceLines : m <= line_num_ /\ Place(SequenceLines, m) = index_ + 1
  BY <1>1, <1>5 DEF EntriesRead
<1>7. /\ EntryVerdict(FirstWord(m)) = "ok"
      /\ index_ + 1 > buffer_begin_ =>
           buffer_[((index_ + 1) - 1) % buffer_size] = Index(FirstWord(m))
  BY <1>1, <1>6 DEF EntriesRead
<1>8. index_ + 1 > buffer_begin_ /\ (index_ + 1) - 1 = index_
  BY <1>1, <1>2, <1>3
<1> QED
  BY <1>4, <1>6, <1>7, <1>8 DEF getEdgeSeqListEntry_

(* Passing the next entry. *)
LEMMA OnePassed ==
  ASSUME NEW lines \in SUBSET Nat, IsFiniteSet(lines), index_ \in Nat, index_' = index_,
         stage # "next", stage' = "next", NEW m \in lines, Place(lines, m) = index_ + 1
  PROVE  /\ Passed(lines)' = Passed(lines) \cup {m}
         /\ \A i \in Passed(lines) : i < m
<1>1. PassedEntries = index_ /\ PassedEntries' = index_ + 1
  BY DEF PassedEntries
<1>2. \A i \in lines : Place(lines, i) \in Nat
  BY PlaceNat
<1>3. ASSUME NEW i \in lines, Place(lines, i) <= index_ PROVE i < m
  <2>1. CASE i >= m
    <3>1. Place(lines, m) <= Place(lines, i)
      BY <2>1, PlaceGrows
    <3> QED
      BY <3>1, <1>2, <1>3
  <2> QED
    BY <2>1
<1>4. ASSUME NEW i \in lines, Place(lines, i) <= index_ + 1, ~(Place(lines, i) <= index_) PROVE i = m
  <2>1. Place(lines, i) = Place(lines, m)
    BY <1>2, <1>4
  <2>2. CASE i < m
    <3>1. Place(lines, i) < Place(lines, m)
      BY <2>2, PlaceStrict
    <3> QED
      BY <3>1, <2>1, <1>2
  <2>3. CASE m < i
    <3>1. Place(lines, m) < Place(lines, i)
      BY <2>3, PlaceStrict
    <3> QED
      BY <3>1, <2>1, <1>2
  <2> QED
    BY <2>2, <2>3
<1>5. \A i \in lines : Place(lines, i) <= index_ => Place(lines, i) <= index_ + 1
  BY <1>2
<1>6. Place(lines, m) <= index_ + 1
  BY <1>2
<1>7. ASSUME NEW i \in lines
      PROVE  Place(lines, i) <= index_ + 1 <=> (Place(lines, i) <= index_ \/ i = m)
  BY <1>4, <1>5, <1>6
<1>8. Passed(lines) = {i \in lines : Place(lines, i) <= index_}
  BY <1>1 DEF Passed
<1>9. Passed(lines)' = {i \in lines : Place(lines, i) <= index_ + 1}
  BY <1>1 DEF Passed
<1>10. {i \in lines : Place(lines, i) <= index_ + 1} = {i \in lines : Place(lines, i) <= index_} \cup {m}
  BY <1>7
<1> QED
  BY <1>3, <1>8, <1>9, <1>10

(* One iteration: the branch the predictor is given is the one the next     *)
(* line of the sequence names.                                              *)
LEMMA IterateStep ==
  ASSUME ReaderInv, Iterate
  PROVE  ReaderInv'
<1>0. /\ stage = "loop" /\ stage \in Running /\ ~reach_end_
      /\ file' = file /\ tables' = tables /\ line_num_' = line_num_
      /\ buffer_' = buffer_ /\ buffer_begin_' = buffer_begin_ /\ buffer_end_' = buffer_end_
      /\ reach_eof_' = reach_eof_
      /\ index_' = index_ /\ reach_end_' = reach_end_ /\ numIter' = numIter + 1
  BY DEF Iterate, Running, window
<1>1. /\ TypeOK /\ InWindow /\ EntriesRead(SequenceLines)
      /\ FedBranches(BranchesOf(Passed(SequenceLines))) /\ SequenceAt \in Nat
      /\ buffer_begin_ \in Nat /\ buffer_end_ \in Nat /\ index_ \in Nat /\ numIter \in Nat
      /\ reach_end_ \in BOOLEAN
  BY <1>0, RunningFacts DEF TypeOK
<1>2. half' = half /\ FilledFor' = FilledFor /\ PassedEntries = index_
      /\ PassedEntries' = index_ + (IF stage' = "next" THEN 1 ELSE 0)
  BY <1>0, <1>1 DEF half, FilledFor, PassedEntries
<1>3. /\ FilledFor <= index_ /\ index_ <= buffer_end_ /\ buffer_end_ <= buffer_begin_ + buffer_size
      /\ (reach_eof_ <=> buffer_end_ < buffer_begin_ + buffer_size)
      /\ (index_ = buffer_end_ => FilledFor = buffer_end_)
      /\ numIter = PassedEntries + 0
  BY <1>0, <1>1 DEF InWindow
<1>4. (\E k \in 0 .. buffer_begin_ : buffer_begin_ = k * half)'
  BY <1>0, <1>1, <1>2 DEF InWindow
<1>5. FilledFor \in Nat /\ buffer_begin_ <= FilledFor
  BY <1>1, HalfOK DEF FilledFor
<1>6. stage' \in Running \cup Ended =>
        /\ TypeOK' /\ InSection' /\ EdgesKnown'
        /\ InWindow' /\ FedBranches(BranchesOf(Passed(SequenceLines)))' => ReaderInv'
  BY <1>0, <1>1, SameLines
<1>7. CASE OutOfRange
  <2>1. stage' = "done" /\ fed' = fed
    BY <1>7 DEF Iterate
  <2>2. reach_eof_ /\ index_ = buffer_end_
    BY <1>1, <1>3, <1>5, <1>7 DEF OutOfRange
  <2>3. PassedEntries' = PassedEntries /\ numIter' = PassedEntries' + 1
    BY <1>0, <1>1, <1>2, <1>3, <2>1
  <2>4. InWindow'
    BY <1>0, <1>2, <1>3, <1>4, <2>1, <2>2, <2>3 DEF InWindow
  <2>5. FedBranches(BranchesOf(Passed(SequenceLines)))'
    BY <1>0, <2>1, <2>3, SameFed
  <2>6. stage' \in Running \cup Ended
    BY <2>1 DEF Running
  <2> QED
    BY <1>6, <2>4, <2>5, <2>6
<1>8. CASE ~OutOfRange
  <2>1. PICK m \in SequenceLines :
          /\ m <= line_num_ /\ Place(SequenceLines, m) = index_ + 1
          /\ EntryVerdict(FirstWord(m)) = "ok" /\ getEdgeSeqListEntry_ = Index(FirstWord(m))
    BY <1>0, <1>8, EntryLoaded
  <2>2. index_ < buffer_end_
    BY <1>0, <1>8, EntryLoaded
  <2>3. Event(loadBT9BranchInstance_) = BranchAt(m)
    BY <2>1 DEF loadBT9BranchInstance_, BranchAt
  <2>4. /\ stage' \in {"exit", "next"}
        /\ BranchAt(m).opType = OPTYPE_ERROR => fed' = fed
        /\ BranchAt(m).opType # OPTYPE_ERROR => fed' = Append(fed, BranchAt(m)) /\ stage' = "next"
    BY <1>8, <2>3 DEF Iterate, Simulate
  <2>5. stage' \in Running \cup Ended
    BY <2>4 DEF Running, Ended
  <2>6. CASE stage' = "exit"
    BY <1>6, <2>5, <2>6 DEF ReaderInv, Running
  <2>7. CASE stage' = "next"
    <3>1. numIter' = PassedEntries' + 0
      BY <1>0, <1>1, <1>2, <1>3, <2>7
    <3>2. InWindow'
      BY <1>0, <1>2, <1>3, <1>4, <2>2, <2>7, <3>1 DEF InWindow
    <3>3. PICK lines : lines = SequenceLines
      OBVIOUS
    <3>4. SequenceLines' = lines /\ lines \in SUBSET Nat /\ IsFiniteSet(lines)
      BY <1>0, <1>1, <3>3, FileStays, LinesOK DEF TypeOK
    <3>5. PICK P : P = Passed(lines)
      OBVIOUS
    <3>6. Passed(lines)' = P \cup {m} /\ \A i \in P : i < m
      BY <1>0, <1>1, <2>1, <2>7, <3>3, <3>4, <3>5, OnePassed
    <3>7. PICK B : B = BranchesOf(P)
      OBVIOUS
    <3>8. B \in SUBSET P /\ P \in SUBSET lines
      BY <3>5, <3>7 DEF BranchesOf, Passed
    <3>9. B \in SUBSET Nat /\ IsFiniteSet(B) /\ m \in Nat /\ \A i \in B : i < m
      BY <2>1, <3>3, <3>4, <3>6, <3>8, FS_Subset
    <3>10. FedBranches(B)
      BY <1>1, <3>3, <3>5, <3>7
    <3>11. BranchesOf(Passed(lines))' = BranchesOf(P \cup {m})
      BY <1>0, <3>6, TablesStay
    <3>12. CASE BranchAt(m).opType = OPTYPE_ERROR
      <4>1. BranchesOf(P \cup {m}) = B
        BY <3>7, <3>12 DEF BranchesOf
      <4>2. fed' = fed
        BY <2>4, <3>12
      <4>3. \A i : BranchAt(i)' = BranchAt(i)
        BY <1>0, TablesStay
      <4>4. {BranchAt(i) : i \in B}' = {BranchAt(i) : i \in B}
        BY <4>3
      <4>5. FedBranches(B)'
        BY <3>10, <4>2, <4>3, <4>4 DEF FedBranches
      <4> QED
        BY <1>6, <2>5, <3>2, <3>4, <3>11, <4>1, <4>5
    <3>13. CASE BranchAt(m).opType # OPTYPE_ERROR
      <4>1. BranchesOf(P \cup {m}) = B \cup {m}
        BY <3>7, <3>13 DEF BranchesOf
      <4>2. fed' = Append(fed, BranchAt(m))
        BY <2>4, <3>13
      <4>3. FedBranches(B \cup {m})'
        BY <1>0, <3>9, <3>10, <4>2, BranchAdded
      <4> QED
        BY <1>6, <2>5, <3>2, <3>4, <3>11, <4>1, <4>3
    <3> QED
      BY <3>12, <3>13
  <2> QED
    BY <2>4, <2>6, <2>7
<1> QED
  BY <1>7, <1>8

(* Nothing happens. *)
LEMMA NoStep ==
  ASSUME ReaderInv, UNCHANGED vars
  PROVE  ReaderInv'
<1>0. /\ file' = file /\ tables' = tables /\ line_num_' = line_num_ /\ stage' = stage
      /\ buffer_' = buffer_ /\ buffer_begin_' = buffer_begin_ /\ buffer_end_' = buffer_end_
      /\ reach_eof_' = reach_eof_
      /\ index_' = index_ /\ reach_end_' = reach_end_ /\ numIter' = numIter /\ fed' = fed
      /\ edge_table_' = edge_table_ /\ edge_order_vector_' = edge_order_vector_
      /\ node_order_vector_' = node_order_vector_
  BY DEF vars, readerVars, mainVars, window, tables
<1>1. TypeOK /\ InSection /\ EdgesKnown
  BY DEF ReaderInv
<1>2. TypeOK'
  BY <1>0, <1>1 DEF TypeOK
<1>3. InSection'
  <2>1. NodesAt' = NodesAt /\ EdgesAt' = EdgesAt /\ SequenceAt' = SequenceAt
    BY <1>0, FileStays
  <2> QED
    BY <2>1, <1>0, <1>1 DEF InSection, Without, HasWord, FirstWord
<1>4. EdgesKnown'
  BY <1>0, <1>1 DEF EdgesKnown, EdgesClosed
<1>5. CASE stage \in Running
  <2>1. PassedEntries' = PassedEntries /\ half' = half /\ FilledFor' = FilledFor
    BY <1>0 DEF PassedEntries, half, FilledFor
  <2>2. InWindow /\ EntriesRead(SequenceLines) /\ buffer_begin_ \in Nat /\ SequenceAt \in Nat
    BY <1>5, RunningFacts
  <2>3. InWindow'
    BY <2>1, <2>2, <1>0 DEF InWindow
  <2>4. FedBranches(BranchesOf(Passed(SequenceLines)))'
    BY <1>0, <1>5, <2>1, SameFed
  <2>5. PICK lines : lines = SequenceLines
    OBVIOUS
  <2>6. SequenceLines' = lines /\ lines \in SUBSET Nat
    BY <1>0, <1>1, <2>2, <2>5, FileStays, LinesOK DEF TypeOK
  <2>7. EntriesRead(lines)'
    <3>1. EntriesRead(lines) /\ buffer_begin_' \in Nat /\ buffer_begin_' >= buffer_begin_
      BY <1>0, <2>2, <2>5
    <3> QED
      BY <3>1, <1>0, <2>2, <2>6, EntriesKept
  <2> QED
    BY <1>2, <1>3, <1>4, <2>3, <2>4, <2>6, <2>7 DEF ReaderInv
<1>6. CASE stage \notin Running
  BY <1>0, <1>2, <1>3, <1>4, <1>6 DEF ReaderInv
<1> QED
  BY <1>5, <1>6

(* The invariant holds at the start. *)
LEMMA StartsNew ==
  ASSUME Init
  PROVE  ReaderInv
<1>1. /\ stage = "title" /\ file \in Seq(Text) /\ line_num_ = 0
      /\ edge_table_ = {} /\ edge_order_vector_ = <<>>
      /\ buffer_ = [i \in 0 .. buffer_size - 1 |-> 0]
      /\ buffer_begin_ = 0 /\ buffer_end_ = 0 /\ index_ = 0 /\ numIter = 0
      /\ reach_eof_ = FALSE /\ reach_end_ = FALSE /\ fed = <<>>
  BY FilesOK DEF Init, ReaderInit
<1>2. TypeOK
  <2>1. Len(file) \in Nat
    BY <1>1
  <2>2. buffer_ \in [0 .. buffer_size - 1 -> {Index(w) : w \in DOMAIN Number} \cup {0}]
    BY <1>1
  <2>3. {reach_eof_, reach_end_} \subseteq BOOLEAN /\ ~reach_eof_ /\ ~reach_end_
    BY <1>1
  <2>4. {buffer_begin_, buffer_end_, index_, numIter} \subseteq Nat /\ line_num_ \in 0 .. Len(file)
    BY <1>1, <2>1
  <2> QED
    BY <1>1, <2>2, <2>3, <2>4 DEF TypeOK, Reading
<1>3. InSection
  BY <1>1 DEF InSection, Running
<1>4. EdgesKnown
  BY <1>1 DEF EdgesKnown, EdgesClosed
<1> QED
  BY <1>1, <1>2, <1>3, <1>4 DEF ReaderInv, Running

(* The reader and the loop keep their invariant: sections are read in their *)
(* order, the iterator is in the window, and the predictor has had the      *)
(* branches of the entries passed.                                          *)
THEOREM ReaderInvariant == Spec => []ReaderInv
<1>1. Init => ReaderInv
  BY StartsNew
<1>2. ReaderInv /\ [Next]_vars => ReaderInv'
  <2> SUFFICES ASSUME ReaderInv, [Next]_vars PROVE ReaderInv'
    OBVIOUS
  <2>1. CASE Read
    BY <2>1, TitleStep, HeaderStep, NodesStep, EdgesStep, FillStep, FullStep DEF Read
  <2>2. CASE ReadCounts
    BY <2>2, CountsStep
  <2>3. CASE Iterate
    BY <2>3, IterateStep
  <2>4. CASE Advance
    BY <2>4, AdvanceStep
  <2>5. CASE Finish
    BY <2>5, FinishStep
  <2>6. CASE Stop
    BY <2>6, NoStep DEF Stop
  <2>7. CASE UNCHANGED vars
    BY <2>7, NoStep
  <2> QED
    BY <2>1, <2>2, <2>3, <2>4, <2>5, <2>6, <2>7 DEF Next
<1> QED
  BY <1>1, <1>2, PTL DEF Spec

----------------------------------------------------------------------------
(* What follows from the invariant. *)

(* The predictor gets every branch of the trace once, in order, for every   *)
(* trace file and window: the window never overtakes or loses an entry      *)
(* (bt9_reader.h:1574-1676, main.cc:159-337).                               *)
THEOREM EveryBranchIsFedOnce == Spec => []EveryBranchOnce
<1>1. ReaderInv => EveryBranchOnce
  <2>1. SUFFICES ASSUME ReaderInv, stage \in Running PROVE EveryBranchOnce
    BY DEF EveryBranchOnce
  <2>2. /\ TypeOK /\ InWindow
        /\ EntriesRead(SequenceLines) /\ FedBranches(BranchesOf(Passed(SequenceLines)))
        /\ SequenceAt \in Nat /\ line_num_ \in Nat
        /\ buffer_begin_ \in Nat /\ buffer_end_ \in Nat /\ index_ \in Nat /\ numIter \in Nat
    BY <2>1, RunningFacts
  <2>3. PICK lines : lines = SequenceLines
    OBVIOUS
  <2>4. lines \in SUBSET Nat /\ IsFiniteSet(lines)
    BY <2>2, <2>3, LinesOK DEF TypeOK
  <2>5. EntriesRead(lines) /\ FedBranches(BranchesOf(Passed(lines)))
    BY <2>2, <2>3
  <2>6. Place(lines, line_num_) = buffer_end_ /\ PassedEntries \in Nat /\ PassedEntries <= buffer_end_
    <3>1. index_ <= buffer_end_ /\ (stage = "next" => index_ < buffer_end_)
      BY <2>2 DEF InWindow
    <3> QED
      BY <3>1, <2>2, <2>5 DEF EntriesRead, PassedEntries
  <2>7. ASSUME NEW i \in Passed(lines) PROVE EntryVerdict(FirstWord(i)) = "ok"
    <3>1. i \in lines /\ Place(lines, i) <= PassedEntries
      BY <2>7 DEF Passed
    <3>2. Place(lines, i) \in Nat
      BY <2>4, <3>1, PlaceNat
    <3>3. i <= line_num_
      <4>1. CASE line_num_ < i
        <5>1. Place(lines, line_num_) < Place(lines, i)
          BY <4>1, <3>1, <2>2, <2>4, PlaceStrict
        <5> QED
          BY <5>1, <3>1, <3>2, <2>2, <2>6
      <4> QED
        BY <4>1, <3>1, <2>2, <2>4
    <3> QED
      BY <3>1, <3>3, <2>5 DEF EntriesRead
  <2>8. ASSUME stage = "done"
        PROVE  Passed(lines) = lines
    <3>1. index_ = buffer_end_ /\ reach_eof_
      BY <2>2, <2>8 DEF InWindow
    <3>2. \A i \in lines : i <= line_num_
      BY <2>5, <3>1 DEF EntriesRead
    <3>3. PassedEntries = buffer_end_
      BY <2>2, <2>8, <3>1 DEF PassedEntries
    <3>4. ASSUME NEW i \in lines PROVE Place(lines, i) <= PassedEntries
      BY <3>2, <3>3, <2>2, <2>4, <2>6, PlaceGrows
    <3> QED
      BY <3>4 DEF Passed
  <2>9. PICK B : B = BranchesOf(Passed(lines))
    OBVIOUS
  <2>10. Len(fed) = Cardinality(B) /\ \A i \in B : fed[Place(B, i)] = BranchAt(i)
    BY <2>5, <2>9 DEF FedBranches
  <2> QED
    BY <2>3, <2>7, <2>8, <2>9, <2>10 DEF EveryBranchOnce
<1> QED
  BY <1>1, ReaderInvariant, PTL

(* The entry the loop loads, when it is about to load one, names an edge of *)
(* the table, and that edge two nodes of the table.                         *)
LoadsKnownRecords ==
  stage = "loop" /\ ~reach_end_ /\ ~OutOfRange =>
    /\ getEdgeSeqListEntry_ \in DOMAIN edge_order_vector_
    /\ {loadBT9BranchInstance_.edge.src_node_id, loadBT9BranchInstance_.edge.dest_node_id}
         \subseteq DOMAIN node_order_vector_

(* The simulation never follows a null pointer of the order vectors, in any *)
(* trace file, damaged ones included (bt9_reader.h:1660-1676).              *)
THEOREM LoadsAreKnown == Spec => []LoadsKnownRecords
<1>1. ReaderInv => LoadsKnownRecords
  <2>1. SUFFICES ASSUME ReaderInv, stage = "loop", ~reach_end_, ~OutOfRange
                 PROVE  /\ getEdgeSeqListEntry_ \in DOMAIN edge_order_vector_
                        /\ {loadBT9BranchInstance_.edge.src_node_id,
                            loadBT9BranchInstance_.edge.dest_node_id}
                             \subseteq DOMAIN node_order_vector_
    BY DEF LoadsKnownRecords
  <2>2. PICK word : EntryVerdict(word) = "ok" /\ getEdgeSeqListEntry_ = Index(word)
    BY <2>1, EntryLoaded
  <2>3. getEdgeSeqListEntry_ \in DOMAIN edge_order_vector_
    BY <2>2 DEF EntryVerdict, Verdict, isValidEdgeIndex_, stoi, stoull
  <2>4. EdgesClosed
    BY <2>1 DEF ReaderInv, EdgesKnown
  <2>5. loadBT9BranchInstance_.edge = edge_order_vector_[getEdgeSeqListEntry_]
    BY DEF loadBT9BranchInstance_, Instance
  <2> QED
    BY <2>3, <2>4, <2>5 DEF EdgesClosed
<1> QED
  BY <1>1, ReaderInvariant, PTL

----------------------------------------------------------------------------
(* The tables hold what the file says. *)

(* Lines of a section stay recorded while ids are only added. *)
LEMMA RecordedKept ==
  ASSUME NEW word, NEW from, NEW to, NEW old, NEW ids, Recorded(word, from, to, old),
         old \subseteq ids, file' = file
  PROVE  Recorded(word, from, to, ids)'
<1>1. \A i : /\ HasWord(i)' = HasWord(i) /\ FirstWord(i)' = FirstWord(i)
             /\ RecordId(i)' = RecordId(i)
  BY DEF HasWord, FirstWord, RecordId, Field
<1>2. ASSUME NEW i \in from + 1 .. to PROVE HasWord(i) => FirstWord(i) = word /\ RecordId(i) \in ids
  BY DEF Recorded
<1> QED
  BY <1>1, <1>2 DEF Recorded

(* One line more. *)
LEMMA RecordedNext ==
  ASSUME NEW word, NEW from \in Nat, NEW n \in Nat, NEW ids, Recorded(word, from, n, ids),
         HasWord(n + 1) => FirstWord(n + 1) = word /\ RecordId(n + 1) \in ids
  PROVE  Recorded(word, from, n + 1, ids)
<1>1. \A i \in from + 1 .. n + 1 : i \in from + 1 .. n \/ i = n + 1
  OBVIOUS
<1> QED
  BY <1>1 DEF Recorded

(* The order vector of a table is indexed by the ids of its records. *)
LEMMA VectorDomain ==
  ASSUME NEW table, NEW v \in OrderVectors(table)
  PROVE  DOMAIN v = {r.id : r \in table}
BY DEF OrderVectors

(* A line without a bad verdict has none among its fields. *)
LEMMA NoneBad ==
  ASSUME NEW v \in Seq(Verdicts), FirstBad(v) = "ok"
  PROVE  \A i \in DOMAIN v : v[i] = "ok"
<1> DEFINE bad == {i \in DOMAIN v : v[i] # "ok"}
<1>1. CASE bad # {}
  <2>1. bad \in SUBSET Nat
    OBVIOUS
  <2>2. \E i \in bad : \A j \in bad : i <= j
    BY <1>1, <2>1, LeastNumber
  <2>3. (CHOOSE i \in bad : \A j \in bad : i <= j) \in bad
    BY <2>2
  <2>4. v[CHOOSE i \in bad : \A j \in bad : i <= j] # "ok"
    BY <2>3
  <2> QED
    BY <1>1, <2>4 DEF FirstBad
<1> QED
  BY <1>1

(* An edge line that is accepted names known nodes, as far as it names any. *)
LEMMA EdgeNodes ==
  ASSUME NEW words \in Seq(STRING), EdgeVerdict(words) = "ok", NEW edge, edge = EdgeRecord(words)
  PROVE  /\ Len(words) >= 2 => isValidNodeIndex_(edge.src_node_id)
         /\ Len(words) >= 3 => isValidNodeIndex_(edge.dest_node_id)
         /\ Len(words) < 2 => edge.src_node_id = 0
         /\ Len(words) < 3 => edge.dest_node_id = 0
<1> DEFINE fixed == parseEdgeRecordFixedFields_(words)
           optional == parseEdgeRecordOptionalFields_(words)
<1>0. Len(words) \in Nat
  OBVIOUS
<1>1. fixed \in Seq(Verdicts) /\ optional \in Seq(Verdicts)
  BY EdgeFieldVerdicts
<1>2. DOMAIN fixed = 1 .. (IF Len(words) < 7 THEN Len(words) ELSE 7)
  BY DEF parseEdgeRecordFixedFields_
<1>3. \A i \in 1 .. (IF Len(words) < 7 THEN Len(words) ELSE 7) : i \in {2, 3} => fixed[i] = NodeIndex(words[i])
  BY DEF parseEdgeRecordFixedFields_
<1> HIDE DEF fixed, optional
<1>4. \A i \in DOMAIN fixed : fixed[i] = "ok"
  <2>1. fixed \o optional \in Seq(Verdicts)
    BY <1>1
  <2>2. \A i \in DOMAIN (fixed \o optional) : (fixed \o optional)[i] = "ok"
    BY <2>1, NoneBad DEF EdgeVerdict, fixed, optional
  <2>3. ASSUME NEW i \in DOMAIN fixed
        PROVE  i \in DOMAIN (fixed \o optional) /\ (fixed \o optional)[i] = fixed[i]
    BY <1>1
  <2> QED
    BY <2>2, <2>3
<1>5. ASSUME NEW i \in {2, 3}, i <= Len(words) PROVE isValidNodeIndex_(Index(words[i]))
  <2>1. NodeIndex(words[i]) = "ok"
    BY <1>0, <1>2, <1>3, <1>4, <1>5
  <2> QED
    BY <2>1 DEF NodeIndex, Verdict, stoi, stoull
<1>6. edge.src_node_id = Field(words, 2, IdSpan) /\ edge.dest_node_id = Field(words, 3, IdSpan)
  BY DEF EdgeRecord
<1> QED
  BY <1>0, <1>5, <1>6 DEF Field, Index

(* The sections that were read stay read, and the tables stay. *)
LEMMA SectionsStay ==
  ASSUME SectionsKept, stage \in Running, stage' \in Running \cup {"exit", "abort"},
         file' = file, tables' = tables
  PROVE  SectionsKept'
<1>1. NodesAt' = NodesAt /\ EdgesAt' = EdgesAt /\ SequenceAt' = SequenceAt
  BY FileStays
<1>2. PICK a, b, c, ns, es :
         /\ a = NodesAt /\ b = EdgesAt - 1 /\ c = SequenceAt - 1
         /\ ns = DOMAIN node_order_vector_ /\ es = DOMAIN edge_order_vector_
  OBVIOUS
<1>3. PICK d : d = EdgesAt
  OBVIOUS
<1>4. Recorded("NODE", a, b, ns) /\ Recorded("EDGE", d, c, es)
  BY <1>2, <1>3 DEF SectionsKept
<1>5. Recorded("NODE", a, b, ns)' /\ Recorded("EDGE", d, c, es)'
  BY <1>4, RecordedKept
<1>6. /\ a = NodesAt' /\ b = EdgesAt' - 1 /\ c = SequenceAt' - 1 /\ d = EdgesAt'
      /\ ns = DOMAIN node_order_vector_' /\ es = DOMAIN edge_order_vector_'
  BY <1>1, <1>2, <1>3 DEF tables
<1> QED
  BY <1>5, <1>6 DEF SectionsKept, Running

(* A node line that was accepted is in the table. *)
LEMMA NodeAccepted ==
  ASSUME TypeOK, stage = "nodes", stage' = "nodes", readBT9NodeTable_
  PROVE  /\ NextLine /\ node_table_ \subseteq node_table_'
         /\ HasWord(line_num_ + 1) => /\ FirstWord(line_num_ + 1) = "NODE"
                                      /\ NodeRecord(Words) \in node_table_'
<1>1. CASE NextLine /\ Line.words = <<>> /\ UNCHANGED <<stage, node_table_, node_order_vector_>>
  BY <1>1, LineRead
<1>2. CASE NextLine /\ Line.words # <<>> /\ Line.words[1] = "NODE" /\ ReadNode
  <2>1. PICK v : v = IF NodeVerdict(Words, Line.comment) = "ok" THEN updateNodeTable_(NodeRecord(Words))
                     ELSE NodeVerdict(Words, Line.comment)
    OBVIOUS
  <2>2. /\ stage' = IF v = "ok" THEN stage ELSE v
        /\ node_table_' = IF v = "ok" THEN node_table_ \cup {NodeRecord(Words)} ELSE node_table_
    BY <1>2, <2>1 DEF ReadNode, End
  <2>3. v \in Verdicts
    <3>1. Words \in Seq(STRING)
      BY <1>2, LineRead
    <3>2. NodeVerdict(Words, Line.comment) \in Verdicts
      BY <3>1, NodeVerdicts
    <3>3. updateNodeTable_(NodeRecord(Words)) \in Verdicts
      BY ConversionVerdicts DEF updateNodeTable_
    <3> QED
      BY <2>1, <3>2, <3>3
  <2>4. v = "ok"
    BY <2>2, <2>3 DEF Verdicts
  <2> QED
    BY <1>2, <2>2, <2>4, LineRead
<1> QED
  BY <1>1, <1>2 DEF readBT9NodeTable_, updateNodeOrderVector_, OrderVerdicts

(* The node section: at its end the ids of the table are those of the order  *)
(* vector.                                                                   *)
LEMMA NodesKept ==
  ASSUME ReaderInv, SectionsKept, readBT9NodeTable_, UNCHANGED mainVars
  PROVE  SectionsKept'
<1>0. /\ file' = file /\ stage = "nodes" /\ TypeOK /\ NodesAt' = NodesAt /\ EdgesAt' = EdgesAt
      /\ Without("BT9_EDGES", NodesAt, line_num_) /\ NodesAt \in 0 .. line_num_
  BY FileStays DEF ReaderInv, readBT9NodeTable_, InSection
<1> PICK from, old, ids : /\ from = NodesAt /\ old = {r.id : r \in node_table_}
                          /\ ids = {r.id : r \in node_table_'}
  OBVIOUS
<1>1. /\ from \in Nat /\ from <= line_num_ /\ line_num_ \in Nat
      /\ Recorded("NODE", from, line_num_, old)
  BY <1>0 DEF TypeOK, SectionsKept
<1>2. CASE stage' = "nodes"
  <2>1. /\ NextLine /\ node_table_ \subseteq node_table_'
        /\ HasWord(line_num_ + 1) => /\ FirstWord(line_num_ + 1) = "NODE"
                                     /\ NodeRecord(Words) \in node_table_'
    BY <1>0, <1>2, NodeAccepted
  <2>2. old \subseteq ids
    BY <2>1
  <2>3. NodeRecord(Words).id = RecordId(line_num_ + 1)
    BY DEF NodeRecord, RecordId, Words, Line
  <2>4. HasWord(line_num_ + 1) => FirstWord(line_num_ + 1) = "NODE" /\ RecordId(line_num_ + 1) \in ids
    BY <2>1, <2>3
  <2>5. Recorded("NODE", from, line_num_, ids)
    BY <1>1, <2>2 DEF Recorded
  <2>6. Recorded("NODE", from, line_num_ + 1, ids)
    BY <1>1, <2>4, <2>5, RecordedNext
  <2>7. PICK n : n = line_num_ + 1
    OBVIOUS
  <2>8. Recorded("NODE", from, n, ids)'
    BY <2>6, <2>7, <1>0, RecordedKept
  <2>9. n = line_num_' /\ from = NodesAt'
    BY <2>1, <2>7, <1>0 DEF NextLine
  <2> QED
    BY <1>2, <2>8, <2>9 DEF SectionsKept, Running
<1>3. CASE stage' = "edges"
  <2>1. NextLine /\ Line.words # <<>> /\ Line.words[1] = "BT9_EDGES" /\ node_order_vector_' \in OrderVectors(node_table_)
    <3>1. CASE NextLine /\ Line.words # <<>> /\ Line.words[1] = "NODE" /\ ReadNode
      BY <3>1, <1>0, <1>3, NodeStage DEF Verdicts
    <3> QED
      BY <3>1, <1>0, <1>3 DEF readBT9NodeTable_, updateNodeOrderVector_, OrderVerdicts
  <2>2. EdgesAt = line_num_ + 1 /\ line_num_' = line_num_ + 1
    BY <2>1, <1>0, <1>1, LineRead, Section DEF TypeOK, EdgesAt
  <2>3. DOMAIN node_order_vector_' = old
    BY <2>1, VectorDomain
  <2>4. PICK n : n = line_num_
    OBVIOUS
  <2>5. Recorded("NODE", from, n, old)'
    BY <2>4, <1>0, <1>1, RecordedKept
  <2>6. n = EdgesAt' - 1 /\ from = NodesAt' /\ EdgesAt' = line_num_'
    BY <2>2, <2>4, <1>0, <1>1
  <2>7. Recorded("NODE", NodesAt, EdgesAt - 1, DOMAIN node_order_vector_)'
    BY <2>3, <2>5, <2>6
  <2>8. Recorded("EDGE", EdgesAt, line_num_, {e.id : e \in edge_table_})'
    <3>1. \A i \in line_num_' + 1 .. line_num_' : FALSE
      BY <2>2, <1>1
    <3> QED
      BY <3>1, <2>6 DEF Recorded
  <2> QED
    BY <1>3, <2>7, <2>8 DEF SectionsKept, Running
<1>4. stage' \in {"nodes", "edges", "exit", "abort", "segv"}
  <2>1. CASE NextLine /\ Line.words # <<>> /\ Line.words[1] = "NODE" /\ ReadNode
    BY <2>1, <1>0, NodeStage DEF Verdicts
  <2> QED
    BY <2>1, <1>0 DEF readBT9NodeTable_, updateNodeOrderVector_, OrderVerdicts
<1> QED
  BY <1>2, <1>3, <1>4 DEF SectionsKept, Running

(* What an edge line does: it is in the table, it ends the program, or it    *)
(* names a node that is not there.                                           *)
LEMMA EdgeRead ==
  ASSUME TypeOK, stage = "edges", NextLine, Line.words # <<>>, ReadEdge
  PROVE  /\ stage' \in {"edges", "exit", "abort", "segv"} /\ edge_table_ \subseteq edge_table_'
         /\ stage' = "edges" => EdgeRecord(Words) \in edge_table_'
         /\ stage' = "segv" => NamesNoNode(line_num_ + 1)
<1>1. PICK edge, v : /\ edge = EdgeRecord(Words)
                     /\ v = IF EdgeVerdict(Words) = "ok" THEN updateEdgeTable_(edge)
                            ELSE EdgeVerdict(Words)
  OBVIOUS
<1>2. /\ stage' = IF v = "ok" THEN stage ELSE v
      /\ edge_table_' = IF v = "ok" THEN edge_table_ \cup {edge} ELSE edge_table_
  BY <1>1 DEF ReadEdge, End
<1>3. Words \in Seq(STRING) /\ Len(Words) \in Nat
  BY LineRead
<1>4. EdgeVerdict(Words) \in Verdicts
  BY <1>3, EdgeVerdicts
<1>5. updateEdgeTable_(edge) \in Verdicts \cup {"segv"}
  BY ConversionVerdicts DEF updateEdgeTable_
<1>6. v \in Verdicts \cup {"segv"}
  BY <1>1, <1>4, <1>5
<1>7. ASSUME v = "segv" PROVE NamesNoNode(line_num_ + 1)
  <2>1. EdgeVerdict(Words) = "ok" /\ updateEdgeTable_(edge) = "segv"
    BY <1>1, <1>4, <1>7 DEF Verdicts
  <2>2. ~isValidNodeIndex_(edge.src_node_id) \/ ~isValidNodeIndex_(edge.dest_node_id)
    <3>1. \A b : Verdict(b) # "segv"
      BY DEF Verdict
    <3> QED
      BY <2>1, <3>1 DEF updateEdgeTable_
  <2>3. /\ Len(Words) >= 2 => isValidNodeIndex_(edge.src_node_id)
        /\ Len(Words) >= 3 => isValidNodeIndex_(edge.dest_node_id)
        /\ Len(Words) < 2 => edge.src_node_id = 0
        /\ Len(Words) < 3 => edge.dest_node_id = 0
    BY <1>1, <1>3, <2>1, EdgeNodes
  <2>4. Len(Words) < 3 /\ ~isValidNodeIndex_(0)
    BY <1>3, <2>2, <2>3
  <2> QED
    BY <2>4 DEF NamesNoNode, Words, Line
<1> QED
  BY <1>1, <1>2, <1>6, <1>7 DEF Verdicts

(* The edge section. *)
LEMMA EdgesKept ==
  ASSUME ReaderInv, SectionsKept, readBT9EdgeTable_, UNCHANGED mainVars
  PROVE  SectionsKept'
<1>0. /\ file' = file /\ stage = "edges" /\ TypeOK /\ NodesAt' = NodesAt /\ EdgesAt' = EdgesAt
      /\ SequenceAt' = SequenceAt /\ node_order_vector_' = node_order_vector_
      /\ Without("BT9_EDGE_SEQUENCE", EdgesAt, line_num_) /\ EdgesAt \in 0 .. line_num_
  BY FileStays DEF ReaderInv, readBT9EdgeTable_, InSection
<1> PICK from, old, ids : /\ from = EdgesAt /\ old = {e.id : e \in edge_table_}
                          /\ ids = {e.id : e \in edge_table_'}
  OBVIOUS
<1>1. /\ from \in Nat /\ from <= line_num_ /\ line_num_ \in Nat
      /\ Recorded("EDGE", from, line_num_, old)
  BY <1>0 DEF TypeOK, SectionsKept
<1>2. Recorded("NODE", NodesAt, EdgesAt - 1, DOMAIN node_order_vector_)'
  <2>1. PICK a, b, ns : a = NodesAt /\ b = EdgesAt - 1 /\ ns = DOMAIN node_order_vector_
    OBVIOUS
  <2>2. Recorded("NODE", a, b, ns)
    BY <1>0, <2>1 DEF SectionsKept
  <2>3. Recorded("NODE", a, b, ns)'
    BY <1>0, <2>2, RecordedKept
  <2> QED
    BY <1>0, <2>1, <2>3
<1>3. CASE stage' = "edges"
  <2>1. /\ NextLine /\ edge_table_ \subseteq edge_table_'
        /\ HasWord(line_num_ + 1) => /\ FirstWord(line_num_ + 1) = "EDGE"
                                     /\ EdgeRecord(Words) \in edge_table_'
    <3>1. CASE NextLine /\ Line.words = <<>> /\ UNCHANGED <<stage, edge_table_, edge_order_vector_>>
      BY <3>1, <1>0, LineRead
    <3>2. CASE NextLine /\ Line.words # <<>> /\ Line.words[1] = "EDGE" /\ ReadEdge
      BY <3>2, <1>0, <1>3, EdgeRead, LineRead
    <3> QED
      BY <3>1, <3>2, <1>3 DEF readBT9EdgeTable_, updateEdgeOrderVector_, OrderVerdicts
  <2>2. old \subseteq ids
    BY <2>1
  <2>3. EdgeRecord(Words).id = RecordId(line_num_ + 1)
    BY DEF EdgeRecord, RecordId, Words, Line
  <2>4. HasWord(line_num_ + 1) => FirstWord(line_num_ + 1) = "EDGE" /\ RecordId(line_num_ + 1) \in ids
    BY <2>1, <2>3
  <2>5. Recorded("EDGE", from, line_num_, ids)
    BY <1>1, <2>2 DEF Recorded
  <2>6. Recorded("EDGE", from, line_num_ + 1, ids)
    BY <1>1, <2>4, <2>5, RecordedNext
  <2>7. PICK n : n = line_num_ + 1
    OBVIOUS
  <2>8. Recorded("EDGE", from, n, ids)'
    BY <2>6, <2>7, <1>0, RecordedKept
  <2>9. n = line_num_' /\ from = EdgesAt'
    BY <2>1, <2>7, <1>0 DEF NextLine
  <2> QED
    BY <1>2, <1>3, <2>8, <2>9 DEF SectionsKept, Running
<1>4. CASE stage' = "fill"
  <2>1. /\ NextLine /\ Line.words # <<>> /\ Line.words[1] = "BT9_EDGE_SEQUENCE"
        /\ edge_order_vector_' \in OrderVectors(edge_table_)
    <3>1. CASE NextLine /\ Line.words # <<>> /\ Line.words[1] = "EDGE" /\ ReadEdge
      BY <3>1, <1>0, <1>4, EdgeRead
    <3> QED
      BY <3>1, <1>0, <1>4 DEF readBT9EdgeTable_, updateEdgeOrderVector_, OrderVerdicts
  <2>2. SequenceAt = line_num_ + 1
    BY <2>1, <1>0, <1>1, LineRead, Section DEF TypeOK, SequenceAt
  <2>3. DOMAIN edge_order_vector_' = old
    BY <2>1, VectorDomain
  <2>4. PICK n : n = line_num_
    OBVIOUS
  <2>5. Recorded("EDGE", from, n, old)'
    BY <2>4, <1>0, <1>1, RecordedKept
  <2>6. n = SequenceAt' - 1 /\ from = EdgesAt'
    BY <2>2, <2>4, <1>0, <1>1
  <2>7. Recorded("EDGE", EdgesAt, SequenceAt - 1, DOMAIN edge_order_vector_)'
    BY <2>3, <2>5, <2>6
  <2> QED
    BY <1>2, <1>4, <2>7 DEF SectionsKept, Running
<1>5. stage' \in {"edges", "fill", "exit", "abort", "segv"}
  <2>1. CASE NextLine /\ Line.words # <<>> /\ Line.words[1] = "EDGE" /\ ReadEdge
    BY <2>1, <1>0, EdgeRead
  <2> QED
    BY <2>1, <1>0 DEF readBT9EdgeTable_, updateEdgeOrderVector_, OrderVerdicts
<1> QED
  BY <1>3, <1>4, <1>5 DEF SectionsKept, Running

(* Every step keeps what the sections hold. *)
LEMMA SectionsStep ==
  ASSUME ReaderInv, SectionsKept, [Next]_vars
  PROVE  SectionsKept'
<1>1. CASE readBT9NodeTable_ /\ UNCHANGED mainVars
  BY <1>1, NodesKept
<1>2. CASE readBT9EdgeTable_ /\ UNCHANGED mainVars
  BY <1>2, EdgesKept
<1>3. CASE ReadTitle
  BY <1>3 DEF ReadTitle, SectionsKept, Running
<1>4. CASE readBT9Header_
  <2>1. /\ stage = "header" /\ file' = file /\ TypeOK /\ NodesAt' = NodesAt
        /\ Without("BT9_NODES", 1, line_num_) /\ line_num_ >= 1 /\ line_num_ \in Nat
    BY <1>4, FileStays DEF readBT9Header_, ReaderInv, InSection, TypeOK
  <2>2. \/ stage' \in {"header", "exit", "abort"}
        \/ stage' = "nodes" /\ NextLine /\ Line.words # <<>> /\ Line.words[1] = "BT9_NODES"
    <3>1. CASE NextLine /\ parseHeader_(Line.words[1], Words, Line.indented)
      <4>1. stage' \in {stage} \cup (Verdicts \ {"ok"})
        BY <3>1, ConversionVerdicts DEF parseHeader_, End
      <4> QED
        BY <4>1, <2>1 DEF Verdicts
    <3> QED
      BY <1>4, <2>1, <3>1 DEF readBT9Header_
  <2>3. CASE stage' = "nodes"
    <3>1. NodesAt = line_num_ + 1 /\ line_num_' = line_num_ + 1
      BY <2>1, <2>2, <2>3, LineRead, Section DEF TypeOK, NodesAt
    <3>2. \A i \in NodesAt' + 1 .. line_num_' : FALSE
      BY <3>1, <2>1
    <3> QED
      BY <2>3, <3>2 DEF SectionsKept, Recorded, Running
  <2> QED
    BY <2>2, <2>3 DEF SectionsKept, Running
<1>5. CASE readNextEdgeSequenceListEntry_
  <2>1. /\ stage \in Running /\ stage' \in Running \cup {"exit", "abort"}
        /\ file' = file /\ tables' = tables
    <3>1. \A w : EntryVerdict(w) \in Verdicts
      BY ConversionVerdicts
    <3>2. Filled \in {"start", "loop"}
      BY DEF Filled
    <3> QED
      BY <1>5, <3>1, <3>2 DEF readNextEdgeSequenceListEntry_, StoreEntry, EndSequence, Verdicts, Running
  <2> QED
    BY <2>1, SectionsStay
<1>6. CASE initBT9EdgeSeqListAccessWindow_ \/ ReadCounts \/ Iterate \/ Advance \/ Finish
  <2>1. /\ stage \in Running /\ stage' \in Running \cup {"exit", "abort"}
        /\ file' = file /\ tables' = tables
    BY <1>6 DEF initBT9EdgeSeqListAccessWindow_, Filled, ReadCounts, Iterate, Advance, Finish, tables,
         moveToNextEdgeSeqListEntry_, shiftBT9EdgeSeqListAccessWindow_, Running
  <2> QED
    BY <2>1, SectionsStay
<1>7. CASE UNCHANGED vars
  <2>1. /\ stage' = stage /\ file' = file /\ line_num_' = line_num_
        /\ node_table_' = node_table_ /\ node_order_vector_' = node_order_vector_
        /\ edge_table_' = edge_table_ /\ edge_order_vector_' = edge_order_vector_
    BY <1>7 DEF vars, readerVars, tables
  <2>2. NodesAt' = NodesAt /\ EdgesAt' = EdgesAt /\ SequenceAt' = SequenceAt
    BY <2>1, FileStays
  <2> QED
    BY <2>1, <2>2 DEF SectionsKept, Recorded, RecordId, HasWord, FirstWord, Field
<1> QED
  BY <1>1, <1>2, <1>3, <1>4, <1>5, <1>6, <1>7 DEF Next, Read, Stop

(* The records of a table stand in the lines read, one line later too. *)
LEMMA FromLinesNext ==
  ASSUME NEW word, NEW old, NEW new, FromLines(word, old), file' = file, line_num_ \in Nat,
         line_num_' \in {line_num_, line_num_ + 1},
         \A r \in new : \/ r \in old
                        \/ /\ line_num_' = line_num_ + 1 /\ HasWord(line_num_ + 1)
                           /\ FirstWord(line_num_ + 1) = word /\ RecordId(line_num_ + 1) = r.id
  PROVE  FromLines(word, new)'
<1>1. \A i : /\ HasWord(i)' = HasWord(i) /\ FirstWord(i)' = FirstWord(i)
             /\ RecordId(i)' = RecordId(i)
  BY DEF HasWord, FirstWord, RecordId, Field
<1>2. ASSUME NEW r \in new
      PROVE  \E i \in 1 .. line_num_' : HasWord(i) /\ FirstWord(i) = word /\ RecordId(i) = r.id
  <2>1. CASE r \in old
    BY <2>1 DEF FromLines
  <2>2. CASE /\ line_num_' = line_num_ + 1 /\ HasWord(line_num_ + 1)
             /\ FirstWord(line_num_ + 1) = word /\ RecordId(line_num_ + 1) = r.id
    BY <2>2
  <2> QED
    BY <2>1, <2>2
<1> QED
  BY <1>1, <1>2 DEF FromLines

(* The vector that is made has no record of the last id. *)
LEMMA VectorWithin ==
  ASSUME NEW table, "ok" \in OrderVerdicts(table), NEW v \in OrderVectors(table)
  PROVE  IdSpan - 1 \notin DOMAIN v
<1>1. \A r \in table : r.id # IdSpan - 1
  BY DEF OrderVerdicts
<1>2. DOMAIN v = {r.id : r \in table}
  BY VectorDomain
<1> QED
  BY <1>1, <1>2

(* The node section. *)
LEMMA NodeVectorKept ==
  ASSUME ReaderInv, VectorsKept, readBT9NodeTable_
  PROVE  VectorsKept'
<1>0. /\ file' = file /\ stage = "nodes" /\ TypeOK /\ edge_table_' = edge_table_
      /\ line_num_ \in Nat
  BY DEF ReaderInv, readBT9NodeTable_, TypeOK
<1>1. /\ line_num_' \in {line_num_, line_num_ + 1}
      /\ node_table_' # node_table_ =>
           /\ NextLine /\ Line.words # <<>> /\ Line.words[1] = "NODE"
           /\ node_table_' = node_table_ \cup {NodeRecord(Words)}
  BY <1>0 DEF readBT9NodeTable_, ReadNode, NextLine
<1>2. FromLines("EDGE", edge_table_)'
  BY <1>0, <1>1, FromLinesNext DEF VectorsKept
<1>3. FromLines("NODE", node_table_)'
  <2>1. ASSUME NEW r \in node_table_', r \notin node_table_
        PROVE  /\ line_num_' = line_num_ + 1 /\ HasWord(line_num_ + 1)
               /\ FirstWord(line_num_ + 1) = "NODE" /\ RecordId(line_num_ + 1) = r.id
    <3>1. NextLine /\ Line.words # <<>> /\ Line.words[1] = "NODE" /\ r = NodeRecord(Words)
      BY <1>1, <2>1
    <3>2. r.id = RecordId(line_num_ + 1)
      BY <3>1 DEF NodeRecord, RecordId, Words, Line
    <3> QED
      BY <3>1, <3>2, <1>0, LineRead DEF NextLine
  <2>2. PICK old, new : old = node_table_ /\ new = node_table_'
    OBVIOUS
  <2>3. FromLines("NODE", new)'
    BY <1>0, <1>1, <2>1, <2>2, FromLinesNext DEF VectorsKept
  <2> QED
    BY <2>2, <2>3 DEF FromLines
<1>4. stage' \in {"nodes", "edges", "exit", "abort", "segv"}
  <2>1. CASE NextLine /\ Line.words # <<>> /\ Line.words[1] = "NODE" /\ ReadNode
    BY <2>1, <1>0, NodeStage DEF Verdicts
  <2> QED
    BY <2>1, <1>0 DEF readBT9NodeTable_, updateNodeOrderVector_, OrderVerdicts
<1>5. ASSUME stage' \in {"edges", "segv"}
      PROVE  node_table_' = node_table_
             /\ (updateNodeOrderVector_("edges") \/ updateNodeOrderVector_("exit"))
  <2>1. CASE NextLine /\ Line.words # <<>> /\ Line.words[1] = "NODE" /\ ReadNode
    BY <2>1, <1>0, <1>5, NodeStage DEF Verdicts
  <2> QED
    BY <2>1, <1>0, <1>5 DEF readBT9NodeTable_
<1>6. ASSUME stage' = "edges" PROVE IdSpan - 1 \notin DOMAIN node_order_vector_'
  <2>1. "ok" \in OrderVerdicts(node_table_) /\ node_order_vector_' \in OrderVectors(node_table_)
    BY <1>5, <1>6 DEF updateNodeOrderVector_, OrderVerdicts
  <2> QED
    BY <2>1, VectorWithin
<1>7. ASSUME stage' = "segv" PROVE NamesLastId(line_num_)'
  <2>1. PICK r \in node_table_' : r.id = IdSpan - 1
    BY <1>5, <1>7 DEF updateNodeOrderVector_, OrderVerdicts
  <2>2. PICK i \in 1 .. line_num_' : (HasWord(i) /\ FirstWord(i) = "NODE" /\ RecordId(i) = r.id)'
    BY <1>3, <2>1 DEF FromLines
  <2> QED
    BY <2>1, <2>2 DEF NamesLastId
<1> QED
  BY <1>2, <1>3, <1>4, <1>6, <1>7 DEF VectorsKept, Running

(* The edge section. *)
LEMMA EdgeVectorKept ==
  ASSUME ReaderInv, VectorsKept, readBT9EdgeTable_
  PROVE  VectorsKept'
<1>0. /\ file' = file /\ stage = "edges" /\ TypeOK /\ node_table_' = node_table_
      /\ node_order_vector_' = node_order_vector_ /\ line_num_ \in Nat
  BY DEF ReaderInv, readBT9EdgeTable_, TypeOK
<1>1. /\ line_num_' \in {line_num_, line_num_ + 1}
      /\ edge_table_' # edge_table_ =>
           /\ NextLine /\ Line.words # <<>> /\ Line.words[1] = "EDGE"
           /\ edge_table_' = edge_table_ \cup {EdgeRecord(Words)}
  BY <1>0 DEF readBT9EdgeTable_, ReadEdge, NextLine
<1>2. FromLines("NODE", node_table_)'
  BY <1>0, <1>1, FromLinesNext DEF VectorsKept
<1>3. FromLines("EDGE", edge_table_)'
  <2>1. ASSUME NEW r \in edge_table_', r \notin edge_table_
        PROVE  /\ line_num_' = line_num_ + 1 /\ HasWord(line_num_ + 1)
               /\ FirstWord(line_num_ + 1) = "EDGE" /\ RecordId(line_num_ + 1) = r.id
    <3>1. NextLine /\ Line.words # <<>> /\ Line.words[1] = "EDGE" /\ r = EdgeRecord(Words)
      BY <1>1, <2>1
    <3>2. r.id = RecordId(line_num_ + 1)
      BY <3>1 DEF EdgeRecord, RecordId, Words, Line
    <3> QED
      BY <3>1, <3>2, <1>0, LineRead DEF NextLine
  <2>2. PICK old, new : old = edge_table_ /\ new = edge_table_'
    OBVIOUS
  <2>3. FromLines("EDGE", new)'
    BY <1>0, <1>1, <2>1, <2>2, FromLinesNext DEF VectorsKept
  <2> QED
    BY <2>2, <2>3 DEF FromLines
<1>4. /\ stage' \in {"edges", "fill", "exit", "abort", "segv"}
      /\ stage' = "segv" => \/ NextLine /\ NamesNoNode(line_num_ + 1)
                            \/ /\ edge_table_' = edge_table_
                               /\ updateEdgeOrderVector_("fill") \/ updateEdgeOrderVector_("exit")
      /\ stage' = "fill" => updateEdgeOrderVector_("fill")
  <2>1. CASE NextLine /\ Line.words # <<>> /\ Line.words[1] = "EDGE" /\ ReadEdge
    BY <2>1, <1>0, EdgeRead
  <2> QED
    BY <2>1, <1>0 DEF readBT9EdgeTable_, updateEdgeOrderVector_, OrderVerdicts
<1>5. IdSpan - 1 \notin DOMAIN node_order_vector_'
  BY <1>0 DEF VectorsKept
<1>6. ASSUME stage' = "fill" PROVE IdSpan - 1 \notin DOMAIN edge_order_vector_'
  <2>1. "ok" \in OrderVerdicts(edge_table_) /\ edge_order_vector_' \in OrderVectors(edge_table_)
    BY <1>4, <1>6 DEF updateEdgeOrderVector_, OrderVerdicts
  <2> QED
    BY <2>1, VectorWithin
<1>7. ASSUME stage' = "segv" PROVE NamesNoNode(line_num_)' \/ NamesLastId(line_num_)'
  <2>1. CASE NextLine /\ NamesNoNode(line_num_ + 1)
    BY <2>1, <1>0 DEF NamesNoNode, NextLine, isValidNodeIndex_
  <2>2. CASE /\ edge_table_' = edge_table_
             /\ updateEdgeOrderVector_("fill") \/ updateEdgeOrderVector_("exit")
    <3>1. PICK r \in edge_table_' : r.id = IdSpan - 1
      BY <2>2, <1>7 DEF updateEdgeOrderVector_, OrderVerdicts
    <3>2. PICK i \in 1 .. line_num_' : (HasWord(i) /\ FirstWord(i) = "EDGE" /\ RecordId(i) = r.id)'
      BY <1>3, <3>1 DEF FromLines
    <3> QED
      BY <3>1, <3>2 DEF NamesLastId
  <2> QED
    BY <2>1, <2>2, <1>4, <1>7
<1> QED
  BY <1>2, <1>3, <1>4, <1>5, <1>6, <1>7 DEF VectorsKept, Running

(* The tables stay outside their sections, and nothing else is out of them. *)
LEMMA VectorsStay ==
  ASSUME ReaderInv, VectorsKept, file' = file, tables' = tables,
         line_num_' \in {line_num_, line_num_ + 1},
         \/ stage \in Running /\ stage' \in Running \cup {"exit", "abort"}
         \/ stage' \in {"header", "nodes", "exit", "abort"}
  PROVE  VectorsKept'
<1>1. /\ node_table_' = node_table_ /\ node_order_vector_' = node_order_vector_
      /\ edge_table_' = edge_table_ /\ edge_order_vector_' = edge_order_vector_
  BY DEF tables
<1>2. line_num_ \in Nat
  BY DEF ReaderInv, TypeOK
<1>3. FromLines("NODE", node_table_)' /\ FromLines("EDGE", edge_table_)'
  BY <1>1, <1>2, FromLinesNext DEF VectorsKept
<1> QED
  BY <1>1, <1>3 DEF VectorsKept, Running

(* Every step keeps the vectors long enough. *)
LEMMA VectorsStep ==
  ASSUME ReaderInv, VectorsKept, [Next]_vars
  PROVE  VectorsKept'
<1>0. line_num_ \in Nat
  BY DEF ReaderInv, TypeOK
<1>1. CASE readBT9NodeTable_
  BY <1>1, NodeVectorKept
<1>2. CASE readBT9EdgeTable_
  BY <1>2, EdgeVectorKept
<1>3. CASE ReadTitle
  BY <1>3, VectorsStay DEF ReadTitle
<1>4. CASE readBT9Header_
  <2>1. stage' \in {"header", "nodes", "exit", "abort"}
    <3>1. CASE NextLine /\ parseHeader_(Line.words[1], Words, Line.indented)
      <4>1. stage' \in {stage} \cup (Verdicts \ {"ok"})
        BY <3>1, ConversionVerdicts DEF parseHeader_, End
      <4> QED
        BY <4>1, <1>4 DEF Verdicts, readBT9Header_
    <3> QED
      BY <1>4, <3>1 DEF readBT9Header_
  <2> QED
    BY <1>4, <2>1, VectorsStay DEF readBT9Header_, NextLine
<1>5. CASE readNextEdgeSequenceListEntry_
  <2>1. /\ stage \in Running /\ stage' \in Running \cup {"exit", "abort"}
        /\ file' = file /\ tables' = tables /\ line_num_' \in {line_num_, line_num_ + 1}
    <3>1. \A w : EntryVerdict(w) \in Verdicts
      BY ConversionVerdicts
    <3>2. Filled \in {"start", "loop"}
      BY DEF Filled
    <3> QED
      BY <1>5, <3>1, <3>2 DEF readNextEdgeSequenceListEntry_, StoreEntry, EndSequence, Verdicts,
           Running, NextLine
  <2> QED
    BY <2>1, VectorsStay
<1>6. CASE initBT9EdgeSeqListAccessWindow_ \/ ReadCounts \/ Iterate \/ Advance \/ Finish
  <2>1. /\ stage \in Running /\ stage' \in Running \cup {"exit", "abort"}
        /\ file' = file /\ tables' = tables /\ line_num_' = line_num_
    BY <1>6 DEF initBT9EdgeSeqListAccessWindow_, Filled, ReadCounts, Iterate, Advance, Finish, tables,
         moveToNextEdgeSeqListEntry_, shiftBT9EdgeSeqListAccessWindow_, Running
  <2> QED
    BY <2>1, VectorsStay
<1>7. CASE UNCHANGED vars
  <2>1. /\ stage' = stage /\ file' = file /\ line_num_' = line_num_
        /\ node_table_' = node_table_ /\ node_order_vector_' = node_order_vector_
        /\ edge_table_' = edge_table_ /\ edge_order_vector_' = edge_order_vector_
    BY <1>7 DEF vars, readerVars, tables
  <2> QED
    BY <2>1 DEF VectorsKept, FromLines, RecordId, HasWord, FirstWord, Field, NamesNoNode,
         NamesLastId, isValidNodeIndex_
<1> QED
  BY <1>1, <1>2, <1>3, <1>4, <1>5, <1>6, <1>7 DEF Next, Read, Stop

(* The graph the reader builds is closed and holds every line of the file's  *)
(* two tables, for every trace file, damaged ones included.  Building it     *)
(* leaves the vectors in two ways only: an edge line without nodes in a file *)
(* without node 0, and a record of the last id (bt9_reader.h:1051, 1267-1272,*)
(* 1463-1488).                                                               *)
THEOREM GraphIsClosed == Spec => []GraphClosed
<1>1. Init => SectionsKept /\ VectorsKept
  BY DEF Init, ReaderInit, SectionsKept, VectorsKept, FromLines, Running
<1>2. ReaderInv /\ SectionsKept /\ VectorsKept /\ [Next]_vars => SectionsKept' /\ VectorsKept'
  BY SectionsStep, VectorsStep
<1>3. ReaderInv /\ SectionsKept /\ VectorsKept => GraphClosed
  BY DEF ReaderInv, EdgesKnown, SectionsKept, VectorsKept, GraphClosed
<1> QED
  BY <1>1, <1>2, <1>3, ReaderInvariant, PTL DEF Spec
=============================================================================
