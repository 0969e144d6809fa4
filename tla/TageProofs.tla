------------------------------ MODULE TageProofs ------------------------------
(***************************************************************************)
(* Proofs about the TAGE tables, for any number of banks, any table and    *)
(* tag size and any reset period.                                          *)
(***************************************************************************)
EXTENDS TageAging, TLAPS

Tables == [Bank -> [TagIndex -> Entry]]

-----------------------------------------------------------------------------
(* get_prediction never falls back on the alternate when an entry matches,    *)
(* whatever altBetterCount says: no counter is both 3 and 4, so its test      *)
(* "pred != 3 || pred != 4 || ..." holds of every entry.                      *)
LEMMA ProviderAlwaysUsed ==
    ASSUME NEW e \in Entry
    PROVE  UsesProvider(e)
BY DEF UsesProvider

-----------------------------------------------------------------------------
(* The helpers keep their counters in range. *)

(* SatIncrement and SatDecrement stay between 0 and their bound. *)
LEMMA TrainRange ==
    ASSUME NEW max \in Nat, NEW n \in 0 .. max, NEW dir
    PROVE  Train(n, max, dir) \in 0 .. max
BY DEF Train, SatIncrement, SatDecrement

(* An entry trained by update_predictor is an entry, with the same tag. *)
LEMMA TrainedEntryType ==
    ASSUME NEW e \in Entry, NEW dir \in Dir
    PROVE  /\ TrainedEntry(e, dir) \in Entry
           /\ TrainedEntry(e, dir).tag = e.tag
           /\ TrainedEntry(e, dir).u \in {e.u, e.u + 1, e.u - 1}
           /\ look.predDir = look.altPred => TrainedEntry(e, dir).u = e.u
<1> DEFINE p == Train(e.pred, TAGPRED_CTR_MAX, dir)
           v == IF look.predDir = look.altPred THEN e.u
                ELSE IF look.predDir = dir THEN SatIncrement(e.u, BIMODAL_CTR_MAX)
                ELSE SatDecrement(e.u)
<1>1. e.pred \in 0 .. 7 /\ e.u \in 0 .. 3 /\ e.tag \in Tags
  BY DEF Entry, TAGPRED_CTR_MAX
<1>2. p \in 0 .. 7
  BY <1>1, TrainRange DEF TAGPRED_CTR_MAX
<1>3. /\ v \in 0 .. 3 /\ v \in {e.u, e.u + 1, e.u - 1}
      /\ look.predDir = look.altPred => v = e.u
  BY <1>1 DEF SatIncrement, SatDecrement, BIMODAL_CTR_MAX
<1>4. TrainedEntry(e, dir) = [e EXCEPT !.pred = p, !.u = v]
  BY DEF TrainedEntry
<1> HIDE DEF p, v
<1> QED
  BY <1>1, <1>2, <1>3, <1>4 DEF Entry, TAGPRED_CTR_MAX

(* Training touches one entry of the provider's bank and no tag. *)
LEMMA TrainProviderType ==
    ASSUME TageAssumption, TypeOK, look # NoLook, NEW dir \in Dir
    PROVE  /\ TrainProvider(dir) \in Tables
           /\ \A b \in Bank, x \in TagIndex :
                 /\ TrainProvider(dir)[b][x].tag = tagPred[b][x].tag
                 /\ ~(Hit /\ b = look.primeBank /\ x = look.ix[b]) =>
                       TrainProvider(dir)[b][x] = tagPred[b][x]
                 /\ look.predDir = look.altPred =>
                       TrainProvider(dir)[b][x].u = tagPred[b][x].u
                 /\ TrainProvider(dir)[b][x].u
                       \in {tagPred[b][x].u, tagPred[b][x].u + 1, tagPred[b][x].u - 1}
<1>0. look \in Lookup /\ tagPred \in Tables
  BY DEF TypeOK, Tables
<1>1. CASE ~Hit
  <2>1. TrainProvider(dir) = tagPred
    BY <1>1 DEF TrainProvider
  <2> QED BY <2>1, <1>0
<1>2. CASE Hit
  <2> DEFINE q == look.primeBank
             y == look.ix[q]
             e == TrainedEntry(tagPred[q][y], dir)
  <2>1. q \in Bank /\ y \in TagIndex
    BY <1>0, <1>2, TageAssumption DEF Lookup, Hit, Bank, TageAssumption
  <2>2. tagPred[q][y] \in Entry
    BY <2>1, <1>0 DEF Tables
  <2>3. /\ e \in Entry /\ e.tag = tagPred[q][y].tag
        /\ e.u \in {tagPred[q][y].u, tagPred[q][y].u + 1, tagPred[q][y].u - 1}
        /\ look.predDir = look.altPred => e.u = tagPred[q][y].u
    BY <2>2, TrainedEntryType
  <2>4. TrainProvider(dir) = [tagPred EXCEPT ![q][y] = e]
    BY <1>2 DEF TrainProvider
  <2> HIDE DEF q, y, e
  <2>5. ASSUME NEW b \in Bank, NEW x \in TagIndex
        PROVE  TrainProvider(dir)[b][x] = IF b = q /\ x = y THEN e ELSE tagPred[b][x]
    BY <2>1, <2>4, <1>0 DEF Tables
  <2>6. TrainProvider(dir) \in Tables
    BY <2>1, <2>3, <2>4, <1>0 DEF Tables
  <2> QED BY <1>2, <2>3, <2>5, <2>6 DEF q, y
<1> QED BY <1>1, <1>2

-----------------------------------------------------------------------------
(* Allocation. *)

(* The search for a victim starts below the provider. *)
LEMMA MatchBankBelow ==
    ASSUME TageAssumption, TypeOK, look # NoLook, look.primeBank > 0,
           NEW T, NEW high \in BOOLEAN
    PROVE  MatchBank(T, high) \in Int /\ MatchBank(T, high) < look.primeBank
<1>1. look.primeBank \in Nat
  BY DEF TypeOK, Lookup
<1>2. \A n : BankStore(T, n) \in Int /\ BankStore(T, n) < look.primeBank
  BY <1>1 DEF BankStore, Free, Bank
<1> QED
  BY <1>1, <1>2 DEF MatchBank

(* A victim is not useful, in a bank with a longer history, and the only one. *)
LEMMA VictimBelow ==
    ASSUME TageAssumption, TypeOK, look # NoLook, look.primeBank > 0,
           NEW T, NEW high \in BOOLEAN, NEW b \in Bank, IsVictim(T, high, b)
    PROVE  /\ b < look.primeBank /\ T[b][look.ix[b]].u = 0
           /\ \A c \in Bank : IsVictim(T, high, c) => c = b
<1> DEFINE m == MatchBank(T, high)
<1>1. m \in Int /\ m < look.primeBank /\ look.primeBank \in Nat
  BY MatchBankBelow DEF TypeOK, Lookup
<1>2. ASSUME NEW c \in Bank, IsVictim(T, high, c)
      PROVE  c \in 0 .. m /\ T[c][look.ix[c]].u = 0
  BY <1>2 DEF IsVictim
<1>3. ASSUME NEW c \in Bank, IsVictim(T, high, c) PROVE ~(c < b) /\ ~(b < c)
  BY <1>1, <1>2, <1>3 DEF IsVictim, Bank
<1> HIDE DEF m
<1> QED BY <1>1, <1>2, <1>3 DEF Bank

(* Allocation yields tables again. *)
LEMMA AllocateType ==
    ASSUME TageAssumption, TypeOK, look # NoLook,
           NEW T \in Tables, NEW dir \in Dir, NEW high \in BOOLEAN
    PROVE  /\ Allocate(T, dir, high) \in Tables
           /\ \A b \in Bank, x \in TagIndex :
                 /\ Allocate(T, dir, high)[b][x].u = T[b][x].u
                 /\ Allocate(T, dir, high)[b][x].tag # T[b][x].tag =>
                       Allocates(T, dir) /\ x = look.ix[b] /\ IsVictim(T, high, b)
<1>1. look \in Lookup
  BY DEF TypeOK
<1>2. \A b \in Bank : FreshEntry(b, dir) \in Entry /\ FreshEntry(b, dir).u = 0
  BY <1>1 DEF FreshEntry, Entry, Lookup, TAGPRED_CTR_MAX
<1>3. \A b \in Bank : IsVictim(T, high, b) => T[b][look.ix[b]].u = 0
  BY DEF IsVictim
<1>4. \A b \in Bank, x \in TagIndex : T[b][x] \in Entry
  BY DEF Tables
<1> QED
  BY <1>2, <1>3, <1>4 DEF Allocate, Tables

-----------------------------------------------------------------------------
(* The periodic reset. *)

(* Clearing a bit never sets one, and either turn has its upper bound. *)
LEMMA ClearedRange ==
    ASSUME NEW u \in 0 .. 3, NEW flip \in {0, 1}
    PROVE  /\ Cleared(u, flip) \in 0 .. 3 /\ Cleared(u, flip) <= u
           /\ flip = 1 => Cleared(u, flip) <= 1 /\ (u \in {0, 2} => Cleared(u, flip) = 0)
           /\ flip = 0 => Cleared(u, flip) \in {0, 2} /\ (u <= 1 => Cleared(u, flip) = 0)
<1>1. u = 0 \/ u = 1 \/ u = 2 \/ u = 3
  OBVIOUS
<1> QED BY <1>1 DEF Cleared

(* The reset changes useful counters only. *)
LEMMA AgeType ==
    ASSUME TypeOK, NEW T \in Tables
    PROVE  /\ Age(T) \in Tables
           /\ \A b \in Bank, x \in TagIndex :
                 /\ Age(T)[b][x].tag = T[b][x].tag
                 /\ Age(T)[b][x].u = IF ResetDue THEN Cleared(T[b][x].u, 1 - clock_flip)
                                                 ELSE T[b][x].u
<1>1. CASE ~ResetDue
  BY <1>1 DEF Age
<1>2. CASE ResetDue
  <2>1. 1 - clock_flip \in {0, 1}
    BY DEF TypeOK
  <2>2. ASSUME NEW b \in Bank, NEW x \in TagIndex
        PROVE  T[b][x] \in Entry /\ Cleared(T[b][x].u, 1 - clock_flip) \in 0 .. 3
    <3>1. T[b][x] \in Entry
      BY DEF Tables
    <3>2. T[b][x].u \in 0 .. 3
      BY <3>1 DEF Entry
    <3> QED BY <3>1, <3>2, <2>1, ClearedRange
  <2>3. Age(T) = [b \in Bank |-> [x \in TagIndex |->
                    [T[b][x] EXCEPT !.u = Cleared(T[b][x].u, 1 - clock_flip)]]]
    BY <1>2 DEF Age
  <2>4. ASSUME NEW b \in Bank, NEW x \in TagIndex
        PROVE  /\ Age(T)[b][x] \in Entry /\ Age(T)[b][x].tag = T[b][x].tag
               /\ Age(T)[b][x].u = Cleared(T[b][x].u, 1 - clock_flip)
    <3>1. Age(T)[b][x] = [T[b][x] EXCEPT !.u = Cleared(T[b][x].u, 1 - clock_flip)]
      BY <2>3
    <3> QED BY <3>1, <2>2 DEF Entry
  <2>5. Age(T) \in Tables
    <3>1. \A b \in Bank, x \in TagIndex :
             [T[b][x] EXCEPT !.u = Cleared(T[b][x].u, 1 - clock_flip)] \in Entry
      BY <2>2 DEF Entry
    <3> QED BY <3>1, <2>3 DEF Tables
  <2> QED BY <1>2, <2>4, <2>5
<1> QED BY <1>1, <1>2

-----------------------------------------------------------------------------
(* The two actions. *)

(* The tables after an update, entry by entry. *)
LEMMA UpdateTables ==
    ASSUME TageAssumption, TypeOK, look # NoLook,
           NEW dir \in Dir, NEW high \in BOOLEAN, Update(dir, high)
    PROVE  /\ tagPred' \in Tables
           /\ \A b \in Bank, x \in TagIndex :
                 /\ Retagged(b, x) =>
                       /\ Allocates(TrainProvider(dir), dir)
                       /\ x = look.ix[b]
                       /\ IsVictim(TrainProvider(dir), high, b)
                 /\ tagPred'[b][x].u =
                       IF ResetDue THEN Cleared(TrainProvider(dir)[b][x].u, 1 - clock_flip)
                                   ELSE TrainProvider(dir)[b][x].u
<1> DEFINE T == TrainProvider(dir)
           A == Allocate(T, dir, high)
<1>1. /\ T \in Tables
      /\ \A b \in Bank, x \in TagIndex : T[b][x].tag = tagPred[b][x].tag
  BY TrainProviderType
<1> HIDE DEF T
<1>2. /\ A \in Tables
      /\ \A b \in Bank, x \in TagIndex :
            /\ A[b][x].u = T[b][x].u
            /\ A[b][x].tag # T[b][x].tag =>
                  Allocates(T, dir) /\ x = look.ix[b] /\ IsVictim(T, high, b)
  BY <1>1, AllocateType
<1> HIDE DEF A
<1>3. /\ Age(A) \in Tables
      /\ \A b \in Bank, x \in TagIndex :
            /\ Age(A)[b][x].tag = A[b][x].tag
            /\ Age(A)[b][x].u = IF ResetDue THEN Cleared(A[b][x].u, 1 - clock_flip)
                                            ELSE A[b][x].u
  BY <1>2, AgeType
<1>4. tagPred' = Age(A)
  BY DEF Update, A, T
<1> QED BY <1>1, <1>2, <1>3, <1>4 DEF Retagged, T

(* update_predictor leaves every counter in its range. *)
LEMMA UpdateType ==
    ASSUME TageAssumption, TypeOK, NEW dir \in Dir, NEW high \in BOOLEAN, Update(dir, high)
    PROVE  TypeOK'
<1>0. look # NoLook /\ look \in Lookup
  BY DEF Update, TypeOK
<1>1. tagPred' \in Tables
  BY <1>0, UpdateTables
<1>2. (bimodal \in [BimodalIndex -> 0 .. BIMODAL_CTR_MAX])'
  <2>1. look.bi \in BimodalIndex
    BY <1>0 DEF Lookup
  <2>2. Train(bimodal[look.bi], BIMODAL_CTR_MAX, dir) \in 0 .. BIMODAL_CTR_MAX
    BY <2>1, TrainRange DEF TypeOK, BIMODAL_CTR_MAX
  <2> QED BY <2>1, <2>2 DEF Update, TypeOK
<1>3. (altBetterCount \in 0 .. 15)'
  BY DEF Update, AltBetter, SatIncrement, SatDecrement, TypeOK
<1>4. (clock \in 0 .. CLOCK_PERIOD - 1 /\ clock_flip \in {0, 1})'
  BY TageAssumption DEF Update, ResetDue, TypeOK, TageAssumption
<1>5. look' = NoLook
  BY DEF Update
<1> QED BY <1>1, <1>2, <1>3, <1>4, <1>5 DEF TypeOK, Tables

(* An update replaces entries as ReplacesOnlyUseless says. *)
LEMMA UpdateReplaces ==
    ASSUME TageAssumption, TypeOK, NEW dir \in Dir, NEW high \in BOOLEAN, Update(dir, high)
    PROVE  ReplacesOnlyUseless
<1> DEFINE T == TrainProvider(dir)
<1>0. look # NoLook
  BY DEF Update
<1>1. \A b \in Bank, x \in TagIndex : Retagged(b, x) =>
         look.primeBank > 0 /\ x = look.ix[b] /\ IsVictim(T, high, b)
  BY <1>0, UpdateTables DEF Allocates
<1>2. \A b \in Bank, x \in TagIndex : b # look.primeBank => T[b][x] = tagPred[b][x]
  BY <1>0, TageAssumption, TrainProviderType
<1> HIDE DEF T
<1>3. SUFFICES ASSUME NEW b \in Bank, NEW x \in TagIndex, Retagged(b, x)
               PROVE  /\ b < look.primeBank /\ x = look.ix[b] /\ tagPred[b][x].u = 0
                      /\ \A c \in Bank, y \in TagIndex : Retagged(c, y) => c = b /\ y = x
  BY <1>0 DEF ReplacesOnlyUseless
<1>4. /\ b < look.primeBank /\ T[b][look.ix[b]].u = 0
      /\ \A c \in Bank : IsVictim(T, high, c) => c = b
  BY <1>0, <1>1, <1>3, VictimBelow
<1>5. b # look.primeBank
  BY <1>0, <1>4 DEF Bank, TypeOK, Lookup
<1> QED BY <1>1, <1>2, <1>3, <1>4, <1>5

(* Without a reset, an update lowers no useful counter but the provider's. *)
LEMMA UpdateKeepsUseful ==
    ASSUME TageAssumption, TypeOK, NEW dir \in Dir, NEW high \in BOOLEAN, Update(dir, high)
    PROVE  LosesUseAsProvider
<1> DEFINE T == TrainProvider(dir)
<1>0. look # NoLook
  BY DEF Update
<1> SUFFICES ASSUME NEW b \in Bank, NEW x \in TagIndex,
                    tagPred'[b][x].u < tagPred[b][x].u, ~ResetDue
             PROVE  /\ Hit /\ b = look.primeBank /\ x = look.ix[b]
                    /\ look.predDir # look.altPred
  BY <1>0 DEF LosesUseAsProvider
<1>1. tagPred'[b][x].u = T[b][x].u
  BY <1>0, UpdateTables
<1>2. /\ ~(Hit /\ b = look.primeBank /\ x = look.ix[b]) => T[b][x] = tagPred[b][x]
      /\ look.predDir = look.altPred => T[b][x].u = tagPred[b][x].u
  BY <1>0, TrainProviderType
<1>3. tagPred[b][x].u \in 0 .. 3
  BY DEF TypeOK, Entry
<1> HIDE DEF T
<1> QED BY <1>1, <1>2, <1>3

(* get_prediction leaves the tables alone and a complete lookup behind. *)
LEMMA PredictType ==
    ASSUME TypeOK, NEW bi \in BimodalIndex, NEW ix \in [Bank -> TagIndex],
           NEW tg \in [Bank -> Tags], Predict(bi, ix, tg)
    PROVE  TypeOK' /\ UNCHANGED tables /\ look = NoLook
<1>1. UNCHANGED tables /\ look = NoLook
  BY DEF Predict
<1>2. look' \in Lookup
  <2>1. BasePrediction(bi) \in Dir /\ \A e : CounterDirection(e) \in Dir
    BY DEF BasePrediction, CounterDirection, Dir
  <2>2. PICK p \in 0 .. NUMTAGTABLES, a \in 0 .. NUMTAGTABLES,
             alt \in Dir, own \in Dir \cup {None}, d \in Dir :
          look' = [bi |-> bi, ix |-> ix, tg |-> tg, primeBank |-> p, altBank |-> a,
                   altPred |-> alt, primePred |-> own, predDir |-> d]
    BY <2>1 DEF Predict
  <2> QED BY <2>2 DEF Lookup
<1> QED BY <1>1, <1>2 DEF TypeOK, tables

-----------------------------------------------------------------------------
(* The theorems. *)

(* Every counter, index and bank number of struct predictor stays in the range *)
(* its declaration and comments give it, for any number of banks.              *)
THEOREM TageTypeCorrect == Spec => []TypeOK
<1>1. Init => TypeOK
  BY TageAssumption DEF Init, TypeOK, Entry, NoLook, TageAssumption,
     BIMODAL_CTR_INIT, BIMODAL_CTR_MAX, TAGPRED_CTR_MAX
<1>2. TypeOK /\ [Next]_vars => TypeOK'
  <2> SUFFICES ASSUME TypeOK, [Next]_vars PROVE TypeOK'
    OBVIOUS
  <2>1. ASSUME NEW bi \in BimodalIndex, NEW ix \in [Bank -> TagIndex],
               NEW tg \in [Bank -> Tags], Predict(bi, ix, tg)
        PROVE  TypeOK'
    BY <2>1, PredictType
  <2>2. ASSUME NEW dir \in Dir, NEW high \in BOOLEAN, Update(dir, high)
        PROVE  TypeOK'
    BY <2>2, TageAssumption, UpdateType
  <2>3. ASSUME UNCHANGED vars PROVE TypeOK'
    BY <2>3 DEF vars, tables, TypeOK
  <2> QED BY <2>1, <2>2, <2>3 DEF Next
<1> QED BY <1>1, <1>2, PTL DEF Spec

(* update_predictor replaces at most one entry, never a useful one, and only   *)
(* in a bank with a longer history than the provider's.                        *)
THEOREM UsefulEntriesProtected == Spec => UsefulProtected
<1>1. TypeOK /\ [Next]_vars => [ReplacesOnlyUseless]_vars
  <2> SUFFICES ASSUME TypeOK, Next PROVE ReplacesOnlyUseless
    OBVIOUS
  <2>1. ASSUME NEW bi \in BimodalIndex, NEW ix \in [Bank -> TagIndex],
               NEW tg \in [Bank -> Tags], Predict(bi, ix, tg)
        PROVE  ReplacesOnlyUseless
    <3>1. tagPred' = tagPred
      BY <2>1, PredictType DEF tables
    <3> QED BY <3>1 DEF ReplacesOnlyUseless, Retagged
  <2>2. ASSUME NEW dir \in Dir, NEW high \in BOOLEAN, Update(dir, high)
        PROVE  ReplacesOnlyUseless
    BY <2>2, TageAssumption, UpdateReplaces
  <2> QED BY <2>1, <2>2 DEF Next
<1> QED BY <1>1, TageTypeCorrect, PTL DEF UsefulProtected, Spec

(* The extent of the ageing that is left (see FailedAllocationAges): an entry  *)
(* loses usefulness only at a reset or as a provider with which the alternate  *)
(* disagreed.                                                                  *)
THEOREM UsefulKept == Spec => UsefulLostByProvider
<1>1. TypeOK /\ [Next]_vars => [LosesUseAsProvider]_vars
  <2> SUFFICES ASSUME TypeOK, Next PROVE LosesUseAsProvider
    OBVIOUS
  <2>1. ASSUME NEW bi \in BimodalIndex, NEW ix \in [Bank -> TagIndex],
               NEW tg \in [Bank -> Tags], Predict(bi, ix, tg)
        PROVE  LosesUseAsProvider
    <3>1. tagPred' = tagPred
      BY <2>1, PredictType DEF tables
    <3>2. \A b \in Bank, x \in TagIndex : tagPred[b][x].u \in 0 .. 3
      BY DEF TypeOK, Entry
    <3> QED BY <3>1, <3>2 DEF LosesUseAsProvider
  <2>2. ASSUME NEW dir \in Dir, NEW high \in BOOLEAN, Update(dir, high)
        PROVE  LosesUseAsProvider
    BY <2>2, TageAssumption, UpdateKeepsUseful
  <2> QED BY <2>1, <2>2 DEF Next
<1> QED BY <1>1, TageTypeCorrect, PTL DEF UsefulLostByProvider, Spec

(* A reset moves a counter below the ceiling of the next age. *)
LEMMA ResetLowers ==
    ASSUME NEW n \in 0 .. AgeCap, NEW flip \in {0, 1}, NEW u \in 0 .. 3,
           u <= AgeBound(n, flip)
    PROVE  Cleared(u, 1 - flip) <= AgeBound(IF n < AgeCap THEN n + 1 ELSE n, 1 - flip)
<1>1. n \in {0, 1, 2, 3}
  BY DEF AgeCap
<1>2. /\ flip = 0 => Cleared(u, 1) <= 1 /\ (u \in {0, 2} => Cleared(u, 1) = 0)
      /\ flip = 1 => Cleared(u, 0) \in {0, 2} /\ (u <= 1 => Cleared(u, 0) = 0)
  BY ClearedRange
<1>3. CASE flip = 0
  BY <1>1, <1>2, <1>3 DEF AgeBound, AgeCap
<1>4. CASE flip = 1
  BY <1>1, <1>2, <1>4 DEF AgeBound, AgeCap
<1> QED BY <1>3, <1>4

(* update_predictor preserves the ceilings. *)
LEMMA UpdateAges ==
    ASSUME TageAssumption, AgingInv, NEW dir \in Dir, NEW high \in BOOLEAN,
           AgingUpdate(dir, high)
    PROVE  (resets \in [Bank -> [TagIndex -> 0 .. AgeCap]] /\ AgesStepwise)'
<1> DEFINE T == TrainProvider(dir)
           N(b, x) == IF Grows(b, x, dir) THEN 0 ELSE resets[b][x]
<1>0. look # NoLook /\ TypeOK /\ Update(dir, high)
  BY DEF AgingUpdate, Update, AgingInv
<1>1. /\ T \in Tables
      /\ \A b \in Bank, x \in TagIndex :
            tagPred'[b][x].u = IF ResetDue THEN Cleared(T[b][x].u, 1 - clock_flip)
                                           ELSE T[b][x].u
  BY <1>0, TageAssumption, TrainProviderType, UpdateTables
<1>2. /\ clock_flip \in {0, 1}
      /\ clock_flip' = IF ResetDue THEN 1 - clock_flip ELSE clock_flip
  BY <1>0 DEF Update, TypeOK
<1>3. \A b \in Bank, x \in TagIndex : N(b, x) \in 0 .. AgeCap
  BY DEF AgingInv, AgeCap
<1>4. resets' = [b \in Bank |-> [x \in TagIndex |->
          IF ResetDue /\ N(b, x) < AgeCap THEN N(b, x) + 1 ELSE N(b, x)]]
  BY DEF AgingUpdate
<1>5. ASSUME NEW b \in Bank, NEW x \in TagIndex
      PROVE  T[b][x].u \in 0 .. 3 /\ T[b][x].u <= AgeBound(N(b, x), clock_flip)
  <2>1. T[b][x].u \in 0 .. 3 /\ tagPred[b][x].u \in 0 .. 3
    BY <1>0, <1>1 DEF Tables, Entry, TypeOK
  <2>2. CASE Grows(b, x, dir)
    BY <2>1, <2>2 DEF AgeBound
  <2>3. CASE ~Grows(b, x, dir)
    <3>1. tagPred[b][x].u <= AgeBound(resets[b][x], clock_flip)
      BY DEF AgingInv, AgesStepwise
    <3>2. AgeBound(resets[b][x], clock_flip) \in Int
      BY DEF AgeBound
    <3>3. T[b][x].u <= tagPred[b][x].u
      BY <2>1, <2>3 DEF Grows
    <3> QED BY <2>1, <2>3, <3>1, <3>2, <3>3
  <2> QED BY <2>2, <2>3
<1> HIDE DEF T, N
<1>6. (resets \in [Bank -> [TagIndex -> 0 .. AgeCap]])'
  BY <1>3, <1>4 DEF AgeCap
<1>7. ASSUME NEW b \in Bank, NEW x \in TagIndex
      PROVE  tagPred'[b][x].u <= AgeBound(resets'[b][x], clock_flip')
  <2>1. resets'[b][x] = IF ResetDue /\ N(b, x) < AgeCap THEN N(b, x) + 1 ELSE N(b, x)
    BY <1>4
  <2>2. CASE ResetDue
    <3>1. Cleared(T[b][x].u, 1 - clock_flip)
            <= AgeBound(IF N(b, x) < AgeCap THEN N(b, x) + 1 ELSE N(b, x), 1 - clock_flip)
      BY <1>2, <1>3, <1>5, ResetLowers
    <3> QED BY <1>1, <1>2, <2>1, <2>2, <3>1
  <2>3. CASE ~ResetDue
    BY <1>1, <1>2, <1>5, <2>1, <2>3
  <2> QED BY <2>2, <2>3
<1> QED BY <1>6, <1>7 DEF AgesStepwise

(* The ceilings hold in every reachable state. *)
THEOREM AgesInvariant == AgingSpec => []AgingInv
<1>1. AgingInit => AgingInv
  <2> SUFFICES ASSUME AgingInit PROVE AgingInv
    OBVIOUS
  <2>1. TypeOK
    BY TageAssumption DEF AgingInit, Init, TypeOK, Entry, NoLook, TageAssumption,
       BIMODAL_CTR_INIT, BIMODAL_CTR_MAX, TAGPRED_CTR_MAX
  <2>2. resets \in [Bank -> [TagIndex -> 0 .. AgeCap]]
    BY DEF AgingInit, AgeCap
  <2>3. AgesStepwise
    BY DEF AgingInit, Init, AgesStepwise, AgeBound, AgeCap
  <2> QED BY <2>1, <2>2, <2>3 DEF AgingInv
<1>2. AgingInv /\ [AgingNext]_agingVars => AgingInv'
  <2> SUFFICES ASSUME AgingInv, [AgingNext]_agingVars PROVE AgingInv'
    OBVIOUS
  <2>1. ASSUME NEW bi \in BimodalIndex, NEW ix \in [Bank -> TagIndex],
               NEW tg \in [Bank -> Tags], AgingPredict(bi, ix, tg)
        PROVE  AgingInv'
    <3>1. TypeOK' /\ UNCHANGED <<tables, resets>>
      BY <2>1, PredictType DEF AgingPredict, AgingInv
    <3> QED BY <3>1 DEF tables, AgingInv, AgesStepwise
  <2>2. ASSUME NEW dir \in Dir, NEW high \in BOOLEAN, AgingUpdate(dir, high)
        PROVE  AgingInv'
    <3>1. TypeOK'
      BY <2>2, TageAssumption, UpdateType DEF AgingUpdate, AgingInv
    <3> QED BY <3>1, <2>2, TageAssumption, UpdateAges DEF AgingInv
  <2>3. ASSUME UNCHANGED agingVars PROVE AgingInv'
    BY <2>3 DEF agingVars, vars, tables, AgingInv, AgesStepwise, TypeOK
  <2> QED BY <2>1, <2>2, <2>3 DEF AgingNext
<1> QED BY <1>1, <1>2, PTL DEF AgingSpec

(* After three resets without growing, a useful counter is 0: every entry that *)
(* stops helping becomes replaceable, for any number of banks and any period.  *)
THEOREM UsefulBitsReset == AgingSpec => []UsefulBitsAge
<1>1. AgingInv => UsefulBitsAge
  <2> SUFFICES ASSUME AgingInv, NEW b \in Bank, NEW x \in TagIndex, resets[b][x] = AgeCap
               PROVE  tagPred[b][x].u = 0
    BY DEF UsefulBitsAge
  <2>1. tagPred[b][x].u \in 0 .. 3
    BY DEF AgingInv, TypeOK, Entry
  <2>2. AgeBound(resets[b][x], clock_flip) = 0
    BY DEF AgeBound, AgeCap
  <2>3. tagPred[b][x].u <= AgeBound(resets[b][x], clock_flip)
    BY DEF AgingInv, AgesStepwise
  <2> QED BY <2>1, <2>2, <2>3
<1> QED BY <1>1, AgesInvariant, PTL

=============================================================================
