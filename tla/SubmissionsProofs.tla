-------------------------- MODULE SubmissionsProofs --------------------------
(***************************************************************************)
(* Proofs about the submissions to CBP 2016: the confidence of Pruett's loop *)
(* predictor, the mark of unused entries in his TAGE, and the counters that  *)
(* both correctors train.                                                    *)
(***************************************************************************)
EXTENDS Submissions, FiniteSetTheorems, TLAPS

----------------------------------------------------------------------------
(* The loop predictor of StephenPruett/cbp64KB.                             *)

LoopEntryFields ==
  {"numIterations", "currIteration", "tag", "confidence", "age", "dir", "run", "lastRun", "same"}
LoopFields == {"table", "withLoop", "pred", "hitWay", "loopValid"}

(* Of one entry: while it knows a number of iterations, it has counted the   *)
(* current run from its beginning.                                           *)
LoopEntryInv(e) ==
  /\ DOMAIN e = LoopEntryFields
  /\ e.confidence \in Nat /\ e.same \in Nat
  /\ e.numIterations # 0 => e.currIteration = e.run
  /\ e.confidence > 0 => /\ e.numIterations # 0
                         /\ e.same >= e.confidence /\ e.lastRun = e.numIterations

LoopInv(lp) ==
  /\ DOMAIN lp = LoopFields
  /\ \A i \in DOMAIN lp.table : LoopEntryInv(lp.table[i])

(* A new entry has counted nothing and is trusted in nothing. *)
LEMMA NewLoopEntryInv == LoopEntryInv(NewLoopEntry)
  BY DEF LoopEntryInv, NewLoopEntry, LoopEntryFields

(* Training an entry that hit, with the outcome observed. *)
LEMMA TrainedLoopEntryInv ==
  ASSUME NEW lp, NEW e, NEW taken, NEW tagePred, NEW ageing, LoopEntryInv(e)
  PROVE  LoopEntryInv(Observe(e, LoopTrained(lp, e, taken, tagePred, ageing), taken))
PROOF
<1> DEFINE aged == IF lp.loopValid /\ (lp.pred # tagePred \/ ageing) /\ e.age < CONFLOOP
                   THEN [e EXCEPT !.age = @ + 1] ELSE e
           counted == incIterationCounter(aged)
           curr == Low(e.currIteration + 1, WIDTHNBITERLOOP)
           over == curr > e.numIterations
<1>1. /\ DOMAIN aged = LoopEntryFields
      /\ aged.confidence = e.confidence /\ aged.same = e.same /\ aged.run = e.run
      /\ aged.numIterations = e.numIterations /\ aged.currIteration = e.currIteration
      /\ aged.lastRun = e.lastRun /\ aged.dir = e.dir
  BY DEF LoopEntryInv, LoopEntryFields
<1>2. /\ DOMAIN counted = LoopEntryFields
      /\ counted.currIteration = curr
      /\ counted.confidence = IF over THEN 0 ELSE e.confidence
      /\ counted.numIterations = IF over THEN 0 ELSE e.numIterations
      /\ counted.same = e.same /\ counted.run = e.run
      /\ counted.lastRun = e.lastRun /\ counted.dir = e.dir
  <2> HIDE DEF aged
  <2> QED BY <1>1 DEF incIterationCounter, LoopEntryFields
<1> HIDE DEF aged, counted
<1> PICK new : new = LoopTrained(lp, e, taken, tagePred, ageing)
  OBVIOUS
<1> PICK length : length = Low(e.run + 1, WIDTHNBITERLOOP)
  OBVIOUS
<1>3. CASE lp.loopValid /\ taken # lp.pred
  <2>1. new = freeEntry(e)
    BY <1>3 DEF LoopTrained
  <2>2. /\ DOMAIN new = LoopEntryFields /\ new.dir = e.dir
        /\ new.numIterations = 0 /\ new.confidence = 0 /\ new.same = e.same
    BY <2>1 DEF freeEntry, LoopEntryInv, LoopEntryFields
  <2> QED BY <2>2 DEF Observe, LoopEntryInv, LoopEntryFields
<1>4. CASE ~(lp.loopValid /\ taken # lp.pred) /\ taken = e.dir
  <2>1. new = counted
    BY <1>2, <1>4 DEF LoopTrained, aged, counted
  <2> QED BY <2>1, <1>2, <1>4 DEF Observe, LoopEntryInv, LoopEntryFields
<1>5. CASE ~(lp.loopValid /\ taken # lp.pred) /\ taken # e.dir
  <2>1. new = RunEnds(counted, taken)
    BY <1>2, <1>5 DEF LoopTrained, aged, counted
  <2>2. CASE counted.currIteration = counted.numIterations /\ counted.numIterations < 3
    <3>1. /\ DOMAIN new = LoopEntryFields /\ new.dir = taken
          /\ new.numIterations = 0 /\ new.confidence = 0
      BY <2>1, <2>2, <1>2 DEF RunEnds, freeEntry, LoopEntryFields
    <3> QED BY <3>1, <1>5 DEF Observe, LoopEntryInv, LoopEntryFields
  <2>3. CASE counted.currIteration = counted.numIterations /\ ~(counted.numIterations < 3)
    <3>1. /\ DOMAIN new = LoopEntryFields /\ new.dir = e.dir
          /\ new.numIterations = counted.numIterations /\ new.currIteration = 0
          /\ new.confidence = IF counted.confidence < CONFLOOP THEN counted.confidence + 1
                              ELSE counted.confidence
          /\ new.same = e.same
      BY <2>1, <2>3, <1>2 DEF RunEnds, LoopEntryFields
    <3>2. ~over /\ e.numIterations # 0
      <4>1. counted.numIterations # 0
        BY <2>3
      <4> QED BY <4>1, <1>2
    <3>3. length = e.numIterations
      BY <3>2, <2>3, <1>2 DEF LoopEntryInv
    <3> QED BY <3>1, <3>2, <3>3, <1>5, <1>2, LoopOK DEF Observe, LoopEntryInv, LoopEntryFields
  <2>4. CASE counted.currIteration # counted.numIterations
    <3>1. /\ DOMAIN new = LoopEntryFields /\ new.dir = e.dir
          /\ new.confidence = 0 /\ new.currIteration = 0 /\ new.same = e.same
      BY <2>1, <2>4, <1>2 DEF RunEnds, freeEntry, LoopEntryFields
    <3> QED BY <3>1, <1>5 DEF Observe, LoopEntryInv, LoopEntryFields
  <2> QED BY <2>2, <2>3, <2>4
<1> QED BY <1>3, <1>4, <1>5

(* Predicting changes no entry. *)
LEMMA LoopPredictInv ==
  ASSUME NEW lp, NEW pc, LoopInv(lp)
  PROVE  LoopInv(LoopPredict(lp, pc))
BY DEF LoopInv, LoopPredict, LoopFields

(* Training keeps every entry as it should be, and so does allocating one. *)
LEMMA LoopUpdateInv ==
  ASSUME NEW lp, NEW pc, NEW taken, NEW tagePred, NEW allocate, NEW rnd, LoopInv(lp)
  PROVE  LoopInv(LoopUpdate(lp, pc, taken, tagePred, allocate, rnd))
PROOF
<1> PICK hit : hit = LoopSlot(pc, lp.hitWay)
  OBVIOUS
<1> PICK slot : slot = LoopSlot(pc, rnd.way)
  OBVIOUS
<1> PICK u : u = LoopUpdate(lp, pc, taken, tagePred, allocate, rnd)
  OBVIOUS
<1>1. CASE lp.hitWay >= 0
  <2>1. u = [lp EXCEPT !.table[hit] =
               Observe(@, LoopTrained(lp, @, taken, tagePred, rnd.age), taken)]
    BY <1>1 DEF LoopUpdate
  <2>2. /\ DOMAIN u = LoopFields /\ DOMAIN u.table = DOMAIN lp.table
        /\ \A i \in DOMAIN lp.table : 
             u.table[i] = IF i = hit THEN Observe(lp.table[i], LoopTrained(lp, lp.table[i], taken, tagePred, rnd.age), taken)
                          ELSE lp.table[i]
    BY <2>1 DEF LoopInv, LoopFields
  <2> QED BY <2>2, TrainedLoopEntryInv DEF LoopInv
<1>2. CASE ~(lp.hitWay >= 0) /\ allocate /\ rnd.alloc
  <2>1. u = [lp EXCEPT !.table[slot] = Displaced(@, pc, taken)]
    BY <1>2 DEF LoopUpdate
  <2>2. ASSUME NEW e, LoopEntryInv(e) PROVE LoopEntryInv(Displaced(e, pc, taken))
    BY <2>2 DEF Displaced, NewLoopEntry, LoopEntryInv, LoopEntryFields
  <2>3. /\ DOMAIN u = LoopFields /\ DOMAIN u.table = DOMAIN lp.table
        /\ \A i \in DOMAIN lp.table :
             u.table[i] = IF i = slot THEN Displaced(lp.table[i], pc, taken) ELSE lp.table[i]
    BY <2>1 DEF LoopInv, LoopFields
  <2> QED BY <2>2, <2>3 DEF LoopInv
<1>3. CASE ~(lp.hitWay >= 0) /\ ~(allocate /\ rnd.alloc)
  BY <1>3 DEF LoopUpdate
<1> QED BY <1>1, <1>2, <1>3

(* Whether the loop predictor helped changes only the counter withLoop. *)
LEMMA HelpedLoopInv ==
  ASSUME NEW lp, NEW w, LoopInv(lp)
  PROVE  LoopInv([lp EXCEPT !.withLoop = w])
BY DEF LoopInv, LoopFields

(* The confidence of an entry of the loop predictor never exceeds the number *)
(* of runs in a row that had the length it will predict: for every table     *)
(* size, counter width and confidence limit, whatever branches share an      *)
(* entry and however often it is freed, retrained and displaced.             *)
THEOREM LoopConfidence == Spec => []LoopConfident
PROOF
<1>1. Init => LoopInv(l)
  <2> SUFFICES ASSUME Init PROVE LoopInv(l)
    OBVIOUS
  <2>1. l = NewLoop
    BY DEF Init, HpsInit
  <2>2. DOMAIN l = LoopFields /\ \A i \in DOMAIN l.table : l.table[i] = NewLoopEntry
    BY <2>1 DEF NewLoop, LoopFields
  <2> QED BY <2>2, NewLoopEntryInv DEF LoopInv
<1>2. LoopInv(l) /\ [Next]_vars => LoopInv(l)'
  <2> SUFFICES ASSUME LoopInv(l), [Next]_vars PROVE LoopInv(l)'
    OBVIOUS
  <2>1. CASE UNCHANGED l
    BY <2>1 DEF LoopInv
  <2>2. ASSUME NEW pc, GetPrediction(pc) PROVE LoopInv(l)'
    <3>1. l' = LoopPredict(l, pc)
      BY <2>2 DEF GetPrediction
    <3>2. LoopInv(LoopPredict(l, pc))
      BY LoopPredictInv
    <3> QED BY <3>1, <3>2
  <2>3. ASSUME NEW pc, NEW kind, NEW taken, NEW target, UpdatePredictor(pc, kind, taken, target)
        PROVE  LoopInv(l)'
    <3>1. \E lp, tagePred, allocate, rnd :
             /\ lp = l \/ \E w : lp = [l EXCEPT !.withLoop = w]
             /\ l' = LoopUpdate(lp, pc, taken, tagePred, allocate, rnd)
      BY <2>3 DEF UpdatePredictor
    <3> QED BY <3>1, LoopUpdateInv, HelpedLoopInv
  <2>4. CASE \E j \in prog.jumps : j[1] = at /\ TrackOtherInst(at, j[4], j[2]) /\ FollowJump(j)
    BY <2>1, <2>4 DEF TrackOtherInst
  <2>5. CASE prog.submission = "Hps" /\ HpsNext /\ UNCHANGED mppState
    BY <2>2, <2>3, <2>4, <2>5 DEF HpsNext
  <2> QED BY <2>1, <2>5 DEF Next, vars, hpsState
<1>3. LoopInv(l) => LoopConfident
  BY DEF LoopInv, LoopEntryInv, LoopConfident
<1> QED BY <1>1, <1>2, <1>3, PTL DEF Spec

----------------------------------------------------------------------------
(* Allocation in the TAGE of StephenPruett/cbp64KB.                         *)

TageFields ==
  {"table", "bim", "alt", "predBank", "altpredBank", "usedBank", "pred", "altpred", "predDir",
   "altpredDir", "tagePred", "highConfidence", "TICK", "vcache", "vcacheEnable",
   "victimCacheBank", "stats"}
AllocFields == {"t", "conflict", "alloc", "left", "next"}

(* u has what the prediction left in t. *)
SamePrediction(t0, u) ==
  /\ DOMAIN u = TageFields
  /\ u.predBank = t0.predBank /\ u.altpredBank = t0.altpredBank
  /\ u.pred = t0.pred /\ u.altpred = t0.altpred
  /\ u.predDir = t0.predDir /\ u.altpredDir = t0.altpredDir /\ u.tagePred = t0.tagePred

(* The tables after some entries were allocated for an outcome. *)
Allocated(T, U, taken) ==
  /\ DOMAIN U = DOMAIN T
  /\ \A i \in DOMAIN T :
       /\ DOMAIN U[i] = DOMAIN T[i]
       /\ \A j \in DOMAIN T[i] : U[i][j] = T[i][j] \/ \E tag : U[i][j] = Set(tag, taken)

AllocInv(t0, s, taken) ==
  /\ DOMAIN s = AllocFields
  /\ SamePrediction(t0, s.t)
  /\ Allocated(t0.table, s.t.table, taken)

(* Writing one entry of the tables. *)
LEMMA PutEntry ==
  ASSUME NEW T, NEW a, NEW b, NEW x, NEW U, U = [T EXCEPT ![a][b] = x]
  PROVE  /\ DOMAIN U = DOMAIN T
         /\ \A i \in DOMAIN T :
              /\ DOMAIN U[i] = DOMAIN T[i]
              /\ \A j \in DOMAIN T[i] : U[i][j] = IF i = a /\ j = b THEN x ELSE T[i][j]
OBVIOUS

(* One more allocation. *)
LEMMA AllocatedOne ==
  ASSUME NEW T, NEW U, NEW taken, NEW a, NEW b, NEW tag, Allocated(T, U, taken)
  PROVE  Allocated(T, [U EXCEPT ![a][b] = Set(tag, taken)], taken)
<1> PICK V : V = [U EXCEPT ![a][b] = Set(tag, taken)]
  OBVIOUS
<1>1. /\ DOMAIN V = DOMAIN U
      /\ \A i \in DOMAIN U :
           /\ DOMAIN V[i] = DOMAIN U[i]
           /\ \A j \in DOMAIN U[i] : V[i][j] = IF i = a /\ j = b THEN Set(tag, taken) ELSE U[i][j]
  BY PutEntry
<1> QED BY <1>1 DEF Allocated

(* Restoring an entry from the victim cache. *)
LEMMA RestoreInv ==
  ASSUME NEW t0, NEW s, NEW g, NEW hi, NEW pc, NEW taken, AllocInv(t0, s, taken)
  PROVE  AllocInv(t0, Restore(s, g, hi, pc, taken), taken)
<1> DEFINE b == s.t.victimCacheBank
           key == VictimKey(hi, pc, b)
           found == search(s.t.vcache, key)
           t1 == [s.t EXCEPT !.vcache = found.cache]
           w == Where(g, hi, pc, b)
           e == EntryAt(t1, w)
           evicts == [t1 EXCEPT !.vcache = IF isUnused(e) THEN VictimInsert(@, key, e.counter >= 0) ELSE @,
                                !.table[w[1]][w[2]] = Set(getTag(hi, pc, b), taken)]
<1> PICK r : r = Restore(s, g, hi, pc, taken)
  OBVIOUS
<1>1. r = IF ~s.t.vcacheEnable \/ b = 0 THEN s
          ELSE IF found.out # Bit(taken) \/ w = <<>> THEN [s EXCEPT !.t = t1]
          ELSE IF isUseful(e) THEN [s EXCEPT !.t = t1, !.conflict = @ + 1]
          ELSE [s EXCEPT !.t = evicts, !.alloc = @ + 1, !.left = @ - 1]
  BY DEF Restore
<1>2. /\ SamePrediction(t0, t1) /\ t1.table = s.t.table
  <2> HIDE DEF found
  <2> QED BY DEF AllocInv, SamePrediction, TageFields
<1>3. SamePrediction(t0, evicts)
  <2> HIDE DEF t1, w, e, key
  <2> QED BY <1>2 DEF SamePrediction, TageFields
<1>4. evicts.table = [s.t.table EXCEPT ![w[1]][w[2]] = Set(getTag(hi, pc, b), taken)]
  <2> HIDE DEF t1, w, e, key
  <2> QED BY <1>2 DEF SamePrediction, TageFields
<1>5. Allocated(t0.table, t1.table, taken) /\ Allocated(t0.table, evicts.table, taken)
  <2> HIDE DEF t1, w, e, key, evicts
  <2>1. Allocated(t0.table, s.t.table, taken)
    BY DEF AllocInv
  <2>2. Allocated(t0.table, [s.t.table EXCEPT ![w[1]][w[2]] = Set(getTag(hi, pc, b), taken)], taken)
    BY <2>1, AllocatedOne
  <2> QED BY <1>2, <1>4, <2>1, <2>2
<1> HIDE DEF t1, w, e, key, evicts, found, b
<1> QED BY <1>1, <1>2, <1>3, <1>5 DEF AllocInv, AllocFields

(* Looking at one history. *)
LEMMA AllocateInInv ==
  ASSUME NEW t0, NEW s, NEW b, NEW g, NEW hi, NEW pc, NEW taken, AllocInv(t0, s, taken)
  PROVE  AllocInv(t0, AllocateIn(s, b, g, hi, pc, taken), taken)
<1> DEFINE t1 == [s.t EXCEPT !.stats[b].attempted = @ + 1]
           w == Where(g, hi, pc, b)
           e == EntryAt(t1, w)
           victim == isUnused(e) /\ t1.vcacheEnable /\ b = t1.victimCacheBank
           missed == [t1 EXCEPT !.stats[b].conflicts = @ + 1]
           placed == [t1 EXCEPT !.vcache = IF victim THEN VictimInsert(@, VictimKey(hi, pc, b), e.counter >= 0)
                                           ELSE @,
                                !.table[w[1]][w[2]] = Set(getTag(hi, pc, b), taken)]
<1> PICK r : r = AllocateIn(s, b, g, hi, pc, taken)
  OBVIOUS
<1>1. r = IF s.next # b THEN s
          ELSE IF w = <<>> THEN [s EXCEPT !.t = t1, !.next = b + 1]
          ELSE IF isUseful(e) THEN [s EXCEPT !.t = missed, !.conflict = @ + 1, !.next = b + 1]
          ELSE [t |-> placed, conflict |-> s.conflict, alloc |-> s.alloc + 1, left |-> s.left - 1,
                next |-> IF s.left <= 0 THEN NHIST + 1 ELSE b + 2]
  BY DEF AllocateIn
<1>2. /\ SamePrediction(t0, t1) /\ t1.table = s.t.table
  BY DEF AllocInv, SamePrediction, TageFields
<1>3. SamePrediction(t0, missed) /\ missed.table = s.t.table
  <2> HIDE DEF t1
  <2> QED BY <1>2 DEF SamePrediction, TageFields
<1>4. SamePrediction(t0, placed)
  <2> HIDE DEF t1, w, e, victim
  <2> QED BY <1>2 DEF SamePrediction, TageFields
<1>5. placed.table = [s.t.table EXCEPT ![w[1]][w[2]] = Set(getTag(hi, pc, b), taken)]
  <2> HIDE DEF t1, w, e, victim
  <2> QED BY <1>2 DEF SamePrediction, TageFields
<1>6. Allocated(t0.table, s.t.table, taken) /\ Allocated(t0.table, placed.table, taken)
  <2> HIDE DEF t1, w, e, victim, placed
  <2>1. Allocated(t0.table, s.t.table, taken)
    BY DEF AllocInv
  <2>2. Allocated(t0.table, [s.t.table EXCEPT ![w[1]][w[2]] = Set(getTag(hi, pc, b), taken)], taken)
    BY <2>1, AllocatedOne
  <2> QED BY <1>5, <2>1, <2>2
<1> HIDE DEF t1, w, e, victim, missed, placed
<1> QED BY <1>1, <1>2, <1>3, <1>4, <1>6 DEF AllocInv, AllocFields

(* A set of natural numbers that is not empty has a least element. *)
LEMMA LeastNumber ==
  ASSUME NEW S \in SUBSET Nat, S # {}
  PROVE  \E i \in S : \A j \in S : i <= j
<1>1. PICK i \in S : \A j \in S : <<j, i>> \notin OpToRel(<, Nat)
  BY NatLessThanWellFounded, WFMin
<1>2. ASSUME NEW j \in S PROVE ~(j < i)
  <2>1. <<j, i>> \notin OpToRel(<, Nat)
    BY <1>1
  <2> QED BY <2>1, Zenon DEF OpToRel
<1> QED BY <1>2

(* There are finitely many histories. *)
LEMMA HistoriesCounted == NHIST \in Nat
  BY TageOK DEF NHIST

(* All histories in turn: the loop over them is a function of how far it got,*)
(* and what holds of one round holds of all.                                 *)
LEMMA AllocateFromInv ==
  ASSUME NEW t0, NEW s, NEW g, NEW hi, NEW pc, NEW taken, AllocInv(t0, s, taken)
  PROVE  AllocInv(t0, AllocateFrom(s, g, hi, pc, taken), taken)
<1> DEFINE Round(u, b) == IF b = 0 THEN s ELSE AllocateIn(u[b - 1], b, g, hi, pc, taken)
           Loop(u, n) == u = [b \in 0 .. n |-> Round(u, b)]
           upTo == CHOOSE u : Loop(u, NHIST)
           Short == {n \in Nat : ~ \E u : Loop(u, n)}
<1>1. \E u : Loop(u, 0)
  <2> WITNESS [b \in 0 .. 0 |-> s]
  <2> QED OBVIOUS
<1>2. ASSUME NEW n \in Nat, NEW u, Loop(u, n) PROVE \E v : Loop(v, n + 1)
  <2> DEFINE v == [b \in 0 .. n + 1 |-> IF b = n + 1 THEN AllocateIn(u[n], n + 1, g, hi, pc, taken)
                                        ELSE u[b]]
  <2>1. ASSUME NEW b \in 0 .. n + 1 PROVE v[b] = Round(v, b)
    <3>1. CASE b = n + 1
      <4>1. v[b] = AllocateIn(u[n], n + 1, g, hi, pc, taken) /\ v[n] = u[n]
        BY <3>1
      <4> QED BY <3>1, <4>1
    <3>2. CASE b = 0
      BY <3>2, <1>2
    <3>3. CASE b \in 1 .. n
      <4>1. v[b] = u[b] /\ v[b - 1] = u[b - 1]
        BY <3>3
      <4>2. u[b] = Round(u, b)
        BY <1>2, <3>3
      <4> QED BY <4>1, <4>2
    <3> QED BY <3>1, <3>2, <3>3
  <2>2. Loop(v, n + 1)
    BY <2>1
  <2> QED BY <2>2
<1>3. Short = {}
  <2> SUFFICES ASSUME Short # {} PROVE FALSE
    OBVIOUS
  <2>1. Short \in SUBSET Nat
    OBVIOUS
  <2> HIDE DEF Loop
  <2>2. PICK n \in Short : \A k \in Short : n <= k
    BY <2>1, LeastNumber
  <2>3. n \in Nat \ {0}
    BY <1>1
  <2>4. n - 1 \in Nat /\ n - 1 \notin Short /\ (n - 1) + 1 = n
    BY <2>2, <2>3
  <2> QED BY <2>4, <1>2
<1>4. Loop(upTo, NHIST)
  <2> HIDE DEF Loop
  <2> QED BY <1>3, HistoriesCounted
<1>5. AllocateFrom(s, g, hi, pc, taken) = upTo[NHIST]
  BY DEF AllocateFrom
<1> PICK u : u = upTo
  OBVIOUS
<1>6. \A b \in 0 .. NHIST : u[b] = Round(u, b)
  BY <1>4
<1> HIDE DEF upTo, Loop
<1> DEFINE Wrong == {b \in 0 .. NHIST : ~AllocInv(t0, u[b], taken)}
<1>7. Wrong = {}
  <2> SUFFICES ASSUME Wrong # {} PROVE FALSE
    OBVIOUS
  <2>1. Wrong \in SUBSET Nat
    BY HistoriesCounted
  <2>2. PICK n \in Wrong : \A k \in Wrong : n <= k
    BY <2>1, LeastNumber
  <2>3. CASE n = 0
    BY <2>3, <1>6
  <2>4. CASE n # 0
    <3>1. n - 1 \in 0 .. NHIST /\ n - 1 \notin Wrong
      BY <2>2, <2>4, HistoriesCounted
    <3>2. AllocInv(t0, u[n - 1], taken)
      BY <3>1
    <3>3. u[n] = AllocateIn(u[n - 1], n, g, hi, pc, taken)
      BY <1>6, <2>4
    <3> QED BY <3>2, <3>3, AllocateInInv
  <2> QED BY <2>3, <2>4
<1> QED BY <1>5, <1>7, HistoriesCounted

----------------------------------------------------------------------------
(* The tagged entries of StephenPruett/cbp64KB.                             *)

(* A counter of n bits has 2^n values, at least two: the subsets of 1 .. n   *)
(* are as many.                                                              *)
LEMMA TwoPower ==
  ASSUME NEW n \in Nat \ {0}
  PROVE  2^n \in Nat /\ 2^n >= 2
<1>1. IsFiniteSet(1 .. n) /\ Cardinality(1 .. n) = n
  BY FS_Interval
<1>2. IsFiniteSet(SUBSET (1 .. n)) /\ Cardinality(SUBSET (1 .. n)) = 2^n
  BY <1>1, FS_SUBSET
<1> PICK S : S = SUBSET (1 .. n)
  OBVIOUS
<1>3. {} \in S /\ {1} \in S /\ {1} # {}
  OBVIOUS
<1>4. S # {} /\ ~ \E x : S = {x}
  BY <1>3
<1>5. Cardinality(S) \in Nat /\ Cardinality(S) # 0 /\ Cardinality(S) # 1
  BY <1>2, <1>4, FS_CardinalityType, FS_EmptySet, FS_Singleton
<1> QED BY <1>2, <1>5

EntryFields == {"counter", "useful", "tag", "fresh"}

EntryTyped(e) ==
  DOMAIN e = EntryFields /\ e.counter \in Int /\ e.useful \in 0 .. 2^UWIDTH - 1

EntryInv(e) == EntryTyped(e) /\ (isUnused(e) => e.fresh)

TablesInv(T) ==
  /\ DOMAIN T = Tables
  /\ \A i \in Tables : \A j \in DOMAIN T[i] : EntryInv(T[i][j])

(* The highest value of the useful counter and of the prediction counter. *)
LEMMA CounterBounds ==
  /\ 2^UWIDTH \in Nat /\ 2^UWIDTH >= 2
  /\ 2^(CWIDTH - 1) \in Nat /\ 2^(CWIDTH - 1) >= 2
<1>1. UWIDTH \in Nat \ {0} /\ CWIDTH - 1 \in Nat \ {0}
  BY TageOK
<1> QED BY <1>1, TwoPower

(* An entry as it is made. *)
LEMMA NewEntryInv == EntryInv(NewEntry)
  BY CounterBounds DEF NewEntry, EntryInv, EntryTyped, EntryFields, isUnused

(* An entry just allocated is unused, and fresh. *)
LEMMA SetInv ==
  ASSUME NEW tag, NEW taken
  PROVE  EntryInv(Set(tag, taken)) /\ Set(tag, taken).counter = Reset(taken)
BY CounterBounds DEF Set, Reset, EntryInv, EntryTyped, EntryFields

(* Ageing never gives an entry the mark: a full useful counter goes down.   *)
LEMMA AgedEntryInv ==
  ASSUME NEW e, EntryInv(e), ~isUnused(e)
  PROVE  /\ EntryInv([e EXCEPT !.useful = UnsignedInc(@, FALSE, UWIDTH)])
         /\ [e EXCEPT !.useful = UnsignedInc(@, FALSE, UWIDTH)].counter = e.counter
<1> PICK M \in Nat : M = 2^UWIDTH - 1 /\ M >= 1
  BY CounterBounds
<1> PICK u : u = UnsignedInc(e.useful, FALSE, UWIDTH)
  OBVIOUS
<1>1. e.useful \in 0 .. M
  BY DEF EntryInv, EntryTyped
<1>2. u \in 0 .. M /\ u # M
  BY <1>1 DEF UnsignedInc, Clamp
<1> QED BY <1>2 DEF EntryInv, EntryTyped, EntryFields, isUnused

(* The prediction counter moves with the outcome. *)
LEMMA SignedIncMoves ==
  ASSUME NEW v \in Int, NEW taken \in BOOLEAN
  PROVE  /\ SignedInc(v, taken, CWIDTH) \in Int
         /\ taken /\ v >= 0 => ~Unbiased(SignedInc(v, taken, CWIDTH))
         /\ ~taken /\ v < 0 => ~Unbiased(SignedInc(v, taken, CWIDTH))
<1> PICK B \in Nat : B = 2^(CWIDTH - 1) /\ B >= 2
  BY CounterBounds
<1>1. SignedInc(v, taken, CWIDTH) = Clamp(IF taken THEN v + 1 ELSE v - 1, -B, B - 1)
  BY DEF SignedInc
<1>2. CASE taken
  BY <1>1, <1>2 DEF Clamp, Unbiased
<1>3. CASE ~taken
  BY <1>1, <1>3 DEF Clamp, Unbiased
<1> QED BY <1>2, <1>3

(* Training an entry. *)
LEMMA TrainedEntryTyped ==
  ASSUME NEW e, EntryTyped(e), NEW taken \in BOOLEAN
  PROVE  /\ EntryTyped(Trained(e, taken))
         /\ Trained(e, taken).counter = SignedInc(e.counter, taken, CWIDTH)
<1>1. SignedInc(e.counter, taken, CWIDTH) \in Int
  BY SignedIncMoves DEF EntryTyped
<1>2. 0 \in 0 .. 2^UWIDTH - 1
  BY CounterBounds
<1> QED BY <1>1, <1>2 DEF Trained, EntryTyped, EntryFields

(* A trained entry that is undecided loses its usefulness, and with it the   *)
(* mark of an unused one.                                                    *)
LEMMA SettledEntryInv ==
  ASSUME NEW e, EntryTyped(e)
  PROVE  EntryInv(Settled(e)) /\ Settled(e).counter = e.counter
<1>1. 0 \in 0 .. 2^UWIDTH - 1 /\ 0 # 2^UWIDTH - 1
  BY CounterBounds
<1> QED BY <1>1 DEF Settled, EntryInv, EntryTyped, EntryFields, isUnused

(* An entry that is decided may become more useful. *)
LEMMA UsefulEntryInv ==
  ASSUME NEW e, EntryTyped(e), ~Unbiased(e.counter)
  PROVE  EntryInv([e EXCEPT !.useful = UnsignedInc(@, TRUE, UWIDTH)])
<1> PICK M \in Nat : M = 2^UWIDTH - 1 /\ M >= 1
  BY CounterBounds
<1> PICK u : u = UnsignedInc(e.useful, TRUE, UWIDTH)
  OBVIOUS
<1>1. e.useful \in 0 .. M
  BY DEF EntryTyped
<1>2. u \in 0 .. M
  BY <1>1 DEF UnsignedInc, Clamp
<1> QED BY <1>2 DEF EntryInv, EntryTyped, EntryFields, isUnused

(* Allocation keeps every entry as it should be, and leaves the direction of *)
(* every entry or points it at the outcome.                                  *)
LEMMA AllocatedTablesInv ==
  ASSUME NEW T, NEW U, NEW taken, TablesInv(T), Allocated(T, U, taken)
  PROVE  /\ TablesInv(U)
         /\ \A i \in Tables : \A j \in DOMAIN T[i] :
              U[i][j].counter \in {T[i][j].counter, Reset(taken)}
BY SetInv DEF TablesInv, Allocated

(* Ageing keeps every entry as it should be, and its direction. *)
LEMMA AgedTablesInv ==
  ASSUME NEW T, TablesInv(T)
  PROVE  /\ TablesInv(decAllUseful(T))
         /\ \A i \in Tables : /\ DOMAIN decAllUseful(T)[i] = DOMAIN T[i]
                              /\ \A j \in DOMAIN T[i] : decAllUseful(T)[i][j].counter = T[i][j].counter
<1> DEFINE Age(e) == [e EXCEPT !.useful = UnsignedInc(@, FALSE, UWIDTH)]
           D == decAllUseful(T)
<1>1. /\ DOMAIN D = Tables
      /\ \A i \in Tables : /\ DOMAIN D[i] = DOMAIN T[i]
                           /\ \A j \in DOMAIN T[i] :
                                D[i][j] = IF isUnused(T[i][j]) THEN T[i][j] ELSE Age(T[i][j])
  BY DEF decAllUseful
<1>2. \A e : EntryInv(e) /\ ~isUnused(e) => EntryInv(Age(e)) /\ Age(e).counter = e.counter
  BY AgedEntryInv
<1> HIDE DEF Age, D
<1>3. TablesInv(D)
  BY <1>1, <1>2 DEF TablesInv
<1>4. \A i \in Tables : \A j \in DOMAIN T[i] : D[i][j].counter = T[i][j].counter
  BY <1>1, <1>2 DEF TablesInv
<1> QED BY <1>1, <1>3, <1>4 DEF D

(* Step 2 of an update, allocation. *)
LEMMA AllocateInv ==
  ASSUME NEW u, NEW g, NEW hi, NEW pc, NEW taken, NEW hop,
         DOMAIN u = TageFields, TablesInv(u.table),
         NEW r, r = Allocate(u, g, hi, pc, taken, hop)
  PROVE  /\ SamePrediction(u, r) /\ TablesInv(r.table)
         /\ \A i \in Tables :
              /\ DOMAIN r.table[i] = DOMAIN u.table[i]
              /\ \A j \in DOMAIN u.table[i] :
                   r.table[i][j].counter \in {u.table[i][j].counter, Reset(taken)}
<1> DEFINE s0 == [t |-> u, conflict |-> 0, alloc |-> 0, left |-> NNN, next |-> u.predBank + hop]
<1> PICK s : s = AllocateFrom(Restore(s0, g, hi, pc, taken), g, hi, pc, taken)
  OBVIOUS
<1>1. AllocInv(u, s0, taken)
  BY DEF AllocInv, AllocFields, SamePrediction, Allocated
<1>2. AllocInv(u, s, taken)
  <2> HIDE DEF s0
  <2> QED BY <1>1, RestoreInv, AllocateFromInv
<1>3. r = Tick(s)
  BY DEF Allocate
<1> HIDE DEF s0
<1>4. /\ TablesInv(s.t.table)
      /\ \A i \in Tables : 
           /\ DOMAIN s.t.table[i] = DOMAIN u.table[i]
           /\ \A j \in DOMAIN u.table[i] : s.t.table[i][j].counter \in {u.table[i][j].counter, Reset(taken)}
  <2>1. Allocated(u.table, s.t.table, taken)
    BY <1>2 DEF AllocInv
  <2>2. /\ TablesInv(s.t.table)
        /\ \A i \in Tables : \A j \in DOMAIN u.table[i] :
             s.t.table[i][j].counter \in {u.table[i][j].counter, Reset(taken)}
    BY <2>1, AllocatedTablesInv
  <2>3. \A i \in Tables : DOMAIN s.t.table[i] = DOMAIN u.table[i]
    BY <2>1 DEF Allocated, TablesInv
  <2> QED BY <2>2, <2>3
<1>5. /\ SamePrediction(u, r)
      /\ r.table = s.t.table \/ r.table = decAllUseful(s.t.table)
  BY <1>2, <1>3 DEF Tick, AllocInv, SamePrediction, TageFields
<1>6. CASE r.table = s.t.table
  BY <1>4, <1>5, <1>6
<1>7. CASE r.table = decAllUseful(s.t.table)
  BY <1>4, <1>5, <1>7, AgedTablesInv
<1> QED BY <1>5, <1>6, <1>7

(* Step 1 of an update, the choice between the predictions. *)
LEMMA UpdateAltInv ==
  ASSUME NEW u, NEW pc, NEW taken, DOMAIN u = TageFields
  PROVE  SamePrediction(u, UpdateAlt(u, pc, taken)) /\ UpdateAlt(u, pc, taken).table = u.table
BY DEF UpdateAlt, SamePrediction, TageFields

(* What a prediction leaves for the update that follows it. *)
PredictionInv(u) ==
  /\ u.predBank \in Nat /\ u.altpredBank \in Nat
  /\ u.altpredBank > 0 => u.altpred # <<>>
  /\ u.predBank = 0 => u.predDir = u.altpredDir

(* Entry w of the tables T was replaced by x. *)
Replaced(T, U, w, x) ==
  /\ DOMAIN U = DOMAIN T
  /\ \A i \in DOMAIN T :
       /\ DOMAIN U[i] = DOMAIN T[i]
       /\ \A j \in DOMAIN T[i] : U[i][j] = IF i = w[1] /\ j = w[2] THEN x ELSE T[i][j]

(* Training and settling an entry of a predictor. *)
LEMMA TrainEntry ==
  ASSUME NEW u, NEW w, NEW taken, NEW r, DOMAIN u = TageFields,
         r = [u EXCEPT !.table[w[1]][w[2]] = Trained(@, taken)]
  PROVE  SamePrediction(u, r) /\ Replaced(u.table, r.table, w, Trained(EntryAt(u, w), taken))
<1>1. SamePrediction(u, r)
  BY DEF SamePrediction, TageFields
<1>2. r.table = [u.table EXCEPT ![w[1]][w[2]] = Trained(EntryAt(u, w), taken)]
  BY DEF TageFields, EntryAt
<1> QED BY <1>1, <1>2, PutEntry DEF Replaced

(* The same for settling. *)
LEMMA SettleEntry ==
  ASSUME NEW u, NEW w, NEW r, DOMAIN u = TageFields, r = Settle(u, w)
  PROVE  SamePrediction(u, r) /\ Replaced(u.table, r.table, w, Settled(EntryAt(u, w)))
<1>1. SamePrediction(u, r)
  BY DEF SamePrediction, TageFields, Settle
<1>2. r.table = [u.table EXCEPT ![w[1]][w[2]] = Settled(EntryAt(u, w))]
  BY DEF TageFields, EntryAt, Settle
<1> QED BY <1>1, <1>2, PutEntry DEF Replaced

(* Step 3 of an update, the counters: whatever is trained is settled, so no  *)
(* trained entry keeps or gets the mark of an unused one.  When the          *)
(* prediction was right its entry is trained once.                           *)
LEMMA UpdateCountersInv ==
  ASSUME NEW u, NEW pc, NEW taken \in BOOLEAN, DOMAIN u = TageFields, TablesInv(u.table),
         PredictionInv(u), NEW r, r = UpdateCounters(u, pc, taken)
  PROVE  /\ SamePrediction(u, r) /\ TablesInv(r.table)
         /\ \A i \in Tables : DOMAIN r.table[i] = DOMAIN u.table[i]
         /\ u.predBank > 0 /\ u.predDir = taken =>
              \A i \in Tables : \A j \in DOMAIN u.table[i] :
                i = u.pred[1] /\ j = u.pred[2] =>
                  r.table[i][j].counter = SignedInc(u.table[i][j].counter, taken, CWIDTH)
<1> DEFINE doubt == u.predBank > 0 /\ Unbiased(EntryAt(u, u.pred).counter) /\ u.predDir # taken
           t1 == IF doubt /\ u.altpredBank > 0
                 THEN [u EXCEPT !.table[u.altpred[1]][u.altpred[2]] = Trained(@, taken)]
                 ELSE IF doubt \/ u.predBank = 0 THEN [u EXCEPT !.bim = BimodalUpdate(@, pc, taken)]
                 ELSE u
           t2 == [t1 EXCEPT !.table[u.pred[1]][u.pred[2]] = Trained(@, taken)]
           t3 == Settle(t2, u.pred)
<1>1. r = IF u.predBank = 0 THEN t1 ELSE IF u.altpred = <<>> THEN t3 ELSE Settle(t3, u.altpred)
  BY DEF UpdateCounters
<1>2. /\ SamePrediction(u, t1)
      /\ ~(doubt /\ u.altpredBank > 0) => t1.table = u.table
      /\ doubt /\ u.altpredBank > 0 =>
           Replaced(u.table, t1.table, u.altpred, Trained(EntryAt(u, u.altpred), taken))
  <2>1. CASE doubt /\ u.altpredBank > 0
    BY <2>1, TrainEntry
  <2>2. CASE ~(doubt /\ u.altpredBank > 0)
    BY <2>2 DEF SamePrediction, TageFields
  <2> QED BY <2>1, <2>2
<1> HIDE DEF t1
<1>3. DOMAIN t1 = TageFields
  BY <1>2 DEF SamePrediction
<1>4. SamePrediction(t1, t2) /\ Replaced(t1.table, t2.table, u.pred, Trained(EntryAt(t1, u.pred), taken))
  BY <1>3, TrainEntry
<1> HIDE DEF t2
<1>5. DOMAIN t2 = TageFields
  BY <1>4 DEF SamePrediction
<1>6. SamePrediction(t2, t3) /\ Replaced(t2.table, t3.table, u.pred, Settled(EntryAt(t2, u.pred)))
  BY <1>5, SettleEntry
<1> HIDE DEF t3
<1>7. DOMAIN t3 = TageFields
  BY <1>6 DEF SamePrediction
<1> PICK t4 : t4 = Settle(t3, u.altpred)
  OBVIOUS
<1>8. SamePrediction(t3, t4) /\ Replaced(t3.table, t4.table, u.altpred, Settled(EntryAt(t3, u.altpred)))
  BY <1>7, SettleEntry
<1>9. SamePrediction(u, r)
  BY <1>1, <1>2, <1>4, <1>6, <1>8 DEF SamePrediction
<1>10. /\ DOMAIN u.table = Tables /\ DOMAIN t1.table = Tables /\ DOMAIN t2.table = Tables
       /\ DOMAIN t3.table = Tables /\ DOMAIN t4.table = Tables
       /\ \A i \in Tables :
            /\ DOMAIN t1.table[i] = DOMAIN u.table[i] /\ DOMAIN t2.table[i] = DOMAIN u.table[i]
            /\ DOMAIN t3.table[i] = DOMAIN u.table[i] /\ DOMAIN t4.table[i] = DOMAIN u.table[i]
  BY <1>2, <1>4, <1>6, <1>8 DEF Replaced, TablesInv
<1>11. ASSUME NEW i \in Tables, NEW j \in DOMAIN u.table[i]
       PROVE  /\ EntryInv(r.table[i][j])
              /\ u.predBank > 0 /\ u.predDir = taken /\ i = u.pred[1] /\ j = u.pred[2] =>
                   r.table[i][j].counter = SignedInc(u.table[i][j].counter, taken, CWIDTH)
  <2> DEFINE e == u.table[i][j]
             p1 == i = u.pred[1] /\ j = u.pred[2]
             a1 == i = u.altpred[1] /\ j = u.altpred[2]
             e1 == t1.table[i][j]
             e2 == t2.table[i][j]
             e3 == t3.table[i][j]
             e4 == t4.table[i][j]
  <2>1. EntryInv(e)
    BY DEF TablesInv
  <2>2. e1 = IF doubt /\ u.altpredBank > 0 /\ a1 THEN Trained(e, taken) ELSE e
    BY <1>2, <1>10 DEF Replaced, EntryAt
  <2>3. e2 = IF p1 THEN Trained(e1, taken) ELSE e1
    BY <1>4, <1>10 DEF Replaced, EntryAt
  <2>4. e3 = IF p1 THEN Settled(e2) ELSE e2
    BY <1>6, <1>10 DEF Replaced, EntryAt
  <2>5. e4 = IF a1 THEN Settled(e3) ELSE e3
    BY <1>8, <1>10 DEF Replaced, EntryAt
  <2>6. r.table[i][j] = IF u.predBank = 0 THEN e1 ELSE IF u.altpred = <<>> THEN e3 ELSE e4
    BY <1>1
  <2> HIDE DEF e, p1, a1, e1, e2, e3, e4
  <2>7. EntryTyped(e) /\ EntryTyped(e1) /\ EntryTyped(e2) /\ EntryTyped(e3)
    <3>1. EntryTyped(e)
      BY <2>1 DEF EntryInv
    <3>2. EntryTyped(e1)
      BY <3>1, <2>2, TrainedEntryTyped
    <3>3. EntryTyped(e2)
      BY <3>2, <2>3, TrainedEntryTyped
    <3>4. EntryTyped(e3)
      BY <3>3, <2>4, SettledEntryInv DEF EntryInv
    <3> QED BY <3>1, <3>2, <3>3, <3>4
  <2>8. CASE doubt /\ u.altpredBank > 0 /\ a1
    <3>1. u.predBank # 0 /\ u.altpred # <<>> /\ u.predDir # taken
      BY <2>8 DEF PredictionInv
    <3> QED BY <3>1, <2>8, <2>6, <2>5, <2>7, SettledEntryInv
  <2>9. CASE ~(doubt /\ u.altpredBank > 0 /\ a1)
    <3>1. e1 = e
      BY <2>2, <2>9
    <3>2. EntryInv(e3)
      BY <3>1, <2>1, <2>3, <2>4, <2>7, SettledEntryInv
    <3>3. EntryInv(e4)
      BY <3>2, <2>5, <2>7, SettledEntryInv
    <3>4. p1 => e3.counter = SignedInc(e.counter, taken, CWIDTH)
      BY <3>1, <2>3, <2>4, <2>7, TrainedEntryTyped, SettledEntryInv
    <3>5. e4.counter = e3.counter
      BY <2>5, <2>7, SettledEntryInv
    <3>6. EntryInv(r.table[i][j])
      BY <3>1, <3>2, <3>3, <2>1, <2>6
    <3>7. u.predBank > 0 /\ p1 => r.table[i][j].counter = SignedInc(e.counter, taken, CWIDTH)
      BY <3>4, <3>5, <2>6 DEF PredictionInv
    <3> QED BY <3>6, <3>7 DEF e, p1
  <2> QED BY <2>8, <2>9
<1>12. DOMAIN r.table = Tables /\ \A i \in Tables : DOMAIN r.table[i] = DOMAIN u.table[i]
  BY <1>1, <1>10
<1>13. TablesInv(r.table)
  BY <1>11, <1>12 DEF TablesInv
<1>14. u.predBank > 0 /\ u.predDir = taken =>
         \A i \in Tables : \A j \in DOMAIN u.table[i] :
           i = u.pred[1] /\ j = u.pred[2] =>
             r.table[i][j].counter = SignedInc(u.table[i][j].counter, taken, CWIDTH)
  BY <1>11
<1> QED BY <1>9, <1>12, <1>13, <1>14

(* While a prediction is being made and resolved, the direction predicted is *)
(* that of the entry it came from.                                           *)
ProviderInv(u) ==
  u.predBank > 0 =>
    \A i \in Tables : \A j \in DOMAIN u.table[i] :
      i = u.pred[1] /\ j = u.pred[2] => (u.predDir <=> u.table[i][j].counter >= 0)

(* Step 4 of an update, usefulness: only an entry that is decided gains.     *)
LEMMA UpdateUsefulInv ==
  ASSUME NEW u, NEW taken \in BOOLEAN, DOMAIN u = TageFields, TablesInv(u.table),
         u.predDir # u.altpredDir /\ u.predDir = taken =>
           \A i \in Tables : \A j \in DOMAIN u.table[i] :
             i = u.pred[1] /\ j = u.pred[2] => ~Unbiased(u.table[i][j].counter),
         NEW r, r = UpdateUseful(u, taken)
  PROVE  SamePrediction(u, r) /\ TablesInv(r.table)
<1>1. CASE ~(u.predDir # u.altpredDir /\ u.predDir = taken)
  <2>1. r = u
    BY <1>1 DEF UpdateUseful
  <2> QED BY <2>1 DEF SamePrediction
<1>2. CASE u.predDir # u.altpredDir /\ u.predDir = taken
  <2> DEFINE Gain(e) == [e EXCEPT !.useful = UnsignedInc(@, TRUE, UWIDTH)]
             w == u.pred
  <2>1. r = [u EXCEPT !.table[w[1]][w[2]].useful = UnsignedInc(@, TRUE, UWIDTH)]
    BY <1>2 DEF UpdateUseful
  <2>2. SamePrediction(u, r)
    BY <2>1 DEF SamePrediction, TageFields
  <2>3. r.table = [u.table EXCEPT ![w[1]][w[2]] = Gain(EntryAt(u, w))]
    BY <2>1 DEF TageFields, EntryAt
  <2>4. \A e : EntryTyped(e) /\ ~Unbiased(e.counter) => EntryInv(Gain(e))
    BY UsefulEntryInv
  <2> HIDE DEF Gain
  <2>5. Replaced(u.table, r.table, w, Gain(EntryAt(u, w)))
    BY <2>3, PutEntry DEF Replaced
  <2>6. ASSUME NEW i \in Tables, NEW j \in DOMAIN u.table[i] PROVE EntryInv(r.table[i][j])
    <3>1. EntryInv(u.table[i][j])
      BY DEF TablesInv
    <3>2. CASE i = w[1] /\ j = w[2]
      <4>1. r.table[i][j] = Gain(u.table[i][j]) /\ ~Unbiased(u.table[i][j].counter)
        BY <2>5, <3>2, <1>2 DEF Replaced, TablesInv, EntryAt
      <4> QED BY <4>1, <3>1, <2>4 DEF EntryInv
    <3>3. CASE ~(i = w[1] /\ j = w[2])
      BY <2>5, <3>1, <3>3 DEF Replaced, TablesInv
    <3> QED BY <3>2, <3>3
  <2>7. TablesInv(r.table)
    BY <2>5, <2>6 DEF TablesInv, Replaced
  <2> QED BY <2>2, <2>7
<1> QED BY <1>1, <1>2

(* The whole update.  Allocation may overwrite the entry that predicted: the *)
(* tables were perhaps dealt out anew since, and the victim cache restores   *)
(* to any history.                                                           *)
LEMMA TageUpdateInv ==
  ASSUME NEW u, NEW g, NEW hi, NEW pc, NEW taken \in BOOLEAN, NEW hop,
         DOMAIN u = TageFields, TablesInv(u.table), PredictionInv(u), ProviderInv(u),
         NEW r, r = TageUpdate(u, g, hi, pc, taken, hop)
  PROVE  SamePrediction(u, r) /\ TablesInv(r.table)
<1> DEFINE t0 == [u EXCEPT !.stats[u.usedBank].mispredictions = @ + Bit(u.tagePred # taken)]
           t1 == UpdateAlt(t0, pc, taken)
           t2 == IF Allocates(t0, taken) THEN Allocate(t1, g, hi, pc, taken, hop) ELSE t1
           t3 == UpdateCounters(t2, pc, taken)
<1>1. r = UpdateUseful(t3, taken)
  BY DEF TageUpdate
<1>2. SamePrediction(u, t0) /\ t0.table = u.table
  BY DEF SamePrediction, TageFields
<1> HIDE DEF t0
<1>3. SamePrediction(t0, t1) /\ t1.table = u.table
  BY <1>2, UpdateAltInv DEF SamePrediction
<1> HIDE DEF t1
<1>4. /\ SamePrediction(t1, t2) /\ TablesInv(t2.table)
      /\ \A i \in Tables :
           /\ DOMAIN t2.table[i] = DOMAIN u.table[i]
           /\ \A j \in DOMAIN u.table[i] :
                t2.table[i][j].counter \in {u.table[i][j].counter, Reset(taken)}
  <2>1. DOMAIN t1 = TageFields /\ TablesInv(t1.table)
    BY <1>3 DEF SamePrediction
  <2>2. CASE Allocates(t0, taken)
    <3>1. t2 = Allocate(t1, g, hi, pc, taken, hop)
      BY <2>2
    <3> HIDE DEF t2
    <3> QED BY <1>3, <2>1, <3>1, AllocateInv
  <2>3. CASE ~Allocates(t0, taken)
    BY <1>3, <2>1, <2>3 DEF SamePrediction
  <2> QED BY <2>2, <2>3
<1> HIDE DEF t2
<1>5. SamePrediction(u, t2)
  BY <1>2, <1>3, <1>4 DEF SamePrediction
<1>6. PredictionInv(t2) /\ DOMAIN t2 = TageFields
  BY <1>5 DEF PredictionInv, SamePrediction
<1>7. /\ SamePrediction(t2, t3) /\ TablesInv(t3.table)
      /\ \A i \in Tables : DOMAIN t3.table[i] = DOMAIN t2.table[i]
      /\ t2.predBank > 0 /\ t2.predDir = taken =>
           \A i \in Tables : \A j \in DOMAIN t2.table[i] :
             i = t2.pred[1] /\ j = t2.pred[2] =>
               t3.table[i][j].counter = SignedInc(t2.table[i][j].counter, taken, CWIDTH)
  BY <1>4, <1>6, UpdateCountersInv
<1> HIDE DEF t3
<1>8. SamePrediction(u, t3)
  BY <1>5, <1>7 DEF SamePrediction
<1>9. ASSUME t3.predDir # t3.altpredDir, t3.predDir = taken,
             NEW i \in Tables, NEW j \in DOMAIN t3.table[i], i = t3.pred[1], j = t3.pred[2]
      PROVE  ~Unbiased(t3.table[i][j].counter)
  <2>1. u.predBank > 0 /\ u.predDir = taken /\ i = u.pred[1] /\ j = u.pred[2]
    BY <1>8, <1>9 DEF SamePrediction, PredictionInv
  <2>2. j \in DOMAIN u.table[i] /\ j \in DOMAIN t2.table[i]
    BY <1>4, <1>7
  <2>3. t3.table[i][j].counter = SignedInc(t2.table[i][j].counter, taken, CWIDTH)
    BY <1>5, <1>7, <2>1, <2>2 DEF SamePrediction
  <2>4. u.table[i][j].counter \in Int /\ t2.table[i][j].counter \in Int
    BY <1>4, <2>2 DEF TablesInv, EntryInv, EntryTyped
  <2>5. taken <=> u.table[i][j].counter >= 0
    BY <2>1, <2>2 DEF ProviderInv
  <2>6. taken <=> t2.table[i][j].counter >= 0
    <3>1. CASE t2.table[i][j].counter = u.table[i][j].counter
      BY <2>5, <3>1
    <3>2. CASE t2.table[i][j].counter = Reset(taken)
      BY <3>2 DEF Reset
    <3> QED BY <1>4, <2>2, <3>1, <3>2
  <2>7. CASE taken
    BY <2>3, <2>4, <2>6, <2>7, SignedIncMoves
  <2>8. CASE ~taken
    BY <2>3, <2>4, <2>6, <2>8, SignedIncMoves
  <2> QED BY <2>7, <2>8
<1>10. DOMAIN t3 = TageFields
  BY <1>7 DEF SamePrediction
<1>11. SamePrediction(t3, r) /\ TablesInv(r.table)
  BY <1>1, <1>7, <1>9, <1>10, UpdateUsefulInv
<1> QED BY <1>8, <1>11 DEF SamePrediction

(* The greatest of some numbers up to n. *)
LEMMA GreatestNumber ==
  ASSUME NEW n \in Nat, NEW S \in SUBSET (0 .. n), S # {}
  PROVE  Max(S) \in S
<1> DEFINE R == {n - k : k \in S}
<1>1. R \in SUBSET Nat /\ R # {}
  <2>1. \A k \in S : n - k \in Nat
    OBVIOUS
  <2>2. PICK k \in S : TRUE
    OBVIOUS
  <2>3. n - k \in R
    OBVIOUS
  <2> QED BY <2>1, <2>3
<1>2. PICK i \in R : \A j \in R : i <= j
  BY <1>1, LeastNumber
<1>3. PICK x \in S : i = n - x
  OBVIOUS
<1>4. ASSUME NEW y \in S PROVE x >= y
  <2>1. n - y \in R
    OBVIOUS
  <2>2. i <= n - y
    BY <1>2, <2>1
  <2> QED BY <1>3, <2>2
<1>5. \E z \in S : \A y \in S : z >= y
  BY <1>4
<1> QED BY <1>5 DEF Max

(* A prediction from given entries. *)
LEMMA PredictFromInv ==
  ASSUME NEW u, NEW pc, NEW pb \in Nat, NEW ab \in Nat, NEW pw, NEW aw,
         DOMAIN u = TageFields, ab > 0 => aw # <<>>,
         NEW r, r = PredictFrom(u, pc, pb, ab, pw, aw)
  PROVE  /\ DOMAIN r = TageFields /\ r.table = u.table
         /\ PredictionInv(r) /\ ProviderInv(r)
<1> DEFINE v == BimodalValue(u.bim, pc)
           ctr == EntryAt(u, pw).counter
           predDir == IF pb = 0 THEN v >= 2 ELSE ctr >= 0
           altDir == IF ab = 0 THEN v >= 2 ELSE EntryAt(u, aw).counter >= 0
           useAlt == u.alt[FarBank(pb)][AltIndex(pc, predDir)] >= 0 /\ pb # 0 /\ Unbiased(ctr)
           high == IF pb = 0 THEN v \in {0, 3}
                   ELSE 2 * ctr + 1 >= 2^CWIDTH - 1 \/ -(2 * ctr + 1) >= 2^CWIDTH - 1
<1>1. r = [u EXCEPT !.predBank = pb, !.altpredBank = ab, !.pred = pw, !.altpred = aw,
               !.predDir = predDir, !.altpredDir = IF pb = 0 THEN predDir ELSE altDir,
               !.tagePred = IF useAlt THEN altDir ELSE predDir,
               !.usedBank = IF useAlt THEN ab ELSE pb,
               !.highConfidence = high]
  BY DEF PredictFrom
<1>2. pb > 0 => (predDir <=> EntryAt(u, pw).counter >= 0)
  OBVIOUS
<1> HIDE DEF v, ctr, predDir, altDir, useAlt, high
<1>3. /\ DOMAIN r = TageFields /\ r.table = u.table
      /\ r.predBank = pb /\ r.altpredBank = ab /\ r.pred = pw /\ r.altpred = aw
      /\ r.predDir = predDir /\ r.altpredDir = IF pb = 0 THEN predDir ELSE altDir
  BY <1>1 DEF TageFields
<1>4. PredictionInv(r)
  BY <1>3 DEF PredictionInv
<1>5. ProviderInv(r)
  BY <1>2, <1>3 DEF ProviderInv, EntryAt
<1> QED BY <1>3, <1>4, <1>5

(* The longest match predicts, and the next one is its alternative. *)
LEMMA TagePredictInv ==
  ASSUME NEW u, NEW g, NEW hi, NEW pc, DOMAIN u = TageFields,
         NEW r, r = TagePredict(u, g, hi, pc)
  PROVE  /\ DOMAIN r = TageFields /\ r.table = u.table
         /\ PredictionInv(r) /\ ProviderInv(r)
<1> PICK match : match = [b \in Histories |-> getMatch(u, g, hi, pc, b)]
  OBVIOUS
<1> DEFINE Best1(banks) == Max({0} \cup {b \in banks : match[b] # <<>>})
           MatchOf(b) == IF b = 0 THEN <<>> ELSE match[b]
           pb == Best1(Histories)
           ab == Best1({b \in Histories : b < pb})
<1>1. r = PredictFrom(u, pc, pb, ab, MatchOf(pb), MatchOf(ab))
  BY DEF TagePredict, LongestMatch
<1>2. ASSUME NEW banks \in SUBSET Histories
      PROVE  Best1(banks) \in Nat /\ (Best1(banks) > 0 => match[Best1(banks)] # <<>>)
  <2> DEFINE S == {0} \cup {b \in banks : match[b] # <<>>}
  <2>1. S \in SUBSET (0 .. NHIST) /\ S # {}
    <3>1. \A b \in Histories : b \in 0 .. NHIST
      BY HistoriesCounted DEF Histories
    <3>2. 0 \in S /\ 0 \in 0 .. NHIST
      BY HistoriesCounted
    <3>3. \A b \in S : b = 0 \/ b \in Histories
      OBVIOUS
    <3> QED BY <3>1, <3>2, <3>3
  <2>2. Max(S) \in S
    BY <2>1, HistoriesCounted, GreatestNumber
  <2>3. Max(S) \in Nat
    BY <2>1, <2>2, HistoriesCounted
  <2> QED BY <2>2, <2>3
<1>3. pb \in Nat
  BY <1>2
<1>4. ab \in Nat /\ (ab > 0 => MatchOf(ab) # <<>>)
  <2>1. {b \in Histories : b < pb} \in SUBSET Histories
    OBVIOUS
  <2> HIDE DEF Best1, pb
  <2> QED BY <1>2, <2>1
<1> HIDE DEF pb, ab, MatchOf
<1> QED BY <1>1, <1>3, <1>4, PredictFromInv

(* The prediction is kept when a period ends with it. *)
LEMMA HpsPredictInv ==
  ASSUME NEW u, NEW co, NEW hi, NEW pc, DOMAIN u = TageFields, TablesInv(u.table),
         NEW r, r = HpsPredict(u, co, hi, pc).t
  PROVE  /\ DOMAIN r = TageFields /\ TablesInv(r.table)
         /\ PredictionInv(r) /\ ProviderInv(r)
<1> PICK q : q = TagePredict(u, Groups(co), hi, pc)
  OBVIOUS
<1>1. DOMAIN q = TageFields /\ q.table = u.table /\ PredictionInv(q) /\ ProviderInv(q)
  BY TagePredictInv
<1>2. r = q \/ \E k : r = MoveVictims(q, k)
  BY DEF HpsPredict, EndPrediction
<1>3. CASE r = q
  BY <1>1, <1>3
<1>4. ASSUME NEW k, r = MoveVictims(q, k)
      PROVE  SamePrediction(q, r) /\ r.table = q.table
  BY <1>1, <1>4 DEF MoveVictims, SamePrediction, TageFields
<1>5. CASE SamePrediction(q, r) /\ r.table = q.table
  BY <1>1, <1>5 DEF SamePrediction, PredictionInv, ProviderInv
<1> QED BY <1>2, <1>3, <1>4, <1>5

(* The inductive invariant of the tables. *)
TageInv ==
  /\ DOMAIN t = TageFields
  /\ TablesInv(t.table)
  /\ phase = "predicted" /\ prog.submission = "Hps" => PredictionInv(t) /\ ProviderInv(t)

(* The outcomes of a branch are taken and not taken. *)
LEMMA OutcomesBoolean == \A taken \in Outcomes : taken \in BOOLEAN
  BY DEF Outcomes

(* What a step of either submission does to TAGE. *)
LEMMA TageInvStep == TageInv /\ [Next]_vars => TageInv'
<1> SUFFICES ASSUME TageInv, [Next]_vars PROVE TageInv'
  OBVIOUS
<1>1. CASE prog.submission = "Hps" /\ HpsNext /\ UNCHANGED mppState
  <2>1. ASSUME NEW pc, GetPrediction(pc) PROVE TageInv'
    <3>1. t' = HpsPredict(t, c, h, pc).t
      BY <2>1 DEF GetPrediction
    <3>2. PICK r : r = HpsPredict(t, c, h, pc).t
      OBVIOUS
    <3>3. DOMAIN r = TageFields /\ TablesInv(r.table) /\ PredictionInv(r) /\ ProviderInv(r)
      BY <3>2, HpsPredictInv DEF TageInv
    <3> QED BY <3>1, <3>2, <3>3 DEF TageInv
  <2>2. ASSUME NEW pc, NEW kind, NEW taken \in Outcomes, NEW target,
               UpdatePredictor(pc, kind, taken, target)
        PROVE  TageInv'
    <3>1. t' = TageUpdate(t, Groups(c), h, pc, taken, Draw.hop) /\ phase = "predicted" /\ phase' = "idle"
      BY <2>2 DEF UpdatePredictor, UpdateTageAndCorrector
    <3>2. PICK r : r = TageUpdate(t, Groups(c), h, pc, taken, Draw.hop)
      OBVIOUS
    <3>3. SamePrediction(t, r) /\ TablesInv(r.table)
      BY <1>1, <3>1, <3>2, TageUpdateInv, OutcomesBoolean DEF TageInv
    <3> QED BY <3>1, <3>2, <3>3 DEF TageInv, SamePrediction
  <2>3. ASSUME NEW pc, NEW kind, NEW target, TrackOtherInst(pc, kind, target)
        PROVE  TageInv'
    BY <2>3 DEF TrackOtherInst, TageInv
  <2> QED BY <1>1, <2>1, <2>2, <2>3 DEF HpsNext
<1>2. CASE prog.submission = "Mpp" /\ MppNext /\ UNCHANGED hpsState
  <2>1. t' = t
    BY <1>2 DEF hpsState
  <2>2. prog' = prog
    BY <1>2 DEF MppNext, Punt, Fetch, Resolve, FollowJump, lookup, update, nonconditional_branch
  <2> QED BY <1>2, <2>1, <2>2 DEF TageInv, TablesInv
<1>3. CASE UNCHANGED vars
  BY <1>3 DEF vars, flow, hpsState, TageInv, TablesInv
<1> QED BY <1>1, <1>2, <1>3 DEF Next

(* The tables hold new entries at the start. *)
LEMMA TageInvInit == Init => TageInv
<1> SUFFICES ASSUME Init PROVE TageInv
  OBVIOUS
<1>1. t = NewTage /\ phase = "idle"
  BY DEF Init, HpsInit, FlowInit
<1>2. DOMAIN t = TageFields
  BY <1>1 DEF NewTage, TageFields
<1>3. t.table = [i \in Tables |-> [j \in 0 .. 2^LOG_TABLE_SIZE - 1 |-> NewEntry]]
  BY <1>1 DEF NewTage
<1>4. TablesInv(t.table)
  BY <1>3, NewEntryInv DEF TablesInv
<1> QED BY <1>1, <1>2, <1>4 DEF TageInv

(* An entry of the tables with a full useful counter over an undecided       *)
(* prediction was allocated and not trained since, for every number and size *)
(* of tables, width of counters and history lengths: neither training in two *)
(* roles, ageing, restoring from the victim cache nor a reconfiguration      *)
(* between prediction and update gives a trained entry that mark.            *)
THEOREM UnusedEntriesFresh == Spec => []UnusedIsFresh
<1>1. TageInv => UnusedIsFresh
  BY DEF TageInv, TablesInv, EntryInv, UnusedIsFresh
<1> QED BY <1>1, TageInvInit, TageInvStep, PTL DEF Spec

----------------------------------------------------------------------------
(* The counters the correctors read and train.                              *)

CorrectorFields ==
  {"L_shist", "S_slhist", "T_slhist", "HSTACK", "pthstack", "Pupdatethreshold", "confidence",
   "LSUM", "read", "trained"}
PerceptronFields == CorrectorFields \cup {"GHIST", "pred_inter"}

(* The histories move, the counters read and trained stay. *)
LEMMA CorrectorHistoriesKeep ==
  ASSUME NEW s, NEW pc, NEW kind, NEW taken, NEW target, DOMAIN s = CorrectorFields,
         NEW r, r = CorrectorHistories(s, pc, kind, taken, target)
  PROVE  DOMAIN r = CorrectorFields /\ r.read = s.read /\ r.trained = s.trained
BY DEF CorrectorHistories, CorrectorFields

(* What is trained is computed from the histories as they are before the     *)
(* update.                                                                   *)
LEMMA CorrectorUpdateTrains ==
  ASSUME NEW s, NEW hi, NEW pc, NEW kind, NEW taken, NEW target, NEW pred, NEW confident,
         DOMAIN s = CorrectorFields,
         NEW r, r = CorrectorUpdate(s, hi, pc, kind, taken, target, pred, confident)
  PROVE  /\ DOMAIN r = CorrectorFields /\ r.read = s.read
         /\ r.trained \in {s.trained, GehlCounters(s, hi, pc, pred)}
<1> DEFINE z == Zone(s, pc)
           wrong == SCPRED(s) # taken
           u == INDUPD(pc)
           trains == wrong \/ Abs(s.LSUM) < s.Pupdatethreshold[u]
           s1 == IF pred # SCPRED(s) /\ confident /\ z # 0
                 THEN [s EXCEPT !.confidence[z] = SignedInc(@, taken = pred, CONFWIDTH)] ELSE s
           s2 == IF trains
                 THEN [s1 EXCEPT !.Pupdatethreshold[u] =
                                   Clamp(IF wrong THEN @ + 1 ELSE @ - 1, 0, THRESHOLDMAX),
                                 !.trained = GehlCounters(s, hi, pc, pred)]
                 ELSE s1
<1>1. r = CorrectorHistories(s2, pc, kind, taken, target)
  BY DEF CorrectorUpdate
<1> HIDE DEF z, wrong, u, trains
<1>2. DOMAIN s1 = CorrectorFields /\ s1.read = s.read /\ s1.trained = s.trained
  BY DEF CorrectorFields
<1> HIDE DEF s1
<1>3. /\ DOMAIN s2 = CorrectorFields /\ s2.read = s.read
      /\ s2.trained \in {s.trained, GehlCounters(s, hi, pc, pred)}
  BY <1>2 DEF CorrectorFields
<1> HIDE DEF s2
<1> QED BY <1>1, <1>3, CorrectorHistoriesKeep

(* A prediction remembers what it read, and reads what the histories say.    *)
LEMMA CorrectorPredictReads ==
  ASSUME NEW s, NEW hi, NEW pc, NEW pred, NEW lsum, DOMAIN s = CorrectorFields,
         NEW r, r = CorrectorPredict(s, hi, pc, pred, lsum)
  PROVE  /\ DOMAIN r = CorrectorFields /\ r.trained = {}
         /\ r.read = GehlCounters(r, hi, pc, pred)
<1>1. /\ DOMAIN r = CorrectorFields /\ r.trained = {}
      /\ r.read = GehlCounters(s, hi, pc, pred)
      /\ r.L_shist = s.L_shist /\ r.S_slhist = s.S_slhist /\ r.T_slhist = s.T_slhist
      /\ r.HSTACK = s.HSTACK /\ r.pthstack = s.pthstack
  BY DEF CorrectorPredict, CorrectorFields
<1> QED BY <1>1 DEF GehlCounters

(* Only the counters indexed with the prediction depend on it. *)
LEMMA CountersByPrediction ==
  ASSUME NEW s, NEW hi, NEW pc, NEW pred, NEW other,
         NEW x \in GehlCounters(s, hi, pc, pred) \ GehlCounters(s, hi, pc, other)
  PROVE  pred # other /\ x[1] \in {"Bias", "BiasSK", "GGEHL"}
BY DEF GehlCounters

(* The update of the loop predictor keeps what it predicted. *)
LEMMA LoopUpdateKeeps ==
  ASSUME NEW lp, NEW pc, NEW taken, NEW tagePred, NEW allocate, NEW rnd, DOMAIN lp = LoopFields
  PROVE  LoopUpdate(lp, pc, taken, tagePred, allocate, rnd).pred = lp.pred
BY DEF LoopUpdate, LoopFields

(* The perceptron of DanielJimenez2/cbp64KB. *)
LEMMA UpdateLocalKeeps ==
  ASSUME NEW s, NEW pc, NEW kind, NEW taken, NEW target, DOMAIN s = PerceptronFields,
         NEW r, r = UpdateLocal(s, pc, kind, taken, target)
  PROVE  DOMAIN r = PerceptronFields /\ r.read = s.read /\ r.trained = s.trained
<1> DEFINE q == s.pthstack
           up == (q + 1) % 2^logHSTACKSIZE
           top == Low((2 * s.HSTACK[q]) ^^ ((target ^^ (target \div 32)) ^^ Bit(taken)), HISTBITS)
           L == INDLOCAL(HASHPC(pc))
           S == INDSLOCAL(pc)
           called == [s EXCEPT !.HSTACK[q] = top, !.pthstack = IF "ret" \in kind THEN (q - 1) % 2^logHSTACKSIZE
                                                               ELSE IF "call" \in kind THEN up ELSE @]
           moved == IF "call" \in kind THEN [called EXCEPT !.HSTACK[up] = top] ELSE called
           pushed == [moved EXCEPT !.GHIST = Push(@, Bit(taken)), !.L_shist[L] = Push(@, Bit(taken)),
                          !.S_slhist[S] = Push(@, Bit(taken)) ^^ (HASHPC(pc) % 16),
                          !.T_slhist[INDTLOCAL(pc)] = Push(@, Bit(taken))]
<1>1. r = IF "cond" \notin kind THEN moved ELSE pushed
  BY DEF UpdateLocal
<1> HIDE DEF q, up, top, L, S
<1>2. DOMAIN called = PerceptronFields /\ called.read = s.read /\ called.trained = s.trained
  BY DEF PerceptronFields, CorrectorFields
<1> HIDE DEF called
<1>3. DOMAIN moved = PerceptronFields /\ moved.read = s.read /\ moved.trained = s.trained
  BY <1>2 DEF PerceptronFields, CorrectorFields
<1> HIDE DEF moved
<1>4. DOMAIN pushed = PerceptronFields /\ pushed.read = s.read /\ pushed.trained = s.trained
  BY <1>3 DEF PerceptronFields, CorrectorFields
<1> HIDE DEF pushed
<1> QED BY <1>1, <1>3, <1>4

(* What it trains is computed from the features and histories as they are    *)
(* before the update.                                                        *)
LEMMA UpdatePerceptronTrains ==
  ASSUME NEW s, NEW ft, NEW pc, NEW taken, NEW confident, DOMAIN s = PerceptronFields,
         NEW r, r = UpdatePerceptron(s, ft, pc, taken, confident)
  PROVE  /\ DOMAIN r = PerceptronFields /\ r.read = s.read
         /\ r.trained \in {s.trained, Counters(s, ft, pc)}
<1> DEFINE u == INDUPD(HASHPC(pc))
           z == Zone(s, HASHPC(pc))
           wrong == SCPRED(s) # taken
           s1 == IF s.pred_inter # SCPRED(s) /\ confident /\ z # 0
                 THEN [s EXCEPT !.confidence[z] = SignedInc(@, taken = s.pred_inter, CONFWIDTH)] ELSE s
           s2 == [s1 EXCEPT !.Pupdatethreshold[u] = Clamp(IF wrong THEN @ + 1 ELSE @ - 1, 0, THRESHOLDMAX),
                            !.trained = Counters(s, ft, pc)]
<1>1. r = IF wrong \/ Abs(s.LSUM) < s.Pupdatethreshold[u] THEN s2 ELSE s1
  BY DEF UpdatePerceptron
<1> HIDE DEF z, wrong, u
<1>2. DOMAIN s1 = PerceptronFields /\ s1.read = s.read /\ s1.trained = s.trained
  BY DEF PerceptronFields, CorrectorFields
<1> HIDE DEF s1
<1>3. DOMAIN s2 = PerceptronFields /\ s2.read = s.read /\ s2.trained = Counters(s, ft, pc)
  BY <1>2 DEF PerceptronFields, CorrectorFields
<1> HIDE DEF s2
<1> QED BY <1>1, <1>2, <1>3

(* Between a prediction and its update nothing that an index is computed     *)
(* from moves.                                                               *)
ReadsInv ==
  /\ DOMAIN sc = CorrectorFields /\ DOMAIN l = LoopFields
  /\ prog.submission = "Hps" /\ phase = "predicted" =>
       /\ sc.trained = {}
       /\ sc.read = GehlCounters(sc, h, at, IF loopUsed THEN l.pred ELSE t.tagePred)
  /\ DOMAIN p = PerceptronFields
  /\ prog.submission = "Mpp" /\ phase = "predicted" /\ ~punting =>
       p.trained = {} /\ p.read = Counters(p, f, at)
  /\ TrainsItsReads

(* The steps of StephenPruett/cbp64KB. *)
LEMMA HpsReadsStep ==
  ASSUME ReadsInv, TageInv, prog.submission = "Hps", HpsNext, UNCHANGED mppState
  PROVE  ReadsInv'
<1>1. p' = p /\ f' = f /\ punting' = punting
  BY DEF mppState
<1>2. prog' = prog
  BY DEF HpsNext, GetPrediction, UpdatePredictor, TrackOtherInst, Fetch, Resolve, FollowJump
<1>3. DOMAIN p' = PerceptronFields /\ p'.trained \subseteq p'.read /\ prog'.submission = "Hps"
  BY <1>1, <1>2 DEF ReadsInv, TrainsItsReads
<1>4. CASE GetPrediction(at)
  <2> PICK before : before = IF loopUsed' THEN l'.pred ELSE t'.tagePred
    OBVIOUS
  <2>1. /\ sc' = CorrectorPredict(sc, h, at, before, Draw.lsum)
        /\ l' = LoopPredict(l, at) /\ h' = h /\ at' = at
    BY <1>4 DEF GetPrediction, Fetch
  <2>2. DOMAIN l' = LoopFields
    BY <2>1 DEF LoopPredict, LoopFields, ReadsInv
  <2>3. /\ DOMAIN sc' = CorrectorFields /\ sc'.trained = {}
        /\ sc'.read = GehlCounters(sc', h, at, before)
    BY <2>1, CorrectorPredictReads DEF ReadsInv
  <2>4. TrainsItsReads'
    BY <2>3, <1>3 DEF TrainsItsReads
  <2> QED BY <1>3, <2>1, <2>2, <2>3, <2>4 DEF ReadsInv
<1>5. ASSUME NEW kind, NEW taken \in Outcomes, NEW target, UpdatePredictor(at, kind, taken, target)
      PROVE  ReadsInv'
  <2>1. /\ phase = "predicted" /\ phase' = "idle" /\ loopUsed' = loopUsed
        /\ sc' = CorrectorUpdate(sc, h, at, kind, taken, target, t.tagePred, t.highConfidence)
        /\ t' = TageUpdate(t, Groups(c), h, at, taken, Draw.hop)
    BY <1>5 DEF UpdatePredictor, UpdateTageAndCorrector
  <2>2. DOMAIN l' = LoopFields /\ l'.pred = l.pred
    <3>1. \E lp, tagePred, allocate, rnd :
             /\ lp = l \/ \E w : lp = [l EXCEPT !.withLoop = w]
             /\ l' = LoopUpdate(lp, at, taken, tagePred, allocate, rnd)
      BY <1>5 DEF UpdatePredictor
    <3>2. PICK lp, tagePred, allocate, rnd :
             /\ lp = l \/ \E w : lp = [l EXCEPT !.withLoop = w]
             /\ l' = LoopUpdate(lp, at, taken, tagePred, allocate, rnd)
      BY <3>1
    <3>3. DOMAIN lp = LoopFields /\ lp.pred = l.pred
      BY <3>2 DEF ReadsInv, LoopFields
    <3>4. DOMAIN LoopUpdate(lp, at, taken, tagePred, allocate, rnd) = LoopFields
      BY <3>3 DEF LoopUpdate, LoopFields
    <3> QED BY <3>2, <3>3, <3>4, LoopUpdateKeeps
  <2>3. t'.tagePred = t.tagePred
    <3>1. PICK r : r = TageUpdate(t, Groups(c), h, at, taken, Draw.hop)
      OBVIOUS
    <3>2. SamePrediction(t, r)
      BY <2>1, <3>1, TageUpdateInv, OutcomesBoolean DEF TageInv
    <3> QED BY <2>1, <3>1, <3>2 DEF SamePrediction
  <2> PICK before : before = IF loopUsed THEN l.pred ELSE t.tagePred
    OBVIOUS
  <2>4. /\ DOMAIN sc' = CorrectorFields /\ sc'.read = GehlCounters(sc, h, at, before)
        /\ sc'.trained \in {{}, GehlCounters(sc, h, at, t.tagePred)}
    BY <2>1, CorrectorUpdateTrains DEF ReadsInv
  <2>5. ASSUME NEW x \in sc'.trained \ sc'.read
        PROVE  loopUsed' /\ l'.pred # t'.tagePred /\ x[1] \in {"Bias", "BiasSK", "GGEHL"}
    <3>1. x \in GehlCounters(sc, h, at, t.tagePred) \ GehlCounters(sc, h, at, before)
      BY <2>4, <2>5
    <3>2. t.tagePred # before /\ x[1] \in {"Bias", "BiasSK", "GGEHL"}
      BY <3>1, CountersByPrediction
    <3> QED BY <3>2, <2>1, <2>2, <2>3
  <2>6. TrainsItsReads'
    BY <2>5, <1>3 DEF TrainsItsReads
  <2> QED BY <1>3, <2>1, <2>2, <2>4, <2>6 DEF ReadsInv
<1>6. ASSUME NEW kind, NEW target, TrackOtherInst(at, kind, target) PROVE ReadsInv'
  <2>1. /\ phase' = "idle" /\ l' = l /\ t' = t /\ loopUsed' = loopUsed
        /\ sc' = CorrectorHistories(sc, at, kind, TRUE, target)
    BY <1>6 DEF TrackOtherInst
  <2>2. DOMAIN sc' = CorrectorFields /\ sc'.read = sc.read /\ sc'.trained = sc.trained
    <3>1. DOMAIN sc = CorrectorFields
      BY DEF ReadsInv
    <3>0. PICK taken : taken = TRUE
      OBVIOUS
    <3>2. PICK r : r = CorrectorHistories(sc, at, kind, taken, target)
      OBVIOUS
    <3>3. DOMAIN r = CorrectorFields /\ r.read = sc.read /\ r.trained = sc.trained
      BY <3>1, <3>2, CorrectorHistoriesKeep
    <3> QED BY <2>1, <3>0, <3>2, <3>3
  <2>3. TrainsItsReads'
    BY <2>1, <2>2, <1>1 DEF ReadsInv, TrainsItsReads
  <2> QED BY <1>3, <2>1, <2>2, <2>3 DEF ReadsInv
<1> QED BY <1>4, <1>5, <1>6 DEF HpsNext

(* The steps of DanielJimenez2/cbp64KB. *)
LEMMA MppReadsStep ==
  ASSUME ReadsInv, prog.submission = "Mpp", MppNext, UNCHANGED hpsState
  PROVE  ReadsInv'
<1>1. sc' = sc /\ l' = l /\ t' = t /\ loopUsed' = loopUsed
  BY DEF hpsState
<1>2. prog' = prog
  BY DEF MppNext, Punt, Fetch, Resolve, FollowJump, lookup, update, nonconditional_branch
<1>3. /\ prog'.submission = "Mpp" /\ DOMAIN sc' = CorrectorFields /\ DOMAIN l' = LoopFields
      /\ \A x \in sc'.trained \ sc'.read : /\ loopUsed' /\ l'.pred # t'.tagePred
                                           /\ x[1] \in {"Bias", "BiasSK", "GGEHL"}
  BY <1>1, <1>2 DEF ReadsInv, TrainsItsReads
<1>4. CASE punting /\ Punt
  <2>1. p' = p /\ punting'
    BY <1>4 DEF Punt, mppState
  <2> QED BY <1>3, <2>1 DEF ReadsInv, TrainsItsReads
<1>5. CASE lookup(at)
  <2>i. PICK inter : inter = IF loops'.WITHLOOP >= 0 /\ loops'.LVALID THEN loops'.predloop
                           ELSE tagged'.tage_pred
    OBVIOUS
  <2>l. PICK lsum : lsum = Draw.lsum
    OBVIOUS
  <2>0. PICK s : s = [p EXCEPT !.pred_inter = inter, !.LSUM = lsum]
    OBVIOUS
  <2>1. p' = [s EXCEPT !.read = Counters(s, f, at), !.trained = {}] /\ f' = f /\ at' = at
    BY <1>5, <2>0, <2>i, <2>l DEF lookup, Fetch
  <2>2. DOMAIN p' = PerceptronFields /\ p'.trained = {} /\ p'.read = Counters(p', f, at)
    <3>1. DOMAIN p = PerceptronFields
      BY DEF ReadsInv
    <3>2. PICK r : r = [s EXCEPT !.read = Counters(s, f, at), !.trained = {}]
      OBVIOUS
    <3>3. DOMAIN r = PerceptronFields /\ r.trained = {} /\ r.read = Counters(r, f, at)
      <4>1. DOMAIN s = PerceptronFields
        BY <2>0, <3>1 DEF PerceptronFields, CorrectorFields
      <4>2. PICK read : read = Counters(s, f, at)
        OBVIOUS
      <4>3. r = [s EXCEPT !.read = read, !.trained = {}]
        BY <3>2, <4>2
      <4>4. /\ DOMAIN r = PerceptronFields /\ r.trained = {} /\ r.read = read
            /\ r.L_shist = s.L_shist /\ r.S_slhist = s.S_slhist /\ r.T_slhist = s.T_slhist
            /\ r.HSTACK = s.HSTACK /\ r.pthstack = s.pthstack
            /\ r.pred_inter = s.pred_inter /\ r.GHIST = s.GHIST
        BY <4>1, <4>3 DEF PerceptronFields, CorrectorFields
      <4> QED BY <4>2, <4>4 DEF Counters
    <3> QED BY <2>1, <3>2, <3>3
  <2> QED BY <1>3, <2>1, <2>2 DEF ReadsInv, TrainsItsReads
<1>6. ASSUME ~punting, NEW taken, NEW target, update(at, taken, target) PROVE ReadsInv'
  <2> PICK s : s = UpdatePerceptron(p, f, at, taken, tagged.HighConf)
    OBVIOUS
  <2>1. /\ phase = "predicted" /\ phase' = "idle"
        /\ p' = UpdateLocal(s, at, {"cond"}, taken, target)
    BY <1>6 DEF update, TrainPerceptron
  <2>2. /\ DOMAIN s = PerceptronFields /\ s.read = Counters(p, f, at)
        /\ s.trained \in {{}, Counters(p, f, at)}
    BY <1>6, <2>1, UpdatePerceptronTrains DEF ReadsInv
  <2>3. DOMAIN p' = PerceptronFields /\ p'.trained \subseteq p'.read
    BY <2>1, <2>2, UpdateLocalKeeps
  <2> QED BY <1>3, <2>1, <2>3 DEF ReadsInv, TrainsItsReads
<1>7. ASSUME NEW kind, NEW target, nonconditional_branch(at, kind, target) PROVE ReadsInv'
  <2>1. phase' = "idle" /\ p' = UpdateLocal(p, at, kind, TRUE, target)
    BY <1>7 DEF nonconditional_branch
  <2>2. DOMAIN p' = PerceptronFields /\ p'.trained \subseteq p'.read
    <3>1. DOMAIN p = PerceptronFields /\ p.trained \subseteq p.read
      BY DEF ReadsInv, TrainsItsReads
    <3>0. PICK taken : taken = TRUE
      OBVIOUS
    <3>2. PICK r : r = UpdateLocal(p, at, kind, taken, target)
      OBVIOUS
    <3>3. DOMAIN r = PerceptronFields /\ r.trained \subseteq r.read
      BY <3>1, <3>2, UpdateLocalKeeps
    <3> QED BY <2>1, <3>0, <3>2, <3>3
  <2> QED BY <1>3, <2>1, <2>2 DEF ReadsInv, TrainsItsReads
<1> QED BY <1>4, <1>5, <1>6, <1>7 DEF MppNext

(* Nothing is read or trained at the start. *)
LEMMA ReadsInvInit == Init => ReadsInv
<1> SUFFICES ASSUME Init PROVE ReadsInv
  OBVIOUS
<1>1. sc = NewCorrector /\ l = NewLoop /\ p = NewPerceptron /\ phase = "idle"
  BY DEF Init, HpsInit, FlowInit, MppInit
<1>2. DOMAIN sc = CorrectorFields /\ sc.trained = {} /\ DOMAIN l = LoopFields
  BY <1>1 DEF NewCorrector, NewLoop, CorrectorFields, LoopFields
<1>3. DOMAIN p = PerceptronFields /\ p.trained = {}
  <2>1. DOMAIN NewCorrector = CorrectorFields /\ NewCorrector.trained = {}
    BY DEF NewCorrector, CorrectorFields
  <2> QED BY <1>1, <2>1 DEF NewPerceptron, PerceptronFields, CorrectorFields
<1> QED BY <1>1, <1>2, <1>3 DEF ReadsInv, TrainsItsReads

(* Both correctors train exactly what they read, except that Pruett's trains *)
(* other counters of three tables when the prediction it corrected was the   *)
(* loop predictor's: for every geometry of tables and histories, every       *)
(* program and every random draw.                                            *)
THEOREM CorrectorsTrainTheirReads == Spec => []TrainsItsReads
<1>1. Init => ReadsInv /\ TageInv
  BY ReadsInvInit, TageInvInit
<1>2. ReadsInv /\ TageInv /\ [Next]_vars => (ReadsInv /\ TageInv)'
  <2> SUFFICES ASSUME ReadsInv, TageInv, [Next]_vars PROVE ReadsInv'
    BY TageInvStep
  <2>1. CASE UNCHANGED vars
    BY <2>1 DEF vars, flow, hpsState, mppState, ReadsInv, TrainsItsReads
  <2> QED BY <2>1, HpsReadsStep, MppReadsStep DEF Next
<1>3. ReadsInv => TrainsItsReads
  BY DEF ReadsInv
<1> QED BY <1>1, <1>2, <1>3, PTL DEF Spec
=============================================================================
