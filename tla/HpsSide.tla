------------------------------- MODULE HpsSide -------------------------------
(***************************************************************************)
(* The side predictors of the CBP submission StephenPruett/cbp64KB          *)
(* (predictor.h): LoopPredictor, and Statistical_Corrector as it is         *)
(* compiled, without IMLI.  Of the corrector's counters the model keeps     *)
(* which are read for a branch and which are trained with its outcome; the  *)
(* sum LSUM is an input.                                                    *)
(***************************************************************************)
EXTENDS HpsTage

CONSTANTS LOGL, WIDTHNBITERLOOP, LOOPTAG, CONFLOOP,
          LOOPPRODUCT,        \* confidence * numIterations beyond which a loop is trusted
          CONFWIDTH, LOGSIZEUP, THRESHOLD, THRESHOLDMAX,
          LOGLOCAL, LOGSECLOCAL, logHSTACKSIZE, HISTBITS

ASSUME LoopOK == CONFLOOP \in Nat \ {0}

----------------------------------------------------------------------------
(* LoopPredictor.  Way 0 .. 3 of a branch is at LoopSlot.  In an entry,      *)
(* run, lastRun and same are history: the length of the current run of the   *)
(* branch in direction dir, that of the last completed one (modulo what      *)
(* currIteration can count), and how many completed runs in a row were as    *)
(* long as that.                                                             *)
Ways == 0 .. 3
LoopIndex(pc) == Low(pc, LOGL - 2) * 4
LIB(pc) == Low(pc \div 2^(LOGL - 2), LOGL - 2)
LoopSlot(pc, way) == (LoopIndex(pc) ^^ ((LIB(pc) \div 2^way) * 4)) + way
LoopTag(pc) ==
  LET x == Low(pc \div 2^(LOGL - 2), 2 * LOOPTAG) IN Low(x ^^ (x \div 2^LOOPTAG), LOOPTAG)

NewLoopEntry ==
  [numIterations |-> 0, currIteration |-> 0, tag |-> 0, confidence |-> 0, age |-> 0, dir |-> FALSE,
   run |-> 0, lastRun |-> 0, same |-> 0]

(* withLoop = false makes a counter of width 0, whose bounds are those of int. *)
NewLoop == [table |-> [i \in 0 .. 2^LOGL - 1 |-> NewLoopEntry], withLoop |-> 0,
            pred |-> FALSE, hitWay |-> -1, loopValid |-> TRUE]

freeEntry(e) == [e EXCEPT !.numIterations = 0, !.age = 0, !.confidence = 0, !.currIteration = 0]

LoopPredict(l, pc) ==
  LET hits == {w \in Ways : l.table[LoopSlot(pc, w)].tag = LoopTag(pc)}
      w == Min(hits)
      e == l.table[LoopSlot(pc, w)]
  IN IF hits = {} THEN [l EXCEPT !.hitWay = -1, !.loopValid = FALSE, !.pred = FALSE]
     ELSE [l EXCEPT !.hitWay = w,
                    !.loopValid = \/ e.confidence = CONFLOOP
                                  \/ e.confidence * e.numIterations > LOOPPRODUCT,
                    !.pred = IF e.currIteration + 1 = e.numIterations THEN ~e.dir ELSE e.dir]

incIterationCounter(e) ==
  LET curr == Low(e.currIteration + 1, WIDTHNBITERLOOP)
      over == curr > e.numIterations
  IN [e EXCEPT !.currIteration = curr,
               !.confidence = IF over THEN 0 ELSE @, !.numIterations = IF over THEN 0 ELSE @]

\* Faulty: a run of another length than the last one leaves the entry alone.
RunEndsTrusting(e, taken) ==
  LET kept == [e EXCEPT !.confidence = IF @ < CONFLOOP THEN @ + 1 ELSE @]
      next == IF e.currIteration = e.numIterations
              THEN IF e.numIterations < 3 THEN [freeEntry(kept) EXCEPT !.dir = taken] ELSE kept
              ELSE IF e.numIterations = 0
              THEN [e EXCEPT !.confidence = 0, !.numIterations = e.currIteration]
              ELSE e
  IN [next EXCEPT !.currIteration = 0]

(* The end of a run. *)
RunEnds(e, taken) ==
  LET kept == [e EXCEPT !.confidence = IF @ < CONFLOOP THEN @ + 1 ELSE @]
      next == IF e.currIteration = e.numIterations
              THEN IF e.numIterations < 3 THEN [freeEntry(kept) EXCEPT !.dir = taken] ELSE kept
              ELSE IF e.numIterations = 0
              THEN [e EXCEPT !.confidence = 0, !.numIterations = e.currIteration]
              ELSE freeEntry(e)
  IN [next EXCEPT !.currIteration = 0]

(* History: the outcome seen, against the direction the entry had. *)
Observe(e, new, taken) ==
  LET length == Low(e.run + 1, WIDTHNBITERLOOP)
      repeats == length = e.lastRun
  IN IF new.dir # e.dir THEN [new EXCEPT !.run = 0, !.lastRun = 0, !.same = 0]
     ELSE IF taken = e.dir THEN [new EXCEPT !.run = length]
     ELSE [new EXCEPT !.run = 0, !.lastRun = length,
                      !.same = IF ~repeats THEN 1 ELSE IF @ < CONFLOOP THEN @ + 1 ELSE @]

LoopTrained(l, e, taken, tagePred, ageing) ==
  LET aged == IF l.loopValid /\ (l.pred # tagePred \/ ageing) /\ e.age < CONFLOOP
              THEN [e EXCEPT !.age = @ + 1] ELSE e
      counted == incIterationCounter(aged)
  IN IF l.loopValid /\ taken # l.pred THEN freeEntry(e)
     ELSE IF taken # counted.dir THEN RunEnds(counted, taken) ELSE counted

(* An entry gives way to a new one when its age has run out. *)
Displaced(e, pc, taken) ==
  IF e.age = 0 THEN [NewLoopEntry EXCEPT !.dir = ~taken, !.tag = LoopTag(pc), !.age = 7]
  ELSE [e EXCEPT !.age = @ - 1]

(* rnd.way is the first draw & 3, rnd.alloc whether the second & 3 is 0,     *)
(* rnd.age whether the draw of a hit & 7 is 0.  The loop over the ways ends  *)
(* with a break: only one of them is looked at.                              *)
LoopUpdate(l, pc, taken, tagePred, allocate, rnd) ==
  LET hit == LoopSlot(pc, l.hitWay)
      new == LoopSlot(pc, rnd.way)
  IN IF l.hitWay >= 0
     THEN [l EXCEPT !.table[hit] = Observe(@, LoopTrained(l, @, taken, tagePred, rnd.age), taken)]
     ELSE IF allocate /\ rnd.alloc
     THEN [l EXCEPT !.table[new] = Displaced(@, pc, taken)]
     ELSE l

----------------------------------------------------------------------------
(* Statistical_Corrector: the local histories, the histories of the call     *)
(* stack, and the counters that choose between corrector and TAGE.           *)
INDLOCAL(pc) == Low(pc, LOGLOCAL)
INDSLOCAL(pc) == Low(pc ^^ (pc \div 32), LOGSECLOCAL)
INDTLOCAL(pc) == Low(pc ^^ (pc \div 8), LOGSECLOCAL)
INDUPD(pc) == Low(pc, LOGSIZEUP)
StackSlots == 0 .. 2^logHSTACKSIZE - 1

(* T_slhist, HSTACK and pthstack are not initialised; the memory is taken to *)
(* be zero, as new pages are.                                                *)
NewCorrector ==
  [L_shist |-> [i \in 0 .. 2^LOGLOCAL - 1 |-> 0], S_slhist |-> [i \in 0 .. 2^LOGSECLOCAL - 1 |-> 0],
   T_slhist |-> [i \in 0 .. 2^LOGSECLOCAL - 1 |-> 0],
   HSTACK |-> [i \in StackSlots |-> 0], pthstack |-> 0,
   Pupdatethreshold |-> [i \in 0 .. 2^LOGSIZEUP - 1 |-> THRESHOLD],
   confidence |-> [i \in 1 .. 3 |-> 0], LSUM |-> 0, read |-> {}, trained |-> {}]

Abs(n) == IF n < 0 THEN -n ELSE n
SCPRED(sc) == sc.LSUM >= 0

(* The counters a sum adds up; a hash is kept as its arguments, and n tables *)
(* over one history are one tuple.                                           *)
GehlCounters(sc, h, pc, pred) ==
  {<<"Bias", 1, pc, pred>>, <<"BiasSK", 1, pc, pred>>,
   <<"GGEHL", 4, pc, pred, h.ghist>>, <<"LGEHL", 3, pc, sc.L_shist[INDLOCAL(pc)]>>,
   <<"TGEHL", 3, pc, sc.T_slhist[INDTLOCAL(pc)]>>, <<"SGEHL", 4, pc, sc.S_slhist[INDSLOCAL(pc)]>>,
   <<"PGEHL", 4, pc, sc.HSTACK[sc.pthstack]>>}

(* Which of the three confidence counters is asked and trained, 0 if none. *)
Zone(sc, pc) ==
  LET t == sc.Pupdatethreshold[INDUPD(pc)]
      s == Abs(sc.LSUM)
  IN IF s < t \div 3 THEN 1 ELSE IF s < (2 * t) \div 3 THEN 2 ELSE IF s < t THEN 3 ELSE 0

CorrectorPredict(sc, h, pc, pred, lsum) ==
  [sc EXCEPT !.LSUM = lsum, !.read = GehlCounters(sc, h, pc, pred), !.trained = {}]

CorrectedPrediction(sc, pc, pred, confident) ==
  LET z == Zone(sc, pc)
  IN IF confident /\ z # 0 /\ sc.confidence[z] >= 0 THEN pred ELSE SCPRED(sc)

Push(x, bit) == Low(2 * x + bit, HISTBITS)

(* kind is the set of what brtype says: "cond", "call" (direct), "ret". *)
CorrectorHistories(sc, pc, kind, taken, target) ==
  LET p == sc.pthstack
      up == (p + 1) % 2^logHSTACKSIZE
      top == Low((2 * sc.HSTACK[p]) ^^ ((target ^^ (target \div 32)) ^^ Bit(taken)), HISTBITS)
      cond == "cond" \in kind
  IN [sc EXCEPT !.L_shist[INDLOCAL(pc)] = IF cond THEN Push(@, Bit(taken)) ELSE @,
                !.S_slhist[INDSLOCAL(pc)] = IF cond THEN Push(@, Bit(taken)) ^^ (pc % 16) ELSE @,
                !.T_slhist[INDTLOCAL(pc)] = IF cond THEN Push(@, Bit(taken)) ELSE @,
                !.HSTACK = [i \in StackSlots |->
                              IF i = p \/ (i = up /\ "call" \in kind) THEN top ELSE sc.HSTACK[i]],
                !.pthstack = IF "ret" \in kind THEN (p - 1) % 2^logHSTACKSIZE
                             ELSE IF "call" \in kind THEN up ELSE @]

CorrectorUpdate(sc, h, pc, kind, taken, target, tagePred, confident) ==
  LET z == Zone(sc, pc)
      wrong == SCPRED(sc) # taken
      u == INDUPD(pc)
      trains == wrong \/ Abs(sc.LSUM) < sc.Pupdatethreshold[u]
      sc1 == IF tagePred # SCPRED(sc) /\ confident /\ z # 0
             THEN [sc EXCEPT !.confidence[z] = SignedInc(@, taken = tagePred, CONFWIDTH)] ELSE sc
      sc2 == IF trains
             THEN [sc1 EXCEPT !.Pupdatethreshold[u] =
                                Clamp(IF wrong THEN @ + 1 ELSE @ - 1, 0, THRESHOLDMAX),
                              !.trained = GehlCounters(sc, h, pc, tagePred)]
             ELSE sc1
  IN CorrectorHistories(sc2, pc, kind, taken, target)
=============================================================================
