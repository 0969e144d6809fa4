----------------------------- MODULE HpsPredictor -----------------------------
(***************************************************************************)
(* PREDICTOR of the CBP submission StephenPruett/cbp64KB (predictor.h):     *)
(* TAGE over configurable tables, loop predictor and statistical corrector  *)
(* on one branch stream.                                                    *)
(***************************************************************************)
EXTENDS HpsSide, CbpProgram

VARIABLES h, t, c, l, sc,   \* history, TAGE, configuration, loop predictor, corrector
          loopUsed
hpsState == <<h, t, c, l, sc, loopUsed>>

HpsInit ==
  /\ h = NewHistory /\ t = NewTage /\ c = NewConfig
  /\ l = NewLoop /\ sc = NewCorrector /\ loopUsed = FALSE

(* What LSUM adds up to is drawn. *)
GetPrediction(pc) ==
  LET before == IF loopUsed' THEN l'.pred ELSE t'.tagePred
  IN /\ phase = "idle" /\ More
     /\ phase' = "predicted"
     /\ \E p \in {HpsPredict(t, c, h, pc)} : t' = p.t /\ c' = p.c
     /\ l' = LoopPredict(l, pc)
     /\ loopUsed' = (l.withLoop >= 0 /\ l'.loopValid)
     /\ sc' = CorrectorPredict(sc, h, pc, before, Draw.lsum)
     /\ prediction' = CorrectedPrediction(sc', pc, before, t'.highConfidence)
     /\ Fetch
     /\ UNCHANGED h

\* Faulty: TAGE, and with it the history, is updated before the corrector.
UpdateTageFirst(pc, kind, taken, target) ==
  /\ h' = updateHistory(h, pc, TRUE, taken)
  /\ t' = TageUpdate(t, Groups(c), h, pc, taken, Draw.hop)
  /\ sc' = CorrectorUpdate(sc, h', pc, kind, taken, target, t.tagePred, t.highConfidence)

(* The corrector is given TAGE's prediction, not the loop predictor's. *)
UpdateTageAndCorrector(pc, kind, taken, target) ==
  /\ sc' = CorrectorUpdate(sc, h, pc, kind, taken, target, t.tagePred, t.highConfidence)
  /\ t' = TageUpdate(t, Groups(c), h, pc, taken, Draw.hop)
  /\ h' = updateHistory(h, pc, TRUE, taken)

UpdatePredictor(pc, kind, taken, target) ==
  LET helped == IF l.loopValid /\ prediction # l.pred
                THEN [l EXCEPT !.withLoop = IF l.pred = taken THEN @ + 1 ELSE @ - 1] ELSE l
  IN /\ phase = "predicted"
     /\ phase' = "idle"
     /\ l' = LoopUpdate(helped, pc, taken, t.tagePred, prediction # taken, Draw)
     /\ UpdateTageAndCorrector(pc, kind, taken, target)
     /\ UNCHANGED <<c, prediction, loopUsed>>

TrackOtherInst(pc, kind, target) ==
  /\ phase = "idle" /\ More
  /\ h' = updateHistory(h, pc, FALSE, TRUE)
  /\ sc' = CorrectorHistories(sc, pc, kind, TRUE, target)
  /\ UNCHANGED <<phase, t, c, l, prediction, loopUsed>>

HpsNext ==
  \/ \E b \in prog.branches : b[1] = at /\ GetPrediction(at)
  \/ \E b \in prog.branches, taken \in Outcomes :
       b[1] = at /\ UpdatePredictor(at, b[5], taken, b[2]) /\ Resolve(b, taken)
  \/ \E j \in prog.jumps : j[1] = at /\ TrackOtherInst(at, j[4], j[2]) /\ FollowJump(j)

----------------------------------------------------------------------------
(* "This will always be possible, no matter what order we remove or add      *)
(* tiles in" (reconfigure): whatever the tables did, all storage is dealt    *)
(* out, a power of two or nothing to each history, and the map from tables   *)
(* to histories agrees with it; the assertions of updateIdxToHist, getMatch  *)
(* and getAllocEntry hold.                                                   *)
StorageConserved ==
  /\ Total(numTablesInGroup(c), Histories) = NUM_TABLES
  /\ \A b \in Histories :
       /\ numTablesInGroup(c)[b] \in PowersOfTwo \cup {0}
       /\ Cardinality({i \in Tables : c.idxToHist[i] = b}) = numTablesInGroup(c)[b]

(* A full useful counter over an undecided prediction stands for an entry    *)
(* that was allocated and never used, which may be overwritten at once: no   *)
(* sequence of training, ageing, reconfiguration and restoring from the      *)
(* victim cache gives an entry that was trained that mark.                   *)
UnusedIsFresh ==
  \A i \in Tables : \A e \in {t.table[i][j] : j \in DOMAIN t.table[i]} : isUnused(e) => e.fresh

(* The confidence of a loop is earned: the last runs of the branch, at least *)
(* as many, had exactly the length that will be predicted.                   *)
LoopConfident ==
  \A i \in DOMAIN l.table :
    LET e == l.table[i]
    IN e.confidence > 0 => e.same >= e.confidence /\ e.lastRun = e.numIterations
=============================================================================
