------------------------------- MODULE TageAging -------------------------------
(***************************************************************************)
(* Tage with a history variable: how many periodic resets each entry has   *)
(* seen since its useful counter last grew, up to AgeCap of them.          *)
(***************************************************************************)
EXTENDS Tage

VARIABLE resets

AgeCap == 3
agingVars == <<vars, resets>>

AgingInit == Init /\ resets = [b \in Bank |-> [x \in TagIndex |-> AgeCap]]

(* An entry's useful counter grows only in TrainedEntry. *)
Grows(b, x, dir) == TrainProvider(dir)[b][x].u > tagPred[b][x].u

AgingUpdate(dir, high) ==
    /\ Update(dir, high)
    /\ resets' = [b \in Bank |-> [x \in TagIndex |->
          LET n == IF Grows(b, x, dir) THEN 0 ELSE resets[b][x]
          IN  IF ResetDue /\ n < AgeCap THEN n + 1 ELSE n]]

AgingPredict(bi, ix, tg) == Predict(bi, ix, tg) /\ UNCHANGED resets

AgingNext ==
    \/ \E bi \in BimodalIndex, ix \in [Bank -> TagIndex], tg \in [Bank -> Tags] :
          AgingPredict(bi, ix, tg)
    \/ \E dir \in Dir, high \in BOOLEAN : AgingUpdate(dir, high)

AgingSpec == AgingInit /\ [][AgingNext]_agingVars

(* The bound a useful counter keeps after n resets, when the last one left     *)
(* clock_flip at flip.  Turns alternate, so what one turn leaves the next      *)
(* one halves, however many decrements come in between.                        *)
AgeBound(n, flip) ==
    CASE n = 0 -> 3
      [] n = 1 -> IF flip = 0 THEN 2 ELSE 1
      [] n = 2 -> IF flip = 0 THEN 0 ELSE 1
      [] OTHER -> 0

AgesStepwise ==
    \A b \in Bank, x \in TagIndex : tagPred[b][x].u <= AgeBound(resets[b][x], clock_flip)

(* The inductive form: each turn of the periodic reset (update_predictor.h:     *)
(* 146-174) lowers the ceiling of every useful counter that does not grow.     *)
AgingInv ==
    /\ TypeOK
    /\ resets \in [Bank -> [TagIndex -> 0 .. AgeCap]]
    /\ AgesStepwise

(* An entry that stops being useful becomes replaceable: three resets after    *)
(* its useful counter last grew, the counter is 0.  Two are not enough: the    *)
(* bit cleared by the first (u: 3 -> 2) can be set again by a decrement        *)
(* (2 -> 1), which the second then leaves alone.                               *)
UsefulBitsAge ==
    \A b \in Bank, x \in TagIndex : resets[b][x] = AgeCap => tagPred[b][x].u = 0

=============================================================================
