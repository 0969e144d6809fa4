----------------------------- MODULE Submissions -----------------------------
(***************************************************************************)
(* Two submissions to CBP 2016, StephenPruett/cbp64KB and                    *)
(* DanielJimenez2/cbp64KB: a program is given to one of them.                *)
(***************************************************************************)
EXTENDS HpsPredictor, MppPredictor

vars == <<flow, phase, prediction, hpsState, mppState>>

Init == FlowInit /\ HpsInit /\ MppInit
Next == \/ prog.submission = "Hps" /\ HpsNext /\ UNCHANGED mppState
        \/ prog.submission = "Mpp" /\ MppNext /\ UNCHANGED hpsState
Spec == Init /\ [][Next]_vars

(* The correctors of both train the counters and weights they read, although  *)
(* they compute every index again after the prediction, with TAGE and the    *)
(* loop predictor updated in between: all histories move last.  In           *)
(* StephenPruett's those indexed with the prediction to be corrected are     *)
(* others when that prediction was the loop predictor's.                     *)
TrainsItsReads ==
  /\ \A x \in sc.trained \ sc.read : /\ loopUsed /\ l.pred # t.tagePred
                                     /\ x[1] \in {"Bias", "BiasSK", "GGEHL"}
  /\ p.trained \subseteq p.read
=============================================================================
