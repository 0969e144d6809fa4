------------------------------ MODULE TageLearning ------------------------------
(***************************************************************************)
(* Tage under two kinds of programs.  One goes any way for ever, and       *)
(* TageAging counts the resets its entries see.  The other settles: after  *)
(* up to MaxWander branches of any kind, every branch it executes goes the *)
(* same way (a loop's back edge).  The lookups stay arbitrary: the         *)
(* compressed histories keep rotating through the tables even when the     *)
(* outcomes no longer change.                                              *)
(***************************************************************************)
EXTENDS TageAging

CONSTANT MaxWander  (* bound: branches before the program settles *)
ASSUME WanderAssumption == MaxWander \in Nat

VARIABLES settles,  (* the program is one that settles                     *)
          settled,  (* the direction of every branch from now on, or None  *)
          wandered  (* branches executed before that                       *)

learnVars == <<agingVars, settles, settled, wandered>>

LearnInit ==
    /\ Init /\ settled = None /\ wandered = 0
    /\ \/ settles = FALSE /\ AgingInit
       \/ settles = TRUE /\ resets = [b \in Bank |-> [x \in TagIndex |-> 0]]

GoAnyWay == ~settles /\ AgingNext /\ UNCHANGED <<settles, settled, wandered>>

Settle(dir) ==
    /\ settles /\ settled = None /\ look = NoLook
    /\ settled' = dir /\ wandered' = 0
    /\ UNCHANGED <<agingVars, settles>>

Wander ==
    /\ settles /\ settled = None /\ Next /\ UNCHANGED <<resets, settles, settled>>
    /\ look = NoLook => wandered < MaxWander
    /\ wandered' = IF look = NoLook THEN wandered + 1 ELSE wandered

Repeat ==
    /\ settled # None
    /\ \/ \E bi \in BimodalIndex, ix \in [Bank -> TagIndex], tg \in [Bank -> Tags] :
             Predict(bi, ix, tg)
       \/ \E high \in BOOLEAN : Update(settled, high)
    /\ UNCHANGED <<resets, settles, settled, wandered>>

LearnNext == GoAnyWay \/ Wander \/ (\E dir \in Dir : Settle(dir)) \/ Repeat

LearnSpec == LearnInit /\ [][LearnNext]_learnVars /\ WF_learnVars(Repeat)

(* What TLC tells the states of a program that does not settle apart by:       *)
(* altBetterCount is left out, for it decides nothing (UsesProvider holds of   *)
(* every entry, TageProofs!ProviderAlwaysUsed).                                *)
LearnView ==
    <<bimodal, tagPred, clock, clock_flip, look, resets, settles, settled, wandered,
      IF settles THEN altBetterCount ELSE None>>

(* A program whose branches all go one way is mispredicted finitely often,     *)
(* whatever the tables held and whatever entries its lookups meet: an entry    *)
(* allocated with a counter that points the wrong way (update_predictor.h:135) *)
(* is trained out before allocation can go on for ever.                        *)
Learns ==
    settled # None ~> [](look # NoLook => look.predDir = settled)

=============================================================================
