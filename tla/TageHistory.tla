------------------------------ MODULE TageHistory ------------------------------
(***************************************************************************)
(* The histories of struct predictor as update_predictor.h:176-201 updates  *)
(* them at the end of every branch: ghr, one compressed history of         *)
(* compute_history (common_var.h) and phr.                                 *)
(*                                                                         *)
(* A register of w bits is the function from 0 .. w-1 to {0, 1}; bit 0 is  *)
(* the least significant.  past keeps the outcomes exactly, newest first,  *)
(* and exactHist is what compute_history makes of them, so that the fold   *)
(* and the register it is fed from can be judged one at a time.            *)
(***************************************************************************)
EXTENDS Integers, Sequences, FiniteSets

CONSTANTS
    geomLength,     (* outcomes a bank's history spans                     *)
    targetLength,   (* bits they are folded into                           *)
    GHRLNGTH,       (* outcomes the global history register holds          *)
    PHRLNGTH,       (* bits of phr                                         *)
    MaxBranches     (* bound: branches resolved                            *)

ASSUME HistoryAssumption ==
    /\ geomLength \in Nat \ {0} /\ targetLength \in Nat \ {0}
    /\ GHRLNGTH \in Nat /\ geomLength < GHRLNGTH
    /\ PHRLNGTH \in Nat \ {0} /\ MaxBranches \in Nat

VARIABLES past, exactHist, ghr, compHist, phr

historyVars == <<past, exactHist, ghr, compHist, phr>>

FoldBit == 0 .. targetLength - 1

HistoryInit ==
    /\ past = <<>> /\ exactHist = [k \in FoldBit |-> 0]
    /\ ghr = [j \in 0 .. GHRLNGTH - 1 |-> 0]
    /\ compHist = [k \in FoldBit |-> 0] /\ phr = 0

(* Faulty: the outcome that leaves is taken out of the highest bit. *)
OutAtTop(comp, in, out) ==
    [k \in FoldBit |-> (comp[(k - 1) % targetLength] + (IF k = 0 THEN in ELSE 0)
                    + (IF k = targetLength - 1 THEN out ELSE 0)) % 2]

(* compHist << 1 with its carry folded back, the newest outcome in at bit 0,  *)
(* the one that leaves out at bit geomLength % targetLength.                  *)
compute_history(comp, in, out) ==
    [k \in FoldBit |-> (comp[(k - 1) % targetLength] + (IF k = 0 THEN in ELSE 0)
                    + (IF k = geomLength % targetLength THEN out ELSE 0)) % 2]

(* The loop copies ghr[kk] to ghr[kk + 1] upwards, so that every copy but the *)
(* first reads what the one before has just written.  (Its last write lands   *)
(* in the padding behind the array.)                                          *)
ShiftGhr(dir) == [j \in 0 .. GHRLNGTH - 1 |-> IF j = 0 THEN dir ELSE ghr[0]]

(* The outcome of the j-th last of some branches, 0 before the first. *)
Outcome(branches, j) == IF j \in DOMAIN branches THEN branches[j] ELSE 0

UpdateHistories(dir, pc) ==
    /\ Len(past) < MaxBranches
    /\ ghr' = ShiftGhr(dir)
    /\ compHist' = compute_history(compHist, ghr'[0], ghr'[geomLength])
    /\ phr' = (2 * phr + (pc % 2)) % (2 ^ PHRLNGTH)
    /\ exactHist' = compute_history(exactHist, dir, Outcome(past, geomLength))
    /\ past' = <<dir>> \o past

HistoryNext == \E dir \in {0, 1}, pc \in {0, 1} : UpdateHistories(dir, pc)

HistorySpec == HistoryInit /\ [][HistoryNext]_historyVars

-----------------------------------------------------------------------------
(* Properties. *)

(* The taken ones from the lo-th to the hi-th last branch that fall on bit k   *)
(* of a compressed history, the j-th last being folded in with age j + age.    *)
TakenAt(branches, lo, hi, age, k) ==
    {j \in lo .. hi : (j + age) % targetLength = k /\ Outcome(branches, j) = 1}

(* The parity, for every bit of a compressed history, of the taken branches    *)
(* among the newest n whose age falls on that bit.                             *)
Fold(n) == [k \in FoldBit |-> Cardinality(TakenAt(past, 1, n, -1, k)) % 2]

(* compute_history, given the outcome that is geomLength branches old, is the  *)
(* fold of the last geomLength outcomes whatever came before them: an outcome  *)
(* leaves no trace once it is older than that.                                 *)
FoldExact == exactHist = Fold(geomLength)

(* A compressed history stores "what in the paper is called h[0:L(i)]", the    *)
(* last geomLength outcomes (common_var.h:42-43).  The upward copy of the      *)
(* register (update_predictor.h:178-181) breaks this: ghr[geomLength] is not   *)
(* the outcome that leaves.                                                    *)
LastOutcomesFolded == compHist = Fold(geomLength)

(* What compHist holds instead: no outcome ever leaves.  It is the fold of     *)
(* every branch since the predictor was initialised, each of them in once at   *)
(* its age and once more, from the next branch on, as if geomLength - 1        *)
(* branches older.                                                             *)
NothingLeaves ==
    compHist = [k \in FoldBit |->
        (Fold(Len(past))[k] + Cardinality(TakenAt(past, 2, Len(past), geomLength - 2, k))) % 2]

(* The inductive invariant of both histories: the register's cell 0 is exact.        *)
HistoryInv ==
    /\ past \in Seq({0, 1}) /\ ghr \in [0 .. GHRLNGTH - 1 -> {0, 1}]
    /\ ghr[0] = Outcome(past, 1)
    /\ FoldExact /\ NothingLeaves

=============================================================================
