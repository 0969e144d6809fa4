------------------------------- MODULE Gshare -------------------------------
(***************************************************************************)
(* The gshare predictor of the evaluation framework                         *)
(* (cbp2016.eval/sim/predictor_gshare.h).  ghr is kept to the HIST_LEN bits *)
(* the index is taken from.                                                 *)
(***************************************************************************)
EXTENDS Naturals, Bitwise

CONSTANT HIST_LEN

PHT_CTR_MAX == 3
PHT_CTR_INIT == 2
numPhtEntries == 2^HIST_LEN

SatIncrement(x, max) == IF x < max THEN x + 1 ELSE x
SatDecrement(x) == IF x > 0 THEN x - 1 ELSE x

GsharePredictor == [ghr |-> 0, pht |-> [i \in 0 .. numPhtEntries - 1 |-> PHT_CTR_INIT]]

phtIndex(p, PC) == (PC ^^ p.ghr) % numPhtEntries

GshareGetPrediction(p, PC) == p.pht[phtIndex(p, PC)] > PHT_CTR_MAX \div 2

GshareUpdatePredictor(p, PC, resolveDir) ==
  [ghr |-> (2 * p.ghr + (IF resolveDir THEN 1 ELSE 0)) % numPhtEntries,
   pht |-> [p.pht EXCEPT ![phtIndex(p, PC)] =
              IF resolveDir THEN SatIncrement(@, PHT_CTR_MAX) ELSE SatDecrement(@)]]

GshareTrackOtherInst(p) == p
=============================================================================
