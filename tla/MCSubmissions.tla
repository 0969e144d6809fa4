---------------------------- MODULE MCSubmissions ----------------------------
(* Two CBP submissions on two programs: a branch and a branch back around a   *)
(* call and a return, with any outcomes; a loop of three or four iterations.  *)
EXTENDS Submissions

MCm == <<1, 3>>
MCBestConfig == <<2, 2>>
MClogg == <<1, 2>>
MCTB == <<2, 3>>

MCgehl == [g \in {"G", "P"} |-> [nb |-> 2, log |-> 1]]

Spec1(type, p1, p2) == [type |-> type, p1 |-> p1, p2 |-> p2]
MCspecs == <<Spec1("BLURRYPATH", 2, 2), Spec1("RECENCYPOS", 3, 0), Spec1("GHISTMODPATH", 0, 2),
             Spec1("MODPATH", 1, 2), Spec1("IMLI", 1, 0), Spec1("IMLI", 4, 0), Spec1("RECENCY", 2, 0),
             Spec1("ACYCLIC", 1, 0), Spec1("MODHIST", 1, 2), Spec1("BIAS", 0, 0)>>

Tangle(submission, budget, length) ==
  [submission |-> submission, budget |-> budget, entry |-> 5,
   branches |-> {<<5, 11, 6, 11, {"cond"}>>, <<11, 5, 12, 5, {"cond"}>>},
   jumps |-> {<<6, 20, 20, {"call"}>>, <<20, 11, 11, {"ret"}>>, <<12, 5, 5, {}>>},
   trips |-> {}, length |-> length]
Loop(submission, length) ==
  [submission |-> submission, budget |-> 500, entry |-> 7,
   branches |-> {<<7, 3, 7, 7, {"cond"}>>}, jumps |-> {},
   trips |-> {3, 4}, length |-> length]
MCPrograms == {Tangle("Hps", 500, 22), Loop("Hps", 24),
               Tangle("Mpp", 500, 16), Tangle("Mpp", 100, 6), Loop("Mpp", 24)}

(* Draws in turn: always the nearest history; every other time a hop. *)
Drawn(k, n) == [hop |-> 1 + Bit(n % 3 = k), way |-> (n + k) % 2, alloc |-> TRUE, age |-> n % 2 = k,
                force |-> n % 3 # k, lsum |-> IF (n \div 2 + k) % 2 = 0 THEN 1 ELSE -3]
MCDraws == {[n \in 0 .. 40 |-> Drawn(k, n)] : k \in {0, 1}}
=============================================================================
