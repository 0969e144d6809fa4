------------------------------ MODULE CbpProgram ------------------------------
(***************************************************************************)
(* The branches a CBP submission is given: a program walked through, with   *)
(* every outcome its conditional branches may have.                         *)
(***************************************************************************)
EXTENDS Integers, FiniteSets, FiniteSetsExt

CONSTANTS Programs,  \* [submission, budget, entry, branches, jumps, trips, length]:
                     \* for a submission and the bits it may use; branches are
                     \* <<pc, target, next if not taken, next if taken, kinds>>, jumps
                     \* <<pc, target, next, kinds>>; trips are the lengths its loops may
                     \* have, {} for any; length bounds the branches of a behaviour
          Draws      \* for each branch in turn, what the predictor draws at random,
                     \* and what its sums come to

VARIABLES prog, draws, at, iter, steps,
          phase,      \* "idle", or "predicted" between the prediction and the outcome
          prediction
flow == <<prog, draws, at, iter, steps>>

FlowInit ==
  /\ prog \in Programs /\ draws \in Draws
  /\ at = prog.entry /\ iter = 0 /\ steps = 0
  /\ phase = "idle" /\ prediction = FALSE

More == steps < prog.length
Draw == draws[steps]

Outcomes ==
  {taken \in BOOLEAN :
     \/ prog.trips = {}
     \/ taken /\ iter + 1 < Max(prog.trips)
     \/ ~taken /\ iter + 1 \in prog.trips}

Fetch == steps' = steps + 1 /\ UNCHANGED <<prog, draws, at, iter>>

Resolve(branch, taken) ==
  /\ at' = branch[IF taken THEN 4 ELSE 3]
  /\ iter' = IF taken THEN iter + 1 ELSE 0
  /\ UNCHANGED <<prog, draws, steps>>

FollowJump(jump) ==
  /\ steps' = steps + 1 /\ at' = jump[3]
  /\ UNCHANGED <<prog, draws, iter>>
=============================================================================
