--------------------------------- MODULE Tage ---------------------------------
(***************************************************************************)
(* The tables of the TAGE predictor: get_prediction, then update_predictor, *)
(* once per branch record (server.c:124-125, predictor.c:118-119).         *)
(*                                                                         *)
(* Bank 0 has the longest history.  The hashes of the program counter and  *)
(* the histories into table indices and tags are inputs here: a lookup may *)
(* meet any index and any tag in each bank, so what holds of this module   *)
(* holds for every hash function and every history.                        *)
(***************************************************************************)
EXTENDS Integers, FiniteSets

CONSTANTS
    NUMTAGTABLES,   (* tagged banks                                        *)
    BimodalIndex,   (* indices of the base predictor                       *)
    TagIndex,       (* indices of a tagged bank                            *)
    Tags,           (* tags; 0 is the tag of an untouched entry            *)
    CLOCK_PERIOD    (* branches between two resets of the useful bits      *)

ASSUME TageAssumption ==
    /\ NUMTAGTABLES \in Nat \ {0}
    /\ CLOCK_PERIOD \in Nat \ {0}
    /\ 0 \in Tags

BIMODAL_CTR_MAX  == 3
BIMODAL_CTR_INIT == 2
TAGPRED_CTR_MAX  == 7

Bank  == 0 .. NUMTAGTABLES - 1
Dir   == {0, 1}                     (* not taken, taken *)
None  == -1
Entry == [pred : 0 .. TAGPRED_CTR_MAX, tag : Tags, u : 0 .. 3]

VARIABLES
    bimodal,          (* the base predictor's counters                     *)
    tagPred,          (* the tagged banks                                  *)
    altBetterCount,
    clock, clock_flip,
    look              (* what get_prediction leaves in struct predictor for *)
                      (* update_predictor, or NoLook between two branches   *)

tables == <<bimodal, tagPred, altBetterCount, clock, clock_flip>>
vars   == <<tables, look>>

Lookup == [bi : BimodalIndex, ix : [Bank -> TagIndex], tg : [Bank -> Tags],
           primeBank : 0 .. NUMTAGTABLES, altBank : 0 .. NUMTAGTABLES,
           primePred : Dir \cup {None}, altPred : Dir, predDir : Dir]
NoLook == [predDir |-> None]

Init ==
    /\ bimodal = [b \in BimodalIndex |-> BIMODAL_CTR_INIT]
    /\ tagPred = [b \in Bank |-> [x \in TagIndex |-> [pred |-> 0, tag |-> 0, u |-> 0]]]
    /\ altBetterCount = 8
    /\ clock = 0 /\ clock_flip = 1
    /\ look = NoLook

-----------------------------------------------------------------------------
(* get_prediction *)

(* b is the first bank of S, or NUMTAGTABLES when S is empty. *)
IsFirst(b, S) == \/ b \in S /\ \A c \in S : b <= c
                 \/ b = NUMTAGTABLES /\ S = {}

BasePrediction(bi) == IF bimodal[bi] > BIMODAL_CTR_MAX \div 2 THEN 1 ELSE 0
CounterDirection(e) == IF e.pred >= TAGPRED_CTR_MAX \div 2 THEN 1 ELSE 0

(* The test that is to tell an established entry from a fresh one. *)
UsesProvider(e) ==
    e.pred # 3 \/ e.pred # 4 \/ e.u # 0 \/ altBetterCount < 8

Predict(bi, ix, tg) ==
    LET At(b) == tagPred[b][ix[b]]
        hits  == {b \in Bank : At(b).tag = tg[b]}
        base  == BasePrediction(bi)
    IN  /\ look = NoLook
        /\ \E p, a \in 0 .. NUMTAGTABLES :
              /\ IsFirst(p, hits)
              /\ IsFirst(a, {b \in hits : b > p})
              /\ LET alt == IF a = NUMTAGTABLES THEN base ELSE CounterDirection(At(a))
                     own == p # NUMTAGTABLES /\ UsesProvider(At(p))
                 IN  look' = [bi |-> bi, ix |-> ix, tg |-> tg,
                              primeBank |-> p, altBank |-> a, altPred |-> alt,
                              primePred |-> IF own THEN CounterDirection(At(p)) ELSE None,
                              predDir |-> IF own THEN CounterDirection(At(p)) ELSE alt]
        /\ UNCHANGED tables

-----------------------------------------------------------------------------
(* update_predictor, in the order of its statements. *)

(* Faulty: the bound is compared one too late. *)
SatIncrementLate(n, max) == IF n > max THEN max ELSE n + 1

SatIncrement(n, max) == IF n >= max THEN max ELSE n + 1
SatDecrement(n) == IF n = 0 THEN 0 ELSE n - 1
Train(n, max, dir) == IF dir = 1 THEN SatIncrement(n, max) ELSE SatDecrement(n)

Hit == look.primeBank < NUMTAGTABLES

(* Faulty: only the useful counter is trained. *)
TrainedUsefulOnly(e, dir) ==
    [e EXCEPT !.u = IF look.predDir = look.altPred THEN e.u
                    ELSE IF look.predDir = dir THEN SatIncrement(e.u, BIMODAL_CTR_MAX)
                    ELSE SatDecrement(e.u)]

(* The provider's counters; u moves only when the alternate disagreed. *)
TrainedEntry(e, dir) ==
    [e EXCEPT !.pred = Train(e.pred, TAGPRED_CTR_MAX, dir),
              !.u = IF look.predDir = look.altPred THEN e.u
                    ELSE IF look.predDir = dir THEN SatIncrement(e.u, BIMODAL_CTR_MAX)
                    ELSE SatDecrement(e.u)]

TrainProvider(dir) ==
    IF Hit THEN [tagPred EXCEPT ![look.primeBank][look.ix[look.primeBank]] =
                     TrainedEntry(tagPred[look.primeBank][look.ix[look.primeBank]], dir)]
           ELSE tagPred

(* new_entry: judged by the counters as they are after the training. *)
NewEntry(T) ==
    Hit /\ LET e == T[look.primeBank][look.ix[look.primeBank]]
           IN  e.u = 0 /\ e.pred \in {3, 4}

AltBetter(T, dir) ==
    IF NewEntry(T) /\ look.primePred # look.altPred
    THEN IF look.altPred = dir THEN SatIncrement(altBetterCount, 15)
                               ELSE SatDecrement(altBetterCount)
    ELSE altBetterCount

(* Banks with a longer history than the provider whose entry is not useful. *)
Free(T) == {b \in Bank : b < look.primeBank /\ T[b][look.ix[b]].u = 0}

Allocates(T, dir) ==
    /\ ~NewEntry(T) \/ look.primePred # dir
    /\ look.predDir # dir /\ look.primeBank > 0

(* bank_store holds bank i in slot i, and -1 in the slots of useful entries, *)
(* but is read at slot count - 1 or count - 2.                               *)
BankStore(T, n) == IF n \in Free(T) THEN n ELSE -1
MatchBank(T, high) ==
    LET count == Cardinality(Free(T))
    IN  IF count = 0 THEN 0
        ELSE IF count = 1 THEN BankStore(T, 0)
        ELSE BankStore(T, IF high THEN count - 1 ELSE count - 2)

(* Faulty: matchBank is taken without looking at its useful counter again, *)
(* and -1 for bank 0.                                                      *)
VictimUnchecked(T, high, b) == b = (IF MatchBank(T, high) < 0 THEN 0 ELSE MatchBank(T, high))

(* The search goes down from matchBank to the first entry that is not useful. *)
IsVictim(T, high, b) ==
    /\ b \in 0 .. MatchBank(T, high) /\ T[b][look.ix[b]].u = 0
    /\ \A c \in 0 .. MatchBank(T, high) : c > b => T[c][look.ix[c]].u # 0

FreshEntry(b, dir) == [pred |-> IF dir = 1 THEN 4 ELSE 3, tag |-> look.tg[b], u |-> 0]

Allocate(T, dir, high) ==
    [b \in Bank |-> [x \in TagIndex |->
        IF Allocates(T, dir) /\ x = look.ix[b] /\ IsVictim(T, high, b)
        THEN FreshEntry(b, dir) ELSE T[b][x]]]

(* The periodic reset: u & 1 on a flip to 1 ("MSB turn"), u & 2 on a flip to 0. *)
ResetDue == clock + 1 = CLOCK_PERIOD
(* Faulty: both turns clear the low bit. *)
ClearedLowOnly(u, flip) == 2 * (u \div 2)

Cleared(u, flip) == IF flip = 1 THEN u % 2 ELSE 2 * (u \div 2)
Age(T) ==
    IF ResetDue
    THEN [b \in Bank |-> [x \in TagIndex |->
             [T[b][x] EXCEPT !.u = Cleared(T[b][x].u, 1 - clock_flip)]]]
    ELSE T

Update(dir, high) ==
    /\ look # NoLook /\ look' = NoLook
    /\ bimodal' = IF Hit THEN bimodal
                  ELSE [bimodal EXCEPT ![look.bi] = Train(@, BIMODAL_CTR_MAX, dir)]
    /\ LET trained == TrainProvider(dir)
       IN  /\ altBetterCount' = AltBetter(trained, dir)
           /\ tagPred' = Age(Allocate(trained, dir, high))
    /\ clock' = IF ResetDue THEN 0 ELSE clock + 1
    /\ clock_flip' = IF ResetDue THEN 1 - clock_flip ELSE clock_flip

Next ==
    \/ \E bi \in BimodalIndex, ix \in [Bank -> TagIndex], tg \in [Bank -> Tags] :
          Predict(bi, ix, tg)
    \/ \E dir \in Dir, high \in BOOLEAN : Update(dir, high)

Spec == Init /\ [][Next]_vars

-----------------------------------------------------------------------------
(* Properties. *)

(* Every counter stays in the range its comment gives it. *)
TypeOK ==
    /\ bimodal \in [BimodalIndex -> 0 .. BIMODAL_CTR_MAX]
    /\ tagPred \in [Bank -> [TagIndex -> Entry]]
    /\ altBetterCount \in 0 .. 15
    /\ clock \in 0 .. CLOCK_PERIOD - 1 /\ clock_flip \in {0, 1}
    /\ look \in Lookup \cup {NoLook}

Retagged(b, x) == tagPred'[b][x].tag # tagPred[b][x].tag

ReplacesOnlyUseless ==
    \A b \in Bank, x \in TagIndex : Retagged(b, x) =>
        /\ look # NoLook /\ b < look.primeBank /\ x = look.ix[b]
        /\ tagPred[b][x].u = 0
        /\ \A c \in Bank, y \in TagIndex : Retagged(c, y) => c = b /\ y = x

(* An update replaces at most one entry, of a bank with a longer history than *)
(* the provider, where this branch looked, and never a useful one ("Only 1    *)
(* entry allocated").                                                         *)
UsefulProtected == [][ReplacesOnlyUseless]_vars

(* Banks with a longer history than the provider, where this branch looked. *)
LongerHistory == {b \in Bank : b < look.primeBank}

AgesOnFailure ==
    \A dir \in Dir :
        /\ look # NoLook /\ \E high \in BOOLEAN : Update(dir, high)
        /\ Allocates(TrainProvider(dir), dir) /\ Free(TrainProvider(dir)) = {}
        => \A b \in LongerHistory :
              tagPred'[b][look.ix[b]].u < tagPred[b][look.ix[b]].u

(* "If no new entry allocated decrement the counter of all components"         *)
(* (update_predictor.h:100): a misprediction that finds no entry to replace    *)
(* makes those it might have replaced less useful.  The semicolon behind the   *)
(* if of line 97 makes line 98 run in any case, so that the loop of 102-104    *)
(* never does.                                                                 *)
FailedAllocationAges == [][AgesOnFailure]_vars

LosesUseAsProvider ==
    \A b \in Bank, x \in TagIndex : tagPred'[b][x].u < tagPred[b][x].u =>
        \/ ResetDue
        \/ /\ look # NoLook /\ Hit /\ b = look.primeBank /\ x = look.ix[b]
           /\ look.predDir # look.altPred

(* How entries lose usefulness instead: at the periodic reset, or as the       *)
(* provider of a prediction on which the alternate disagreed.                  *)
UsefulLostByProvider == [][LosesUseAsProvider]_vars

=============================================================================
