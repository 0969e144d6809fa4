-------------------------- MODULE PoTagePredictor --------------------------
(***************************************************************************)
(* The predictor of cbp2016.eval/sim/predictor.cc: six TAGE predictors over *)
(* subpaths of the branch stream, the neural combiner, COLT, the            *)
(* statistical corrector and the final stage.  The six predictors and their *)
(* histories are modelled in full (PoTage).  Of the combiner                *)
(* and the corrector the model keeps which counters are read for a branch   *)
(* and which are trained with its outcome; the sums of the counters, which  *)
(* decide whether there is any training, are any of SUMS.                   *)
(***************************************************************************)
EXTENDS PoTage

CONSTANTS PCs,                    \* addresses of branches
          Entry,                  \* the first branch of the program
          Branch, Jump,           \* the program: <<address, target, next branch if not
                                  \* taken, if taken>>, and <<address, target, next branch>>
          P1_SPSIZE, P2_SPSIZE, P3_SPSIZE, P4_SPSIZE, P2_PARAM, P3_PARAM,
          BFTSIZE, FRATIOBITS, LOGCOLT, COLTBITS,
          mgehl, mrhsp,           \* history lengths of the folded histories
          UPDATETHRESHOLD,        \* initial threshold of the corrector
          IMLIMAX, FUTURE,        \* (1 << Im[0]) - 1 and Fm[FNB - 1]
          HISTBITS,               \* bits kept of a history register
          HISTTABLESIZE, SHIFTFUTURE,
          SUMS,                   \* <<sum of the combiner, sum of the corrector>>
          BEYOND,                 \* what ctr[2] may read in postp_index
          MAXBRANCHES             \* bound on the branches of a behaviour

NPRED == 6
Preds == 0 .. NPRED - 1
SPSIZE == <<1, P1_SPSIZE, P2_SPSIZE, P3_SPSIZE, P4_SPSIZE, 1>>

(* The combiner adds 13 terms 2 * ctr + 1, the corrector an even number. *)
ASSUME SumsOK == \A s \in SUMS : s[1] % 2 = 1 /\ s[2] % 2 = 0

VARIABLES
  at,        \* the branch the program comes to
  phase,     \* "idle", or "predicted" between GetPrediction and UpdatePredictor
  pc,        \* the branch predicted
  sp, subp,  \* the subpaths, and the one selected for each predictor
  pred,      \* the TAGE predictors
  bft, maxfreq,
  co, COPRED,
  sums, FirstThreshold, updatethreshold, Pupdatethreshold,
  regs,      \* history registers of the corrector
  ghist, ptghist, chgehl, chrhsp,
  read,      \* the counters the last prediction read
  trained,   \* the counters the last update trained
  tracex,    \* records appended to tracex.txt
  branches
vars == <<at, phase, pc, sp, subp, pred, bft, maxfreq, co, COPRED, sums, FirstThreshold,
          updatethreshold, Pupdatethreshold, regs, ghist, ptghist, chgehl, chrhsp,
          read, trained, tracex, branches>>
sc == <<co, COPRED, sums, FirstThreshold, updatethreshold, Pupdatethreshold>>

FirstSum == sums[1]
LSUM == sums[2]
pred_inter == FirstSum >= 0
predSC == LSUM >= 0
Abs(n) == IF n < 0 THEN -n ELSE n

----------------------------------------------------------------------------
(* Frequency bins. *)
getfreq(a) == bft[a % BFTSIZE]

find(f) ==
  LET nbins == P4_SPSIZE
      fits  == {i \in 0 .. nbins - 1 : f >= maxfreq \div 2^(FRATIOBITS * (i + 1))}
  IN IF fits = {} THEN nbins - 1 ELSE CHOOSE i \in fits : \A j \in fits : i <= j

Subpaths(a) ==
  [i \in Preds |-> CASE i = 1 -> a % P1_SPSIZE
                     [] i = 2 -> (a \div 2^P2_PARAM) % P2_SPSIZE
                     [] i = 3 -> (a \div 2^P3_PARAM) % P3_SPSIZE
                     [] i = 4 -> find(getfreq(a))
                     [] OTHER -> 0]

----------------------------------------------------------------------------
(* COLT: a counter for each address and combination of predictions. *)
predtaken(p) == [i \in Preds |-> p[i].postpredtaken]
NewColtEntry == [v \in [Preds -> BOOLEAN] |-> IF v[0] THEN 1 ELSE -2]
NewColt == [a \in 0 .. 2^LOGCOLT - 1 |-> NewColtEntry]
ColtCtr(c, a, v) == c[a % 2^LOGCOLT][v]

----------------------------------------------------------------------------
(* Which counters a sum adds up.  A hash of the address and a history is    *)
(* kept as its arguments.  A group of n tables that share a history, table  *)
(* i being indexed with some of the latest bits, is one tuple with n.       *)
TypeOf(sum, threshold) ==
  IF sum < threshold \div 4 THEN 0 ELSE IF sum < threshold \div 2 THEN 1
  ELSE IF sum < threshold THEN 2 ELSE 3
TypeFirstSum(s, threshold) == TypeOf(Abs(s[1]), threshold)

(* The combiner: one table for all predictions, and for each predictor one  *)
(* with its counters (CTR) and one with these and all predictions.          *)
CombinerReads(a, p) ==
  LET v == predtaken(p) IN
  {<<"FirstBIAS", 1, a, v>>}
    \cup {<<"TBias", i, a, p[i].ppi>> : i \in Preds}
    \cup {<<"SB", i, a, v, p[i].ppi>> : i \in Preds}

(* UpdatePredictor indexes TBias2 and SB2 with INDBIAS1 and INDSB1. *)
CombinerTrains(a, p) ==
  LET v == predtaken(p)
      index(i) == IF i = 2 THEN 1 ELSE i
  IN {<<"FirstBIAS", 1, a, v>>}
       \cup {<<"TBias", i, a, p[index(i)].ppi>> : i \in Preds}
       \cup {<<"SB", i, a, v, p[index(i)].ppi>> : i \in Preds}

gehlindex(a, gehl, bank) == <<a, gehl[bank]>>
rhspindex(a, rhsp, bank) ==
  <<a, rhsp[bank], IF bank > 1 THEN rhsp[bank - 1] ELSE 0, IF bank > 3 THEN rhsp[bank \div 3] ELSE 0>>

GehlReads(a, gehl, rhsp) ==
  {<<"GEHL", 0, a>>} \cup {<<"GEHL", i, gehlindex(a, gehl, i)>> : i \in 1 .. Len(mgehl)}
    \cup {<<"RHSP", i, rhspindex(a, rhsp, i)>> : i \in 1 .. Len(mrhsp)}

BiasTables(a, p, s, threshold, copred) ==
  {<<"Bias", 1, a, s[1] >= 0>>,
   <<"BiasFull", 1, a, TypeFirstSum(s, threshold), copred, s[1] >= 0>>,
   <<"BiasColt", 1, a, s[1] >= 0, predtaken(p)>>}

Percs(a, r) ==
  {<<"PERC", 60, a, r.GHIST>>, <<"PERCLOC", 60, a, r.L_shist[a]>>, <<"PERCBACK", 42, a, r.BHIST>>,
   <<"PERCYHA", 60, a, r.YHA>>, <<"PERCPATH", 60, a, r.P_phist>>, <<"PERCSLOC", 60, a, r.S_slhist[a]>>,
   <<"PERCTLOC", 60, a, r.T_slhist[a]>>, <<"PERCQLOC", 60, a, r.Q_slhist[a]>>}

(* Gpredict and Gupdate, over ny tables of the skeleton history. *)
GTables(a, r, future, ny) ==
  {<<"LGEHL", 15, a, r.L_shist[a]>>, <<"TGEHL", 15, a, r.T_slhist[a]>>,
   <<"QGEHL", 15, a, r.Q_slhist[a]>>, <<"SGEHL", 15, a, r.S_slhist[a]>>,
   <<"BGEHL", 10, a, r.BHIST>>, <<"YGEHL", ny, a, r.YHA>>,
   <<"IMLIGEHL", 15, a, r.IMLIhist[r.IMLIcount]>>,
   <<"LIGEHL", 10, a, r.L_shist[a], r.IMLIcount>>, <<"fGEHL", 5, a, future>>,
   <<"IGEHL", 5, a, r.IMLIcount, r.GHIST>>, <<"QQGEHL", 10, 0, r.Q_slhist[a]>>,
   <<"CGEHL", 5, a, r.CHIST>>, <<"RGEHL", 5, a, r.RHIST>>}

(* The outcomes seen at this address when the loop counter was at its value *)
(* and the next ones, and the last one of another pass.                     *)
HistSlot(a, n) == ((a ^^ (a \div 4)) * 2^SHIFTFUTURE + n) % HISTTABLESIZE
futurelocal(a, r) ==
  <<r.PAST[a % 64]>> \o [i \in 1 .. FUTURE + 1 |-> r.histtable[HistSlot(a, r.IMLIcount + i - 1)]]

(* The final stage. *)
FinalReads(a, s, threshold, threshold2, copred) ==
  LET CLASS == <<TypeOf(Abs(s[2]), threshold2), TypeFirstSum(s, threshold), copred,
                 s[1] >= 0, s[2] >= 0>>
  IN {<<"GFINAL", 1, CLASS>>, <<"GFINALCOLT", 1, a, CLASS>>}

SCpredict(a, p, r, s, threshold, copred) ==
  GehlReads(a, chgehl, chrhsp) \cup BiasTables(a, p, s, threshold, copred) \cup Percs(a, r)
    \cup GTables(a, r, futurelocal(a, r), 10)

\* Mutant: an update looks the histories up again after they have moved on.
UpdateSCLate(a, p, r, s, threshold, copred) ==
  LET moved == [r EXCEPT !.GHIST = ((2 * @) % 2^HISTBITS) + 1]
  IN GehlReads(a, chgehl, chrhsp) \cup BiasTables(a, p, s, threshold, copred) \cup Percs(a, moved)
       \cup GTables(a, r, r.futurelocal, 15)

UpdateSC(a, p, r, s, threshold, copred) ==
  GehlReads(a, chgehl, chrhsp) \cup BiasTables(a, p, s, threshold, copred) \cup Percs(a, r)
    \cup GTables(a, r, r.futurelocal, 15)

----------------------------------------------------------------------------
(* The history registers.  A local history belongs to the branches whose    *)
(* address has the same hash; the model keeps one for each address.         *)
NewRegs ==
  [GHIST |-> 0, BHIST |-> 0, YHA |-> 0, P_phist |-> 0, CHIST |-> 0, RHIST |-> 0,
   LastBR |-> [i \in 1 .. 8 |-> 0], lastaddr |-> 0,
   L_shist |-> [a \in PCs |-> 0], Q_slhist |-> [a \in PCs |-> 0],
   S_slhist |-> [a \in PCs |-> 0], T_slhist |-> [a \in PCs |-> 0],
   IMLIcount |-> 0, IMLIhist |-> [n \in 0 .. IMLIMAX |-> 0],
   PAST |-> [n \in 0 .. 63 |-> 0], histtable |-> [n \in 0 .. HISTTABLESIZE - 1 |-> 0],
   futurelocal |-> <<>>]

Bit(b) == IF b THEN 1 ELSE 0
Push(h, bit) == (2 * h + bit) % 2^HISTBITS
PushX(h, x) == ((2 * h) ^^ x) % 2^HISTBITS

(* Address arithmetic is unsigned: PC - 64 wraps below 64. *)
Far(a, target) == target > a + 64 \/ a < 64 \/ target < a - 64

RegsOfBranch(r, a, taken) ==
  LET bit == Bit(taken # ((a \div 32) % 2 = 1))
      old == \E i \in 1 .. 8 : r.LastBR[i] = a
  IN [r EXCEPT !.LastBR = <<a>> \o SubSeq(@, 1, 7),
               !.YHA = IF old THEN @ ELSE PushX(@, bit),
               !.P_phist = PushX(@, bit),
               !.IMLIhist[r.IMLIcount] = PushX(@, bit),
               !.BHIST = IF a + 16 < r.lastaddr \/ a > r.lastaddr + 128
                         THEN PushX(@, a % 16) ELSE @,
               !.lastaddr = a]

RegsOfConditional(r, a, taken, target) ==
  LET count == IF target >= a THEN r.IMLIcount
               ELSE IF ~taken THEN 0
               ELSE IF r.IMLIcount < IMLIMAX THEN r.IMLIcount + 1 ELSE r.IMLIcount
      slot  == HistSlot(a, count)
  IN [r EXCEPT !.L_shist[a] = Push(@, Bit(taken)),
               !.Q_slhist[a] = Push(@, Bit(taken)),
               !.S_slhist[a] = Push(@, Bit(taken)) ^^ ((a \div 16) % 16),
               !.T_slhist[a] = Push(@, Bit(taken)) ^^ ((a \div 16) % 16),
               !.GHIST = Push(@, Bit(taken)),
               !.RHIST = IF Far(a, target) THEN Push(@, Bit(taken)) ELSE @,
               !.CHIST = IF taken /\ target # a + 64 THEN PushX(@, a % 64) ELSE @,
               !.IMLIcount = count,
               !.PAST[a % 64] = IF target >= a THEN r.histtable[slot] ELSE @,
               !.histtable[slot] = IF target >= a THEN Bit(taken) ELSE @]

(* ghist holds DIRBITS bits of each branch. *)
HistoryUpdate(a, conditional, taken, target) ==
  LET r   == RegsOfBranch(regs, a, taken)
      Y   == (ptghist - 1) % HISTBUFFERLENGTH
      DIR == (2 * ((target ^^ (target \div 8)) ^^ a) + Bit(taken)) % 2^DIRBITS
      h   == [ghist EXCEPT ![Y] = DIR]
  IN /\ regs' = IF conditional THEN RegsOfConditional(r, a, taken, target) ELSE r
     /\ ghist' = h
     /\ ptghist' = Y
     /\ chgehl' = [i \in DOMAIN chgehl |-> FoldBranch(chgehl[i], h, Y, mgehl[i])]
     /\ chrhsp' = [i \in DOMAIN chrhsp |-> FoldBranch(chrhsp[i], h, Y, mrhsp[i])]

----------------------------------------------------------------------------
NewSpectra == [i \in Preds |-> [n \in 0 .. SPSIZE[i + 1] - 1 |-> NewSubpath]]
NewPredictors == [i \in Preds |-> NewTage]
NewFrequencies == [n \in 0 .. BFTSIZE - 1 |-> 0]
NewGhist == [n \in 0 .. HISTBUFFERLENGTH - 1 |-> 0]
NewFolds(lengths) == [i \in 1 .. Len(lengths) |-> 0]

(* The weights of the tables are not kept. *)
initSC ==
  /\ ghist = NewGhist /\ ptghist = 0
  /\ chgehl = NewFolds(mgehl) /\ chrhsp = NewFolds(mrhsp)
  /\ updatethreshold = UPDATETHRESHOLD /\ Pupdatethreshold = [a \in PCs |-> 0]
  /\ regs = NewRegs

Init ==
  /\ at = Entry
  /\ phase = "idle" /\ pc = 0
  /\ sp = NewSpectra
  /\ subp = [i \in Preds |-> 0]
  /\ pred = NewPredictors
  /\ bft = NewFrequencies /\ maxfreq = 0
  /\ co = NewColt /\ COPRED = FALSE
  /\ sums = <<0, 0>> /\ FirstThreshold = 0
  /\ initSC
  /\ read = {} /\ trained = {} /\ tracex = <<>> /\ branches = 0

GetPrediction(a, s, beyond) ==
  LET sub == Subpaths(a)
      p   == [i \in Preds |-> condbr_predict(pred[i], a, sp[i][sub[i]], beyond)]
      c   == ColtCtr(co, a, predtaken(p)) >= 0
  IN /\ phase = "idle" /\ branches < MAXBRANCHES
     /\ phase' = "predicted"
     /\ pc' = a /\ subp' = sub /\ pred' = p /\ COPRED' = c /\ sums' = s
     /\ read' = CombinerReads(a, p) \cup SCpredict(a, p, regs, s, FirstThreshold, c)
                  \cup FinalReads(a, s, FirstThreshold, updatethreshold + Pupdatethreshold[a], c)
     /\ trained' = {}
     /\ regs' = [regs EXCEPT !.futurelocal = futurelocal(a, regs)]
     /\ branches' = branches + 1
     /\ UNCHANGED <<sp, bft, maxfreq, co, FirstThreshold, updatethreshold, Pupdatethreshold,
                    ghist, ptghist, chgehl, chrhsp, tracex>>

ForUpdate(a, taken, target) == IF taken THEN (2 * target) ^^ a ELSE a

\* Mutant: the subpaths move on before the predictors are trained.
MoveFirst(taken, target) ==
  /\ sp' = [i \in Preds |->
       [sp[i] EXCEPT ![subp[i]] = UpdateSubpath(@, ForUpdate(pc, taken, target), taken)]]
  /\ pred' = [i \in Preds |-> condbr_update(pred[i], pc, taken, sp'[i][subp[i]])]

(* Each predictor is trained with the subpath it predicted from, which only *)
(* then moves on; the last one's only on a backward branch.                 *)
UpdateTages(taken, target) ==
  LET moves(i) == i < NPRED - 1 \/ target < pc IN
  /\ pred' = [i \in Preds |-> condbr_update(pred[i], pc, taken, sp[i][subp[i]])]
  /\ sp' = [i \in Preds |->
       IF moves(i)
       THEN [sp[i] EXCEPT ![subp[i]] = UpdateSubpath(@, ForUpdate(pc, taken, target), taken)]
       ELSE sp[i]]

UpdateFrequency ==
  /\ maxfreq' = IF getfreq(pc) > maxfreq THEN getfreq(pc) ELSE maxfreq
  /\ bft' = [bft EXCEPT ![pc % BFTSIZE] = @ + 1]

(* Training of the combiner and of the corrector, and their thresholds. *)
TrainsCombiner(taken) == Abs(FirstSum) < FirstThreshold \/ pred_inter # taken
TrainsSC(taken) ==
  predSC # taken \/ Abs(LSUM) < updatethreshold + Pupdatethreshold[pc]
Step(wrong) == IF wrong THEN 1 ELSE -1

AdjustFirstThreshold(taken) ==
  FirstThreshold' = IF TrainsCombiner(taken) THEN FirstThreshold + Step(pred_inter # taken)
                    ELSE FirstThreshold

AdjustThresholds(taken) ==
  IF TrainsSC(taken)
  THEN /\ updatethreshold' = updatethreshold + Step(predSC # taken)
       /\ Pupdatethreshold' = [Pupdatethreshold EXCEPT ![pc] = @ + Step(predSC # taken)]
  ELSE UNCHANGED <<updatethreshold, Pupdatethreshold>>

(* FirstThreshold has been adjusted when BiasFull is indexed again, but     *)
(* TypeFirstSum was computed by the prediction; likewise for the final      *)
(* stage, whose two indices are kept.                                       *)
UpdatePredictor(taken, target) ==
  /\ phase = "predicted"
  /\ phase' = "idle"
  /\ tracex' = Append(tracex, <<pc, target, taken>>)
  /\ UpdateTages(taken, target)
  /\ UpdateFrequency
  /\ AdjustFirstThreshold(taken)
  /\ co' = [co EXCEPT ![pc % 2^LOGCOLT][predtaken(pred)] = ctrupdate(@, taken, COLTBITS)]
  /\ AdjustThresholds(taken)
  /\ trained' =
       (IF TrainsCombiner(taken) THEN CombinerTrains(pc, pred) ELSE {})
         \cup (IF TrainsSC(taken) THEN UpdateSC(pc, pred, regs, sums, FirstThreshold, COPRED) ELSE {})
         \cup FinalReads(pc, sums, FirstThreshold, updatethreshold + Pupdatethreshold[pc], COPRED)
  /\ HistoryUpdate(pc, TRUE, taken, target)
  /\ UNCHANGED <<pc, subp, COPRED, sums, read, branches>>

TrackOtherInst(a, target) ==
  LET path == (2 * (target ^^ (target \div 4))) ^^ (a ^^ (a \div 4)) IN
  /\ phase = "idle" /\ branches < MAXBRANCHES
  /\ branches' = branches + 1
  /\ sp' = [sp EXCEPT ![0][0] = UpdateSubpath(@, path, TRUE), ![5][0] = UpdateSubpath(@, path, TRUE)]
  /\ HistoryUpdate(a, FALSE, TRUE, target)
  /\ UNCHANGED <<phase, pc, subp, pred, bft, maxfreq, sc, read, trained, tracex>>

Next ==
  \/ \E b \in Branch, s \in SUMS, beyond \in BEYOND :
       b[1] = at /\ at' = at /\ GetPrediction(at, s, beyond)
  \/ \E b \in Branch, taken \in BOOLEAN :
       b[1] = at /\ at' = b[IF taken THEN 4 ELSE 3] /\ UpdatePredictor(taken, b[2])
  \/ \E b \in Jump : b[1] = at /\ at' = b[3] /\ TrackOtherInst(b[1], b[2])

Spec == Init /\ [][Next]_vars

----------------------------------------------------------------------------
(* Every compressed and folded history, updated one branch at a time through *)
(* buffers that wrap, is the fold of exactly the branches it stands for      *)
(* (compressed_history::update, folded_history::update).                     *)
HistoriesFolded ==
  /\ phase = "idle" => \A i \in Preds : \A n \in DOMAIN sp[i] : FoldedPath(sp[i][n])
  /\ \A i \in DOMAIN chgehl : chgehl[i] = FoldedBranches(ghist, ptghist, mgehl[i])
  /\ \A i \in DOMAIN chrhsp : chrhsp[i] = FoldedBranches(ghist, ptghist, mrhsp[i])

(* An outcome trains the counters its prediction was made from, although the *)
(* update looks most of them up again through thresholds and histories that  *)
(* it also changes: nothing is trained that was not read, but for the three  *)
(* tables that UpdatePredictor and UpdateSC index differently.               *)
TrainsWhatItRead ==
  \A t \in trained :
    \/ t \in read
    \/ t[1] \in {"TBias", "SB"} /\ t[2] = 2
    \/ t[1] = "YGEHL" /\ \E r \in read : r[1] = "YGEHL" /\ r[4] = t[4]

(* An entry changes hands only if it was not useful, unless failed attempts  *)
(* have begun to clear the usefulness; never the entry that predicted, nor   *)
(* one of a shorter path; after ramp-up never more than MAXALLOC in an       *)
(* update.  Its new tag is the one the branch was looked up with, so that it *)
(* hits when the branch comes again on that path.                            *)
StealsSoundly ==
  [][\A i \in Preds :
       LET old == pred[i]
           new == pred'[i]
           stolen == {b \in Banks : \E j \in DOMAIN old.g[b] : new.g[b][j].tag # old.g[b][j].tag}
       IN /\ \A b \in stolen :
               /\ getg(old, b).u = 0 \/ new.allocfail = ALLOCFAILMAX
               /\ old.hit # <<>> => b < old.hit[1]
               /\ getg(new, b).tag = gtag(pc, sp[i][subp[i]], b)
               /\ getg(new, b).u = 0
          /\ new.nmisp >= RAMPUP => Cardinality(stolen) <= MAXALLOC]_pred
=============================================================================
