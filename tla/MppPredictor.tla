----------------------------- MODULE MppPredictor -----------------------------
(***************************************************************************)
(* The predictor of the CBP submission DanielJimenez2/cbp64KB (predictor.h): *)
(* TAGE and a loop predictor, corrected by a perceptron over GEHL counters   *)
(* and features.  Counters, bimodal table and hashes that it shares with     *)
(* StephenPruett/cbp64KB come from HpsSide.                                   *)
(***************************************************************************)
EXTENDS HpsSide, CbpProgram

----------------------------------------------------------------------------
(* The features: what each remembers of the past branches and which weight   *)
(* it selects.  A hash is kept as what is hashed; weights are not kept, only  *)
(* which are read and trained.                                                *)
CONSTANTS specs,               \* history_spec: [type, p1, p2], one for each table
          MAX_ACYCLIC, MAX_BLURRY, MAX_BLURRY2,
          imli_mask1, imli_mask4, \* tables hashed with an IMLI counter too
          ADDRESSBITS, WEIGHT_BITS

Features == DOMAIN specs
OfType(types) == {i \in Features : specs[i].type \in types}
Parameters(types) == {specs[i].p1 : i \in OfType(types)}
Longest(types, p) == Max({specs[i].p2 + 1 : i \in {k \in OfType(types) : specs[k].p1 = p}})

ASSUME SpecsOK ==
  /\ \A i \in OfType({"IMLI"}) : specs[i].p1 \in {1, 4}
  /\ \A p \in Parameters({"ACYCLIC"}) : p < MAX_ACYCLIC
  /\ \A i \in OfType({"BLURRYPATH"}) : specs[i].p1 < MAX_BLURRY /\ specs[i].p2 <= MAX_BLURRY2

hash_pc(pc) == pc ^^ (pc \div 4)

(* analyze_spec: which histories are kept, and how long. *)
assoc == Max({0} \cup Parameters({"RECENCY", "RECENCYPOS"}))
modhist_indices == Parameters({"MODHIST", "GHISTMODPATH"})
modpath_indices == Parameters({"MODPATH", "GHISTMODPATH"})
modhist_lengths == [p \in modhist_indices |-> Longest({"MODHIST", "GHISTMODPATH"}, p)]
modpath_lengths == [p \in modpath_indices |-> Longest({"MODPATH", "GHISTMODPATH"}, p)]

(* The storage the histories take, IMLI counters included but not the modulo *)
(* path histories; when it exceeds the budget the predictor gives up.        *)
HistoryBits ==
  LET blurry(p) == Max({specs[i].p2 : i \in {k \in OfType({"BLURRYPATH"}) : specs[k].p1 = p}})
  IN 64 + MapThenSumSet(LAMBDA p : blurry(p) * (ADDRESSBITS - p), Parameters({"BLURRYPATH"}))
        + MapThenSumSet(LAMBDA p : p + 2, Parameters({"ACYCLIC"}))
        + MapThenSumSet(LAMBDA p : modhist_lengths[p], modhist_indices)
        + assoc * 16
analyze_spec(totalbits, contest_bits) ==
  contest_bits - (totalbits + HistoryBits) <= -(Len(specs) * WEIGHT_BITS)

Zeros(n) == [i \in 1 .. n |-> 0]
NewFeatures ==
  [recency |-> Zeros(assoc),
   acyclic |-> [i \in 0 .. MAX_ACYCLIC - 1 |-> [j \in 0 .. i + 1 |-> 0]],
   modhist |-> [p \in modhist_indices |-> Zeros(modhist_lengths[p])],
   modpath |-> [p \in modpath_indices |-> Zeros(modpath_lengths[p])],
   blurry |-> [i \in 0 .. MAX_BLURRY - 1 |-> Zeros(MAX_BLURRY2)],
   imli1 |-> 0, imli4 |-> 0]

----------------------------------------------------------------------------
(* get_hash and get_index. *)
FirstOf(s, n) == SubSeq(s, 1, n)
hash_recencypos(f, pc, l) == Min({i \in 1 .. l : f.recency[i] = pc \div 4} \cup {l + 1})

get_hash(f, s, pc) ==
  CASE s.type = "BIAS" -> <<>>
    [] s.type = "IMLI" -> <<IF s.p1 = 1 THEN f.imli1 ELSE f.imli4>>
    [] s.type = "ACYCLIC" -> <<f.acyclic[s.p1]>>
    [] s.type = "MODHIST" -> FirstOf(f.modhist[s.p1], s.p2)
    [] s.type = "GHISTMODPATH" -> FirstOf(f.modpath[s.p1], s.p2) \o FirstOf(f.modhist[s.p1], s.p2)
    [] s.type = "MODPATH" -> FirstOf(f.modpath[s.p1], s.p2)
    [] s.type = "RECENCY" -> FirstOf(f.recency, s.p1)
    [] s.type = "BLURRYPATH" -> FirstOf(f.blurry[s.p1], s.p2)
    [] s.type = "RECENCYPOS" -> <<hash_recencypos(f, pc, s.p1)>>

get_index(f, pc, i) ==
  <<i, get_hash(f, specs[i], pc), hash_pc(pc),
    IF i \in imli_mask1 THEN f.imli1 ELSE 0, IF i \in imli_mask4 THEN f.imli4 ELSE 0>>

(* compute_partial_sum reads, update_partial trains these. *)
Weights(f, pc) == {get_index(f, pc, i) : i \in Features}

----------------------------------------------------------------------------
(* update_histories. *)
PushFront(s, x) == SubSeq(<<x>> \o s, 1, Len(s))

\* Faulty: a branch that is in the stack stays where it is.
InsertFifo(stack, pc) == IF \E i \in DOMAIN stack : stack[i] = pc THEN stack ELSE PushFront(stack, pc)

insert_recency(stack, pc) ==
  LET i == Min({k \in DOMAIN stack : stack[k] = pc} \cup {Len(stack)})
  IN [k \in DOMAIN stack |-> IF k = 1 THEN pc ELSE IF k <= i THEN stack[k - 1] ELSE stack[k]]

update_histories(f, pc, bit) ==
  LET hpc == hash_pc(pc)
      selected(p) == hpc % (p + 2) = 0
      page(i) == pc \div 2^i
  IN [f EXCEPT
        !.recency = insert_recency(@, pc \div 4),
        !.acyclic = [i \in DOMAIN f.acyclic |-> [f.acyclic[i] EXCEPT ![hpc % (i + 2)] = bit]],
        !.modpath = [p \in modpath_indices |-> IF selected(p) THEN PushFront(f.modpath[p], hpc) ELSE f.modpath[p]],
        !.modhist = [p \in modhist_indices |-> IF selected(p) THEN PushFront(f.modhist[p], bit) ELSE f.modhist[p]],
        !.blurry = [i \in DOMAIN f.blurry |-> IF f.blurry[i][1] # page(i) THEN PushFront(f.blurry[i], page(i))
                                              ELSE f.blurry[i]]]

(* HistoryUpdate: iterations of the innermost loop, and their counterpart    *)
(* for branches forward.                                                     *)
CountIterations(f, pc, taken, target) ==
  IF target < pc THEN [f EXCEPT !.imli1 = IF taken THEN @ + 1 ELSE 0]
  ELSE [f EXCEPT !.imli4 = IF taken THEN 0 ELSE @ + 1]

----------------------------------------------------------------------------
CONSTANTS logg, TB,          \* log of size and tag width of each tagged table
          PERCWIDTH, LOGBIAS, gehl   \* geometry of the perceptron: [nb, log] of each GEHL

VARIABLES punting, hist, f, tagged, loops, p, past
mppState == <<punting, hist, f, tagged, loops, p, past>>

HASHPC(pc) == pc ^^ (pc \div 16)
abs2(ctr) == Abs(2 * ctr + 1)

----------------------------------------------------------------------------
(* predictorsize: bits of storage before the features.  The global histories *)
(* of the perceptron are added and then overwritten, so they do not count.   *)
GehlBits(g) == (g.nb - 2) * 2^g.log * (PERCWIDTH - 1) + 2^(g.log - 1) * (2 * PERCWIDTH - 1)

predictorsize ==
  LET tage == MapThenSumSet(LAMBDA b : 2^logg[b] * (CWIDTH + UWIDTH + TB[b]), Histories)
                + 8 * 2^LOGALT + 2^LOGB + 2^(LOGB - HYSTERESIS) + m[NHIST] + PATHWIDTH + 10
      loop == 2^LOGL * (2 * WIDTHNBITERLOOP + LOOPTAG + 4 + 4 + 1)
      tables == PERCWIDTH * 4 * 2^LOGBIAS + MapThenSumSet(LAMBDA c : GehlBits(gehl[c]), DOMAIN gehl)
      histories == (2^LOGLOCAL + 2 * 2^LOGSECLOCAL) * HISTBITS + 2^logHSTACKSIZE * 16 + logHSTACKSIZE
  IN tage + loop + tables + histories + 8 * 2^LOGSIZEUP + 3 * CONFWIDTH

----------------------------------------------------------------------------
(* Global history, path history and folded_history. *)
FoldWidths(b) == [ch_i |-> logg[b], ch_t0 |-> TB[b], ch_t1 |-> TB[b] - 1]

NewHist ==
  [ghist |-> [i \in 1 .. m[NHIST] |-> 0], phist |-> 0,
   comp |-> [b \in Histories |-> [k \in DOMAIN FoldWidths(b) |-> 0]]]

(* The buffer holds more than the longest history; what matters is the bit   *)
(* that enters and the one that leaves.                                      *)
Folded(comp, in, out, olength, clength) ==
  LET x == ((2 * comp) ^^ in) ^^ (out * 2^(olength % clength))
  IN Low(x ^^ (x \div 2^clength), clength)

PushBit(h, bit, path) ==
  [ghist |-> PushFront(h.ghist, bit),
   phist |-> Low((2 * h.phist) ^^ (path % 128), PATHWIDTH),
   comp |-> [b \in Histories |-> [k \in DOMAIN h.comp[b] |->
               Folded(h.comp[b][k], bit, h.ghist[m[b]], m[b], FoldWidths(b)[k])]]]

(* HistoryUpdate: one bit for a conditional branch, else four. *)
HistoryUpdate(h, pc, maxt, taken) ==
  LET T == 2 * pc + Bit(taken)
  IN FoldLeft(LAMBDA g, n : PushBit(g, (T \div 2^n) % 2, pc \div 2^n), h, [n \in 1 .. maxt |-> n - 1])

F(A, size, b) ==
  LET A0 == Low(A, size)
      A1 == Low(A0, logg[b]) ^^ RotateLeft(A0 \div 2^logg[b], b, logg[b])
  IN RotateLeft(A1, b, logg[b])

gindex(h, pc, b) ==
  LET M == Min({m[b], PATHWIDTH})
      shift == Abs(logg[b] - b) + 1
  IN Low(((pc ^^ (pc \div 2^shift)) ^^ h.comp[b].ch_i) ^^ F(h.phist, M, b), logg[b])

gtag(h, pc, b) == Low((pc ^^ h.comp[b].ch_t0) ^^ (2 * h.comp[b].ch_t1), TB[b])

----------------------------------------------------------------------------
(* TAGE. *)
NewTagged ==
  [gtable |-> [b \in Histories |-> [i \in 0 .. 2^logg[b] - 1 |-> [ctr |-> 0, tag |-> 0, u |-> 0]]],
   btable |-> NewBimodal, use_alt_on_na |-> [i \in 0 .. 2^LOGALT - 1 |-> [far \in BOOLEAN |-> 0]],
   GI |-> [b \in Histories |-> 0], GTAG |-> [b \in Histories |-> 0], HitBank |-> 0, AltBank |-> 0,
   LongestMatchPred |-> FALSE, alttaken |-> FALSE, tage_pred |-> FALSE, HighConf |-> FALSE, TICK |-> 0]

Entry(t, b) == t.gtable[b][t.GI[b]]
INDUSEALT(pc, pred) == Low(HASHPC(pc), LOGALT) ^^ Bit(pred)

Tagepred(t, h, pc) ==
  LET GI == [b \in Histories |-> gindex(h, pc, b)]
      GTAG == [b \in Histories |-> gtag(h, pc, b)]
      hits == {b \in Histories : t.gtable[b][GI[b]].tag = GTAG[b]}
      HitBank == Max({0} \cup hits)
      AltBank == Max({0} \cup {b \in hits : b < HitBank})
      ctr == t.gtable[HitBank][GI[HitBank]].ctr
      BIM == BimodalValue(t.btable, HASHPC(pc))
      alttaken == IF AltBank > 0 THEN t.gtable[AltBank][GI[AltBank]].ctr >= 0 ELSE BIM >= 2
      longest == IF HitBank > 0 THEN ctr >= 0 ELSE alttaken
      use_alt == t.use_alt_on_na[INDUSEALT(pc, longest)][FarBank(HitBank)] >= 0
  IN [t EXCEPT !.GI = GI, !.GTAG = GTAG, !.HitBank = HitBank, !.AltBank = AltBank,
               !.LongestMatchPred = longest, !.alttaken = alttaken,
               !.tage_pred = IF HitBank > 0 /\ use_alt /\ abs2(ctr) <= 1 THEN alttaken ELSE longest,
               !.HighConf = IF HitBank > 0 THEN abs2(ctr) >= 2^CWIDTH - 1 ELSE BIM \in {0, 3}]

(* Seldom when the prediction was right although TAGE's was wrong, and not   *)
(* while the longest match is new and right.                                 *)
ALLOC(t, taken, right, force) ==
  /\ t.tage_pred # taken /\ t.HitBank < NHIST
  /\ right => force
  /\ ~(t.HitBank > 0 /\ abs2(Entry(t, t.HitBank).ctr) <= 1 /\ t.LongestMatchPred = taken)

(* One bank of the loop; next is the bank it looks at. *)
AllocateBank(s, b, taken) ==
  IF s.next # b THEN s
  ELSE IF Entry(s.t, b).u # 0 THEN [s EXCEPT !.excess = @ + 1, !.next = b + 1]
  ELSE [t |-> [s.t EXCEPT !.gtable[b][s.t.GI[b]] = [ctr |-> Reset(taken), tag |-> s.t.GTAG[b], u |-> @.u]],
        excess |-> s.excess - 1, left |-> s.left - 1,
        next |-> IF s.left <= 0 THEN NHIST + 1 ELSE b + 2]

AllocateBanks(t, taken, A) ==
  LET s == FoldLeft(LAMBDA acc, b : AllocateBank(acc, b, taken),
                    [t |-> t, excess |-> 0, left |-> NNN, next |-> t.HitBank + A],
                    [b \in Histories |-> b])
      tick == t.TICK + s.excess
      age(e) == [e EXCEPT !.u = IF @ > 0 THEN @ - 1 ELSE 0]
  IN IF tick > TICKMAX
     THEN [s.t EXCEPT !.TICK = 0, !.gtable = [b \in Histories |-> [i \in DOMAIN @[b] |-> age(@[b][i])]]]
     ELSE [s.t EXCEPT !.TICK = Max({tick, 0})]

UpdateCounts(t, pc, taken) ==
  LET hit == t.HitBank
      alt == t.AltBank
      doubt == hit > 0 /\ abs2(Entry(t, hit).ctr) = 1 /\ t.LongestMatchPred # taken
      t1 == IF doubt /\ alt > 0
            THEN [t EXCEPT !.gtable[alt][t.GI[alt]].ctr = SignedInc(@, taken, CWIDTH)]
            ELSE IF doubt \/ hit = 0 THEN [t EXCEPT !.btable = BimodalUpdate(@, HASHPC(pc), taken)]
            ELSE t
      ctr == SignedInc(Entry(t1, hit).ctr, taken, CWIDTH)
      useful == t.LongestMatchPred # t.alttaken /\ t.LongestMatchPred = taken
      u == IF abs2(ctr) = 1 THEN 0 ELSE Entry(t1, hit).u
  IN IF hit = 0 THEN t1
     ELSE [t1 EXCEPT !.gtable[hit][t.GI[hit]] =
             [@ EXCEPT !.ctr = ctr, !.u = IF useful THEN UnsignedInc(u, TRUE, UWIDTH) ELSE u]]

UpdateTage(t, pc, taken, right, rnd) ==
  LET longest == t.LongestMatchPred
      chooses == t.HitBank > 0 /\ abs2(Entry(t, t.HitBank).ctr) <= 1 /\ longest # t.alttaken
      t1 == IF chooses
            THEN [t EXCEPT !.use_alt_on_na[INDUSEALT(pc, longest)][FarBank(t.HitBank)] =
                    SignedInc(@, t.alttaken = taken, 4)] ELSE t
  IN UpdateCounts(IF ALLOC(t, taken, right, rnd.force) THEN AllocateBanks(t1, taken, rnd.hop) ELSE t1,
                  pc, taken)

----------------------------------------------------------------------------
(* Loop predictor. *)
NewLoops == [ltable |-> [i \in 0 .. 2^LOGL - 1 |->
               [NbIter |-> 0, confid |-> 0, CurrentIter |-> 0, TAG |-> 0, age |-> 0, dir |-> FALSE]],
             predloop |-> FALSE, LHIT |-> -1, LVALID |-> FALSE, WITHLOOP |-> -1]

lindex(pc) == Low(HASHPC(pc), LOGL - 2) * 4
Way(pc, i) == (lindex(pc) ^^ ((LIB(pc) \div 2^i) * 4)) + i

getloop(lp, pc) ==
  LET hits == {i \in Ways : lp.ltable[Way(pc, i)].TAG = LoopTag(pc)}
      e == lp.ltable[Way(pc, Min(hits))]
  IN IF hits = {} THEN [lp EXCEPT !.LHIT = -1, !.LVALID = FALSE, !.predloop = FALSE]
     ELSE [lp EXCEPT !.LHIT = Min(hits),
                     !.LVALID = e.confid = CONFLOOP \/ e.confid * e.NbIter > LOOPPRODUCT,
                     !.predloop = IF e.CurrentIter + 1 = e.NbIter THEN ~e.dir ELSE e.dir]

Forgotten(e) == [e EXCEPT !.NbIter = 0, !.confid = 0]

(* The branch left the direction of the loop. *)
LoopExit(e, taken) ==
  [ (IF e.CurrentIter = e.NbIter
     THEN IF e.NbIter < 3 THEN [Forgotten(e) EXCEPT !.dir = taken, !.age = 0]
          ELSE [e EXCEPT !.confid = Min({@ + 1, CONFLOOP})]
     ELSE IF e.NbIter = 0 THEN [e EXCEPT !.confid = 0, !.NbIter = e.CurrentIter]
     ELSE Forgotten(e)) EXCEPT !.CurrentIter = 0]

LoopHit(lp, e, taken, tage_pred, ageing) ==
  LET aged == IF lp.LVALID /\ (lp.predloop # tage_pred \/ ageing) /\ e.age < CONFLOOP THEN e.age + 1
              ELSE e.age
      curr == Low(e.CurrentIter + 1, WIDTHNBITERLOOP)
      e1 == [(IF curr > e.NbIter THEN Forgotten(e) ELSE e) EXCEPT !.CurrentIter = curr, !.age = aged]
  IN IF lp.LVALID /\ taken # lp.predloop THEN [Forgotten(e) EXCEPT !.age = 0, !.CurrentIter = 0]
     ELSE IF taken # e1.dir THEN LoopExit(e1, taken) ELSE e1

loopupdate(lp, pc, taken, tage_pred, allocate, rnd) ==
  LET slot == Way(pc, IF lp.LHIT >= 0 THEN lp.LHIT ELSE rnd.way)
      e == lp.ltable[slot]
      new == [NbIter |-> 0, confid |-> 0, CurrentIter |-> 0, TAG |-> LoopTag(pc), age |-> 7, dir |-> ~taken]
  IN IF lp.LHIT >= 0 THEN [lp EXCEPT !.ltable[slot] = LoopHit(lp, e, taken, tage_pred, rnd.age)]
     ELSE IF ~(allocate /\ rnd.alloc) THEN lp
     ELSE [lp EXCEPT !.ltable[slot] = IF e.age = 0 THEN new ELSE [e EXCEPT !.age = @ - 1]]

----------------------------------------------------------------------------
(* The perceptron.  Its local and call histories; GHIST has conditional      *)
(* branches only.  IMLIcount is set aside while it is used, and left out.    *)
NewPerceptron ==
  [x \in DOMAIN NewCorrector \cup {"GHIST", "pred_inter"} |->
     CASE x = "GHIST" -> 0 [] x = "pred_inter" -> FALSE [] OTHER -> NewCorrector[x]]

(* Gpredict and Gupdate: the same counters, by table, address and history. *)
Gehl(tab, pc, BHIST) == <<tab, pc, BHIST>>

Counters(s, ft, pc) ==
  {<<"Bias", pc, s.pred_inter>>, <<"BiasSK", pc, s.pred_inter>>,
   Gehl("GGEHL", 2 * pc + Bit(s.pred_inter), s.GHIST),
   Gehl("LGEHL", pc, s.L_shist[INDLOCAL(HASHPC(pc))]), Gehl("TGEHL", pc, s.T_slhist[INDTLOCAL(pc)]),
   Gehl("SGEHL", pc, s.S_slhist[INDSLOCAL(pc)]), Gehl("PGEHL", pc, s.HSTACK[s.pthstack])}
  \cup Weights(ft, pc)

(* The rest of HistoryUpdate. *)
UpdateLocal(s, pc, kind, taken, target) ==
  LET q == s.pthstack
      up == (q + 1) % 2^logHSTACKSIZE
      top == Low((2 * s.HSTACK[q]) ^^ ((target ^^ (target \div 32)) ^^ Bit(taken)), HISTBITS)
      L == INDLOCAL(HASHPC(pc))
      S == INDSLOCAL(pc)
      called == [s EXCEPT !.HSTACK[q] = top, !.pthstack = IF "ret" \in kind THEN (q - 1) % 2^logHSTACKSIZE
                                                          ELSE IF "call" \in kind THEN up ELSE @]
      moved == IF "call" \in kind THEN [called EXCEPT !.HSTACK[up] = top] ELSE called
  IN IF "cond" \notin kind THEN moved
     ELSE [moved EXCEPT !.GHIST = Push(@, Bit(taken)), !.L_shist[L] = Push(@, Bit(taken)),
                        !.S_slhist[S] = Push(@, Bit(taken)) ^^ (HASHPC(pc) % 16),
                        !.T_slhist[INDTLOCAL(pc)] = Push(@, Bit(taken))]

(* Chooser, threshold and counters. *)
UpdatePerceptron(s, ft, pc, taken, confident) ==
  LET u == INDUPD(HASHPC(pc))
      z == Zone(s, HASHPC(pc))
      wrong == SCPRED(s) # taken
      s1 == IF s.pred_inter # SCPRED(s) /\ confident /\ z # 0
            THEN [s EXCEPT !.confidence[z] = SignedInc(@, taken = s.pred_inter, CONFWIDTH)] ELSE s
  IN IF wrong \/ Abs(s.LSUM) < s.Pupdatethreshold[u]
     THEN [s1 EXCEPT !.Pupdatethreshold[u] = Clamp(IF wrong THEN @ + 1 ELSE @ - 1, 0, THRESHOLDMAX),
                     !.trained = Counters(s, ft, pc)]
     ELSE s1

----------------------------------------------------------------------------
MppInit ==
  /\ punting = analyze_spec(predictorsize, prog.budget)
  /\ hist = NewHist /\ f = NewFeatures /\ tagged = NewTagged /\ loops = NewLoops
  /\ p = NewPerceptron /\ past = <<>>

lookup(pc) ==
  LET inter == IF loops'.WITHLOOP >= 0 /\ loops'.LVALID THEN loops'.predloop ELSE tagged'.tage_pred
      s == [p EXCEPT !.pred_inter = inter, !.LSUM = Draw.lsum]
  IN /\ phase = "idle" /\ More
     /\ phase' = "predicted"
     /\ tagged' = Tagepred(tagged, hist, pc) /\ loops' = getloop(loops, pc)
     /\ p' = [s EXCEPT !.read = Counters(s, f, pc), !.trained = {}]
     /\ prediction' = CorrectedPrediction(s, HASHPC(pc), inter, tagged'.HighConf)
     /\ Fetch
     /\ UNCHANGED <<punting, hist, f, past>>

(* Every branch that is predicted counts as a direct conditional jump. *)
TrainPerceptron(pc, taken, target) ==
  /\ p' = UpdateLocal(UpdatePerceptron(p, f, pc, taken, tagged.HighConf), pc, {"cond"}, taken, target)
  /\ f' = CountIterations(update_histories(f, pc, Bit(taken)), pc, taken, target)

update(pc, taken, target) ==
  LET monitored == IF loops.LVALID /\ prediction # loops.predloop
                   THEN [loops EXCEPT !.WITHLOOP = SignedInc(@, loops.predloop = taken, 7)] ELSE loops
      right == prediction = taken
  IN /\ phase = "predicted"
     /\ phase' = "idle"
     /\ loops' = loopupdate(monitored, pc, taken, tagged.tage_pred, ~right, Draw)
     /\ TrainPerceptron(pc, taken, target)
     /\ tagged' = UpdateTage(tagged, pc, taken, right, Draw)
     /\ hist' = HistoryUpdate(hist, pc, 1, taken)
     /\ past' = <<<<pc, taken, target>>>> \o past
     /\ UNCHANGED <<punting, prediction>>

nonconditional_branch(pc, kind, target) ==
  /\ phase = "idle" /\ More
  /\ hist' = HistoryUpdate(hist, pc, 4, TRUE)
  /\ p' = UpdateLocal(p, pc, kind, TRUE, target)
  /\ UNCHANGED <<punting, phase, prediction, f, tagged, loops, past>>

(* "too big. punting." *)
Punt ==
  /\ prediction' = FALSE
  /\ \/ phase = "idle" /\ More /\ phase' = "predicted" /\ Fetch
     \/ /\ phase = "predicted" /\ phase' = "idle"
        /\ \E b \in prog.branches, taken \in Outcomes : b[1] = at /\ Resolve(b, taken)
  /\ UNCHANGED mppState

MppNext ==
  \/ punting /\ (\E b \in prog.branches : b[1] = at) /\ Punt
  \/ ~punting /\ \E b \in prog.branches : b[1] = at /\ lookup(at)
  \/ ~punting /\ \E b \in prog.branches, taken \in Outcomes :
       b[1] = at /\ update(at, taken, b[2]) /\ Resolve(b, taken)
  \/ \E j \in prog.jumps : j[1] = at /\ nonconditional_branch(at, j[4], j[2]) /\ FollowJump(j)

----------------------------------------------------------------------------
(* Every feature is what its comment says of the past: "the most recent       *)
(* history of pc" by residue, the outcomes and paths of the branches of a    *)
(* residue, the last pages without repetition, the last branches in order of *)
(* use, and the iterations since the loop was entered.  past is the past,    *)
(* latest first.                                                             *)
FeaturesExact ==
  LET Padded(s, n) == SubSeq(s \o Zeros(n), 1, n)
      of(j) == past[j][1]
      Selected(q, x(_)) == [i \in 1 .. Cardinality({j \in DOMAIN past : hash_pc(of(j)) % (q + 2) = 0}) |->
        x(CHOOSE j \in DOMAIN past : /\ hash_pc(of(j)) % (q + 2) = 0
                                     /\ Cardinality({k \in 1 .. j : hash_pc(of(k)) % (q + 2) = 0}) = i)]
      Where1(P(_)) == LET first == {j \in DOMAIN past : P(j) /\ \A k \in 1 .. j - 1 : ~P(k)}
                      IN IF first = {} THEN 0 ELSE Min(first)
      backward(j) == past[j][3] < of(j)
      since(P(_), Q(_)) == Cardinality({j \in DOMAIN past : P(j) /\ \A k \in 1 .. j : ~Q(k)})
      lastUse == SelectSeq([j \in DOMAIN past |-> <<j, of(j) \div 4>>],
                           LAMBDA e : \A k \in 1 .. e[1] - 1 : of(k) \div 4 # e[2])
      page(i, j) == IF j > Len(past) THEN 0 ELSE of(j) \div 2^i
      pages(i) == SelectSeq([j \in DOMAIN past |-> <<page(i, j), page(i, j + 1)>>], LAMBDA e : e[1] # e[2])
  IN /\ f.recency = Padded([i \in DOMAIN lastUse |-> lastUse[i][2]], assoc)
     /\ \A q \in modhist_indices :
          f.modhist[q] = Padded(Selected(q, LAMBDA j : Bit(past[j][2])), modhist_lengths[q])
     /\ \A q \in modpath_indices :
          f.modpath[q] = Padded(Selected(q, LAMBDA j : hash_pc(of(j))), modpath_lengths[q])
     /\ \A i \in DOMAIN f.acyclic : \A r \in DOMAIN f.acyclic[i] :
          LET j == Where1(LAMBDA k : hash_pc(of(k)) % (i + 2) = r)
          IN f.acyclic[i][r] = IF j = 0 THEN 0 ELSE Bit(past[j][2])
     /\ \A i \in DOMAIN f.blurry :
          f.blurry[i] = Padded([k \in DOMAIN pages(i) |-> pages(i)[k][1]], MAX_BLURRY2)
     /\ f.imli1 = since(LAMBDA j : backward(j), LAMBDA k : backward(k) /\ ~past[k][2])
     /\ f.imli4 = since(LAMBDA j : ~backward(j), LAMBDA k : ~backward(k) /\ past[k][2])
=============================================================================
