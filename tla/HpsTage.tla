------------------------------- MODULE HpsTage -------------------------------
(***************************************************************************)
(* The TAGE predictor of the CBP submission StephenPruett/cbp64KB           *)
(* (predictor.h): global and path history with their folded registers, the *)
(* bimodal and tagged tables, the table that chooses the alternate         *)
(* prediction, the victim cache, and the configuration that decides which    *)
(* of the tables serve which history, given to the rest as g.                *)
(* A component's state is a record; pseudo-random draws are inputs.          *)
(***************************************************************************)
EXTENDS Integers, Sequences, FiniteSets, FiniteSetsExt, SequencesExt

CONSTANTS m,                          \* history lengths, shortest first
          NUM_TABLES, LOG_TABLE_SIZE, LOG_MAX_TABLES, TAG_SIZE,
          CWIDTH, UWIDTH,             \* widths of counters and useful counters
          LOGB, HYSTERESIS,           \* bimodal table, log of branches per hysteresis bit
          LOGALT,                     \* log of the size of AltPredTable
          NNN,                        \* entries allocated beyond the first
          TICKMAX,                    \* conflicts in excess that age all entries
          PATHWIDTH,                  \* pathHistoryWidth
          GHISTBITS,                  \* bits kept of getGlobalHistory
          LOGVICTIM, VHASHES, VINSERTS \* victim cache: size, hashes, inserts per generation

NHIST == Len(m)
Histories == 1 .. NHIST
Tables == 1 .. NUM_TABLES
HistIndexBits == LOG_TABLE_SIZE + LOG_MAX_TABLES
Low(x, bits) == x % 2^bits

(* The operator ^ of C on naturals. *)
xor[x \in Nat, y \in Nat] ==
  IF x = 0 THEN y ELSE IF y = 0 THEN x ELSE 2 * xor[x \div 2, y \div 2] + ((x + y) % 2)
x ^^ y == xor[x, y]

Bit(b) == IF b THEN 1 ELSE 0

ASSUME TageOK ==
  /\ m \in Seq(Nat)
  /\ \A i \in Histories : m[i] \in Nat \ {0} /\ (i > 1 => m[i - 1] < m[i])
  /\ CWIDTH \in Nat \ {0, 1} /\ UWIDTH \in Nat \ {0}
  /\ TAG_SIZE > 1 /\ NNN \in Nat /\ TICKMAX \in Nat /\ VHASHES <= TAG_SIZE

----------------------------------------------------------------------------
(* SaturatingSignedCounter and SaturatingUnsignedCounter. *)
Clamp(v, lo, hi) == IF v > hi THEN hi ELSE IF v < lo THEN lo ELSE v
SignedInc(v, p, w) == Clamp(IF p THEN v + 1 ELSE v - 1, -(2^(w - 1)), 2^(w - 1) - 1)
UnsignedInc(v, p, w) == Clamp(IF p THEN v + 1 ELSE v - 1, 0, 2^w - 1)
Unbiased(v) == v \in {-1, 0}
Reset(p) == IF p THEN 0 ELSE -1

----------------------------------------------------------------------------
(* HistoryRegister, FoldedHistory and History. *)
HISTBUFFERLENGTH == m[NHIST] + 1
Widths == [table |-> HistIndexBits, tag1 |-> TAG_SIZE, tag2 |-> TAG_SIZE - 1]
FoldKinds == DOMAIN Widths

NewHistory ==
  [head |-> 0, bits |-> [i \in 0 .. HISTBUFFERLENGTH - 1 |-> 0], ghist |-> 0, phist |-> 0,
   fold |-> [i \in Histories |-> [f \in FoldKinds |-> 0]]]

BitAt(h, i) == h.bits[(h.head + HISTBUFFERLENGTH - i) % HISTBUFFERLENGTH]

FoldUpdate(value, h, inputWidth, outputWidth) ==
  LET in == 2 * value + BitAt(h, 0)
  IN Low(in ^^ (in \div 2^outputWidth), outputWidth)
       ^^ (BitAt(h, inputWidth) * 2^(inputWidth % outputWidth))

(* One bit of history, one step of the path. *)
PushHistory(h, bit, path) ==
  LET head == (h.head + 1) % HISTBUFFERLENGTH
      g == [h EXCEPT !.head = head, !.bits[head] = bit,
                     !.ghist = Low(2 * @ + bit, GHISTBITS),
                     !.phist = Low((2 * @) ^^ (path % 128), PATHWIDTH)]
  IN [g EXCEPT !.fold = [i \in Histories |->
        [f \in FoldKinds |-> FoldUpdate(h.fold[i][f], g, m[i], Widths[f])]]]

(* A conditional branch pushes its direction, any other four bits. *)
updateHistory(h, pc, conditional, taken) ==
  LET bits == 2 * pc + Bit(taken)
      push(g, n) == PushHistory(g, (bits \div 2^n) % 2, pc \div 2^n)
  IN FoldLeft(push, h, IF conditional THEN <<0>> ELSE <<0, 1, 2, 3>>)

(* The right shift by w - n is by a negative amount for the histories beyond  *)
(* the index width; the processor then shifts everything out.                *)
RotateLeft(x, n, w) == Low(x * 2^n, w) + (IF n <= w THEN x \div 2^(w - n) ELSE 0)

pathHash(path, minWidth, bank, idxSize) ==
  LET p  == Low(path, minWidth)
      hi == RotateLeft(p \div 2^idxSize, bank, idxSize)
  IN RotateLeft(Low(p, idxSize) ^^ hi, bank, idxSize)

getIndex(h, pc, b) ==
  LET w == HistIndexBits
      minWidth == IF m[b] > PATHWIDTH THEN PATHWIDTH ELSE w
      shift == (IF w > b THEN w - b ELSE b - w) + 1
  IN Low(((pc ^^ (pc \div 2^shift)) ^^ h.fold[b].table) ^^ pathHash(h.phist, minWidth, b, w), w)

getTag(h, pc, b) ==
  Low((pc ^^ h.fold[b].tag1) ^^ (2 * h.fold[b].tag2), TAG_SIZE)

----------------------------------------------------------------------------
(* BimodalTable: a direction for each branch, a hysteresis bit for several. *)
NewBimodal == [prediction |-> [i \in 0 .. 2^LOGB - 1 |-> 0],
               hysteresis |-> [i \in 0 .. 2^(LOGB - HYSTERESIS) - 1 |-> 1]]
BimodalIndex(pc) == Low(pc, LOGB)
BimodalValue(bim, pc) ==
  2 * bim.prediction[BimodalIndex(pc)] + bim.hysteresis[BimodalIndex(pc) \div 2^HYSTERESIS]
BimodalUpdate(bim, pc, taken) ==
  LET v == UnsignedInc(BimodalValue(bim, pc), taken, 2)
  IN [bim EXCEPT !.prediction[BimodalIndex(pc)] = v \div 2,
                 !.hysteresis[BimodalIndex(pc) \div 2^HYSTERESIS] = v % 2]

(* TaggedTableEntry.  fresh is history: allocated and not trained since. *)
NewEntry == [counter |-> 0, useful |-> 0, tag |-> 0, fresh |-> FALSE]
isUnused(e) == e.useful = 2^UWIDTH - 1 /\ Unbiased(e.counter)
isUseful(e) == e.useful # 0 /\ ~isUnused(e)
Set(tag, taken) == [counter |-> Reset(taken), useful |-> 2^UWIDTH - 1, tag |-> tag, fresh |-> TRUE]
decAllUseful(table) ==
  [i \in Tables |-> [j \in DOMAIN table[i] |->
     IF isUnused(table[i][j]) THEN table[i][j]
     ELSE [table[i][j] EXCEPT !.useful = UnsignedInc(@, FALSE, UWIDTH)]]]

----------------------------------------------------------------------------
(* VictimCache: two generations of a Bloom filter with a direction in each   *)
(* cell; -1 is an invalid cell.                                              *)
VictimSlots == 0 .. 2^LOGVICTIM - 1
EmptyGeneration == [s \in VictimSlots |-> -1]
FlushedVictims == [active |-> 0, cells |-> <<EmptyGeneration, EmptyGeneration>>, numInserted |-> <<0, 0>>]
dataWidth == TAG_SIZE + LOG_TABLE_SIZE + LOG_MAX_TABLES

VictimHash(idx, n) ==
  LET x == Low(idx, dataWidth)
      rotated == (x \div 2^n) + Low(x, n) * 2^(dataWidth - n)
      chunk(k) == Low(rotated \div 2^(LOGVICTIM * k), LOGVICTIM)
  IN FoldLeft(LAMBDA acc, k : acc ^^ chunk(k), 0, [k \in 1 .. dataWidth |-> k - 1])
VictimCells(idx) == {VictimHash(idx, n) : n \in 0 .. VHASHES - 1}

contains(v, idx, gen) ==
  LET cells == [n \in 0 .. VHASHES - 1 |-> v.cells[gen + 1][VictimHash(idx, n)]]
      falses == Cardinality({n \in DOMAIN cells : cells[n] = 0})
  IN IF \E n \in DOMAIN cells : cells[n] = -1 THEN -1
     ELSE IF falses > VHASHES - falses THEN 0 ELSE 1

(* A full generation gives way to the older one, emptied. *)
VictimInsert(v, idx, p) ==
  LET full == v.numInserted[v.active + 1] + 1 > VINSERTS
      gen == IF full THEN 1 - v.active ELSE v.active
      cells == IF full THEN EmptyGeneration ELSE v.cells[gen + 1]
  IN [active |-> gen,
      cells |-> [v.cells EXCEPT ![gen + 1] =
                   [s \in VictimSlots |-> IF s \in VictimCells(idx) THEN Bit(p) ELSE cells[s]]],
      numInserted |-> IF full THEN [v.numInserted EXCEPT ![v.active + 1] = @ + 1, ![gen + 1] = 1]
                      ELSE [v.numInserted EXCEPT ![gen + 1] = @ + 1]]

(* What search returns, and the cache after it: a find in the older          *)
(* generation is copied.  Search looks for the low bits of what insert was   *)
(* given whole.                                                              *)
search(v, whole) ==
  LET idx == Low(whole, LOGVICTIM)
      now == contains(v, idx, v.active)
      old == contains(v, idx, 1 - v.active)
  IN IF now >= 0 THEN [out |-> now, cache |-> v]
     ELSE IF old >= 0 THEN [out |-> old, cache |-> VictimInsert(v, idx, old = 1)]
     ELSE [out |-> -1, cache |-> v]

----------------------------------------------------------------------------
(* Tage.  g.serves[i] is the history that table i serves, g.size[b] how many *)
(* a history has.  They are numbered from 0 in the order of i; the high bits *)
(* of the index choose one (assert (0) if there is none).  Where gives the   *)
(* table and the index, or <<>> without storage.                             *)
Where(g, h, pc, b) ==
  LET size == g.size[b]
      idx == getIndex(h, pc, b)
      num == (idx \div 2^LOG_TABLE_SIZE) % size
      tables == {i \in Tables : /\ g.serves[i] = b
                               /\ Cardinality({k \in 1 .. i - 1 : g.serves[k] = b}) = num}
  IN IF size = 0 THEN <<>> ELSE <<CHOOSE i \in tables : TRUE, Low(idx, LOG_TABLE_SIZE)>>

EntryAt(t, w) == t.table[w[1]][w[2]]

getMatch(t, g, h, pc, b) ==
  LET w == Where(g, h, pc, b)
  IN IF w # <<>> /\ EntryAt(t, w).tag = getTag(h, pc, b) THEN w ELSE <<>>

NoStats == [b \in 0 .. NHIST |-> [mispredictions |-> 0, attempted |-> 0, conflicts |-> 0]]

NewTage ==
  [table |-> [i \in Tables |-> [j \in 0 .. 2^LOG_TABLE_SIZE - 1 |-> NewEntry]],
   bim |-> NewBimodal, alt |-> [far \in BOOLEAN |-> [i \in 0 .. 2^LOGALT - 1 |-> 0]],
   predBank |-> 0, altpredBank |-> 0, usedBank |-> 0, pred |-> <<>>, altpred |-> <<>>,
   predDir |-> FALSE, altpredDir |-> FALSE, tagePred |-> FALSE, highConfidence |-> FALSE,
   TICK |-> 0, vcache |-> FlushedVictims, vcacheEnable |-> FALSE, victimCacheBank |-> 0,
   stats |-> NoStats]

AltIndex(pc, pred) == Low(pc, LOGALT) ^^ Bit(pred)
FarBank(b) == b > NHIST \div 3

(* The prediction from the entries that match: of bank p, of bank a or, for *)
(* bank 0, of the bimodal table.                                            *)
PredictFrom(t, pc, p, a, pw, aw) ==
  LET v == BimodalValue(t.bim, pc)
      ctr == EntryAt(t, pw).counter
      predDir == IF p = 0 THEN v >= 2 ELSE ctr >= 0
      altDir == IF a = 0 THEN v >= 2 ELSE EntryAt(t, aw).counter >= 0
      useAlt == t.alt[FarBank(p)][AltIndex(pc, predDir)] >= 0 /\ p # 0 /\ Unbiased(ctr)
  IN [t EXCEPT !.predBank = p, !.altpredBank = a, !.pred = pw, !.altpred = aw,
               !.predDir = predDir, !.altpredDir = IF p = 0 THEN predDir ELSE altDir,
               !.tagePred = IF useAlt THEN altDir ELSE predDir,
               !.usedBank = IF useAlt THEN a ELSE p,
               !.highConfidence = IF p = 0 THEN v \in {0, 3}
                                  ELSE 2 * ctr + 1 >= 2^CWIDTH - 1 \/ -(2 * ctr + 1) >= 2^CWIDTH - 1]

LongestMatch(t, pc, match) ==
  LET Best(banks) == Max({0} \cup {b \in banks : match[b] # <<>>})
      MatchOf(b) == IF b = 0 THEN <<>> ELSE match[b]
      p == Best(Histories)
      a == Best({b \in Histories : b < p})
  IN PredictFrom(t, pc, p, a, MatchOf(p), MatchOf(a))

TagePredict(t, g, h, pc) == LongestMatch(t, pc, [b \in Histories |-> getMatch(t, g, h, pc, b)])

(* 1) The table that chooses between the two predictions. *)
UpdateAlt(t, pc, taken) ==
  IF t.predBank > 0 /\ Unbiased(EntryAt(t, t.pred).counter) /\ t.predDir # t.altpredDir
  THEN [t EXCEPT !.alt[FarBank(t.predBank)][AltIndex(pc, t.predDir)] =
          SignedInc(@, t.altpredDir = taken, 4)]
  ELSE t

(* 2) Allocation. *)
Allocates(t, taken) ==
  /\ t.tagePred # taken /\ t.predBank < NHIST
  /\ ~(t.predBank > 0 /\ Unbiased(EntryAt(t, t.pred).counter) /\ t.predDir = taken)

VictimKey(h, pc, b) == getTag(h, pc, b) + getIndex(h, pc, b) * 2^TAG_SIZE

(* The entry of the victim cache's history, if the cache would have been     *)
(* right: s counts allocations and conflicts, and allocations still allowed. *)
Restore(s, g, h, pc, taken) ==
  LET b == s.t.victimCacheBank
      key == VictimKey(h, pc, b)
      found == search(s.t.vcache, key)
      t == [s.t EXCEPT !.vcache = found.cache]
      w == Where(g, h, pc, b)
      e == EntryAt(t, w)
      evicts == [t EXCEPT !.vcache = IF isUnused(e) THEN VictimInsert(@, key, e.counter >= 0) ELSE @,
                          !.table[w[1]][w[2]] = Set(getTag(h, pc, b), taken)]
  IN IF ~s.t.vcacheEnable \/ b = 0 THEN s
     ELSE IF found.out # Bit(taken) \/ w = <<>> THEN [s EXCEPT !.t = t]
     ELSE IF isUseful(e) THEN [s EXCEPT !.t = t, !.conflict = @ + 1]
     ELSE [s EXCEPT !.t = evicts, !.alloc = @ + 1, !.left = @ - 1]

(* One history of the loop; s.next is the history it looks at. *)
AllocateIn(s, b, g, h, pc, taken) ==
  LET t == [s.t EXCEPT !.stats[b].attempted = @ + 1]
      w == Where(g, h, pc, b)
      e == EntryAt(t, w)
      victim == isUnused(e) /\ t.vcacheEnable /\ b = t.victimCacheBank
  IN IF s.next # b THEN s
     ELSE IF w = <<>> THEN [s EXCEPT !.t = t, !.next = b + 1]
     ELSE IF isUseful(e)
     THEN [s EXCEPT !.t = [t EXCEPT !.stats[b].conflicts = @ + 1], !.conflict = @ + 1, !.next = b + 1]
     ELSE [t |-> [t EXCEPT !.vcache = IF victim THEN VictimInsert(@, VictimKey(h, pc, b), e.counter >= 0)
                                      ELSE @,
                           !.table[w[1]][w[2]] = Set(getTag(h, pc, b), taken)],
           conflict |-> s.conflict, alloc |-> s.alloc + 1, left |-> s.left - 1,
           next |-> IF s.left <= 0 THEN NHIST + 1 ELSE b + 2]

(* From predBank + hop upwards; a history after one that got an entry is     *)
(* passed over.                                                              *)
AllocateFrom(s, g, h, pc, taken) ==
  LET upTo[b \in 0 .. NHIST] ==
        IF b = 0 THEN s ELSE AllocateIn(upTo[b - 1], b, g, h, pc, taken)
  IN upTo[NHIST]

Tick(s) ==
  LET tick == s.t.TICK + s.conflict - s.alloc
  IN IF tick > TICKMAX THEN [s.t EXCEPT !.TICK = 0, !.table = decAllUseful(@)]
     ELSE [s.t EXCEPT !.TICK = IF tick < 0 THEN 0 ELSE tick]

Allocate(t, g, h, pc, taken, hop) ==
  LET s == [t |-> t, conflict |-> 0, alloc |-> 0, left |-> NNN, next |-> t.predBank + hop]
  IN Tick(AllocateFrom(Restore(s, g, h, pc, taken), g, h, pc, taken))

(* 3) Counters.  An entry not used so far loses its mark when it is trained. *)
Trained(e, taken) ==
  [e EXCEPT !.useful = IF isUnused(e) THEN 0 ELSE @,
            !.counter = SignedInc(@, taken, CWIDTH), !.fresh = FALSE]

\* Faulty: an entry that turned round stays useful.
StaysUseful(t, w) == t

(* "sign changes: no way it can have been useful" *)
Settled(e) == [e EXCEPT !.useful = IF Unbiased(e.counter) THEN 0 ELSE @]
Settle(t, w) == [t EXCEPT !.table[w[1]][w[2]] = Settled(@)]

UpdateCounters(t, pc, taken) ==
  LET doubt == t.predBank > 0 /\ Unbiased(EntryAt(t, t.pred).counter) /\ t.predDir # taken
      t1 == IF doubt /\ t.altpredBank > 0
            THEN [t EXCEPT !.table[t.altpred[1]][t.altpred[2]] = Trained(@, taken)]
            ELSE IF doubt \/ t.predBank = 0 THEN [t EXCEPT !.bim = BimodalUpdate(@, pc, taken)]
            ELSE t
      t2 == [t1 EXCEPT !.table[t.pred[1]][t.pred[2]] = Trained(@, taken)]
      t3 == Settle(t2, t.pred)
  IN IF t.predBank = 0 THEN t1 ELSE IF t.altpred = <<>> THEN t3 ELSE Settle(t3, t.altpred)

(* 4) Usefulness. *)
UpdateUseful(t, taken) ==
  IF t.predDir # t.altpredDir /\ t.predDir = taken
  THEN [t EXCEPT !.table[t.pred[1]][t.pred[2]].useful = UnsignedInc(@, TRUE, UWIDTH)]
  ELSE t

TageUpdate(t, g, h, pc, taken, hop) ==
  LET t0 == [t EXCEPT !.stats[t.usedBank].mispredictions = @ + Bit(t.tagePred # taken)]
      t1 == UpdateAlt(t0, pc, taken)
      t2 == IF Allocates(t0, taken) THEN Allocate(t1, g, h, pc, taken, hop) ELSE t1
  IN UpdateUseful(UpdateCounters(t2, pc, taken), taken)

----------------------------------------------------------------------------
(* HPSPredictor: NUM_TABLES equal tables are dealt out among the histories, a *)
(* power of two to each, and dealt out anew every SNAPSHOT_PERIOD predictions *)
(* from what the tables did meanwhile.  After NUM_RECONFIGS attempts the best *)
(* configuration is kept.                                                     *)
CONSTANTS bestConfig,           \* tables of each history at the start
          NUM_RECONFIGS, SNAPSHOT_PERIOD,
          CONFIG_THRESH_MISPRED, HYBRID_MISSES

Configs == 0 .. NUM_RECONFIGS
PowersOfTwo == {2^k : k \in 0 .. LOG_MAX_TABLES}

ASSUME ConfigOK ==
  /\ \A b \in Histories : bestConfig[b] \in PowersOfTwo
  /\ FoldLeft(LAMBDA x, y : x + y, 0, bestConfig) = NUM_TABLES
  /\ SNAPSHOT_PERIOD \in Nat \ {0}

Total(f, S) == MapThenSumSet(LAMBDA b : f[b], S)

(* (a - 1) & a # 0 while a is not a power of two; 0 is taken for one. *)
nextPow2(a) == IF a = 0 THEN 0 ELSE CHOOSE n \in {2^k : k \in 0 .. a} : n >= a /\ n < 2 * a

(* 0 where the assertion fails.  IdxRegister starts as the identity, which is *)
(* no configuration.                                                          *)
updateIdxToHist(size) ==
  [i \in Tables |->
     Min({b \in Histories : i <= Total(size, 1 .. b)} \cup
         (IF i > Total(size, Histories) THEN {0} ELSE {}))]

NewConfig ==
  [tables |-> [n \in Configs |-> IF n = 0 THEN bestConfig ELSE [b \in Histories |-> b]],
   idxToHist |-> updateIdxToHist(bestConfig),
   misses |-> [n \in Configs |-> 0],
   configNum |-> 0, currentConfig |-> 0, configTick |-> 0,
   hybridConflictEn |-> TRUE, switchConfig |-> 0]

numTablesInGroup(c) == c.tables[c.currentConfig]
Groups(c) == [size |-> numTablesInGroup(c), serves |-> c.idxToHist]

countUseful(c, table) ==
  [b \in Histories |->
     Cardinality({w \in Tables \X (0 .. 2^LOG_TABLE_SIZE - 1) :
                    c.idxToHist[w[1]] = b /\ isUseful(table[w[1]][w[2]])})]

Average(stats, field) == Total([b \in 0 .. NHIST |-> stats[b][field]], 0 .. NHIST) \div NHIST

(* The first history with the most of something, 0 if none has any. *)
Most(f, S) ==
  LET best == {b \in S : f[b] > 0 /\ \A d \in S : f[d] <= f[b]}
  IN IF best = {} THEN 0 ELSE Min(best)

(* Conflicts count when there are many mispredictions, attempts otherwise,   *)
(* and then all histories from the one with most attempts upwards.  No score *)
(* is 0, which would take all storage away.                                  *)
updateScore(stats, byConflict) ==
  LET top == Most([b \in Histories |-> stats[b].attempted], Histories)
      field == IF byConflict THEN "conflicts" ELSE "attempted"
      busy(b) == stats[b][field] > Average(stats, field)
  IN [b \in Histories |-> 1 + Bit(busy(b)) + Bit(~byConflict /\ top # 0 /\ b >= top)]

(* Phase 1: a history keeps what its useful entries need. *)
Minimized(size, useful) ==
  [b \in Histories |->
     LET need == nextPow2((useful[b] + 2^LOG_TABLE_SIZE - 1) \div 2^LOG_TABLE_SIZE)
     IN IF need > size[b] THEN size[b] ELSE need]

(* Phase 2: from the highest score down, the smallest group of that score is *)
(* doubled, again and again, until it cannot be.  s holds the groups, what    *)
(* is left to deal out and the score.                                        *)
Smallest(s, score) ==
  LET same == {b \in Histories : score[b] = s.score}
      least == {b \in same : \A d \in same : s.size[b] <= s.size[d]}
  IN IF same = {} THEN 0 ELSE Min(least)

\* Faulty: a history without storage is doubled, that is, stays without.
DoubleZero(s, score) ==
  LET b == Smallest(s, score)
  IN IF b = 0 THEN [s EXCEPT !.score = @ - 1]
     ELSE IF s.size[b] \in {0, 2^LOG_MAX_TABLES} \/ s.size[b] > s.left THEN [s EXCEPT !.score = @ - 1]
     ELSE [s EXCEPT !.size[b] = 2 * @, !.left = @ - s.size[b]]

DoubleUp(s, score) ==
  LET b == Smallest(s, score)
      inc == IF s.size[b] = 0 THEN 1 ELSE s.size[b]
  IN IF b = 0 THEN [s EXCEPT !.score = @ - 1]
     ELSE IF inc = 2^LOG_MAX_TABLES \/ inc > s.left THEN [s EXCEPT !.score = @ - 1]
     ELSE [s EXCEPT !.size[b] = @ + inc, !.left = @ - inc]

reconfigure(size, useful, score) ==
  LET kept == Minimized(size, useful)
      start == [size |-> kept, left |-> Total(size, Histories) - Total(kept, Histories),
                score |-> NHIST + 4]
      rounds == NHIST + 5 + NUM_TABLES
      end == FoldLeft(LAMBDA s, n : IF s.score < 0 THEN s ELSE DoubleUp(s, score),
                      start, [n \in 1 .. rounds |-> n])
  IN end.size

(* The first of the configurations with the fewest mispredictions. *)
Best(misses) ==
  Min({n \in Configs : \A k \in Configs : misses[n] <= misses[k]})

(* getPrediction, after TAGE has predicted: at the end of a period the next  *)
(* configuration takes over, before the prediction just made is resolved.    *)
EndOfPeriod(c, stats, table) ==
  LET numMisses == Total([b \in 0 .. NHIST |-> stats[b].mispredictions], 0 .. NHIST)
      misses == [c.misses EXCEPT ![c.currentConfig] = numMisses]
      byConflict == numMisses >= HYBRID_MISSES
      next == IF c.configNum <= NUM_RECONFIGS THEN c.configNum + 1 ELSE c.configNum
      last == c.currentConfig
      busy == (1000 * misses[next - 1]) \div SNAPSHOT_PERIOD >= CONFIG_THRESH_MISPRED
      tables == IF next > NUM_RECONFIGS THEN c.tables
                ELSE [c.tables EXCEPT ![next] =
                        IF busy THEN reconfigure(numTablesInGroup(c), countUseful(c, table),
                                                 updateScore(stats, byConflict))
                        ELSE c.tables[next - 1]]
      switch == UnsignedInc(c.switchConfig, last = Best(misses), 2)
      current == IF next <= NUM_RECONFIGS THEN next
                 ELSE IF switch = 0 THEN Best(misses) ELSE last
  IN [c EXCEPT !.tables = tables, !.idxToHist = updateIdxToHist(tables[current]),
               !.misses = misses, !.configNum = next, !.currentConfig = current,
               !.hybridConflictEn = byConflict,
               !.switchConfig = IF next <= NUM_RECONFIGS THEN @ ELSE switch]

(* The victim cache follows the history with most attempts among those with  *)
(* few conflicts, and is emptied when that changes.                          *)
MoveVictims(t, c) ==
  LET quiet == {b \in Histories : t.stats[b].conflicts < Average(t.stats, "conflicts")}
      bank == Most([b \in Histories |-> t.stats[b].attempted], quiet)
      moves == bank # 0 /\ bank # t.victimCacheBank
  IN [t EXCEPT !.vcache = IF moves THEN FlushedVictims ELSE @,
               !.victimCacheBank = IF moves THEN bank ELSE @,
               !.vcacheEnable = @ \/ c.configNum > NUM_RECONFIGS,
               !.stats = NoStats]

(* After a prediction p: at the end of a period, the reconfiguration. *)
EndPrediction(p, c) ==
  LET tick == (c.configTick + 1) % SNAPSHOT_PERIOD
      c1 == IF tick = 0 THEN EndOfPeriod(c, p.stats, p.table) ELSE c
  IN [t |-> IF tick = 0 THEN MoveVictims(p, c1) ELSE p,
      c |-> [c1 EXCEPT !.configTick = tick]]

HpsPredict(t, c, h, pc) == EndPrediction(TagePredict(t, Groups(c), h, pc), c)
=============================================================================
