------------------------------- MODULE PoTage -------------------------------
(***************************************************************************)
(* One TAGE predictor of the CBP predictor (class tage of                   *)
(* cbp2016.eval/sim/predictor.cc): path history registers in circular       *)
(* buffers, the compressed histories that follow them incrementally, one    *)
(* for each index and tag hash, a bimodal table, tagged tables from the     *)
(* longest path (bank 0) to the shortest, and the post-predictor on top.    *)
(***************************************************************************)
EXTENDS Integers, Sequences, SequencesExt, Bitwise, FiniteSets

CONSTANTS hist,       \* path lengths asked for, shortest first (from pow() in the code)
          LOGG, TAGBITS, HASHPARAM,
          PATHBITS    \* bits of each path element that are hashed

numg == Len(hist)
Banks == 0 .. numg - 1
hlength == hist[numg] + 1

ASSUME HistoryOK ==
  /\ numg > 1 /\ \A i \in 1 .. numg : hist[i] \in Nat \ {0}
  /\ LOGG < 30 /\ TAGBITS < 16
  /\ PATHBITS <= LOGG - HASHPARAM /\ PATHBITS <= TAGBITS - 1

Mask(x, bits) == x % 2^bits

----------------------------------------------------------------------------
(* path_history: h[ptr] is the newest element. *)
DECPTR(ptr, size) == IF ptr = 0 THEN size - 1 ELSE ptr - 1

EmptyPath == [ptr |-> 0, h |-> [i \in 0 .. hlength - 1 |-> 0]]

insert(ph, val) ==
  LET p == DECPTR(ph.ptr, hlength) IN [ptr |-> p, h |-> [ph.h EXCEPT ![p] = val]]

PathAt(ph, n) ==
  LET k == ph.ptr + n IN ph.h[IF k >= hlength THEN k - hlength ELSE k]

----------------------------------------------------------------------------
(* compressed_history: clength bits, followed through rotations. *)
rotateleft(x, m, clength) == Mask(x * 2^m, clength) + x \div 2^(clength - m)

\* Mutant: what leaves the history is not rotated to where it is.
CompressAtZero(comp, ph, olength, clength) ==
  (rotateleft(comp, 1, clength) ^^ Mask(PathAt(ph, 0), PATHBITS))
    ^^ Mask(PathAt(ph, olength), PATHBITS)

Compress(comp, ph, olength, clength) ==
  LET outbits == rotateleft(Mask(PathAt(ph, olength), PATHBITS), olength % clength, clength)
  IN (rotateleft(comp, 1, clength) ^^ Mask(PathAt(ph, 0), PATHBITS)) ^^ outbits

(* The path length of each bank: bank 0 has the longest; lengths are kept  *)
(* apart by counting up where two of hist coincide.                         *)
olength ==
  LET len[i \in Banks] ==
        LET asked == hist[numg - i]
            below == IF i = numg - 1 THEN 0 ELSE len[i + 1]
        IN IF below < asked THEN asked ELSE below + 1
  IN len

(* The four hashes of a bank: index, second index, tag, second tag. *)
Hashes == {"chg", "chgg", "cht", "chtt"}
clength == [chg |-> LOGG, chgg |-> LOGG - HASHPARAM, cht |-> TAGBITS, chtt |-> TAGBITS - 1]

----------------------------------------------------------------------------
(* subpath: a path history and its compressed histories. *)
NewSubpath == [ph |-> EmptyPath, comp |-> [b \in Banks |-> [c \in Hashes |-> 0]]]

UpdateSubpath(p, targetpc, taken) ==
  LET ph == insert(p.ph, 2 * targetpc + (IF taken THEN 1 ELSE 0))
  IN [ph |-> ph,
      comp |-> [b \in Banks |->
                 [c \in Hashes |-> Compress(p.comp[b][c], ph, olength[b], clength[c])]]]

cg(p, b) == p.comp[b].chg
cgg(p, b) == p.comp[b].chgg * 2^(clength.chg - clength.chgg)
ct(p, b) == p.comp[b].cht
ctt(p, b) == p.comp[b].chtt * 2^(clength.cht - clength.chtt)

(* What a compressed history stands for: the last len elements, each        *)
(* rotated by its age.                                                      *)
Fold(ph, len, clen) ==
  FoldSeq(LAMBDA x, y : x ^^ y, 0,
          [k \in 1 .. len |-> rotateleft(Mask(PathAt(ph, k - 1), PATHBITS), (k - 1) % clen, clen)])

FoldedPath(p) ==
  \A b \in Banks, c \in Hashes : p.comp[b][c] = Fold(p.ph, olength[b], clength[c])

----------------------------------------------------------------------------
(* folded_history over the global history ghist: DIRBITS bits per branch,   *)
(* newest at PT, folded to CLENGTH bits by shift and exclusive or.          *)
CONSTANTS HISTBUFFERLENGTH, DIRBITS, LOGGEHL

FoldBranch(comp, h, PT, OLENGTH) ==
  LET in  == (2 * comp) ^^ h[PT % HISTBUFFERLENGTH]
      out == in ^^ (h[(PT + OLENGTH) % HISTBUFFERLENGTH] * 2^(OLENGTH % LOGGEHL))
  IN Mask(out ^^ (out \div 2^LOGGEHL), LOGGEHL)

ASSUME FoldOK == DIRBITS <= LOGGEHL

(* What it stands for. *)
FoldedBranches(h, PT, OLENGTH) ==
  FoldSeq(LAMBDA x, y : x ^^ y, 0,
          [k \in 1 .. OLENGTH |->
             rotateleft(h[(PT + k - 1) % HISTBUFFERLENGTH], (k - 1) % LOGGEHL, LOGGEHL)])

----------------------------------------------------------------------------
(* The tables. *)

CONSTANTS LOGB, CTRBITS, POSTPBITS, RAMPUP, CAPHIST, ALLOCFAILMAX, MAXALLOC

bsize == 2^LOGB
gsize == 2^LOGG
postpsize == 2^(2 * CTRBITS + 1)

INCSAT(ctr, max) == IF ctr < max THEN ctr + 1 ELSE ctr
DECSAT(ctr, min) == IF ctr > min THEN ctr - 1 ELSE ctr

ctrmin(nbits) == -(2^(nbits - 1))
ctrmax(nbits) == 2^(nbits - 1) - 1
ctrupdate(ctr, inc, nbits) ==
  IF inc THEN INCSAT(ctr, ctrmax(nbits)) ELSE DECSAT(ctr, ctrmin(nbits))
(* What ctrupdate returns: saturated before and after. *)
StaysSaturated(ctr, inc, nbits) ==
  {ctr, ctrupdate(ctr, inc, nbits)} \subseteq {ctrmin(nbits), ctrmax(nbits)}

NewTage ==
  [b |-> [i \in 0 .. bsize - 1 |-> 0],
   g |-> [i \in Banks |-> [j \in 0 .. gsize - 1 |-> [tag |-> 0, ctr |-> 0, u |-> 0]]],
   postp |-> [i \in 0 .. postpsize - 1 |-> -((i \div 2^CTRBITS) % 2)],
   allocfail |-> 0, nmisp |-> 0,
   bi |-> 0, gi |-> [i \in Banks |-> 0], hit |-> <<>>, ppi |-> 0,
   predtaken |-> FALSE, altpredtaken |-> FALSE, postpredtaken |-> FALSE]

bindex(pc) == pc % bsize
gindex(pc, p, bank) == ((pc ^^ cg(p, bank)) ^^ cgg(p, bank)) % gsize
gtag(pc, p, bank) == ((pc ^^ ct(p, bank)) ^^ ctt(p, bank)) % 2^TAGBITS

getg(t, i) == t.g[i][t.gi[i]]

(* The counter of the n-th hit, the bimodal one behind the last. *)
HitCounter(t, n) == IF n <= Len(t.hit) THEN getg(t, t.hit[n]).ctr ELSE t.b[t.bi]

(* The code builds the index from three counters of an array of two; what   *)
(* the third (beyond) holds is cut off by the mask.                         *)
postp_index(t, beyond) ==
  LET low(ctr) == ctr % 2^CTRBITS
      u0 == IF t.hit = <<>> \/ getg(t, t.hit[1]).u > 0 THEN 1 ELSE 0
      v  == (low(beyond) * 2^CTRBITS + low(HitCounter(t, 2))) * 2^CTRBITS + low(HitCounter(t, 1))
  IN (2 * v + u0) % postpsize

condbr_predict(t, pc, p, beyond) ==
  LET gi  == [i \in Banks |-> gindex(pc, p, i)]
      hit == SelectSeq([n \in 1 .. numg |-> n - 1], LAMBDA i : t.g[i][gi[i]].tag = gtag(pc, p, i))
      found == [t EXCEPT !.bi = bindex(pc), !.gi = gi, !.hit = hit]
      ppi == postp_index(found, beyond)
  IN [found EXCEPT !.predtaken = HitCounter(found, 1) >= 0,
                   !.altpredtaken = HitCounter(found, 2) >= 0,
                   !.ppi = ppi, !.postpredtaken = t.postp[ppi] >= 0]

----------------------------------------------------------------------------
uclear(g) == [i \in Banks |-> [j \in DOMAIN g[i] |-> [g[i][j] EXCEPT !.u = IF @ # 0 THEN @ - 1 ELSE 0]]]

galloc(t, g, i, pc, taken, p) ==
  [g EXCEPT ![i][t.gi[i]] = [tag |-> gtag(pc, p, i), ctr |-> IF taken THEN 0 ELSE -1, u |-> 0]]

(* Train the counters of some banks, and the bimodal one or not. *)
TrainCounters(t, banks, bimodal, taken) ==
  [t EXCEPT
     !.g = [i \in Banks |->
              IF i \notin banks THEN t.g[i]
              ELSE [t.g[i] EXCEPT ![t.gi[i]].ctr = ctrupdate(@, taken, CTRBITS)]],
     !.b[t.bi] = IF bimodal THEN ctrupdate(@, taken, CTRBITS) ELSE @]

AllSaturated(t, banks, bimodal, taken) ==
  /\ \A i \in banks : StaysSaturated(getg(t, i).ctr, taken, CTRBITS)
  /\ bimodal => StaysSaturated(t.b[t.bi], taken, CTRBITS)

(* The first bank an entry may be taken from, counting down: the one with   *)
(* the next longer path than the longest hit's.                             *)
Longer(t) == IF t.hit = <<>> THEN numg ELSE t.hit[1]

(* Ramp-up: also train the run of hits that agree with the longest one, and *)
(* steal every entry of a longer path that is not useful.                   *)
aggressive_update(t, pc, taken, p) ==
  LET n      == Len(t.hit)
      inter  == HitCounter(t, 1) >= 0
      agrees(k) == (getg(t, t.hit[k]).ctr >= 0) = inter
      unsure == n > 0 /\ getg(t, t.hit[1]).u = 0
      stop   == unsure /\ n > 1 /\ ~agrees(2)
      start  == IF unsure /\ n > 1 THEN 3 ELSE 2
      run    == IF stop THEN {} ELSE {k \in start .. n : \A j \in start .. k : agrees(j)}
      broken == ~stop /\ \E k \in start .. n : ~agrees(k)
      banks  == {t.hit[k] : k \in run \cup (1 .. IF n < start - 1 THEN n ELSE start - 1)}
      bimodal == n = 0 \/ (unsure /\ n = 1) \/ (~broken /\ (t.b[t.bi] >= 0) = inter)
      allsat == n = 0 \/ AllSaturated(t, banks, bimodal, taken)
      trained == TrainCounters(t, banks, bimodal, taken)
      steal  == {i \in 0 .. Longer(t) - 1 :
                   getg(t, i).u = 0 /\ (~allsat \/ olength[i] <= CAPHIST)}
  IN [trained EXCEPT !.g = [i \in Banks |->
        IF i \in steal THEN galloc(t, @, i, pc, taken, p)[i] ELSE @[i]]]

(* Afterwards: steal at most MAXALLOC entries, every other bank at best, and *)
(* make every entry less useful while attempts keep failing.                 *)
RECURSIVE Steal(_, _, _, _, _, _)
Steal(t, i, nalloc, pc, taken, p) ==
  IF i < 0 THEN t
  ELSE IF getg(t, i).u = 0
  THEN LET got == [t EXCEPT !.g = galloc(t, @, i, pc, taken, p),
                            !.allocfail = DECSAT(@, 0)]
       IN IF nalloc + 1 = MAXALLOC THEN got ELSE Steal(got, i - 2, nalloc + 1, pc, taken, p)
  ELSE LET fail == INCSAT(t.allocfail, ALLOCFAILMAX)
       IN Steal([t EXCEPT !.allocfail = fail,
                          !.g = IF fail = ALLOCFAILMAX THEN uclear(@) ELSE @],
                i - 1, nalloc, pc, taken, p)

careful_update(t, pc, taken, p, mispred) ==
  LET n       == Len(t.hit)
      unsure  == n > 0 /\ getg(t, t.hit[1]).u = 0
      banks   == {t.hit[k] : k \in 1 .. (IF unsure /\ n > 1 THEN 2 ELSE IF n > 0 THEN 1 ELSE 0)}
      trained == TrainCounters(t, banks, n = 0 \/ (unsure /\ n = 1), taken)
  IN IF mispred THEN Steal(trained, Longer(t) - 1, 0, pc, taken, p) ELSE trained

condbr_update(t, pc, taken, p) ==
  LET mispred == t.postpredtaken # taken
      nmisp   == t.nmisp + (IF mispred THEN 1 ELSE 0)
      updated == IF nmisp < RAMPUP THEN aggressive_update(t, pc, taken, p)
                 ELSE careful_update(t, pc, taken, p, mispred)
      useful  == t.predtaken # t.altpredtaken /\ t.predtaken = taken
  IN [updated EXCEPT
        !.nmisp = nmisp,
        !.postp[t.ppi] = ctrupdate(@, taken, POSTPBITS),
        !.g = IF useful THEN [@ EXCEPT ![t.hit[1]][t.gi[t.hit[1]]].u = ctrupdate(@, TRUE, 3)] ELSE @]
=============================================================================
