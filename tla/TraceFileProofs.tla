---------------------------- MODULE TraceFileProofs ----------------------------
(***************************************************************************)
(* Theorems about TraceFile, for every size of the buffer, every number of *)
(* sessions and every order of writing, dying, restarting and reading.     *)
(***************************************************************************)
EXTENDS TraceFile, SequenceTheorems, TLAPS

(* The buffer has room for a record. *)
LEMMA BufferSize == BufferRecords \in Nat /\ BufferRecords >= 1
BY TraceAssumption

(* Full buffers, counted from none. *)
LEMMA WholeZero == Whole(0)
BY TraceAssumption DEF Whole

(* One more full buffer. *)
LEMMA WholeNext ==
    ASSUME NEW len \in Nat, Whole(len)
    PROVE  Whole(len + BufferRecords)
<1>1. PICK n \in 0 .. len : len = n * BufferRecords
  BY DEF Whole
<1>2. BufferRecords \in Nat /\ BufferRecords >= 1 /\ n \in Nat
  BY TraceAssumption
<1>3. len + BufferRecords = (n + 1) * BufferRecords
  BY <1>1, <1>2
<1>4. n + 1 \in 0 .. len + BufferRecords
  BY <1>2
<1> QED
  BY <1>3, <1>4 DEF Whole

(* Appending does not change what a stretch of the file holds. *)
LEMMA ConcatKeeps ==
    ASSUME NEW S, NEW f \in Seq(S), NEW x \in Seq(S), NEW a \in Nat \ {0}, NEW b \in Nat,
           b <= Len(f)
    PROVE  SubSeq(f \o x, a, b) = SubSeq(f, a, b)
OBVIOUS

(* What appending a sequence gives. *)
LEMMA ConcatIndex ==
    ASSUME NEW S, NEW f \in Seq(S), NEW x \in Seq(S)
    PROVE  /\ f \o x \in Seq(S) /\ Len(f \o x) = Len(f) + Len(x)
           /\ \A k \in 1 .. Len(f) : (f \o x)[k] = f[k]
           /\ \A k \in 1 .. Len(x) : (f \o x)[Len(f) + k] = x[k]
OBVIOUS

(* What the dump printed is a page. *)
LEMMA PageType ==
    ASSUME TypeOK, NEW i \in DOMAIN leggi
    PROVE  leggi[i] \in Page /\ leggi[i].read \in Nat
<1>1. leggi[i] \in Page
  BY DEF TypeOK
<1> QED
  BY <1>1 DEF Page

(* The readers do not notice that the file grows. *)
LEMMA ReadersGrow ==
    ASSUME TypeOK, PredictorFaithful, DumpStutters, DumpPosition,
           NEW x \in Seq(Records), file' = file \o x, UNCHANGED readers
    PROVE  PredictorFaithful' /\ DumpStutters' /\ DumpPosition'
<1> USE BufferSize
<1>1. /\ file \in Seq(Records) /\ file' \in Seq(Records) /\ Len(file') >= Len(file)
      /\ Len(file) \in Nat /\ Len(file') \in Nat
  BY DEF TypeOK
<1>2. /\ analysed' = analysed /\ predicting' = predicting /\ buffer_read' = buffer_read
      /\ pos' = pos /\ leggi' = leggi
  BY DEF readers, predictor, dump
<1>3. ASSUME NEW n \in Nat, n <= Len(file), n = 0 \/ n >= BufferRecords
      PROVE  LastRead(n)' = LastRead(n)
  <2>1. CASE n = 0
    BY <2>1 DEF LastRead
  <2>2. CASE n >= BufferRecords
    <3>1. n - BufferRecords + 1 \in Nat \ {0}
      BY <2>2
    <3>2. SubSeq(file', n - BufferRecords + 1, n) = SubSeq(file, n - BufferRecords + 1, n)
      BY <1>1, <1>3, <3>1, ConcatKeeps
    <3> QED
      BY <3>2 DEF LastRead
  <2> QED
    BY <1>3, <2>1, <2>2
<1>4. PredictorFaithful'
  <2>1. Len(analysed) \in Nat /\ Len(analysed) <= Len(file)
        /\ SubSeq(analysed, 1, Len(analysed)) = SubSeq(file, 1, Len(analysed))
    BY DEF TypeOK, PredictorFaithful, IsPrefix
  <2>2. SubSeq(file', 1, Len(analysed)) = SubSeq(file, 1, Len(analysed))
    BY <1>1, <2>1, ConcatKeeps
  <2> QED
    BY <1>1, <1>2, <2>1, <2>2 DEF PredictorFaithful, IsPrefix, Whole
<1>5. DumpPosition'
  <2>1. pos \in Nat /\ pos <= Len(file) /\ (pos = 0 \/ pos >= BufferRecords)
    BY DEF TypeOK, DumpPosition
  <2>2. LastRead(pos)' = LastRead(pos)
    BY <1>2, <1>3, <2>1
  <2> QED
    BY <1>1, <1>2, <2>1, <2>2 DEF DumpPosition
<1>6. DumpStutters'
  <2> SUFFICES ASSUME NEW i \in DOMAIN leggi
               PROVE  /\ leggi[i].read - (IF i = 1 THEN 0 ELSE leggi[i - 1].read) \in {0, BufferRecords}
                      /\ leggi[i].read <= Len(file')
                      /\ leggi[i].printed = LastRead(leggi[i].read)'
    BY <1>2 DEF DumpStutters
  <2>1. leggi[i].read \in Nat
    BY PageType
  <2>2. leggi[i].read = 0 \/ leggi[i].read >= BufferRecords
    BY DEF DumpPosition
  <2>3. /\ leggi[i].read - (IF i = 1 THEN 0 ELSE leggi[i - 1].read) \in {0, BufferRecords}
        /\ leggi[i].read <= Len(file) /\ leggi[i].printed = LastRead(leggi[i].read)
    BY DEF DumpStutters
  <2> QED
    BY <1>1, <1>2, <1>3, <2>1, <2>2, <2>3
<1> QED
  BY <1>4, <1>5, <1>6

(* A session's part of the file lies within it. *)
LEMMA KeptType ==
    ASSUME TypeOK, SessionsFaithful, FileWhole, NEW s \in DOMAIN executed
    PROVE  /\ s \in DOMAIN start /\ start[s] \in Nat /\ Kept(s) \in Nat
           /\ start[s] + Kept(s) <= Len(file)
           /\ executed[s] \in Seq(Records) /\ Kept(s) <= Len(executed[s])
<1>1. s \in DOMAIN start /\ start[s] \in Nat /\ s \in 1 .. Len(start)
      /\ Len(start) \in Nat /\ Len(file) \in Nat
  BY DEF TypeOK
<1>2. s # Len(start) => s + 1 \in DOMAIN start /\ start[s + 1] \in Nat
  BY <1>1 DEF TypeOK
<1>3. executed[s] \in Seq(Records) /\ Len(executed[s]) \in Nat
  BY DEF TypeOK
<1>4. Kept(s) \in Int
  BY <1>1, <1>2 DEF Kept
<1>5. \E n \in 0 .. Kept(s) : Kept(s) = n * BufferRecords
  BY DEF SessionsFaithful, Whole, Same
<1>6. Kept(s) \in Nat
  BY <1>4, <1>5
<1>7. start[s] + Kept(s) <= Len(file)
  BY <1>1, <1>2 DEF Kept, FileWhole
<1>8. Len(executed[s]) - Kept(s) \in 0 .. BufferRecords
  BY DEF SessionsFaithful, Same
<1> QED
  BY <1>1, <1>3, <1>6, <1>7, <1>8, TraceAssumption

(* A session begins: nothing is in the buffer, and its part of the file is     *)
(* empty.                                                                      *)
LEMMA StartStep ==
    ASSUME TraceInv, StartQemu
    PROVE  TraceInv'
<1> USE BufferSize
<1>0. TypeOK /\ SessionsFaithful /\ FileWhole
  BY DEF TraceInv, TraceFaithful
<1>1. /\ file' = file /\ buff' = <<>> /\ running' = TRUE
      /\ executed' = Append(executed, <<>>) /\ start' = Append(start, Len(file))
      /\ UNCHANGED readers
  BY DEF StartQemu
<1> PICK z \in Nat : z = Len(executed)
  BY <1>0 DEF TypeOK
<1>2. Len(executed) = z /\ Len(start) = z /\ executed \in Seq(Seq(Records)) /\ start \in Seq(Nat)
      /\ Len(file) \in Nat /\ <<>> \in Seq(Records)
  BY <1>0 DEF TypeOK
<1>3. /\ executed' \in Seq(Seq(Records)) /\ start' \in Seq(Nat)
      /\ Len(executed') = z + 1 /\ Len(start') = z + 1
      /\ executed'[z + 1] = <<>> /\ start'[z + 1] = Len(file)
      /\ \A s \in 1 .. z : executed'[s] = executed[s] /\ start'[s] = start[s]
  BY <1>1, <1>2
<1>4. TypeOK'
  BY <1>0, <1>1, <1>2, <1>3 DEF TypeOK, readers, predictor, dump
<1>5. Kept(z + 1)' = 0
  BY <1>1, <1>2, <1>3 DEF Kept
<1>6. ASSUME NEW s \in 1 .. z
      PROVE  Kept(s)' = Kept(s)
  <2>1. s # z => s + 1 \in 1 .. z
    BY <1>2, <1>6
  <2>2. Kept(s)' = start'[s + 1] - start[s]
    <3>1. s # Len(start')
      BY <1>3
    <3>2. start'[s] = start[s]
      BY <1>3
    <3> QED
      BY <3>1, <3>2 DEF Kept
  <2>3. start'[s + 1] = IF s = z THEN Len(file) ELSE start[s + 1]
    BY <1>2, <1>3, <2>1
  <2> QED
    BY <1>2, <2>2, <2>3 DEF Kept
<1>7. SessionsFaithful'
  <2>1. start' # <<>> /\ start'[1] = 0
    <3>1. CASE z = 0
      <4>1. start = <<>> /\ file = <<>>
        BY <1>0, <1>2, <3>1 DEF SessionsFaithful, Same
      <4> QED
        <5>1. Len(file) = 0 /\ z + 1 = 1
          BY <3>1, <4>1
        <5>2. start'[1] = 0 /\ Len(start') = 1
          BY <1>3, <5>1
        <5> QED
          BY <5>2
    <3>2. CASE z # 0
      <4>1. 1 \in 1 .. z /\ start # <<>>
        BY <1>2, <3>2
      <4>2. start[1] = 0
        BY <1>0, <4>1 DEF SessionsFaithful, Same
      <4>3. start'[1] = start[1] /\ Len(start') # 0
        BY <1>3, <4>1
      <4> QED
        BY <4>2, <4>3
    <3> QED
      BY <3>1, <3>2
  <2>2. ASSUME NEW s \in DOMAIN executed'
        PROVE  /\ Whole(Kept(s))' /\ Len(executed'[s]) - Kept(s)' \in 0 .. BufferRecords
               /\ \A k \in 1 .. Kept(s)' : file'[start'[s] + k] = executed'[s][k]
    <3>1. s \in 1 .. z \/ s = z + 1
      <4>1. DOMAIN executed' = 1 .. z + 1
        BY <1>3
      <4>2. s \in 1 .. z + 1
        BY <2>2, <4>1
      <4> QED
        BY <4>2
    <3>2. CASE s \in 1 .. z
      <4>1. s \in DOMAIN executed
        BY <1>2, <3>2
      <4> QED
        BY <1>0, <1>1, <1>3, <1>6, <3>2, <4>1 DEF SessionsFaithful, Whole, Same
    <3>3. CASE s = z + 1
      <4>1. Kept(s)' = 0 /\ Len(executed'[s]) = 0
        BY <1>3, <1>5, <3>3
      <4>2. Whole(0)'
        BY WholeZero DEF Whole
      <4> QED
        BY <4>1, <4>2 DEF Whole
    <3> QED
      BY <3>1, <3>2, <3>3
  <2> QED
    BY <2>1, <2>2 DEF SessionsFaithful, Same
<1>8. Buffered'
  BY <1>1, <1>2, <1>3, <1>5 DEF Buffered, Same
<1>9. FileWhole'
  <2>1. \A s \in 1 .. z : start[s] <= Len(file)
    BY <1>0, <1>2 DEF FileWhole
  <2>2. \A s \in DOMAIN start' : start'[s] <= Len(file)
    <3>1. \A s \in DOMAIN start' : s \in 1 .. z \/ s = z + 1
      BY <1>3
    <3>2. \A s \in 1 .. z : start'[s] <= Len(file)
      BY <1>3, <2>1
    <3>3. start'[z + 1] <= Len(file)
      BY <1>2, <1>3
    <3> QED
      BY <3>1, <3>2, <3>3
  <2> QED
    BY <1>0, <1>1, <2>2 DEF FileWhole, Whole
<1>10. PredictorFaithful' /\ DumpStutters' /\ DumpPosition'
  BY <1>1 DEF TraceInv, TraceFaithful, PredictorFaithful, DumpStutters, DumpPosition, LastRead,
              Whole, readers, predictor, dump
<1> QED
  BY <1>4, <1>7, <1>8, <1>9, <1>10 DEF TraceInv, TraceFaithful

(* A session executes a branch: its history grows, the others stay. *)
LEMMA ExecuteFacts ==
    ASSUME TypeOK, Buffered, NEW r \in Records, Execute(r)
    PROVE  LET z == Len(executed)
           IN  /\ running /\ z \in Nat \ {0} /\ z \in DOMAIN executed /\ Len(start) = z
               /\ start' = start /\ DOMAIN executed' = DOMAIN executed /\ Len(executed') = z
               /\ executed' \in Seq(Seq(Records))
               /\ executed'[z] = Append(executed[z], r) /\ executed[z] \in Seq(Records)
               /\ \A s \in DOMAIN executed : s # z => executed'[s] = executed[s]
<1> DEFINE z == Len(executed)
<1>1. running /\ start' = start /\ executed' = [executed EXCEPT ![z] = Append(@, r)]
  BY DEF Execute
<1>2. z \in Nat \ {0} /\ z \in DOMAIN executed /\ executed \in Seq(Seq(Records)) /\ Len(start) = z
  BY <1>1 DEF TypeOK, Buffered, Same
<1>3. executed[z] \in Seq(Records) /\ Append(executed[z], r) \in Seq(Records)
  BY <1>2
<1> QED
  BY <1>1, <1>2, <1>3

(* A branch that is not written yet, or never will be. *)
LEMMA ExecuteUnwritten ==
    ASSUME TraceInv, NEW r \in Records, Execute(r), file' = file
    PROVE  /\ SessionsFaithful' /\ FileWhole'
           /\ \A s \in DOMAIN executed : Kept(s)' = Kept(s)
<1> USE BufferSize
<1>0. TypeOK /\ SessionsFaithful /\ FileWhole /\ Buffered
  BY DEF TraceInv, TraceFaithful
<1> PICK z \in Nat : z = Len(executed)
  BY <1>0 DEF TypeOK
<1>1. /\ running /\ z \in DOMAIN executed /\ start' = start
      /\ DOMAIN executed' = DOMAIN executed
      /\ executed'[z] = Append(executed[z], r) /\ executed[z] \in Seq(Records)
      /\ \A s \in DOMAIN executed : s # z => executed'[s] = executed[s]
  BY <1>0, ExecuteFacts
<1>2. \A s : Kept(s)' = Kept(s)
  BY <1>1 DEF Kept
<1>3. FileWhole'
  BY <1>0, <1>1 DEF FileWhole, Whole
<1>4. Len(buff) \in Nat /\ Len(buff) < BufferRecords /\ Len(executed[z]) = Kept(z) + Len(buff)
  BY <1>0, <1>1 DEF Buffered, TypeOK, Same
<1>5. Kept(z) \in Nat /\ Kept(z) <= Len(executed[z])
  BY <1>0, <1>1, KeptType
<1>6. ASSUME NEW s \in DOMAIN executed
      PROVE  /\ Whole(Kept(s))' /\ Len(executed'[s]) - Kept(s) \in 0 .. BufferRecords
             /\ \A k \in 1 .. Kept(s) : file[start[s] + k] = executed'[s][k]
  <2>1. /\ Whole(Kept(s)) /\ Len(executed[s]) - Kept(s) \in 0 .. BufferRecords
        /\ \A k \in 1 .. Kept(s) : file[start[s] + k] = executed[s][k]
    BY <1>0 DEF SessionsFaithful, Same
  <2>2. Whole(Kept(s))'
    BY <1>2, <2>1 DEF Whole
  <2>3. CASE s # z
    BY <1>1, <2>1, <2>2, <2>3
  <2>4. CASE s = z
    <3>1. Len(executed'[z]) = Len(executed[z]) + 1
          /\ \A k \in 1 .. Kept(z) : executed'[z][k] = executed[z][k]
      BY <1>1, <1>5
    <3>2. Len(executed'[z]) - Kept(z) \in 0 .. BufferRecords
      BY <1>4, <1>5, <3>1
    <3> QED
      BY <2>1, <2>2, <2>4, <3>1, <3>2
  <2> QED
    BY <2>3, <2>4
<1>7. SessionsFaithful'
  BY <1>0, <1>1, <1>2, <1>6 DEF SessionsFaithful, Same
<1> QED
  BY <1>2, <1>3, <1>7

(* The readers' parts of the invariant are about the file and the readers. *)
LEMMA ReadersStay ==
    ASSUME PredictorFaithful, DumpStutters, DumpPosition, UNCHANGED <<file, readers>>
    PROVE  PredictorFaithful' /\ DumpStutters' /\ DumpPosition'
BY DEF PredictorFaithful, DumpStutters, DumpPosition, LastRead, Whole, readers, predictor, dump

(* The branch goes to the buffer, which is not full yet. *)
LEMMA BufferStep ==
    ASSUME TraceInv, NEW r \in Records, Printer(r), Len(buff) < BufferRecords - 1
    PROVE  TraceInv'
<1> USE BufferSize
<1>0. TypeOK /\ SessionsFaithful /\ FileWhole /\ Buffered
      /\ PredictorFaithful /\ DumpStutters /\ DumpPosition
  BY DEF TraceInv, TraceFaithful
<1>1. /\ Execute(r) /\ buff' = Append(buff, r) /\ file' = file /\ running' = running
      /\ UNCHANGED readers
  BY DEF Printer
<1> PICK z \in Nat : z = Len(executed)
  BY <1>0 DEF TypeOK
<1>2. /\ running /\ z > 0 /\ z \in DOMAIN executed /\ Len(start) = z /\ start' = start
      /\ Len(executed') = z /\ executed' \in Seq(Seq(Records))
      /\ executed'[z] = Append(executed[z], r) /\ executed[z] \in Seq(Records)
  BY <1>0, <1>1, ExecuteFacts
<1>3. SessionsFaithful' /\ FileWhole' /\ Kept(z)' = Kept(z)
  BY <1>1, <1>2, ExecuteUnwritten
<1>4. TypeOK'
  BY <1>0, <1>1, <1>2 DEF TypeOK, readers, predictor, dump
<1>5. Buffered'
  <2>1. /\ buff \in Seq(Records) /\ Len(buff) \in Nat
        /\ Len(executed[z]) = Kept(z) + Len(buff)
        /\ \A k \in 1 .. Len(buff) : executed[z][Kept(z) + k] = buff[k]
    BY <1>0, <1>2 DEF Buffered, TypeOK, Same
  <2>2. Kept(z) \in Nat
    BY <1>0, <1>2, KeptType
  <2>3. /\ Len(buff') = Len(buff) + 1 /\ buff'[Len(buff) + 1] = r
        /\ \A k \in 1 .. Len(buff) : buff'[k] = buff[k]
    BY <1>1, <2>1
  <2>4. /\ Len(executed'[z]) = Len(executed[z]) + 1
        /\ executed'[z][Len(executed[z]) + 1] = r
        /\ \A k \in 1 .. Len(executed[z]) : executed'[z][k] = executed[z][k]
    BY <1>2
  <2>5. ASSUME NEW k \in 1 .. Len(buff')
        PROVE  executed'[z][Kept(z) + k] = buff'[k]
    <3>1. CASE k = Len(buff) + 1
      BY <2>1, <2>2, <2>3, <2>4, <3>1
    <3>2. CASE k # Len(buff) + 1
      <4>1. k \in 1 .. Len(buff) /\ Kept(z) + k \in 1 .. Len(executed[z])
        BY <2>1, <2>2, <2>3, <2>5, <3>2
      <4> QED
        BY <2>1, <2>3, <2>4, <4>1
    <3> QED
      BY <3>1, <3>2
  <2>6. Len(executed'[z]) = Kept(z) + Len(buff')
    <3>1. Len(executed[z]) = Kept(z) + Len(buff) /\ Len(buff') = Len(buff) + 1
          /\ Len(executed'[z]) = Len(executed[z]) + 1
      BY <2>1, <2>3, <2>4
    <3> QED
      BY <2>1, <2>2, <3>1
  <2>7. Len(buff') < BufferRecords
    BY <2>1, <2>3
  <2> QED
    BY <1>2, <1>3, <2>5, <2>6, <2>7 DEF Buffered, Same
<1>6. PredictorFaithful' /\ DumpStutters' /\ DumpPosition'
  BY <1>0, <1>1, ReadersStay
<1> QED
  BY <1>3, <1>4, <1>5, <1>6 DEF TraceInv, TraceFaithful

(* Arithmetic of the parts of a file. *)
LEMMA InRange ==
    ASSUME NEW a \in Nat, NEW n \in Nat, NEW len \in Nat, a + n <= len
    PROVE  \A k \in 1 .. n : a + k \in 1 .. len
OBVIOUS

LEMMA Sums ==
    ASSUME NEW a \in Nat, NEW n \in Nat, NEW len \in Nat, NEW B \in Nat, NEW len2, NEW n2,
           NEW m, NEW c, n = len - a, n2 = len2 - a, len2 = len + B, m = n + c, c = B - 1
    PROVE  a + n = len /\ n2 = n + B /\ m = n + B - 1
OBVIOUS

LEMMA Split ==
    ASSUME NEW K \in Nat, NEW B \in Nat, B >= 1, NEW st \in Nat, NEW len \in Nat,
           st + K = len, NEW k \in 1 .. K + B
    PROVE  \/ k \in 1 .. K /\ st + k \in 1 .. len /\ k \in 1 .. K + B - 1
           \/ k = K + B /\ st + k = len + B /\ B \in 1 .. B
           \/ \E j \in 1 .. B - 1 :
                 k = K + j /\ st + k = len + j /\ j \in 1 .. B /\ k \in 1 .. K + B - 1
<1>1. CASE k <= K
  BY <1>1
<1>2. CASE k = K + B
  BY <1>2
<1>3. CASE k > K /\ k # K + B
  <2>1. k - K \in 1 .. B - 1 /\ k = K + (k - K) /\ st + k = len + (k - K)
        /\ k - K \in 1 .. B /\ k \in 1 .. K + B - 1
    BY <1>3
  <2> QED
    BY <2>1
<1> QED
  BY <1>1, <1>2, <1>3

(* The part of the file of the session that flushes: what it had written, then *)
(* the buffer b, then the new record r.                                        *)
LEMMA FlushContents ==
    ASSUME NEW S, NEW f \in Seq(S), NEW e \in Seq(S), NEW b \in Seq(S), NEW r \in S,
           NEW K \in Nat, NEW st \in Nat, NEW B \in Nat, B >= 1,
           Len(b) = B - 1, Len(e) = K + B - 1, st + K = Len(f),
           Same(f, st, e, K), Same(e, K, b, Len(b))
    PROVE  /\ Len(Append(e, r)) = K + B
           /\ Same(f \o Append(b, r), st, Append(e, r), K + B)
<1>1. Append(b, r) \in Seq(S) /\ Len(Append(b, r)) = B /\ Append(b, r)[B] = r
      /\ \A k \in 1 .. B - 1 : Append(b, r)[k] = b[k]
  OBVIOUS
<1>2. Len(Append(e, r)) = K + B /\ Append(e, r)[K + B] = r
      /\ \A k \in 1 .. K + B - 1 : Append(e, r)[k] = e[k]
  OBVIOUS
<1>3. /\ \A k \in 1 .. Len(f) : (f \o Append(b, r))[k] = f[k]
      /\ \A k \in 1 .. B : (f \o Append(b, r))[Len(f) + k] = Append(b, r)[k]
  BY <1>1, ConcatIndex
<1>4. Len(f) \in Nat /\ (\A k \in 1 .. K : f[st + k] = e[k])
      /\ \A k \in 1 .. B - 1 : e[K + k] = b[k]
  BY DEF Same
<1> PICK x : x = Append(b, r)
  OBVIOUS
<1> PICK e2 : e2 = Append(e, r)
  OBVIOUS
<1> PICK y : y = f \o x
  OBVIOUS
<1>5. ASSUME NEW k \in 1 .. K + B
      PROVE  y[st + k] = e2[k]
  <2>1. \/ k \in 1 .. K /\ st + k \in 1 .. Len(f) /\ k \in 1 .. K + B - 1
        \/ k = K + B /\ st + k = Len(f) + B /\ B \in 1 .. B
        \/ \E j \in 1 .. B - 1 : k = K + j /\ st + k = Len(f) + j /\ j \in 1 .. B
                                 /\ k \in 1 .. K + B - 1
    BY <1>4, <1>5, Split
  <2>2. CASE k \in 1 .. K /\ st + k \in 1 .. Len(f) /\ k \in 1 .. K + B - 1
    BY <1>2, <1>3, <1>4, <2>2
  <2>3. CASE k = K + B /\ st + k = Len(f) + B /\ B \in 1 .. B
    BY <1>1, <1>2, <1>3, <2>3
  <2>4. ASSUME NEW j \in 1 .. B - 1, k = K + j, st + k = Len(f) + j, j \in 1 .. B,
               k \in 1 .. K + B - 1
        PROVE  y[st + k] = e2[k]
    <3>1. y[Len(f) + j] = x[j]
      BY <1>3, <2>4
    <3>2. x[j] = b[j] /\ e[K + j] = b[j]
      BY <1>1, <1>4
    <3>3. e2[k] = e[k]
      BY <1>2, <2>4
    <3> QED
      BY <2>4, <3>1, <3>2, <3>3
  <2> QED
    BY <2>1, <2>2, <2>3, <2>4
<1> QED
  BY <1>2, <1>5 DEF Same

(* The branch fills the buffer, and the buffer goes to the file. *)
LEMMA FlushStep ==
    ASSUME TraceInv, NEW r \in Records, Printer(r)
    PROVE  ~(Len(buff) < BufferRecords - 1) => TraceInv'
<1>a. SUFFICES ASSUME ~(Len(buff) < BufferRecords - 1) PROVE TraceInv'
  OBVIOUS
<1> USE BufferSize
<1>0. TypeOK /\ SessionsFaithful /\ FileWhole /\ Buffered
      /\ PredictorFaithful /\ DumpStutters /\ DumpPosition
  BY DEF TraceInv, TraceFaithful
<1> DEFINE x == Append(buff, r)
<1>1. /\ Execute(r) /\ buff' = <<>> /\ file' = file \o x /\ running' = running
      /\ UNCHANGED readers
  BY <1>a DEF Printer
<1>z. PICK z \in Nat : z = Len(executed)
  BY <1>0 DEF TypeOK
<1>2. /\ running /\ z > 0 /\ z \in DOMAIN executed /\ Len(start) = z /\ start' = start
      /\ Len(executed') = z /\ executed' \in Seq(Seq(Records))
      /\ DOMAIN executed' = DOMAIN executed
      /\ executed'[z] = Append(executed[z], r) /\ executed[z] \in Seq(Records)
      /\ \A s \in DOMAIN executed : s # z => executed'[s] = executed[s]
  BY <1>0, <1>1, <1>z, ExecuteFacts
<1>3. /\ buff \in Seq(Records) /\ Len(buff) = BufferRecords - 1 /\ file \in Seq(Records)
      /\ Len(file) \in Nat
      /\ Len(executed[z]) = Kept(z) + Len(buff)
      /\ Same(executed[z], Kept(z), buff, Len(buff))
  BY <1>0, <1>a, <1>z, <1>2 DEF Buffered, TypeOK
<1>4. x \in Seq(Records) /\ Len(x) = BufferRecords /\ x[BufferRecords] = r
      /\ \A k \in 1 .. Len(buff) : x[k] = buff[k]
  BY <1>3
<1> HIDE DEF x
<1>5. /\ file' \in Seq(Records) /\ Len(file') = Len(file) + BufferRecords
      /\ \A k \in 1 .. Len(file) : file'[k] = file[k]
      /\ \A k \in 1 .. BufferRecords : file'[Len(file) + k] = x[k]
  <2>1. /\ file \o x \in Seq(Records) /\ Len(file \o x) = Len(file) + Len(x)
        /\ \A k \in 1 .. Len(file) : (file \o x)[k] = file[k]
        /\ \A k \in 1 .. Len(x) : (file \o x)[Len(file) + k] = x[k]
    <3>1. file \in Seq(Records) /\ x \in Seq(Records)
      BY <1>3, <1>4
    <3> QED
      BY <3>1
  <2> QED
    BY <1>1, <1>4, <2>1
<1>6. TypeOK'
  BY <1>0, <1>1, <1>2, <1>5 DEF TypeOK, readers, predictor, dump
<1>7. PredictorFaithful' /\ DumpStutters' /\ DumpPosition'
  BY <1>0, <1>1, <1>4, ReadersGrow
<1>8. FileWhole'
  <2>1. Whole(Len(file) + BufferRecords)
    BY <1>0, <1>3, WholeNext DEF FileWhole
  <2>2. Whole(Len(file'))
    BY <1>5, <2>1
  <2>3. \A s \in DOMAIN start : start[s] \in Nat /\ start[s] <= Len(file)
    BY <1>0 DEF FileWhole, TypeOK
  <2>4. \A s \in DOMAIN start : start[s] <= Len(file')
    BY <1>3, <1>5, <2>3
  <2> QED
    BY <1>2, <2>2, <2>4 DEF FileWhole, Whole
<1>9. start[z] \in Nat /\ Kept(z) \in Nat
  BY <1>0, <1>2, KeptType
<1>10. Kept(z) = Len(file) - start[z] /\ Kept(z)' = Len(file') - start[z]
  BY <1>2 DEF Kept
<1>11. ASSUME NEW s \in DOMAIN executed, s # z
       PROVE  /\ Whole(Kept(s))' /\ Len(executed'[s]) - Kept(s)' \in 0 .. BufferRecords
              /\ \A k \in 1 .. Kept(s)' : file'[start'[s] + k] = executed'[s][k]
  <2>1. Kept(s)' = Kept(s)
    BY <1>2, <1>11 DEF Kept
  <2>2. start[s] \in Nat /\ Kept(s) \in Nat /\ start[s] + Kept(s) <= Len(file)
    BY <1>0, KeptType
  <2>3. /\ Whole(Kept(s)) /\ Len(executed[s]) - Kept(s) \in 0 .. BufferRecords
        /\ \A k \in 1 .. Kept(s) : file[start[s] + k] = executed[s][k]
    BY <1>0 DEF SessionsFaithful, Same
  <2>4. \A k \in 1 .. Kept(s) : start[s] + k \in 1 .. Len(file)
    BY <2>2, InRange
  <2>5. \A k \in 1 .. Kept(s) : file'[start[s] + k] = executed[s][k]
    BY <1>5, <2>3, <2>4
  <2>6. Whole(Kept(s))'
    BY <2>1, <2>3 DEF Whole
  <2> QED
    BY <1>2, <1>11, <2>1, <2>3, <2>5, <2>6
<1>12. start[z] + Kept(z) = Len(file) /\ Kept(z)' = Kept(z) + BufferRecords
       /\ Len(executed[z]) = Kept(z) + BufferRecords - 1
  <2>1. Len(file) \in Nat /\ Len(file') = Len(file) + BufferRecords
        /\ Len(executed[z]) = Kept(z) + Len(buff) /\ Len(buff) = BufferRecords - 1
    BY <1>3, <1>5
  <2> QED
    BY <1>9, <1>10, <2>1
<1>13. /\ Whole(Kept(z))' /\ Len(executed'[z]) = Kept(z)'
       /\ Len(executed'[z]) - Kept(z)' \in 0 .. BufferRecords
       /\ \A k \in 1 .. Kept(z)' : file'[start'[z] + k] = executed'[z][k]
  <2>1. Whole(Kept(z)) /\ Same(file, start[z], executed[z], Kept(z))
    BY <1>0, <1>2 DEF SessionsFaithful
  <2>2. Whole(Kept(z) + BufferRecords)
    BY <1>9, <2>1, WholeNext
  <2>3. Whole(Kept(z))'
    BY <1>12, <2>2 DEF Whole
  <2>4. /\ Len(Append(executed[z], r)) = Kept(z) + BufferRecords
        /\ Same(file \o Append(buff, r), start[z], Append(executed[z], r), Kept(z) + BufferRecords)
    BY <1>2, <1>3, <1>9, <1>12, <2>1, FlushContents, Zenon
  <2>5. Len(executed'[z]) = Kept(z)'
        /\ \A k \in 1 .. Kept(z)' : file'[start'[z] + k] = executed'[z][k]
    BY <1>1, <1>2, <1>12, <2>4 DEF x, Same
  <2>6. Kept(z)' - Kept(z)' = 0
    BY <1>9, <1>12
  <2> QED
    BY <2>3, <2>5, <2>6
<1>14. SessionsFaithful'
  <2>1. IF start' = <<>> THEN file' = <<>> ELSE start'[1] = 0
    BY <1>0, <1>2 DEF SessionsFaithful, Same
  <2> QED
    BY <1>2, <1>11, <1>13, <2>1 DEF SessionsFaithful, Same
<1>15. Buffered'
  <2>1. Len(executed'[z]) = Kept(z)' + Len(buff') /\ Len(buff') = 0
    BY <1>1, <1>9, <1>12, <1>13
  <2> QED
    BY <1>1, <1>2, <2>1 DEF Buffered, Same
<1> QED
  BY <1>6, <1>7, <1>8, <1>14, <1>15 DEF TraceInv, TraceFaithful

(* QEMU ends, by poweroff, kill or the failing fopen: the buffer is lost. *)
LEMMA DeadStep ==
    ASSUME TypeOK', SessionsFaithful', FileWhole', ~running',
           PredictorFaithful, DumpStutters, DumpPosition, UNCHANGED <<file, readers>>
    PROVE  TraceInv'
BY ReadersStay DEF TraceInv, TraceFaithful, Buffered

LEMMA OpenFailsStep ==
    ASSUME TraceInv, NEW r \in Records, OpenFails(r)
    PROVE  TraceInv'
<1>1. Execute(r) /\ running' = FALSE /\ buff' = <<>> /\ UNCHANGED <<file, readers>>
  BY DEF OpenFails
<1>2. SessionsFaithful' /\ FileWhole'
  BY <1>1, ExecuteUnwritten
<1>3. TypeOK /\ Buffered
  BY DEF TraceInv
<1>4. /\ executed' \in Seq(Seq(Records)) /\ Len(executed') = Len(executed) /\ start' = start
  BY <1>1, <1>3, ExecuteFacts
<1>5. buff' \in Seq(Records) /\ running' \in BOOLEAN
  BY <1>1, EmptySeq
<1>6. Len(start') = Len(executed') /\ start' \in Seq(Nat)
  BY <1>3, <1>4 DEF TypeOK
<1>7. TypeOK'
  BY <1>1, <1>3, <1>4, <1>5, <1>6, Zenon DEF TypeOK, readers, predictor, dump
<1> QED
  BY <1>1, <1>2, <1>7, DeadStep DEF TraceInv, TraceFaithful

LEMMA StopStep ==
    ASSUME TraceInv, StopQemu
    PROVE  TraceInv'
<1>1. running' = FALSE /\ buff' = <<>> /\ UNCHANGED <<file, sessions, readers>>
  BY DEF StopQemu
<1>2. SessionsFaithful' /\ FileWhole'
  BY <1>1 DEF TraceInv, TraceFaithful, SessionsFaithful, FileWhole, Kept, Whole, Same, sessions
<1>3. buff' \in Seq(Records) /\ running' \in BOOLEAN
  BY <1>1, EmptySeq
<1>4. TypeOK'
  BY <1>1, <1>3, Zenon DEF TraceInv, TypeOK, sessions, readers, predictor, dump
<1> QED
  BY <1>1, <1>2, <1>4, DeadStep DEF TraceInv, TraceFaithful

(* The writer's parts of the invariant are about the writer. *)
LEMMA WriterStays ==
    ASSUME TraceInv, UNCHANGED <<buff, file, running, sessions>>
    PROVE  SessionsFaithful' /\ Buffered' /\ FileWhole'
BY DEF TraceInv, TraceFaithful, SessionsFaithful, Buffered, FileWhole, Kept, Whole, Same, sessions

(* The predictor reads the next record of the file. *)
LEMMA AnalyseStep ==
    ASSUME TraceInv, Analyse
    PROVE  TraceInv'
<1>1. /\ predicting /\ Len(analysed) < Len(file) /\ Len(analysed) < Instructions
      /\ analysed' = Append(analysed, file[Len(analysed) + 1])
      /\ UNCHANGED <<buff, file, running, sessions, predicting, fpPredictor, dump>>
  BY DEF Analyse
<1>2. SessionsFaithful' /\ Buffered' /\ FileWhole'
  BY <1>1, WriterStays
<1>3. DumpStutters' /\ DumpPosition'
  BY <1>1 DEF TraceInv, DumpStutters, DumpPosition, LastRead, dump
<1>4. file \in Seq(Records) /\ analysed \in Seq(Records)
  BY DEF TraceInv, TypeOK
<1>5. file[Len(analysed) + 1] \in Records
  BY <1>1, <1>4
<1>6. TypeOK'
  BY <1>1, <1>5 DEF TraceInv, TypeOK, sessions, dump
<1>7. IsPrefix(analysed', file)
  <2>1. SubSeq(analysed, 1, Len(analysed)) = SubSeq(file, 1, Len(analysed))
    BY DEF TraceInv, TraceFaithful, PredictorFaithful, IsPrefix
  <2>2. \A k \in 1 .. Len(analysed) : analysed[k] = file[k]
    <3> TAKE k \in 1 .. Len(analysed)
    <3>1. SubSeq(analysed, 1, Len(analysed))[k] = analysed[k]
      BY <1>4
    <3>2. SubSeq(file, 1, Len(analysed))[k] = file[k]
      BY <1>1, <1>4
    <3> QED
      BY <2>1, <3>1, <3>2
  <2>3. /\ Len(analysed') = Len(analysed) + 1 /\ analysed' \in Seq(Records)
        /\ \A k \in 1 .. Len(analysed') : analysed'[k] = file[k]
    BY <1>1, <1>4, <1>5, <2>2
  <2>4. Len(analysed') <= Len(file)
    BY <1>1, <1>4, <2>3
  <2>5. SubSeq(analysed', 1, Len(analysed')) = SubSeq(file, 1, Len(analysed'))
    BY <1>4, <2>3, <2>4
  <2> QED
    BY <2>4, <2>5 DEF IsPrefix
<1>8. Len(analysed') <= Instructions
  BY <1>1, <1>4, <1>5, TraceAssumption
<1>9. PredictorFaithful'
  BY <1>1, <1>7, <1>8 DEF PredictorFaithful
<1> QED
  BY <1>2, <1>3, <1>6, <1>9 DEF TraceInv, TraceFaithful

(* The predictor stops, at the end of the file or with its instructions. *)
LEMMA StopPredictorStep ==
    ASSUME TraceInv, StopPredictor
    PROVE  TraceInv'
<1>1. /\ Len(analysed) = Len(file) \/ Len(analysed) >= Instructions
      /\ predicting' = FALSE
      /\ UNCHANGED <<buff, file, running, sessions, analysed, dump>>
  BY DEF StopPredictor
<1>2. SessionsFaithful' /\ Buffered' /\ FileWhole'
  BY <1>1, WriterStays
<1>3. DumpStutters' /\ DumpPosition'
  BY <1>1 DEF TraceInv, DumpStutters, DumpPosition, LastRead, dump
<1>4. TypeOK'
  BY <1>1 DEF TraceInv, TypeOK, sessions, dump
<1>5. IsPrefix(analysed, file) /\ Len(analysed) <= Instructions /\ Whole(Len(file))
  BY DEF TraceInv, TraceFaithful, PredictorFaithful, FileWhole
<1>6. Len(analysed) \in Nat
  BY DEF TraceInv, TypeOK
<1>7. Len(analysed) = Instructions \/ Whole(Len(analysed))
  BY <1>1, <1>5, <1>6, TraceAssumption
<1>8. PredictorFaithful'
  BY <1>1, <1>5, <1>7 DEF PredictorFaithful, Whole
<1> QED
  BY <1>2, <1>3, <1>4, <1>8 DEF TraceInv, TraceFaithful

(* The dump prints its buffer, filled again or not. *)
LEMMA DumpStep ==
    ASSUME TraceInv, Dump
    PROVE  TraceInv'
<1>1. /\ UNCHANGED <<buff, file, running, sessions, predictor>>
      /\ leggi' = Append(leggi, [read |-> pos', printed |-> buffer_read'])
  BY DEF Dump
<1>2. SessionsFaithful' /\ Buffered' /\ FileWhole'
  BY <1>1, WriterStays
<1>3. PredictorFaithful'
  BY <1>1 DEF TraceInv, TraceFaithful, PredictorFaithful, Whole, predictor
<1>4. /\ pos \in Nat /\ file \in Seq(Records) /\ leggi \in Seq(Page) /\ pos <= Len(file)
      /\ buffer_read = LastRead(pos) /\ (pos = 0 \/ pos >= BufferRecords)
  BY DEF TraceInv, TypeOK, DumpPosition
<1>5. pos' - pos \in {0, BufferRecords} /\ pos' \in Nat /\ pos' <= Len(file)
      /\ (pos' = 0 \/ pos' >= BufferRecords) /\ buffer_read' = LastRead(pos')
  <2>1. CASE pos + BufferRecords <= Len(file)
    <3>1. /\ pos' = pos + BufferRecords
          /\ buffer_read' = SubSeq(file, pos + 1, pos + BufferRecords)
      BY <2>1 DEF Dump
    <3>2. pos' \in Nat /\ pos' # 0 /\ pos' - pos = BufferRecords /\ pos' >= BufferRecords
          /\ pos' - BufferRecords + 1 = pos + 1
      BY <1>4, <3>1, BufferSize
    <3> QED
      BY <1>4, <2>1, <3>1, <3>2 DEF LastRead
  <2>2. CASE ~(pos + BufferRecords <= Len(file))
    <3>1. pos' = pos /\ buffer_read' = buffer_read
      BY <2>2 DEF Dump
    <3> QED
      BY <1>4, <3>1
  <2> QED
    BY <2>1, <2>2
<1>6. LastRead(pos') \in Seq(Records) \cup {Garbage}
  <2>1. CASE pos' = 0
    BY <2>1 DEF LastRead
  <2>2. CASE pos' # 0
    <3>1. pos' - BufferRecords + 1 \in 1 .. Len(file) /\ pos' \in 1 .. Len(file)
      <4>1. pos' \in Nat /\ pos' >= BufferRecords /\ pos' <= Len(file)
        BY <1>5, <2>2
      <4>2. Len(file) \in Nat
        BY <1>4
      <4>3. PICK p \in Nat, l \in Nat : p = pos' /\ l = Len(file)
        BY <4>1, <4>2
      <4>4. p >= BufferRecords /\ p <= l
        BY <4>1, <4>3
      <4>5. p - BufferRecords + 1 \in 1 .. l /\ p \in 1 .. l
        BY <4>4, BufferSize
      <4> QED
        BY <4>3, <4>5
    <3>2. SubSeq(file, pos' - BufferRecords + 1, pos') \in Seq(Records)
      BY <1>4, <3>1
    <3> QED
      BY <2>2, <3>2 DEF LastRead
  <2> QED
    BY <2>1, <2>2
<1>7. PICK n \in Nat : n = Len(leggi)
  BY <1>4
<1>8. PICK page : page = [read |-> pos', printed |-> buffer_read']
  OBVIOUS
<1>9. page \in Page /\ page.read = pos' /\ page.printed = LastRead(pos')
  BY <1>5, <1>6, <1>8 DEF Page
<1>10. /\ leggi' \in Seq(Page) /\ Len(leggi') = n + 1 /\ leggi'[n + 1] = page
       /\ DOMAIN leggi' = 1 .. n + 1 /\ \A i \in 1 .. n : leggi'[i] = leggi[i]
  BY <1>1, <1>4, <1>7, <1>8, <1>9
<1>11. TypeOK'
  BY <1>1, <1>5, <1>10 DEF TraceInv, TypeOK, sessions, predictor
<1>12. \A read : LastRead(read)' = LastRead(read)
  BY <1>1 DEF LastRead
<1>13. DumpPosition'
  <2>1. \A i \in 1 .. n : leggi[i].read = 0 \/ leggi[i].read >= BufferRecords
    <3>1. \A read \in {leggi[i].read : i \in DOMAIN leggi} : read = 0 \/ read >= BufferRecords
      BY DEF TraceInv, DumpPosition
    <3>2. DOMAIN leggi = 1 .. n
      BY <1>4, <1>7
    <3> QED
      BY <3>1, <3>2
  <2>2. \A i \in 1 .. n + 1 : leggi'[i].read = 0 \/ leggi'[i].read >= BufferRecords
    <3> TAKE i \in 1 .. n + 1
    <3>1. CASE i = n + 1
      BY <1>5, <1>9, <1>10, <3>1
    <3>2. CASE i # n + 1
      BY <1>10, <2>1, <3>2
    <3> QED
      BY <3>1, <3>2
  <2>3. leggi' # <<>> /\ leggi'[Len(leggi')].read = pos'
    BY <1>9, <1>10
  <2>4. buffer_read' = LastRead(pos)'
    BY <1>1, <1>5 DEF LastRead
  <2> QED
    BY <1>1, <1>5, <1>10, <2>2, <2>3, <2>4 DEF DumpPosition
<1>14. DumpStutters'
  <2> SUFFICES ASSUME NEW i \in 1 .. n + 1
               PROVE  /\ leggi'[i].read - (IF i = 1 THEN 0 ELSE leggi'[i - 1].read)
                            \in {0, BufferRecords}
                      /\ leggi'[i].read <= Len(file)
                      /\ leggi'[i].printed = LastRead(leggi'[i].read)
    BY <1>1, <1>10, <1>12 DEF DumpStutters, LastRead
  <2>1. CASE i # n + 1
    <3>1. i \in DOMAIN leggi /\ leggi'[i] = leggi[i] /\ (i # 1 => leggi'[i - 1] = leggi[i - 1])
      <4>1. i \in 1 .. n /\ (i # 1 => i - 1 \in 1 .. n)
        BY <2>1
      <4> QED
        BY <1>4, <1>7, <1>10, <4>1
    <3> QED
      BY <3>1 DEF TraceInv, DumpStutters
  <2>2. CASE i = n + 1
    <3>1. (IF i = 1 THEN 0 ELSE leggi'[i - 1].read) = pos
      <4>1. CASE n = 0
        <5>1. leggi = <<>>
          BY <1>4, <1>7, <4>1, EmptySeq
        <5> QED
          BY <2>2, <4>1, <5>1 DEF TraceInv, DumpPosition
      <4>2. CASE n # 0
        <5>1. leggi # <<>> /\ leggi[n].read = pos
          BY <1>4, <1>7, <4>2 DEF TraceInv, DumpPosition
        <5>2. n \in 1 .. n /\ i - 1 = n /\ i # 1
          BY <2>2, <4>2
        <5> QED
          BY <1>10, <5>1, <5>2
      <4> QED
        BY <4>1, <4>2
    <3> QED
      BY <1>5, <1>9, <1>10, <2>2, <3>1
  <2> QED
    BY <2>1, <2>2
<1> QED
  BY <1>2, <1>3, <1>11, <1>13, <1>14 DEF TraceInv, TraceFaithful

(* The invariant holds when nothing has been started. *)
LEMMA InitTraceInv == Init => TraceInv
<1> SUFFICES ASSUME Init PROVE TraceInv
  OBVIOUS
<1>1. /\ buff = <<>> /\ file = <<>> /\ running = FALSE /\ executed = <<>> /\ start = <<>>
      /\ analysed = <<>> /\ predicting = TRUE /\ pos = 0 /\ leggi = <<>>
      /\ buffer_read = Garbage
  BY DEF Init
<1>2. TypeOK
  <2>1. /\ <<>> \in Seq(Records) /\ <<>> \in Seq(Seq(Records))
        /\ <<>> \in Seq(Nat) /\ <<>> \in Seq(Page)
    BY EmptySeq
  <2>2. 0 \in Nat
    OBVIOUS
  <2> QED
    BY <1>1, <2>1, <2>2, Zenon DEF TypeOK
<1>3. SessionsFaithful /\ PredictorFaithful /\ Buffered
  <2>1. SessionsFaithful /\ Buffered
    BY <1>1 DEF SessionsFaithful, Buffered
  <2>2. Len(analysed) = 0 /\ 0 <= Instructions
    BY <1>1, TraceAssumption
  <2> QED
    BY <1>1, <2>1, <2>2 DEF PredictorFaithful, IsPrefix
<1>4. FileWhole
  BY <1>1, WholeZero DEF FileWhole
<1>5. DumpStutters /\ DumpPosition
  BY <1>1 DEF DumpStutters, DumpPosition, LastRead
<1> QED
  BY <1>2, <1>3, <1>4, <1>5 DEF TraceInv, TraceFaithful

(* Opening the trace, or failing to, reads nothing. *)
LEMMA OpenStep ==
    ASSUME TraceInv, OpenPredictor \/ OpenDump
    PROVE  TraceInv'
<1>1. /\ UNCHANGED <<buff, file, running, sessions>>
      /\ UNCHANGED <<analysed, predicting, buffer_read, pos, leggi>>
  BY DEF OpenPredictor, OpenDump, predictor, dump
<1>2. SessionsFaithful' /\ Buffered' /\ FileWhole'
  BY <1>1, WriterStays
<1>3. PredictorFaithful' /\ DumpStutters' /\ DumpPosition'
  BY <1>1 DEF TraceInv, TraceFaithful, PredictorFaithful, DumpStutters, DumpPosition, LastRead, Whole
<1>4. TypeOK'
  BY <1>1 DEF TraceInv, TypeOK, sessions
<1> QED
  BY <1>2, <1>3, <1>4 DEF TraceInv, TraceFaithful

(* Every step of every process keeps it. *)
LEMMA NextTraceInv == TraceInv /\ [Next]_vars => TraceInv'
<1> SUFFICES ASSUME TraceInv, [Next]_vars PROVE TraceInv'
  OBVIOUS
<1>1. CASE \E r \in Records : Printer(r)
  BY <1>1, BufferStep, FlushStep
<1>2. CASE \E r \in Records : OpenFails(r)
  BY <1>2, OpenFailsStep
<1>3. CASE UNCHANGED vars
  <2>1. SessionsFaithful' /\ Buffered' /\ FileWhole'
    BY <1>3, WriterStays DEF vars
  <2>2. PredictorFaithful' /\ DumpStutters' /\ DumpPosition'
    BY <1>3, ReadersStay DEF vars, TraceInv, TraceFaithful
  <2>3. TypeOK'
    BY <1>3 DEF vars, TraceInv, TypeOK, sessions, readers, predictor, dump
  <2> QED
    BY <2>1, <2>2, <2>3 DEF TraceInv, TraceFaithful
<1> QED
  BY <1>1, <1>2, <1>3, StartStep, StopStep, OpenStep, AnalyseStep, StopPredictorStep, DumpStep
  DEF Next

(* The invariant holds throughout. *)
LEMMA TraceInvariant == Spec => []TraceInv
BY InitTraceInv, NextTraceInv, PTL DEF Spec

(* The trace holds what the sessions executed but for less than a buffer, or   *)
(* the one whose fopen failed, at the end of each, and a predictor gets its    *)
(* beginning in whole buffers: for every buffer size, however often QEMU is    *)
(* killed and started and whenever a predictor runs.                           *)
THEOREM TraceIsFaithful == Spec => []TraceFaithful
BY TraceInvariant, PTL DEF TraceInv

(* The dump prints the writer's buffers in order and whole, each once or more, *)
(* whatever the writer appends between its reads.                              *)
THEOREM DumpIsStuttering == Spec => []DumpStutters
BY TraceInvariant, PTL DEF TraceInv

=============================================================================
