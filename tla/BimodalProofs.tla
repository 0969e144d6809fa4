----------------------------- MODULE BimodalProofs -----------------------------
(***************************************************************************)
(* Theorems about Bimodal, for every set of addresses, every table, every  *)
(* hash function and every trace.                                          *)
(***************************************************************************)
EXTENDS Bimodal, TLAPS

(* A counter stays a two-bit one when it is trained. *)
LEMMA TrainedType ==
    ASSUME NEW s \in 0 .. 3, NEW taken
    PROVE  Trained(s, taken) \in 0 .. 3
BY DEF Trained

(* Training touches the counter at the head of a chain and nothing else. *)
LEMMA TrainHead ==
    ASSUME NEW chain \in Seq(Node), NEW taken, chain # <<>>,
           NEW c, c = [chain EXCEPT ![1].state = Trained(@, taken)]
    PROVE  /\ c \in Seq(Node) /\ Len(c) = Len(chain)
           /\ \A k \in 1 .. Len(chain) : c[k].PC = chain[k].PC
           /\ c[1].state = Trained(chain[1].state, taken)
<1>1. chain[1] \in Node /\ 1 \in 1 .. Len(chain)
  OBVIOUS
<1>2. Trained(chain[1].state, taken) \in 0 .. 3
  BY <1>1, TrainedType DEF Node
<1> DEFINE n == [chain[1] EXCEPT !.state = Trained(@, taken)]
<1>3. n \in Node /\ n.PC = chain[1].PC /\ n.state = Trained(chain[1].state, taken)
  BY <1>1, <1>2 DEF Node
<1>4. c = [chain EXCEPT ![1] = n]
  OBVIOUS
<1> HIDE DEF n
<1>5. c \in Seq(Node) /\ Len(c) = Len(chain)
  BY <1>1, <1>3, <1>4
<1>6. \A k \in 1 .. Len(chain) : c[k] = IF k = 1 THEN n ELSE chain[k]
  BY <1>4
<1> QED
  BY <1>1, <1>3, <1>5, <1>6

(* The state main starts from. *)
LEMMA InitTableInv == BimodalInit => TableInv
<1> SUFFICES ASSUME BimodalInit PROVE TableInv
  OBVIOUS
<1>1. TableTypeOK
  BY BimodalAssumption DEF BimodalInit, TableTypeOK, INITIAL_VALUE
<1>2. \A r \in Row : table1024[r] = <<>>
  BY DEF BimodalInit
<1>3. Chained /\ LoneBranchExact
  BY <1>2 DEF Chained, LoneBranchExact
<1>4. NewIsInitial
  BY DEF BimodalInit, NewIsInitial
<1> QED
  BY <1>1, <1>3, <1>4 DEF TableInv

(* A branch that has an entry: the head of its chain is trained. *)
LEMMA FoundStep ==
    ASSUME TableInv, NEW pc \in PCs, NEW taken \in {0, 1}, Branch(pc, taken),
           Found(table1024[APHash(pc)], pc)
    PROVE  TableInv'
<1> DEFINE r == hash[pc]
           c == [table1024[r] EXCEPT ![1].state = Trained(@, taken)]
<1>1. r \in Row /\ table1024[r] \in Seq(Node) /\ hash' = hash /\ iCount' = iCount + 1
      /\ iCount < argv1
  BY DEF TableInv, TableTypeOK, Branch
<1>2. table1024' = [table1024 EXCEPT ![r] = c] /\ ideal' = [ideal EXCEPT ![pc] = Trained(@, taken)]
  BY DEF Branch, APHash
<1>3. PICK k0 \in DOMAIN table1024[r] : table1024[r][k0].PC = pc
  BY DEF Found, APHash
<1>4. table1024[r] # <<>>
  BY <1>3
<1>5. /\ c \in Seq(Node) /\ Len(c) = Len(table1024[r])
      /\ \A k \in 1 .. Len(table1024[r]) : c[k].PC = table1024[r][k].PC
      /\ c[1].state = Trained(table1024[r][1].state, taken)
  BY <1>1, <1>4, TrainHead
<1>6. ideal[pc] \in 0 .. 3 /\ Trained(ideal[pc], taken) \in 0 .. 3
  BY TrainedType DEF TableInv, TableTypeOK
<1> HIDE DEF c
<1>7. TableTypeOK'
  BY <1>1, <1>2, <1>5, <1>6, BimodalAssumption DEF TableInv, TableTypeOK
<1>8. \A q \in Row : /\ table1024[q] \in Seq(Node) /\ table1024'[q] \in Seq(Node)
                     /\ DOMAIN table1024'[q] = DOMAIN table1024[q]
                     /\ Len(table1024'[q]) = Len(table1024[q])
                     /\ \A k \in DOMAIN table1024[q] : table1024'[q][k].PC = table1024[q][k].PC
                     /\ q # r => table1024'[q] = table1024[q]
  <2> TAKE q \in Row
  <2>1. table1024[q] \in Seq(Node)
    BY DEF TableInv, TableTypeOK
  <2>2. table1024'[q] = IF q = r THEN c ELSE table1024[q]
    BY <1>2 DEF TableInv, TableTypeOK
  <2>3. CASE q = r
    BY <1>5, <2>1, <2>2, <2>3
  <2> QED
    BY <2>1, <2>2, <2>3
<1>9. Chained'
  BY <1>1, <1>8 DEF TableInv, Chained, APHash
<1>10. NewIsInitial'
  <2> SUFFICES ASSUME NEW p \in PCs, ~Found(table1024[hash[p]], p)'
               PROVE  ideal'[p] = INITIAL_VALUE
    BY DEF NewIsInitial, APHash
  <2>1. hash[p] \in Row
    BY DEF TableInv, TableTypeOK
  <2>2. ~Found(table1024[hash[p]], p)
    BY <1>1, <1>8, <2>1 DEF Found
  <2>3. p # pc
    BY <1>3, <2>2 DEF Found
  <2> QED
    BY <1>2, <2>2, <2>3 DEF TableInv, TableTypeOK, NewIsInitial, APHash
<1>11. LoneBranchExact'
  <2> SUFFICES ASSUME NEW q \in Row, Len(table1024'[q]) = 1
               PROVE  table1024'[q][1].state = ideal'[table1024'[q][1].PC]
    BY DEF LoneBranchExact
  <2>1. Len(table1024[q]) = 1 /\ 1 \in DOMAIN table1024[q]
        /\ table1024'[q][1].PC = table1024[q][1].PC
        /\ table1024[q][1].state = ideal[table1024[q][1].PC]
        /\ table1024[q][1].PC \in PCs /\ hash[table1024[q][1].PC] = q
    <3>1. Len(table1024[q]) = 1 /\ 1 \in DOMAIN table1024[q] /\ table1024[q][1] \in Node
      BY <1>8
    <3> QED
      BY <1>8, <3>1 DEF TableInv, LoneBranchExact, Node, Chained, APHash
  <2>2. CASE q = r
    <3>1. table1024[r][1].PC = pc
      BY <1>3, <2>1, <2>2
    <3> QED
      BY <1>1, <1>2, <1>5, <2>1, <2>2, <3>1 DEF TableInv, TableTypeOK
  <2>3. CASE q # r
    <3>1. table1024[q][1].PC # pc
      BY <2>1, <2>3
    <3> QED
      BY <1>2, <1>8, <2>1, <2>3, <3>1 DEF TableInv, TableTypeOK
  <2> QED
    BY <2>2, <2>3
<1> QED
  BY <1>7, <1>9, <1>10, <1>11 DEF TableInv

(* A branch that has none gets one, at the end of its chain. *)
LEMMA NewStep ==
    ASSUME TableInv, NEW pc \in PCs, NEW taken \in {0, 1}, Branch(pc, taken),
           ~Found(table1024[APHash(pc)], pc)
    PROVE  TableInv'
<1> DEFINE r == hash[pc]
           n == add_node(pc)
<1>1. r \in Row /\ table1024[r] \in Seq(Node) /\ hash' = hash /\ iCount' = iCount + 1
      /\ iCount < argv1 /\ ideal' = ideal
  BY DEF TableInv, TableTypeOK, Branch
<1>2. table1024' = [table1024 EXCEPT ![r] = Append(table1024[r], n)]
  BY DEF Branch, APHash
<1>3. n \in Node /\ n.PC = pc /\ n.state = INITIAL_VALUE
  BY DEF add_node, Node, INITIAL_VALUE
<1>4. \A k \in DOMAIN table1024[r] : table1024[r][k].PC # pc
  BY DEF Found, APHash
<1>5. ideal[pc] = INITIAL_VALUE
  BY DEF TableInv, NewIsInitial
<1> HIDE DEF n
<1>6. TableTypeOK'
  BY <1>1, <1>2, <1>3, BimodalAssumption DEF TableInv, TableTypeOK
<1>7. \A q \in Row : q # r => table1024'[q] = table1024[q]
  BY <1>2 DEF TableInv, TableTypeOK
<1>8. /\ Len(table1024'[r]) = Len(table1024[r]) + 1
      /\ DOMAIN table1024'[r] = 1 .. Len(table1024[r]) + 1
      /\ \A k \in 1 .. Len(table1024[r]) : table1024'[r][k] = table1024[r][k]
      /\ table1024'[r][Len(table1024[r]) + 1] = n
  BY <1>1, <1>2, <1>3 DEF TableInv, TableTypeOK
<1>9. Chained'
  <2> SUFFICES ASSUME NEW q \in Row
               PROVE  \A k \in DOMAIN table1024'[q] :
                         /\ hash[table1024'[q][k].PC] = q
                         /\ \A l \in DOMAIN table1024'[q] :
                               table1024'[q][l].PC = table1024'[q][k].PC => l = k
    BY <1>1 DEF Chained, APHash
  <2>1. CASE q # r
    BY <1>7, <2>1 DEF TableInv, Chained, APHash
  <2>2. CASE q = r
    <3> DEFINE m == Len(table1024[r])
    <3>1. m \in Nat /\ DOMAIN table1024[r] = 1 .. m /\ DOMAIN table1024'[r] = 1 .. m + 1
      BY <1>1, <1>8
    <3>2. \A k \in 1 .. m : table1024'[r][k] = table1024[r][k] /\ table1024[r][k].PC # pc
                            /\ hash[table1024[r][k].PC] = r
      BY <1>1, <1>4, <1>8, <3>1 DEF TableInv, Chained, APHash
    <3>3. table1024'[r][m + 1].PC = pc
      BY <1>3, <1>8
    <3>4. \A k, l \in 1 .. m : table1024[r][l].PC = table1024[r][k].PC => l = k
      BY <1>1, <3>1 DEF TableInv, Chained
    <3>5. \A k \in 1 .. m + 1 : k \in 1 .. m \/ k = m + 1
      BY <3>1
    <3> HIDE DEF m
    <3> QED
      BY <2>2, <3>1, <3>2, <3>3, <3>4, <3>5
  <2> QED
    BY <2>1, <2>2
<1>10. NewIsInitial'
  <2> SUFFICES ASSUME NEW p \in PCs, ~Found(table1024[hash[p]], p)'
               PROVE  ideal[p] = INITIAL_VALUE
    BY <1>1 DEF NewIsInitial, APHash
  <2>1. CASE hash[p] # r
    BY <1>1, <1>7, <2>1 DEF TableInv, TableTypeOK, NewIsInitial, APHash, Found
  <2>2. CASE hash[p] = r
    <3>1. Len(table1024[r]) \in Nat /\ DOMAIN table1024[r] = 1 .. Len(table1024[r])
      BY <1>1
    <3>2. \A k \in DOMAIN table1024[r] :
             k \in DOMAIN table1024'[r] /\ table1024'[r][k] = table1024[r][k]
      BY <1>8, <3>1
    <3>3. ~Found(table1024[hash[p]], p)
      BY <1>1, <2>2, <3>2 DEF Found
    <3> QED
      BY <3>3 DEF TableInv, NewIsInitial, APHash
  <2> QED
    BY <2>1, <2>2
<1>11. LoneBranchExact'
  <2> SUFFICES ASSUME NEW q \in Row, Len(table1024'[q]) = 1
               PROVE  table1024'[q][1].state = ideal[table1024'[q][1].PC]
    BY <1>1 DEF LoneBranchExact
  <2>1. CASE q # r
    BY <1>7, <2>1 DEF TableInv, LoneBranchExact
  <2>2. CASE q = r
    BY <1>1, <1>3, <1>5, <1>8, <2>2
  <2> QED
    BY <2>1, <2>2
<1> QED
  BY <1>6, <1>9, <1>10, <1>11 DEF TableInv

(* Every step of main keeps the invariant. *)
LEMMA NextTableInv == TableInv /\ [BimodalNext]_bimodalVars => TableInv'
<1> SUFFICES ASSUME TableInv, [BimodalNext]_bimodalVars PROVE TableInv'
  OBVIOUS
<1>1. CASE \E pc \in PCs, taken \in {0, 1} : Branch(pc, taken)
  BY <1>1, FoundStep, NewStep
<1>2. CASE PrintLength
  BY <1>2 DEF PrintLength, TableInv, TableTypeOK, Chained, NewIsInitial, LoneBranchExact, APHash, Found
<1>3. CASE UNCHANGED bimodalVars
  BY <1>3 DEF bimodalVars, TableInv, TableTypeOK, Chained, NewIsInitial, LoneBranchExact, APHash, Found
<1> QED
  BY <1>1, <1>2, <1>3 DEF BimodalNext

(* The invariant holds throughout. *)
LEMMA TableInvariant == BimodalSpec => []TableInv
BY InitTableInv, NextTableInv, PTL DEF BimodalSpec

(* An invariant state has one entry per branch. *)
LEMMA TableInvOneEntry == TableInv => OneEntryPerBranch
<1> SUFFICES ASSUME TableInv, NEW e \in Entries
             PROVE  LET n == table1024[e[1]][e[2]]
                    IN  /\ n \in Node /\ APHash(n.PC) = e[1]
                        /\ \A f \in Entries : table1024[f[1]][f[2]].PC = n.PC => f = e
  BY DEF OneEntryPerBranch
<1>1. \A f \in Entries : \E r \in Row : \E k \in DOMAIN table1024[r] : f = <<r, k>>
  BY DEF Entries
<1> PICK r \in Row : \E k \in DOMAIN table1024[r] : e = <<r, k>>
  BY <1>1
<1>2. PICK k \in DOMAIN table1024[r] : e = <<r, k>>
  OBVIOUS
<1>3. table1024[r][k] \in Node /\ hash[table1024[r][k].PC] = r
  BY DEF TableInv, TableTypeOK, Chained, APHash
<1>4. ASSUME NEW f \in Entries, table1024[f[1]][f[2]].PC = table1024[r][k].PC
      PROVE  f = e
  <2> PICK q \in Row : \E l \in DOMAIN table1024[q] : f = <<q, l>>
    BY <1>1
  <2>1. PICK l \in DOMAIN table1024[q] : f = <<q, l>>
    OBVIOUS
  <2>2. hash[table1024[q][l].PC] = q
    BY DEF TableInv, Chained, APHash
  <2>3. q = r
    BY <1>3, <1>4, <2>1, <2>2
  <2> QED
    BY <1>2, <1>4, <2>1, <2>3 DEF TableInv, Chained
<1> QED
  BY <1>2, <1>3, <1>4 DEF APHash

(* README.md:262 for every trace, table and hash function: no branch ever has  *)
(* two entries, and its entry is in the row its address hashes to.             *)
THEOREM BimodalOneEntry == BimodalSpec => []OneEntryPerBranch
BY TableInvariant, TableInvOneEntry, PTL

(* A branch that is alone in its row is predicted by its own two-bit counter,  *)
(* for every trace, table and hash function.                                   *)
THEOREM BimodalLoneExact == BimodalSpec => []LoneBranchExact
BY TableInvariant, PTL DEF TableInv

(* An entry is never moved, replaced or freed: a step at most appends one to   *)
(* a chain, so that the head that predicts for a row is its first branch for   *)
(* good.                                                                       *)
EntriesStay ==
    \A r \in Row : /\ Len(table1024'[r]) >= Len(table1024[r])
                   /\ \A k \in DOMAIN table1024[r] : table1024'[r][k].PC = table1024[r][k].PC

(* Every step of main leaves the entries where they are. *)
LEMMA NextEntriesStay == TableInv /\ BimodalNext => EntriesStay
<1> SUFFICES ASSUME TableInv, BimodalNext, NEW q \in Row
             PROVE  /\ Len(table1024'[q]) >= Len(table1024[q])
                    /\ \A k \in DOMAIN table1024[q] : table1024'[q][k].PC = table1024[q][k].PC
  BY DEF EntriesStay
<1>1. table1024[q] \in Seq(Node) /\ Len(table1024[q]) \in Nat
  BY DEF TableInv, TableTypeOK
<1>2. CASE UNCHANGED table1024
  BY <1>1, <1>2
<1>3. ASSUME NEW pc \in PCs, NEW taken \in {0, 1}, Branch(pc, taken),
             Found(table1024[hash[pc]], pc)
      PROVE  /\ Len(table1024'[q]) >= Len(table1024[q])
             /\ \A k \in DOMAIN table1024[q] : table1024'[q][k].PC = table1024[q][k].PC
  <2> DEFINE r == hash[pc]
             c == [table1024[r] EXCEPT ![1].state = Trained(@, taken)]
  <2>1. table1024' = [table1024 EXCEPT ![r] = c]
    BY <1>3 DEF Branch, APHash
  <2>2. r \in Row /\ table1024[r] \in Seq(Node) /\ table1024[r] # <<>>
    BY <1>3 DEF TableInv, TableTypeOK, Found
  <2>3. /\ c \in Seq(Node) /\ Len(c) = Len(table1024[r])
        /\ \A k \in 1 .. Len(table1024[r]) : c[k].PC = table1024[r][k].PC
        /\ c[1].state = Trained(table1024[r][1].state, taken)
    BY <2>2, TrainHead
  <2> HIDE DEF c
  <2>4. table1024'[q] = IF q = r THEN c ELSE table1024[q]
    BY <2>1 DEF TableInv, TableTypeOK
  <2> QED
    BY <1>1, <2>3, <2>4
<1>4. ASSUME NEW pc \in PCs, NEW taken \in {0, 1}, Branch(pc, taken),
             ~Found(table1024[hash[pc]], pc)
      PROVE  /\ Len(table1024'[q]) >= Len(table1024[q])
             /\ \A k \in DOMAIN table1024[q] : table1024'[q][k].PC = table1024[q][k].PC
  <2>1. table1024' = [table1024 EXCEPT ![hash[pc]] = Append(table1024[hash[pc]], add_node(pc))]
    BY <1>4 DEF Branch, APHash
  <2>2. add_node(pc) \in Node
    BY DEF add_node, Node, INITIAL_VALUE
  <2>3. table1024'[q] = IF q = hash[pc] THEN Append(table1024[q], add_node(pc)) ELSE table1024[q]
    BY <2>1 DEF TableInv, TableTypeOK
  <2> QED
    BY <1>1, <2>2, <2>3
<1> QED
  BY <1>2, <1>3, <1>4 DEF BimodalNext, PrintLength

(* No run of main ever moves, replaces or frees an entry of the table. *)
THEOREM BimodalEntriesStay == BimodalSpec => [][EntriesStay]_bimodalVars
BY TableInvariant, NextEntriesStay, PTL DEF BimodalSpec

=============================================================================
