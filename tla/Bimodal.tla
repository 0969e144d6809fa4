-------------------------------- MODULE Bimodal --------------------------------
(***************************************************************************)
(* BP_read_from_file/BIMODAL_PREDICTOR/branch.c: a table of rows, each the  *)
(* chain of the branches that hash to it, and the loop of main that feeds  *)
(* it a trace and counts the correct predictions.                          *)
(*                                                                         *)
(* APHash(PC) % 1024 may be any function from addresses to rows: it is     *)
(* chosen once, in BimodalInit.                                                   *)
(***************************************************************************)
EXTENDS Integers, Sequences, FiniteSets, FiniteSetsExt

CONSTANTS
    PCs,          (* branch addresses                                      *)
    Row,          (* rows of the table                                     *)
    argv1         (* the number of records to analyse                      *)

ASSUME BimodalAssumption == argv1 \in Nat /\ IsFiniteSet(Row)

INITIAL_VALUE == 3

VARIABLES
    hash,             (* APHash(PC) % 1024                                 *)
    table1024,        (* [Row -> chain of nodes]                           *)
    iCount, bimodal2bit1024,
    tableLength,      (* what main prints at the end, or -1 before         *)
    ideal             (* history: the two-bit counter each PC would have   *)
                      (* if it had one of its own                          *)

bimodalVars == <<hash, table1024, iCount, bimodal2bit1024, tableLength, ideal>>

Node == [PC : PCs, state : 0 .. 3]

BimodalInit ==
    /\ hash \in [PCs -> Row]
    /\ table1024 = [r \in Row |-> <<>>]
    /\ iCount = 0 /\ bimodal2bit1024 = 0 /\ tableLength = -1
    /\ ideal = [pc \in PCs |-> INITIAL_VALUE]

APHash(pc) == hash[pc]

(* Faulty: the counter of a new node is left at zero. *)
AddNodeZeroed(pc) == [PC |-> pc, state |-> 0]

add_node(pc) == [PC |-> pc, state |-> INITIAL_VALUE]

(* Faulty: only the first node of the chain is compared. *)
HeadOnly(chain, pc) == chain # <<>> /\ chain[1].PC = pc

Found(chain, pc) == \E k \in DOMAIN chain : chain[k].PC = pc

Trained(state, taken) ==
    IF taken = 1 THEN IF state < 3 THEN state + 1 ELSE state
                 ELSE IF state > 0 THEN state - 1 ELSE state

(* The verdict: the head of the chain predicts for all of it. *)
Correct(chain, pc, taken) ==
    Found(chain, pc) /\ ((chain[1].state >= 2) <=> (taken = 1))

(* One iteration of main's loop: acquire and bimodal_implementation. *)
Branch(pc, taken) ==
    LET r == APHash(pc)
        chain == table1024[r]
    IN  /\ tableLength = -1 /\ iCount < argv1
        /\ table1024' = [table1024 EXCEPT ![r] =
              IF Found(chain, pc) THEN [chain EXCEPT ![1].state = Trained(@, taken)]
                                  ELSE Append(chain, add_node(pc))]
        /\ bimodal2bit1024' = bimodal2bit1024 + (IF Correct(chain, pc, taken) THEN 1 ELSE 0)
        /\ iCount' = iCount + 1
        /\ ideal' = IF Found(chain, pc) THEN [ideal EXCEPT ![pc] = Trained(@, taken)] ELSE ideal
        /\ UNCHANGED <<hash, tableLength>>

size_counter(chain) == IF chain = <<>> THEN 1 ELSE Len(chain)

(* The trace ends, or enough of it has been read. *)
PrintLength ==
    /\ tableLength = -1
    /\ tableLength' = MapThenSumSet(LAMBDA r : size_counter(table1024[r]), Row)
    /\ UNCHANGED <<hash, table1024, iCount, bimodal2bit1024, ideal>>

BimodalNext == (\E pc \in PCs, taken \in {0, 1} : Branch(pc, taken)) \/ PrintLength

BimodalSpec == BimodalInit /\ [][BimodalNext]_bimodalVars

-----------------------------------------------------------------------------
(* Properties. *)

Entries == UNION {{<<r, k>> : k \in DOMAIN table1024[r]} : r \in Row}

(* README.md:262: an entry is allocated only for a branch "not already present *)
(* in the table", in the row the hash function gives it: no address is ever in *)
(* two places, and every counter a chain predicts with is a two-bit one.       *)
OneEntryPerBranch ==
    \A e \in Entries :
        LET n == table1024[e[1]][e[2]]
        IN  /\ n \in Node /\ APHash(n.PC) = e[1]
            /\ \A f \in Entries : table1024[f[1]][f[2]].PC = n.PC => f = e

(* A branch that is alone in its row is predicted by its own two-bit counter.  *)
LoneBranchExact ==
    \A r \in Row : Len(table1024[r]) = 1 =>
        table1024[r][1].state = ideal[table1024[r][1].PC]

-----------------------------------------------------------------------------
(* The inductive invariant behind both. *)

TableTypeOK ==
    /\ hash \in [PCs -> Row] /\ table1024 \in [Row -> Seq(Node)]
    /\ iCount \in 0 .. argv1 /\ ideal \in [PCs -> 0 .. 3]

(* A chain holds each of its branches once, and only branches of its row. *)
Chained ==
    \A r \in Row : \A k \in DOMAIN table1024[r] :
        /\ APHash(table1024[r][k].PC) = r
        /\ \A l \in DOMAIN table1024[r] :
              table1024[r][l].PC = table1024[r][k].PC => l = k

(* The counter of its own starts with the branch's entry. *)
NewIsInitial ==
    \A pc \in PCs : ~Found(table1024[APHash(pc)], pc) => ideal[pc] = INITIAL_VALUE

TableInv == TableTypeOK /\ Chained /\ NewIsInitial /\ LoneBranchExact

=============================================================================
