--------------------------- MODULE MCFileReaders ---------------------------
(* The trace file with its readers, the bimodal table and the histories of  *)
(* TAGE: parts that share no state, so that each behaviour runs one of them *)
(* and leaves the other two as they start.                                  *)
EXTENDS TraceFile, Bimodal, TageHistory, TLC

VARIABLE part

MCInit ==
  /\ part \in {"trace", "table", "histories"}
  /\ Init /\ BimodalInit /\ HistoryInit
  /\ part # "table" => hash = CHOOSE h \in [PCs -> Row] : TRUE

MCNext ==
  /\ UNCHANGED part
  /\ \/ part = "trace" /\ Next /\ UNCHANGED <<bimodalVars, historyVars>>
     \/ part = "table" /\ BimodalNext /\ UNCHANGED <<vars, historyVars>>
     \/ part = "histories" /\ HistoryNext /\ UNCHANGED <<vars, bimodalVars>>

MCSpec == MCInit /\ [][MCNext]_<<part, vars, bimodalVars, historyVars>>

(* No step looks into a record. *)
AnyRecords == Permutations(Records)
=============================================================================
