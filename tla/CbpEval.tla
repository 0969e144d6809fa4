------------------------------ MODULE CbpEval ------------------------------
(***************************************************************************)
(* The evaluation program (cbp2016.eval/sim/main.cc): it makes a predictor  *)
(* and a trace reader, and gives the predictor every branch of the trace.   *)
(* fed is what the predictor has been asked about or shown.                 *)
(***************************************************************************)
EXTENDS Bt9Reader

CONSTANTS HeartBeats,   \* the iterations that print a misprediction rate
          PREDICTOR,    \* the predictor, new, and its three functions
          GetPrediction(_, _), UpdatePredictor(_, _, _), TrackOtherInst(_)

VARIABLES total_instruction_counter, branch_instruction_counter,
          numIter, numMispred,
          cond_branch_instruction_counter, uncond_branch_instruction_counter,
          beats,  \* the rates printed: mispredictions and iterations
          brpred, \* the predictor
          fed

counters == <<numMispred, cond_branch_instruction_counter, uncond_branch_instruction_counter>>
mainVars == <<total_instruction_counter, branch_instruction_counter, numIter, counters,
              beats, brpred, fed>>
vars == <<readerVars, mainVars>>

Init ==
  /\ ReaderInit
  /\ total_instruction_counter = 0 /\ branch_instruction_counter = 0
  /\ numIter = 0 /\ numMispred = 0 /\ beats = <<>>
  /\ cond_branch_instruction_counter = 0 /\ uncond_branch_instruction_counter = 0
  /\ brpred = PREDICTOR /\ fed = <<>>

(* getFieldValueStr leaves value alone when the header has no such field. *)
getFieldValueStr(name, value) == IF name \in DOMAIN fields THEN fields[name] ELSE value

(* Both counts of the header are read into the same string. *)
ReadCounts ==
  /\ stage = "start"
  /\ LET total  == getFieldValueStr("total_instruction_count:", "")
         branch == getFieldValueStr("branch_instruction_count:", total)
     IN IF stoull(total) = "ok" /\ stoull(branch) = "ok"
        THEN /\ total_instruction_counter' = Unsigned(total, AddrSpan)
             /\ branch_instruction_counter' = Unsigned(branch, AddrSpan)
             /\ stage' = "loop"
        ELSE /\ stage' = "abort"
             /\ UNCHANGED <<total_instruction_counter, branch_instruction_counter>>
  /\ UNCHANGED <<file, line_num_, fields, tables, window, index_, reach_end_,
                 numIter, counters, beats, brpred, fed>>

CheckHeartBeat ==
  beats' = IF numIter' \in HeartBeats THEN Append(beats, <<numMispred, numIter'>>) ELSE beats

OPTYPE_ERROR == <<"ERROR">>

(* The operation type of a branch: a return, or a direct or indirect call   *)
(* or jump, of known conditionality.                                        *)
opType(c) ==
  IF c.conditionality = "UNKNOWN" THEN OPTYPE_ERROR
  ELSE IF c.type = "RET" THEN <<"RET", c.conditionality>>
  ELSE IF c.type = "UNKNOWN" \/ c.directness = "UNKNOWN" THEN OPTYPE_ERROR
  ELSE <<c.type, c.directness, c.conditionality>>

Event(br) == [PC |-> br.src.br_virtual_addr, opType |-> opType(br.src.br_class),
              branchTaken |-> br.edge.is_taken_path, branchTarget |-> br.edge.br_virtual_tgt]

Increment(counter, by) == counter + (IF by THEN 1 ELSE 0)

(* A conditional branch is predicted, then trained with its outcome; any    *)
(* other one is only shown to the predictor.  The type has been found valid *)
(* by then, so that the last alternative (CONDITIONALITY ERROR) is dead.    *)
Simulate(e, conditional) ==
  LET predDir == GetPrediction(brpred, e.PC)
  IN /\ brpred' = IF conditional THEN UpdatePredictor(brpred, e.PC, e.branchTaken)
                  ELSE TrackOtherInst(brpred)
     /\ numMispred' = Increment(numMispred, conditional /\ predDir # e.branchTaken)
     /\ cond_branch_instruction_counter' =
          Increment(cond_branch_instruction_counter, conditional)
     /\ uncond_branch_instruction_counter' =
          Increment(uncond_branch_instruction_counter, ~conditional)
     /\ fed' = Append(fed, e)

(* One iteration.  Reading behind the end of the sequence throws, which     *)
(* ends the loop; only the dummy node may have a class that is no branch.   *)
Iterate ==
  /\ stage = "loop" /\ ~reach_end_
  /\ numIter' = numIter + 1
  /\ CheckHeartBeat
  /\ \/ /\ OutOfRange
        /\ stage' = "done" /\ UNCHANGED <<counters, brpred, fed>>
     \/ /\ ~OutOfRange
        /\ LET br == loadBT9BranchInstance_
               e  == Event(br)
           IN IF e.opType = OPTYPE_ERROR
              THEN /\ stage' = IF br.src.id # 0 THEN "exit" ELSE "next"
                   /\ UNCHANGED <<counters, brpred, fed>>
              ELSE /\ stage' = "next"
                   /\ Simulate(e, br.src.br_class.conditionality = "CONDITIONAL")
  /\ UNCHANGED <<file, line_num_, fields, tables, window, index_, reach_end_,
                 total_instruction_counter, branch_instruction_counter>>

Advance ==
  /\ stage = "next"
  /\ moveToNextEdgeSeqListEntry_
  /\ UNCHANGED <<file, line_num_, fields, tables, mainVars>>

Finish ==
  /\ stage = "loop" /\ reach_end_
  /\ stage' = "done"
  /\ UNCHANGED <<file, line_num_, fields, tables, window, index_, reach_end_, mainVars>>

Read ==
  /\ \/ ReadTitle \/ readBT9Header_ \/ readBT9NodeTable_ \/ readBT9EdgeTable_
     \/ readNextEdgeSequenceListEntry_ \/ initBT9EdgeSeqListAccessWindow_
  /\ UNCHANGED mainVars

Stop == stage \in Ended /\ UNCHANGED vars

Next == Read \/ ReadCounts \/ Iterate \/ Advance \/ Finish \/ Stop

Spec == Init /\ [][Next]_vars

----------------------------------------------------------------------------
(* What the trace says, read straight from the file. *)

HasWord(i) == file[i].words # <<>>
FirstWord(i) == file[i].words[1]

(* The first line behind another that starts with a word. *)
IsNext(word, from, i) ==
  /\ i \in from + 1 .. Len(file) /\ HasWord(i) /\ FirstWord(i) = word
  /\ \A j \in from + 1 .. i - 1 : HasWord(j) => FirstWord(j) # word
NextWith(word, from) == CHOOSE i \in 1 .. Len(file) : IsNext(word, from, i)

NodesAt == NextWith("BT9_NODES", 1)
EdgesAt == NextWith("BT9_EDGES", NodesAt)
SequenceAt == NextWith("BT9_EDGE_SEQUENCE", EdgesAt)

(* The lines of the edge sequence, and the place of a line among others. *)
SequenceLines ==
  {i \in SequenceAt + 1 .. Len(file) :
     HasWord(i) /\ \A j \in SequenceAt + 1 .. i : HasWord(j) => FirstWord(j) # "EOF"}
Place(lines, i) == Cardinality({j \in lines : j <= i})

(* The entries the loop is through with, and the branches among them. *)
PassedEntries == index_ + (IF stage = "next" THEN 1 ELSE 0)
Passed(lines) == {i \in lines : Place(lines, i) <= PassedEntries}
BranchAt(i) == Event(Instance(Index(FirstWord(i))))
BranchesOf(lines) == {i \in lines : BranchAt(i).opType # OPTYPE_ERROR}

Running == {"fill", "start", "loop", "next", "done"}

(* The predictor is given the branches of the trace in order, none twice    *)
(* and none left out, wherever the sequence ends relative to the access     *)
(* window (bt9_reader.h:1574-1676).                                         *)
EveryBranchOnce ==
  stage \in Running =>
    LET lines    == SequenceLines
        passed   == Passed(lines)
        branches == BranchesOf(passed)
    IN /\ \A i \in passed : EntryVerdict(FirstWord(i)) = "ok"
       /\ Len(fed) = Cardinality(branches)
       /\ \A i \in branches : fed[Place(branches, i)] = BranchAt(i)
       /\ stage = "done" => passed = lines

(* "Here numIter will be equal to number of branches read" (main.cc:170):   *)
(* when the program has come to its end, numIter is the number of entries   *)
(* of the edge sequence.  It is one more for a sequence that ends where the *)
(* window is shifted: operator++ says that there is an entry, and loading   *)
(* it throws (bt9_reader.h:1621-1650, main.cc:337).                         *)
OneIterationPerBranch ==
  stage = "done" => numIter = Cardinality(SequenceLines)

(* Every edge of the table leads from a known node to a known node. *)
EdgesClosed ==
  \A id \in DOMAIN edge_order_vector_ :
    LET e == edge_order_vector_[id]
    IN e.id = id /\ {e.src_node_id, e.dest_node_id} \subseteq DOMAIN node_order_vector_

(* The lines from one to another are records of a kind whose ids are known. *)
RecordId(i) == Field(Tail(file[i].words), 1, IdSpan)
Recorded(word, from, to, ids) ==
  \A i \in from + 1 .. to : HasWord(i) => FirstWord(i) = word /\ RecordId(i) \in ids

(* An edge line names fewer than two nodes, and there is no node 0. *)
NamesNoNode(i) == Len(Tail(file[i].words)) < 3 /\ ~isValidNodeIndex_(0)

(* A line of the file up to another is a record of the last id, "-1". *)
NamesLastId(to) ==
  \E i \in 1 .. to :
    HasWord(i) /\ FirstWord(i) \in {"NODE", "EDGE"} /\ RecordId(i) = IdSpan - 1

(* When the simulation starts the graph is closed, and each line of the node *)
(* and edge sections is in the tables, in the place of its id, unless another *)
(* line has that id: no pointer followed later is null                       *)
(* (bt9_reader.h:1347-1373, 1463-1488, 1670-1673).  The tables are built     *)
(* inside their vectors but for two lines: an edge that breaks off before    *)
(* its nodes when there is no node 0 (bt9_reader.h:1463-1475), and a record  *)
(* whose id, a std::stoi in a uint32_t, has no successor                     *)
(* (bt9_reader.h:1113, 1051, 1267-1272; 1337, 1324, 1483-1488).  Neither     *)
(* gets as far as the simulation.                                            *)
GraphClosed ==
  /\ stage = "segv" => NamesNoNode(line_num_) \/ NamesLastId(line_num_)
  /\ stage \in Running =>
       /\ EdgesClosed
       /\ IdSpan - 1 \notin DOMAIN node_order_vector_ \cup DOMAIN edge_order_vector_
       /\ Recorded("NODE", NodesAt, EdgesAt - 1, DOMAIN node_order_vector_)
       /\ Recorded("EDGE", EdgesAt, SequenceAt - 1, DOMAIN edge_order_vector_)

----------------------------------------------------------------------------
(* The inductive invariant behind EveryBranchOnce, for any file. *)

Reading == {"title", "header", "nodes", "edges"}

TypeOK ==
  /\ file \in Seq(Text) /\ line_num_ \in 0 .. Len(file)
  /\ stage \in Reading \cup Running \cup Ended
  /\ buffer_ \in [0 .. buffer_size - 1 -> {Index(w) : w \in DOMAIN Number} \cup {0}]
  /\ {buffer_begin_, buffer_end_, index_, numIter} \subseteq Nat
  /\ {reach_eof_, reach_end_} \subseteq BOOLEAN
  /\ stage \in Reading =>
       /\ buffer_begin_ = 0 /\ buffer_end_ = 0 /\ index_ = 0 /\ numIter = 0
       /\ ~reach_eof_ /\ ~reach_end_ /\ fed = <<>>

(* No line from one to another starts with a word. *)
Without(word, from, to) == \A i \in from + 1 .. to : HasWord(i) => FirstWord(i) # word

(* The reader is in the section its stage says. *)
InSection ==
  /\ stage = "title" => line_num_ = 0
  /\ stage = "header" => Without("BT9_NODES", 1, line_num_) /\ line_num_ >= 1
  /\ stage = "nodes" => Without("BT9_EDGES", NodesAt, line_num_) /\ NodesAt \in 0 .. line_num_
  /\ stage = "edges" =>
       Without("BT9_EDGE_SEQUENCE", EdgesAt, line_num_) /\ EdgesAt \in 0 .. line_num_
  /\ stage \in Running => SequenceAt \in 0 .. line_num_

(* The nodes of an edge are known before the edge is. *)
EdgesKnown ==
  /\ stage \in {"title", "header", "nodes"} => edge_table_ = {}
  /\ stage \in Reading => edge_order_vector_ = <<>>
  /\ \A e \in edge_table_ : {e.src_node_id, e.dest_node_id} \subseteq DOMAIN node_order_vector_
  /\ EdgesClosed

half == buffer_size \div 2

(* The entry that the window was filled for. *)
FilledFor == IF buffer_begin_ = 0 THEN 0 ELSE buffer_begin_ + half

(* Where the iterator is in the window: the window moves by half its size   *)
(* when the iterator has come to its end and the sequence has not.          *)
InWindow ==
  /\ \E k \in 0 .. buffer_begin_ : buffer_begin_ = k * half
  /\ FilledFor <= index_ /\ index_ <= buffer_end_ /\ buffer_end_ <= buffer_begin_ + buffer_size
  /\ stage = "fill" => index_ = FilledFor /\ ~reach_eof_ /\ ~reach_end_
  /\ stage # "fill" => (reach_eof_ <=> buffer_end_ < buffer_begin_ + buffer_size)
  /\ stage = "start" => index_ = 0 /\ ~reach_end_
  /\ stage = "next" => index_ < buffer_end_ /\ ~reach_end_
  /\ stage = "done" => index_ = buffer_end_ /\ reach_eof_
  /\ reach_end_ => reach_eof_ /\ index_ = buffer_end_ /\ FilledFor < buffer_end_
  /\ stage \in {"start", "loop"} /\ index_ = buffer_end_ /\ ~reach_end_ => FilledFor = buffer_end_
  /\ numIter = PassedEntries + (IF stage = "done" /\ FilledFor = buffer_end_ THEN 1 ELSE 0)

(* The lines read so far, in the window or passed. *)
EntriesRead(lines) ==
  /\ Place(lines, line_num_) = buffer_end_
  /\ \A n \in 1 .. buffer_end_ : \E i \in lines : i <= line_num_ /\ Place(lines, i) = n
  /\ \A i \in lines :
       IF reach_eof_ \/ i <= line_num_
       THEN /\ i <= line_num_ /\ EntryVerdict(FirstWord(i)) = "ok"
            /\ Place(lines, i) > buffer_begin_ =>
                 buffer_[(Place(lines, i) - 1) % buffer_size] = Index(FirstWord(i))
       ELSE TRUE
  /\ ~reach_eof_ => Without("EOF", SequenceAt, line_num_)

(* The predictor has had the branches among the entries passed. *)
FedBranches(branches) ==
  /\ fed \in Seq({BranchAt(i) : i \in branches})
  /\ Len(fed) = Cardinality(branches)
  /\ \A i \in branches : fed[Place(branches, i)] = BranchAt(i)

ReaderInv ==
  /\ TypeOK /\ InSection /\ EdgesKnown
  /\ stage \in Running =>
       LET lines == SequenceLines
       IN InWindow /\ EntriesRead(lines) /\ FedBranches(BranchesOf(Passed(lines)))

(* Each record of a table has the id of a line read. *)
FromLines(word, table) ==
  \A r \in table : \E i \in 1 .. line_num_ :
    HasWord(i) /\ FirstWord(i) = word /\ RecordId(i) = r.id

(* The inductive invariants behind GraphClosed.  The vectors are as long as  *)
(* their ids need, and what they cannot hold is in the file; and a line is   *)
(* in the table from the moment it is read, and in the order vector from the *)
(* end of its section.                                                       *)
VectorsKept ==
  /\ FromLines("NODE", node_table_) /\ FromLines("EDGE", edge_table_)
  /\ stage \in {"edges"} \cup Running => IdSpan - 1 \notin DOMAIN node_order_vector_
  /\ stage \in Running => IdSpan - 1 \notin DOMAIN edge_order_vector_
  /\ stage = "segv" => NamesNoNode(line_num_) \/ NamesLastId(line_num_)

SectionsKept ==
  /\ stage = "nodes" => Recorded("NODE", NodesAt, line_num_, {r.id : r \in node_table_})
  /\ stage \in {"edges"} \cup Running =>
       Recorded("NODE", NodesAt, EdgesAt - 1, DOMAIN node_order_vector_)
  /\ stage = "edges" => Recorded("EDGE", EdgesAt, line_num_, {e.id : e \in edge_table_})
  /\ stage \in Running => Recorded("EDGE", EdgesAt, SequenceAt - 1, DOMAIN edge_order_vector_)
=============================================================================
