----------------------------- MODULE Bt9Reader -----------------------------
(***************************************************************************)
(* The BT9 trace reader (cbp2016.eval/sim/bt9.h, bt9_reader.h): the header, *)
(* the node and edge tables, read line by line when the reader is made, and *)
(* the window through which the edge sequence is read while the simulation  *)
(* runs.  A line is its words in front of '#', whether blanks precede them, *)
(* and the words of the comment behind '#'.  A word is a string; Number     *)
(* gives the integer that is written there (no value: std::stoi, stoul and  *)
(* stoull throw invalid_argument), Huge the numerals that are out of        *)
(* std::stoi's range, and Parts the pieces of a word joined by "+".         *)
(***************************************************************************)
EXTENDS Integers, Sequences, SequencesExt, FiniteSets

CONSTANTS Number, Huge, Parts,
          IdSpan,       \* the values of a uint32_t: record ids
          AddrSpan,     \* the values of a uint64_t: addresses, sizes and counts
          TraceFiles,   \* the files the program may be started with
          buffer_size,  \* capacity of the access window
          Opens, Closes \* the words of comments that begin and end with a quote

Text == [words : Seq(STRING), indented : BOOLEAN, comment : Seq(STRING)]

ASSUME FilesOK == TraceFiles \subseteq Seq(Text) /\ Huge \subseteq DOMAIN Number

ASSUME SpansOK == IdSpan \in Nat /\ IdSpan > 1 /\ AddrSpan \in Nat /\ AddrSpan > 1

ASSUME BufferOK == buffer_size \in Nat /\ buffer_size % 2 = 0 /\ buffer_size > 0

----------------------------------------------------------------------------
(* The records of the trace format and the conversions between them and the *)
(* words of a file (bt9.h).                                                 *)

(* getEnumToStrMap of the enumerations; BrBehavior's have no word for UNKNOWN. *)
TypeStr == [UNKNOWN |-> "N/A", RET |-> "RET", JMP |-> "JMP", CALL |-> "CALL"]
DirectnessStr == [UNKNOWN |-> "N/A", DIRECT |-> "DIR", INDIRECT |-> "IND"]
ConditionalityStr == [UNKNOWN |-> "N/A", CONDITIONAL |-> "CND", UNCONDITIONAL |-> "UCD"]
DirectionStr == [AT |-> "AT", ANT |-> "ANT", DYN |-> "DYN"]
IndirectnessStr == [INDIRECT |-> "IND", DIRECT |-> "DIR"]

(* generateStrToEnumMap_: the map of an enumeration read backwards. *)
ToEnum(map, word) == CHOOSE e \in DOMAIN map : map[e] = word

(* A static branch class (all UNKNOWN when the record is made). *)
BrClass == [type : DOMAIN TypeStr, directness : DOMAIN DirectnessStr,
            conditionality : DOMAIN ConditionalityStr]
UnknownClass == [type |-> "UNKNOWN", directness |-> "UNKNOWN", conditionality |-> "UNKNOWN"]

(* The tokens of a word after '+' has been replaced by a blank. *)
Tokens(word) == IF word \in DOMAIN Parts THEN Parts[word] ELSE <<word>>

(* The enumerator the last token with a name in map sets; later maps only  *)
(* get the tokens the earlier ones (whose names are in taken) do not know.  *)
LastNamed(tokens, map, taken, default) ==
  LET mine == SelectSeq(tokens, LAMBDA t : t \in Range(map) \ taken)
  IN IF mine = <<>> THEN default ELSE ToEnum(map, Last(mine))

IsBrClass(word) ==
  Range(Tokens(word)) \subseteq
    Range(TypeStr) \cup Range(DirectnessStr) \cup Range(ConditionalityStr)

parseBrClass(c, word) ==
  LET ts   == Tokens(word)
      type == LastNamed(ts, TypeStr, {}, c.type)
      dir  == LastNamed(ts, DirectnessStr, Range(TypeStr), c.directness)
      cond == LastNamed(ts, ConditionalityStr,
                        Range(TypeStr) \cup Range(DirectnessStr), c.conditionality)
  IN [type |-> type, directness |-> IF type = "RET" THEN "INDIRECT" ELSE dir,
      conditionality |-> cond]

(* parseBrBehavior throws for any other token; nothing else reads the result. *)
IsBrBehavior(word) ==
  Range(Tokens(word)) \subseteq Range(DirectionStr) \cup Range(IndirectnessStr)

(* A node record: a static branch.  The dummy source and sink have size 0. *)
NoNode == [id |-> 0, br_virtual_addr |-> 0, opcode_size |-> 0, br_class |-> UnknownClass]

(* An edge record: a way from one branch to the next. *)
NoEdge == [id |-> 0, src_node_id |-> 0, dest_node_id |-> 0, is_taken_path |-> FALSE,
           br_virtual_tgt |-> 0]

----------------------------------------------------------------------------
VARIABLES
  file,          \* the lines of the trace
  line_num_,     \* lines read so far
  stage,         \* what the program is doing, or how it ended
  fields,        \* header.unclassified_fields_: key |-> first word of the value
  node_table_,   \* the node records
  node_order_vector_,  \* node id |-> node record, for the ids that have one
  edge_table_, edge_order_vector_,
  buffer_, buffer_begin_, buffer_end_, reach_eof_,
  index_, reach_end_   \* the branch instance iterator

tables == <<node_table_, node_order_vector_, edge_table_, edge_order_vector_>>
window == <<buffer_, buffer_begin_, buffer_end_, reach_eof_>>
readerVars == <<file, line_num_, stage, fields, tables, window, index_, reach_end_>>

Ended == {"exit", "abort", "segv", "done"}

ReaderInit ==
  /\ file \in TraceFiles
  /\ line_num_ = 0 /\ stage = "title" /\ fields = <<>>
  /\ node_table_ = {} /\ node_order_vector_ = <<>>
  /\ edge_table_ = {} /\ edge_order_vector_ = <<>>
  /\ buffer_ = [i \in 0 .. buffer_size - 1 |-> 0]
  /\ buffer_begin_ = 0 /\ buffer_end_ = 0 /\ reach_eof_ = FALSE
  /\ index_ = 0 /\ reach_end_ = FALSE

----------------------------------------------------------------------------
(* Verdicts: "ok", "exit" (a message and exit(-1)), "abort" (an exception   *)
(* nobody catches).  A line is judged by the first verdict that is not ok.  *)

Verdict(ok) == IF ok THEN "ok" ELSE "exit"
stoull(word) == Verdict(word \in DOMAIN Number)
stoi(word) == IF word \in Huge THEN "abort" ELSE stoull(word)

FirstBad(verdicts) ==
  LET bad == {i \in DOMAIN verdicts : verdicts[i] # "ok"}
  IN IF bad = {} THEN "ok" ELSE verdicts[CHOOSE i \in bad : \A j \in bad : i <= j]

(* What an unsigned variable of so many values gets: std::stoi's int is     *)
(* stored in a uint32_t, and stoull reads a negative numeral too.           *)
Unsigned(word, span) == Number[word] % span
Index(word) == Unsigned(word, IdSpan)

Field(words, i, span) == IF i <= Len(words) THEN Unsigned(words[i], span) ELSE 0
Physical(word) == IF word = "-" THEN "ok" ELSE stoull(word)

isValidNodeIndex_(id) == id \in DOMAIN node_order_vector_
isValidEdgeIndex_(id) == id \in DOMAIN edge_order_vector_

\* Mutant: the index of a node is not looked up.
NodeUnchecked(word) == stoi(word)

NodeIndex(word) ==
  IF stoi(word) = "ok" THEN Verdict(isValidNodeIndex_(Index(word))) ELSE stoi(word)

(* Key and value of every optional field: a key at the end of a line is its *)
(* own value, since the extraction that fails leaves token as it was.       *)
Options(words, fixed) ==
  LET n == IF Len(words) > fixed THEN Len(words) - fixed ELSE 0
  IN [i \in 1 .. (n + 1) \div 2 |->
        [key   |-> words[fixed + 2 * i - 1],
         value |-> words[IF 2 * i <= n THEN fixed + 2 * i ELSE fixed + 2 * i - 1]]]

----------------------------------------------------------------------------
(* Node records: id, virtual address, physical address, opcode, size. *)

parseNodeRecordFixedFields_(words) ==
  [i \in 1 .. (IF Len(words) < 5 THEN Len(words) ELSE 5) |->
     CASE i \in {1, 5} -> stoi(words[i])
       [] i \in {2, 4} -> stoull(words[i])
       [] i = 3 -> Physical(words[i])]

parseNodeRecordOptionalFields_(words) ==
  LET o == Options(words, 5)
  IN [i \in DOMAIN o |->
        CASE o[i].key = "class:" -> Verdict(IsBrClass(o[i].value))
          [] o[i].key = "behavior:" -> Verdict(IsBrBehavior(o[i].value))
          [] o[i].key \in {"taken_cnt:", "not_taken_cnt:", "tgt_cnt:"} -> stoull(o[i].value)
          [] OTHER -> "ok"]

(* The words of a mnemonic end with the first one that closes a quote; the  *)
(* search for the next mnemonic goes on behind it.                          *)
parseNodeMnemonicsFromComments_(comment) ==
  LET n == Len(comment)
      Close(i) == LET ends == {j \in (i + 2) .. n : comment[j] \in Closes}
                  IN IF ends = {} THEN n ELSE CHOOSE j \in ends : \A k \in ends : j <= k
      scan[i \in 1 .. n + 1] ==
        IF i > n THEN TRUE
        ELSE IF comment[i] # "mnemonic:" THEN scan[i + 1]
        ELSE i < n /\ comment[i + 1] \in Opens /\ scan[Close(i) + 1]
  IN Verdict(scan[1])

NodeClass(words) ==
  LET classes == SelectSeq(Options(words, 5), LAMBDA o : o.key = "class:")
  IN FoldSeq(LAMBDA o, c : parseBrClass(c, o.value), UnknownClass, classes)

NodeRecord(words) ==
  [id |-> Field(words, 1, IdSpan), br_virtual_addr |-> Field(words, 2, AddrSpan),
   opcode_size |-> Field(words, 5, AddrSpan), br_class |-> NodeClass(words)]

(* The key of node_table_: the dummy source node has the last address but one. *)
node_hash_key(node) == IF node.id = 0 THEN AddrSpan - 2 ELSE node.br_virtual_addr

updateNodeTable_(node) ==
  Verdict(\A m \in node_table_ : node_hash_key(m) # node_hash_key(node))

NodeVerdict(words, comment) ==
  FirstBad(parseNodeRecordFixedFields_(words) \o parseNodeRecordOptionalFields_(words)
           \o <<parseNodeMnemonicsFromComments_(comment)>>)

(* Several records of one id: the order of the hash table decides. *)
OrderVectors(table) ==
  LET ids == {r.id : r \in table}
  IN {v \in [ids -> table] : \A i \in ids : v[i].id = i}

(* resize(++max_id), which may find no memory.  The successor of the last   *)
(* id is 0: the vector, which never had an element, stays empty, and the    *)
(* record of that id is written 8 * (2^32 - 1) bytes behind a null pointer. *)
OrderVerdicts(table) ==
  IF \E r \in table : r.id = IdSpan - 1 THEN {"segv"} ELSE {"ok", "abort"}

updateNodeOrderVector_(next) ==
  \E v \in OrderVerdicts(node_table_) :
    /\ stage' = IF v = "ok" THEN next ELSE v
    /\ IF v = "ok" THEN node_order_vector_' \in OrderVectors(node_table_)
       ELSE UNCHANGED node_order_vector_

----------------------------------------------------------------------------
(* Edge records: id, source, destination, T or N, target, physical target,  *)
(* instruction count.                                                       *)

parseEdgeRecordFixedFields_(words) ==
  [i \in 1 .. (IF Len(words) < 7 THEN Len(words) ELSE 7) |->
     CASE i = 1 -> stoi(words[i])
       [] i \in {2, 3} -> NodeIndex(words[i])
       [] i = 4 -> Verdict(words[i] \in {"T", "N"})
       [] i \in {5, 7} -> stoull(words[i])
       [] i = 6 -> Physical(words[i])]

parseEdgeRecordOptionalFields_(words) ==
  LET o == Options(words, 7)
  IN [i \in DOMAIN o |-> IF o[i].key = "traverse_cnt:" THEN stoull(o[i].value) ELSE "ok"]

EdgeRecord(words) ==
  [id |-> Field(words, 1, IdSpan), src_node_id |-> Field(words, 2, IdSpan),
   dest_node_id |-> Field(words, 3, IdSpan),
   is_taken_path |-> Len(words) >= 4 /\ words[4] = "T",
   br_virtual_tgt |-> Field(words, 5, AddrSpan)]

(* Source address and target: 0 for a path not taken, the last address for  *)
(* the way to a node of size 0.                                             *)
edge_hash_key(edge) ==
  LET src  == node_order_vector_[edge.src_node_id]
      dest == node_order_vector_[edge.dest_node_id]
  IN [src  |-> src.br_virtual_addr,
      dest |-> IF dest.opcode_size = 0 THEN AddrSpan - 1
               ELSE IF edge.is_taken_path THEN edge.br_virtual_tgt ELSE 0]

(* A line with fewer than three fields names node 0 without the check that *)
(* there is one.                                                            *)
updateEdgeTable_(edge) ==
  IF ~isValidNodeIndex_(edge.src_node_id) \/ ~isValidNodeIndex_(edge.dest_node_id)
  THEN "segv"
  ELSE Verdict(\A e \in edge_table_ : edge_hash_key(e) # edge_hash_key(edge))

EdgeVerdict(words) ==
  FirstBad(parseEdgeRecordFixedFields_(words) \o parseEdgeRecordOptionalFields_(words))

updateEdgeOrderVector_(next) ==
  \E v \in OrderVerdicts(edge_table_) :
    /\ stage' = IF v = "ok" THEN next ELSE v
    /\ IF v = "ok" THEN edge_order_vector_' \in OrderVectors(edge_table_)
       ELSE UNCHANGED edge_order_vector_

----------------------------------------------------------------------------
(* Construction of the reader, one line per step. *)

AtEnd == line_num_ = Len(file)
Line == file[line_num_ + 1]
NextLine == ~AtEnd /\ line_num_' = line_num_ + 1
Words == Tail(Line.words)
End(verdict) == stage' = IF verdict = "ok" THEN stage ELSE verdict

ReadTitle ==
  /\ stage = "title"
  /\ line_num_' = IF AtEnd THEN line_num_ ELSE line_num_ + 1
  /\ stage' = IF ~AtEnd /\ Line.words # <<>> /\ Line.words[1] = "BT9_SPA_TRACE_FORMAT"
              THEN "header" ELSE "exit"
  /\ UNCHANGED <<file, fields, tables, window, index_, reach_end_>>

(* The value is the line without as many characters as the key has: behind *)
(* blanks, the end of the key is taken for the value.                      *)
parseHeader_(key, words, indented) ==
  CASE key \in {"bt9_minor_version:", "has_physical_address:"} ->
         /\ End(stoull(IF words = <<>> THEN key ELSE words[1])) /\ UNCHANGED fields
    [] key \in {"md5_checksum:", "conversion_date:", "original_stf_input_file:"} ->
         UNCHANGED <<stage, fields>>
    [] OTHER ->
         /\ fields' = [k \in DOMAIN fields \cup {key} |->
              IF k # key THEN fields[k]
              ELSE IF indented \/ words = <<>> THEN "" ELSE words[1]]
         /\ UNCHANGED stage

readBT9Header_ ==
  /\ stage = "header"
  /\ \/ NextLine /\ Line.words = <<>> /\ UNCHANGED <<stage, fields>>
     \/ NextLine /\ Line.words # <<>> /\ Line.words[1] = "BT9_NODES"
        /\ stage' = "nodes" /\ UNCHANGED fields
     \/ NextLine /\ Line.words # <<>> /\ Line.words[1] # "BT9_NODES"
        /\ parseHeader_(Line.words[1], Words, Line.indented)
     \/ AtEnd /\ stage' = "exit" /\ UNCHANGED <<line_num_, fields>>
  /\ UNCHANGED <<file, tables, window, index_, reach_end_>>

ReadNode ==
  LET verdict == NodeVerdict(Words, Line.comment)
      node    == NodeRecord(Words)
      v       == IF verdict = "ok" THEN updateNodeTable_(node) ELSE verdict
  IN End(v) /\ node_table_' = IF v = "ok" THEN node_table_ \cup {node} ELSE node_table_

readBT9NodeTable_ ==
  /\ stage = "nodes"
  /\ \/ NextLine /\ Line.words = <<>> /\ UNCHANGED <<stage, node_table_, node_order_vector_>>
     \/ NextLine /\ Line.words # <<>> /\ Line.words[1] = "BT9_EDGES"
        /\ updateNodeOrderVector_("edges") /\ UNCHANGED node_table_
     \/ NextLine /\ Line.words # <<>> /\ Line.words[1] = "NODE"
        /\ ReadNode /\ UNCHANGED node_order_vector_
     \/ NextLine /\ Line.words # <<>> /\ Line.words[1] \notin {"NODE", "BT9_EDGES"}
        /\ stage' = "exit" /\ UNCHANGED <<node_table_, node_order_vector_>>
     \/ AtEnd /\ updateNodeOrderVector_("exit") /\ UNCHANGED <<line_num_, node_table_>>
  /\ UNCHANGED <<file, fields, edge_table_, edge_order_vector_, window, index_, reach_end_>>

ReadEdge ==
  LET verdict == EdgeVerdict(Words)
      edge    == EdgeRecord(Words)
      v       == IF verdict = "ok" THEN updateEdgeTable_(edge) ELSE verdict
  IN End(v) /\ edge_table_' = IF v = "ok" THEN edge_table_ \cup {edge} ELSE edge_table_

readBT9EdgeTable_ ==
  /\ stage = "edges"
  /\ \/ NextLine /\ Line.words = <<>> /\ UNCHANGED <<stage, edge_table_, edge_order_vector_>>
     \/ NextLine /\ Line.words # <<>> /\ Line.words[1] = "BT9_EDGE_SEQUENCE"
        /\ updateEdgeOrderVector_("fill") /\ UNCHANGED edge_table_
     \/ NextLine /\ Line.words # <<>> /\ Line.words[1] = "EDGE"
        /\ ReadEdge /\ UNCHANGED edge_order_vector_
     \/ NextLine /\ Line.words # <<>> /\ Line.words[1] \notin {"EDGE", "BT9_EDGE_SEQUENCE"}
        /\ stage' = "exit" /\ UNCHANGED <<edge_table_, edge_order_vector_>>
     \/ AtEnd /\ updateEdgeOrderVector_("exit") /\ UNCHANGED <<line_num_, edge_table_>>
  /\ UNCHANGED <<file, fields, node_table_, node_order_vector_, window, index_, reach_end_>>

----------------------------------------------------------------------------
(* The access window on the edge sequence. *)

(* The loop that fills the window, when the reader is made and after every  *)
(* shift: a line per step, until the window is full or the sequence ends.   *)
WindowFull == buffer_end_ >= buffer_begin_ + buffer_size
Filled == IF buffer_begin_ = 0 THEN "start" ELSE "loop"

EntryVerdict(word) ==
  IF stoi(word) = "ok" THEN Verdict(isValidEdgeIndex_(Index(word))) ELSE stoi(word)

StoreEntry(word) ==
  IF EntryVerdict(word) = "ok"
  THEN /\ buffer_' = [buffer_ EXCEPT ![buffer_end_ % buffer_size] = Index(word)]
       /\ buffer_end_' = buffer_end_ + 1 /\ UNCHANGED stage
  ELSE stage' = EntryVerdict(word) /\ UNCHANGED <<buffer_, buffer_end_>>

EndSequence == reach_eof_' = TRUE /\ stage' = Filled /\ UNCHANGED <<buffer_, buffer_end_>>

readNextEdgeSequenceListEntry_ ==
  /\ stage = "fill" /\ ~WindowFull
  /\ \/ AtEnd /\ EndSequence /\ UNCHANGED line_num_
     \/ NextLine /\ Line.words = <<>> /\ UNCHANGED <<stage, buffer_, buffer_end_, reach_eof_>>
     \/ NextLine /\ Line.words # <<>> /\ Line.words[1] = "EOF" /\ EndSequence
     \/ NextLine /\ Line.words # <<>> /\ Line.words[1] # "EOF"
        /\ StoreEntry(Line.words[1]) /\ UNCHANGED reach_eof_
  /\ UNCHANGED <<file, fields, tables, buffer_begin_, index_, reach_end_>>

initBT9EdgeSeqListAccessWindow_ ==
  /\ stage = "fill" /\ WindowFull
  /\ stage' = Filled
  /\ UNCHANGED <<file, line_num_, fields, tables, window, index_, reach_end_>>

shiftBT9EdgeSeqListAccessWindow_ ==
  /\ buffer_begin_' = buffer_begin_ + buffer_size \div 2
  /\ stage' = "fill" /\ UNCHANGED <<buffer_, buffer_end_, reach_eof_>>

\* Mutant: the window is shifted one entry too late.
MoveLate ==
  /\ index_' = index_ + 1
  /\ IF index_ >= buffer_end_ /\ ~reach_eof_
     THEN shiftBT9EdgeSeqListAccessWindow_ /\ UNCHANGED reach_end_
     ELSE /\ reach_end_' = (index_ + 1 >= buffer_end_ /\ reach_eof_)
          /\ stage' = "loop" /\ UNCHANGED window

(* operator++ of the iterator.  The entry moved to is taken to exist when  *)
(* the window had to be shifted, whatever the shift finds.                  *)
moveToNextEdgeSeqListEntry_ ==
  /\ index_' = index_ + 1
  /\ IF index_ + 1 >= buffer_end_ /\ ~reach_eof_
     THEN shiftBT9EdgeSeqListAccessWindow_ /\ UNCHANGED reach_end_
     ELSE /\ reach_end_' = (index_ + 1 >= buffer_end_)
          /\ stage' = "loop" /\ UNCHANGED window

(* edgeSeqListAccessIndexBoundChecking_ throws out_of_range. *)
OutOfRange == index_ < buffer_begin_ \/ (reach_eof_ /\ index_ >= buffer_end_)

getEdgeSeqListEntry_ == buffer_[index_ % buffer_size]

(* The branch instance of an edge. *)
Instance(edge_id) ==
  LET edge == edge_order_vector_[edge_id]
  IN [edge |-> edge, src |-> node_order_vector_[edge.src_node_id],
      dest |-> node_order_vector_[edge.dest_node_id]]

loadBT9BranchInstance_ == Instance(getEdgeSeqListEntry_)
=============================================================================
