----------------------------- MODULE MCCbpEval -----------------------------
(* Trace files for CbpEval: a small graph with every edge sequence of up to *)
(* MaxSequence entries, and one sequence with every small damage to the     *)
(* lines of the file.                                                       *)
EXTENDS CbpEval, Gshare

CONSTANT MaxSequence

L(words) == [words |-> words, indented |-> FALSE, comment |-> <<>>]
C(words, comment) == [words |-> words, indented |-> FALSE, comment |-> comment]

Numerals == [w \in {"-1", "-2", "0", "1", "2", "3", "4", "9", "0x5", "0x80000000"} |->
  CASE w = "0" -> 0 [] w = "1" -> 1 [] w = "2" -> 2 [] w = "3" -> 3 [] w = "4" -> 4
    [] w = "-1" -> -1 [] w = "-2" -> -2
    [] w = "9" -> 9 [] w = "0x5" -> 5 [] w = "0x80000000" -> 8]

Compounds == [w \in {"JMP+DIR+CND", "CALL+DIR+UCD", "RET+UCD", "N/A+N/A+N/A", "DYN+DIR",
                     "CALL+N/A+CND", "JMP+BAD"} |->
  CASE w = "JMP+DIR+CND" -> <<"JMP", "DIR", "CND">>
    [] w = "CALL+DIR+UCD" -> <<"CALL", "DIR", "UCD">>
    [] w = "RET+UCD" -> <<"RET", "UCD">>
    [] w = "N/A+N/A+N/A" -> <<"N/A", "N/A", "N/A">>
    [] w = "DYN+DIR" -> <<"DYN", "DIR">>
    [] w = "CALL+N/A+CND" -> <<"CALL", "N/A", "CND">>
    [] w = "JMP+BAD" -> <<"JMP", "BAD">>]

Graph == <<
  L(<<"BT9_SPA_TRACE_FORMAT">>),
  L(<<"bt9_minor_version:", "0">>),
  L(<<"md5_checksum:", "x">>),
  L(<<"total_instruction_count:", "9">>),
  L(<<"branch_instruction_count:", "4">>),
  L(<<"BT9_NODES">>),
  L(<<"NODE", "0", "0", "-", "0", "0", "class:", "N/A+N/A+N/A">>),
  C(<<"NODE", "1", "1", "2", "0x5", "4", "class:", "JMP+DIR+CND", "behavior:", "DYN+DIR",
      "taken_cnt:", "2">>, <<"mnemonic:", "\"b.eq", "x\"">>),
  L(<<"NODE", "2", "3", "-", "0x5", "4", "class:", "CALL+DIR+UCD">>),
  L(<<"NODE", "3", "4", "-", "0x5", "4", "class:", "RET+UCD">>),
  C(<<>>, <<"comment">>),
  L(<<"BT9_EDGES">>),
  L(<<"EDGE", "0", "0", "1", "T", "1", "-", "0">>),
  L(<<"EDGE", "1", "1", "1", "T", "1", "2", "4", "traverse_cnt:", "2">>),
  L(<<"EDGE", "2", "1", "2", "N", "2", "-", "0">>),
  L(<<"EDGE", "3", "2", "3", "T", "4", "-", "0", "other:", "x">>),
  L(<<"EDGE", "4", "3", "1", "T", "1", "-", "0">>),
  L(<<"BT9_EDGE_SEQUENCE">>)>>

Whole(entries) == Graph \o [i \in DOMAIN entries |-> L(<<entries[i]>>)] \o <<L(<<"EOF">>)>>

Base == Whole(<<"0", "1", "1", "2", "3", "4", "1">>)

Sequences == UNION {[1 .. n -> {"1", "2"}] : n \in 0 .. MaxSequence}

Spoilt ==
  {[Base EXCEPT ![i].words[j] = w] : i \in {1, 2, 4, 5, 21}, j \in {1}, w \in {"bad", "0x80000000"}}
  \cup UNION {{[Base EXCEPT ![i].words[j] = w] : j \in DOMAIN Base[i].words,
                 w \in {"bad", "0x80000000", "0", "2", "-1", "-2", "CALL+N/A+CND", "JMP+BAD"}} :
                 i \in DOMAIN Base \ {1}}
(* One id written as a negative numeral wherever it stands. *)
Renamed ==
  {[i \in DOMAIN Base |-> [Base[i] EXCEPT !.words =
      [j \in DOMAIN @ |-> IF @[j] = name THEN w ELSE @[j]]]] :
    name \in {"0", "1", "2", "3", "4"}, w \in {"-1", "-2"}}
Dropped == {RemoveAt(Base, i) : i \in DOMAIN Base}
Twice == {InsertAt(Base, i, Base[i]) : i \in DOMAIN Base}
CutShort == {SubSeq(Base, 1, i) : i \in 0 .. Len(Base)}
ShortLines == UNION {{[Base EXCEPT ![i].words = SubSeq(@, 1, n)] : n \in 0 .. Len(Base[i].words)} :
                       i \in DOMAIN Base}
Indented == {[Base EXCEPT ![i].indented = TRUE] : i \in DOMAIN Base}
Comments == {[Base EXCEPT ![8].comment = c] : c \in
  {<<"mnemonic:", "\"ret\"">>, <<"mnemonic:">>, <<"mnemonic:", "ret">>, <<"x", "mnemonic:", "\"b">>,
   <<"mnemonic:", "\"b", "x\"", "mnemonic:", "ret">>}}

(* Short edge lines in a trace without the dummy source node, 0, and without *)
(* the edge that names it.                                                   *)
Sourceless == {RemoveAt(f, 7) : f \in ShortLines} \cup {RemoveAt(RemoveAt(f, 13), 7) : f \in ShortLines}

Files ==
  {Whole(s) : s \in Sequences} \cup Spoilt \cup Dropped \cup Twice \cup CutShort
  \cup ShortLines \cup Indented \cup Comments \cup Sourceless \cup Renamed

HugeNumerals == {"0x80000000"}
Quotes == {"\"b.eq", "\"ret\"", "\"b"}
Unquotes == {"x\"", "\"ret\""}
Beats == {2, 4}
=============================================================================
