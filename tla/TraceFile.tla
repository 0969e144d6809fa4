------------------------------- MODULE TraceFile -------------------------------
(***************************************************************************)
(* Branch records by way of a file:                                        *)
(*   writer     HELPER(printer) of Src_qemu_tofile/helper-a64.c, which     *)
(*              fills a static buffer and appends it to the trace when it  *)
(*              is full; QEMU is switched off and started again at will;   *)
(*   predictor  the loop of predictor.c (and of branch.c), one record per  *)
(*              acquire, until the end of the file or enough of them.      *)
(*   dump       the loop of read.c, one buffer per fread, a fixed number   *)
(*              of times.                                                  *)
(* They are processes of their own and may overlap.  A buffer is smaller   *)
(* than stdio's, so fclose appends it with one write.                      *)
(***************************************************************************)
EXTENDS Integers, Sequences, SequencesExt

CONSTANTS
    Records,       (* the (pc, addr, T_NT) triples a branch can produce     *)
    BufferRecords, (* BUFFER_SIZE / 3                                       *)
    Instructions,  (* argv[1] of the predictor                              *)
    Itera,         (* ITERA: buffers the dump prints                        *)
    Garbage,       (* what its buffer holds before anything is read         *)
    MaxExecuted,   (* bound: branches executed in all                       *)
    MaxSessions    (* bound: times QEMU is started                          *)

ASSUME TraceAssumption ==
    /\ BufferRecords \in Nat \ {0} /\ Instructions \in Nat
    /\ Itera \in Nat /\ Garbage \notin Seq(Records)
    /\ MaxExecuted \in Nat /\ MaxSessions \in Nat

VARIABLES
    buff,         (* the helper's static buffer, up to added_length         *)
    file,         (* the records in the trace file                          *)
    running,      (* QEMU is up                                             *)
    executed,     (* history: for each session, the branches it executed    *)
    start,        (* history: for each session, the records in the file     *)
                  (* when it began                                          *)
    analysed,     (* history: what the predictor has had, in order          *)
    predicting,   (* the predictor is not through with its loop              *)
    fpPredictor,  (* its stream: "closed" before it is started, "open", or   *)
                  (* "crashed" by the use of a null stream                   *)
    buffer_read,  (* the dump's buffer                                      *)
    fpDump,       (* the dump's stream                                      *)
    pos,          (* records of the trace the dump has read                 *)
    leggi         (* the buffers the dump has printed, each with pos        *)

predictor == <<analysed, predicting, fpPredictor>>
dump      == <<buffer_read, pos, leggi, fpDump>>
readers   == <<predictor, dump>>
sessions  == <<executed, start>>
vars      == <<buff, file, running, sessions, readers>>

Init ==
    /\ buff = <<>> /\ file = <<>> /\ running = FALSE
    /\ executed = <<>> /\ start = <<>>
    /\ analysed = <<>> /\ predicting = TRUE /\ fpPredictor = "closed" /\ fpDump = "closed"
    /\ buffer_read = Garbage /\ pos = 0 /\ leggi = <<>>

-----------------------------------------------------------------------------
(* The writer. *)

StartQemu ==
    /\ ~running /\ Len(executed) < MaxSessions
    /\ running' = TRUE /\ buff' = <<>>
    /\ executed' = Append(executed, <<>>) /\ start' = Append(start, Len(file))
    /\ UNCHANGED <<file, readers>>

Execute(r) ==
    /\ running /\ Len(FlattenSeq(executed)) < MaxExecuted
    /\ executed' = [executed EXCEPT ![Len(executed)] = Append(@, r)]
    /\ UNCHANGED start

(* Faulty: added_length is not set back to 0 after the flush. *)
FlushKeepsBuffer(r) ==
    /\ Execute(r) /\ buff' = Append(buff, r)
    /\ file' = IF Len(buff) < BufferRecords - 1 THEN file ELSE file \o Append(buff, r)
    /\ UNCHANGED <<running, readers>>

Printer(r) ==
    /\ Execute(r)
    /\ IF Len(buff) < BufferRecords - 1
       THEN buff' = Append(buff, r) /\ UNCHANGED file
       ELSE buff' = <<>> /\ file' = file \o Append(buff, r)
    /\ UNCHANGED <<running, readers>>

(* fopen fails on a full buffer: fwrite is then called with a null stream,    *)
(* and QEMU dies with what it had buffered.                                   *)
OpenFails(r) ==
    /\ Execute(r) /\ Len(buff) >= BufferRecords - 1
    /\ running' = FALSE /\ buff' = <<>>
    /\ UNCHANGED <<file, readers>>

(* poweroff or a kill: nothing flushes the static buffer. *)
StopQemu ==
    /\ running /\ running' = FALSE /\ buff' = <<>>
    /\ UNCHANGED <<file, sessions, readers>>

-----------------------------------------------------------------------------
(* The predictor. *)

(* A reader opens the trace, which the writer's first flush creates; in the    *)
(* midst of that flush it is still empty.  Nobody looks at the result: without *)
(* a trace the first fread is given a null stream.                             *)
Opened(fp, opened) ==
    /\ fp = "closed"
    /\ \/ (file # <<>> \/ running) /\ opened = "open"
       \/ file = <<>> /\ opened = "crashed"

OpenPredictor ==
    /\ Opened(fpPredictor, fpPredictor')
    /\ UNCHANGED <<buff, file, running, sessions, analysed, predicting, dump>>

(* acquire succeeds and fewer than argv[1] records have been analysed. *)
Analyse ==
    /\ fpPredictor = "open"
    /\ predicting /\ Len(analysed) < Len(file) /\ Len(analysed) < Instructions
    /\ analysed' = Append(analysed, file[Len(analysed) + 1])
    /\ UNCHANGED <<buff, file, running, sessions, predicting, fpPredictor, dump>>

(* End of the file as it is now, or enough: whatever QEMU appends later, this *)
(* run of the predictor is over.                                              *)
StopPredictor ==
    /\ fpPredictor = "open"
    /\ predicting /\ (Len(analysed) = Len(file) \/ Len(analysed) >= Instructions)
    /\ predicting' = FALSE
    /\ UNCHANGED <<buff, file, running, sessions, analysed, fpPredictor, dump>>

-----------------------------------------------------------------------------
(* The dump. *)

OpenDump ==
    /\ Opened(fpDump, fpDump')
    /\ UNCHANGED <<buff, file, running, sessions, predictor, buffer_read, pos, leggi>>

(* Faulty: the buffer of the dump is one record short of the writer's. *)
DumpShort ==
    /\ fpDump = "open" /\ Len(leggi) < Itera
    /\ LET n == BufferRecords - 1
       IN  IF pos + n <= Len(file)
           THEN buffer_read' = SubSeq(file, pos + 1, pos + n) /\ pos' = pos + n
           ELSE UNCHANGED <<buffer_read, pos>>
    /\ leggi' = Append(leggi, [read |-> pos', printed |-> buffer_read'])
    /\ UNCHANGED <<buff, file, running, sessions, predictor, fpDump>>

(* fread fills the buffer or, at the end of the file, leaves it as it was;    *)
(* nobody looks at its result, and the buffer is printed.                     *)
Dump ==
    /\ fpDump = "open" /\ Len(leggi) < Itera
    /\ IF pos + BufferRecords <= Len(file)
       THEN /\ buffer_read' = SubSeq(file, pos + 1, pos + BufferRecords)
            /\ pos' = pos + BufferRecords
       ELSE UNCHANGED <<buffer_read, pos>>
    /\ leggi' = Append(leggi, [read |-> pos', printed |-> buffer_read'])
    /\ UNCHANGED <<buff, file, running, sessions, predictor, fpDump>>

Next ==
    \/ StartQemu \/ StopQemu
    \/ \E r \in Records : Printer(r) \/ OpenFails(r)
    \/ OpenPredictor \/ Analyse \/ StopPredictor
    \/ OpenDump \/ Dump

Spec == Init /\ [][Next]_vars

-----------------------------------------------------------------------------
(* Properties. *)

(* So many records are a number of full buffers. *)
Whole(len) == \E n \in 0 .. len : len = n * BufferRecords

(* The records of the trace that session s wrote: from start[s] on, up to     *)
(* where the next session began.                                              *)
Kept(s) == (IF s = Len(start) THEN Len(file) ELSE start[s + 1]) - start[s]

(* After its first n records, f goes on with the first len of g. *)
Same(f, n, g, len) == \A k \in 1 .. len : f[n + k] = g[k]

(* The trace is what the sessions executed, in order, each cut off at a full   *)
(* buffer: a session loses less than one buffer at its end, or exactly the one *)
(* whose fopen failed, and nothing in between.                                 *)
SessionsFaithful ==
    /\ IF start = <<>> THEN file = <<>> ELSE start[1] = 0
    /\ \A s \in DOMAIN executed :
          /\ Whole(Kept(s)) /\ Len(executed[s]) - Kept(s) \in 0 .. BufferRecords
          /\ Same(file, start[s], executed[s], Kept(s))

(* What a predictor has had is the beginning of the trace, and it stops        *)
(* between two buffers or when it has its instructions: it never takes half a  *)
(* buffer, even while QEMU is appending and dying.                             *)
PredictorFaithful ==
    /\ IsPrefix(analysed, file) /\ Len(analysed) <= Instructions
    /\ ~predicting => Len(analysed) = Instructions \/ Whole(Len(analysed))

(* Through restarts, kills and failing fopens, the trace is what the sessions  *)
(* executed up to a buffer each, and a predictor that runs meanwhile gets its  *)
(* beginning.                                                                  *)
TraceFaithful == SessionsFaithful /\ PredictorFaithful

(* What the dump's buffer holds when it has read so many records. *)
LastRead(read) ==
    IF read = 0 THEN Garbage ELSE SubSeq(file, read - BufferRecords + 1, read)

(* The dump of read.c is the writer's buffers, whole, in order and none left   *)
(* out, whatever is appended meanwhile; but each may be printed any number of  *)
(* times, and before the first one comes what the stack held.                  *)
DumpStutters ==
    \A i \in DOMAIN leggi :
        /\ leggi[i].read - (IF i = 1 THEN 0 ELSE leggi[i - 1].read) \in {0, BufferRecords}
        /\ leggi[i].read <= Len(file) /\ leggi[i].printed = LastRead(leggi[i].read)

-----------------------------------------------------------------------------
(* The inductive invariant behind both. *)

Page == [read : Nat, printed : Seq(Records) \cup {Garbage}]

TypeOK ==
    /\ buff \in Seq(Records) /\ file \in Seq(Records) /\ running \in BOOLEAN
    /\ executed \in Seq(Seq(Records)) /\ start \in Seq(Nat)
    /\ Len(start) = Len(executed)
    /\ analysed \in Seq(Records) /\ predicting \in BOOLEAN
    /\ pos \in Nat
    /\ leggi \in Seq(Page)

(* The running session's branches are the ones it wrote and then the buffer. *)
Buffered ==
    running =>
        LET s == Len(executed)
        IN  /\ s > 0 /\ Len(buff) < BufferRecords
            /\ Len(executed[s]) = Kept(s) + Len(buff)
            /\ Same(executed[s], Kept(s), buff, Len(buff))

(* The trace ends with a full buffer, and grows from session to session. *)
FileWhole == Whole(Len(file)) /\ \A s \in DOMAIN start : start[s] <= Len(file)

(* Where the dump is. *)
DumpPosition ==
    /\ \A read \in {pos} \cup {leggi[i].read : i \in DOMAIN leggi} :
          read = 0 \/ read >= BufferRecords
    /\ pos <= Len(file) /\ buffer_read = LastRead(pos)
    /\ IF leggi = <<>> THEN pos = 0 ELSE leggi[Len(leggi)].read = pos

TraceInv ==
    /\ TypeOK /\ TraceFaithful /\ Buffered /\ FileWhole
    /\ DumpStutters /\ DumpPosition

=============================================================================
