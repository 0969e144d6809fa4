------------------------------ MODULE ShmTransfer ------------------------------
(***************************************************************************)
(* The double-buffered shared-memory channel between QEMU and the branch   *)
(* predictor:                                                              *)
(*   client  HELPER(printer) of qemu_src_shm/helper-a64.c, called once per *)
(*           executed branch by QEMU's single TCG thread;                  *)
(*   server  main of src_predictor_shm/server.c, which analyses DesiredIstr *)
(*           records and stops.                                            *)
(* One action per system call or per run of statements that touches shared *)
(* state; the program counters cpc and spc name the next one.              *)
(*                                                                         *)
(* The semaphore names are fresh for the session (the README asks for new  *)
(* names on every launch), so each sem_open(O_CREAT | O_EXCL) creates its  *)
(* semaphore.  The shared-memory object keeps its name, so it may be left  *)
(* over from an earlier session with arbitrary flags in it.                *)
(***************************************************************************)
EXTENDS Integers, Sequences

CONSTANTS
    NDATA,        (* cells per sector                                      *)
    DesiredIstr,  (* number of records the server is asked to analyse      *)
    Records,      (* the (pc, tAddr, t_nt) triples a branch can produce    *)
    NoRecord,     (* what a cell holds before this session writes it       *)
    ServerFirst   (* TRUE: the guest is started once the server is set up  *)

ASSUME TransferAssumption ==
    /\ NDATA \in Nat \ {0}
    /\ DesiredIstr \in Nat
    /\ NoRecord \notin Records
    /\ ServerFirst \in BOOLEAN

VARIABLES
    shmExists,    (* the object SHM_NAME exists                            *)
    shm,          (* the two sectors shm_s0 and shm_s1                     *)
    status,       (* 0 empty, 1 only s0 full, 2 only s1 full, 3 full       *)
    nextToRead,   (* sector the server reads next                          *)
    nextToWrite,  (* sector the client fills                               *)
    statusMutex, clientWrote, serverRead,   (* semaphore values, or NoSem  *)
    cpc, firstTime, cnt, rec,               (* the client and its statics  *)
    cSwitch,      (* status as the client's switch statement read it       *)
    spc, i,                                 (* the server                  *)
    sSwitch,      (* status as the server's switch statement read it       *)
    sent,         (* history: records stored in a sector, in order         *)
    analysed,     (* history: records given to the predictor, in order     *)
    lost          (* history: helper calls that returned without storing   *)

memory  == <<shmExists, shm, status, nextToRead, nextToWrite>>
sems    == <<statusMutex, clientWrote, serverRead>>
cLocal  == <<firstTime, cnt, rec, cSwitch>>
sLocal  == <<i, sSwitch>>
client  == <<cpc, cLocal>>
server  == <<spc, sLocal>>
history == <<sent, analysed, lost>>
vars    == <<memory, sems, client, server, history>>

Sector == {0, 1}
Cell   == 0 .. NDATA - 1
NoSem  == -1
iCount == Len(analysed)

SetupPcs  == {"shm", "reset", "semMutex", "semWrote", "semRead"}
ServerPcs == SetupPcs \cup
             {"loop", "readStatus", "awaitWrote", "scan", "switch", "release",
              "postRead", "unlock", "done", "exited", "badStatus"}
ClientPcs == {"guest", "open", "awaitServer", "attach", "call", "readStatus",
              "write", "awaitRead", "lock", "switch", "publish", "postWrote",
              "unlock", "exited", "badStatus"}

Init ==
    /\ shmExists \in BOOLEAN
    /\ shm = [s \in Sector |-> [c \in Cell |-> NoRecord]]
    /\ status \in 0 .. 3 /\ nextToRead \in Sector /\ nextToWrite \in Sector
    /\ statusMutex = NoSem /\ clientWrote = NoSem /\ serverRead = NoSem
    /\ cpc = "guest" /\ firstTime = 1 /\ cnt = 0 /\ rec = NoRecord
    /\ spc = "shm" /\ i = 0 /\ cSwitch = 0 /\ sSwitch = 0
    /\ sent = <<>> /\ analysed = <<>> /\ lost = 0

-----------------------------------------------------------------------------
(* Server set-up: shared memory first, then the flags, then the semaphores, *)
(* with serverRead last.                                                    *)

CreateShm ==
    /\ spc = "shm" /\ spc' = "reset"
    /\ shmExists' = TRUE
    /\ UNCHANGED <<shm, status, nextToRead, nextToWrite, sems, client, sLocal, history>>

(* Faulty: status is reset, the sector indices keep their old values. *)
ResetStatusOnly ==
    /\ spc = "reset" /\ spc' = "semMutex"
    /\ status' = 0
    /\ UNCHANGED <<shmExists, shm, nextToRead, nextToWrite, sems, client, sLocal, history>>

ResetFlags ==
    /\ spc = "reset" /\ spc' = "semMutex"
    /\ status' = 0 /\ nextToRead' = 0 /\ nextToWrite' = 0
    /\ UNCHANGED <<shmExists, shm, sems, client, sLocal, history>>

CreateStatusMutex ==
    /\ spc = "semMutex" /\ spc' = "semWrote"
    /\ statusMutex' = 1
    /\ UNCHANGED <<memory, clientWrote, serverRead, client, sLocal, history>>

CreateClientWrote ==
    /\ spc = "semWrote" /\ spc' = "semRead"
    /\ clientWrote' = 0
    /\ UNCHANGED <<memory, statusMutex, serverRead, client, sLocal, history>>

CreateServerRead ==
    /\ spc = "semRead" /\ spc' = "loop"
    /\ serverRead' = 1
    /\ UNCHANGED <<memory, statusMutex, clientWrote, client, sLocal, history>>

(* Any of the set-up calls may fail; the server then exits. *)
SetupFails ==
    /\ spc \in SetupPcs /\ spc' = "exited"
    /\ UNCHANGED <<memory, sems, client, sLocal, history>>

Setup == \/ CreateShm \/ ResetFlags \/ CreateStatusMutex \/ CreateClientWrote
         \/ CreateServerRead

-----------------------------------------------------------------------------
(* The server's loop. *)

ServerLock ==
    /\ spc = "loop" /\ iCount < DesiredIstr
    /\ statusMutex > 0 /\ statusMutex' = statusMutex - 1
    /\ spc' = "readStatus"
    /\ UNCHANGED <<memory, clientWrote, serverRead, client, sLocal, history>>

(* Faulty: the server reads a sector without looking at status. *)
ServerIgnoresEmpty ==
    /\ spc = "readStatus" /\ spc' = "scan"
    /\ statusMutex' = statusMutex + 1
    /\ i' = 0
    /\ UNCHANGED <<memory, clientWrote, serverRead, client, sSwitch, history>>

(* currStatus = status, sem_post, and the branch on currStatus. *)
ServerReadStatus ==
    /\ spc = "readStatus"
    /\ statusMutex' = statusMutex + 1
    /\ spc' = IF status = 0 THEN "awaitWrote" ELSE "scan"
    /\ i' = 0
    /\ UNCHANGED <<memory, clientWrote, serverRead, client, sSwitch, history>>

AwaitWrote ==
    /\ spc = "awaitWrote" /\ spc' = "loop"
    /\ clientWrote > 0 /\ clientWrote' = clientWrote - 1
    /\ UNCHANGED <<memory, statusMutex, serverRead, client, sLocal, history>>

(* One iteration of the for loop: predict and update with cell i. *)
AnalyseCell ==
    /\ spc = "scan" /\ i < NDATA /\ iCount < DesiredIstr
    /\ analysed' = Append(analysed, shm[nextToRead][i])
    /\ i' = i + 1
    /\ UNCHANGED <<memory, sems, client, spc, sSwitch, sent, lost>>

ServerRelock ==
    /\ spc = "scan" /\ ~(i < NDATA /\ iCount < DesiredIstr)
    /\ statusMutex > 0 /\ statusMutex' = statusMutex - 1
    /\ spc' = "switch"
    /\ UNCHANGED <<memory, clientWrote, serverRead, client, sLocal, history>>

(* The server's switch reads status; a value it does not list is the error  *)
(* exit, which keeps the mutex.                                             *)
ServerSwitch ==
    /\ spc = "switch" /\ sSwitch' = status
    /\ spc' = IF status \in {1, 2, 3} THEN "release" ELSE "badStatus"
    /\ UNCHANGED <<memory, sems, client, i, history>>

(* Faulty: a sector that is still full is forgotten. *)
AfterReadForgets(st, s) == 0

(* The status after sector s has been read when it was st before. *)
AfterRead(st, s) == IF st = 3 THEN (IF s = 0 THEN 2 ELSE 1) ELSE 0

(* The assignment the switch selects, and nextToRead ^= 1. *)
ReleaseSector ==
    /\ spc = "release" /\ spc' = "postRead"
    /\ status' = AfterRead(sSwitch, nextToRead)
    /\ nextToRead' = 1 - nextToRead
    /\ sSwitch' = 0
    /\ UNCHANGED <<shmExists, shm, nextToWrite, sems, client, i, history>>

(* Faulty: the post is missing. *)
NoPostServerRead ==
    /\ spc = "postRead" /\ spc' = "unlock"
    /\ UNCHANGED <<memory, sems, client, sLocal, history>>

PostServerRead ==
    /\ spc = "postRead" /\ spc' = "unlock"
    /\ serverRead' = serverRead + 1
    /\ UNCHANGED <<memory, statusMutex, clientWrote, client, sLocal, history>>

ServerUnlock ==
    /\ spc = "unlock" /\ spc' = "loop"
    /\ statusMutex' = statusMutex + 1
    /\ UNCHANGED <<memory, clientWrote, serverRead, client, sLocal, history>>

(* endTagePredictor and munmap; the semaphores and the memory stay behind. *)
ServerFinish ==
    /\ spc = "loop" /\ iCount >= DesiredIstr /\ spc' = "done"
    /\ UNCHANGED <<memory, sems, client, sLocal, history>>

ServerLoop ==
    \/ ServerLock \/ ServerReadStatus \/ AwaitWrote \/ AnalyseCell
    \/ ServerRelock \/ ServerSwitch \/ ReleaseSector \/ PostServerRead
    \/ ServerUnlock \/ ServerFinish

-----------------------------------------------------------------------------
(* The client: one call of HELPER(printer) per executed branch. *)

HelperCall(r) ==
    /\ cpc = "guest" /\ (ServerFirst => spc \notin SetupPcs)
    /\ rec' = r
    /\ cpc' = IF firstTime = 1 THEN "open" ELSE "call"
    /\ UNCHANGED <<memory, sems, firstTime, cnt, cSwitch, server, history>>

(* sem_open(SEM_SERVER_READ, 0, 0, 0) does not create: it fails, and QEMU   *)
(* exits, when the server has not created the semaphore.                    *)
OpenServerRead ==
    /\ cpc = "open"
    /\ firstTime' = 0
    /\ cpc' = IF serverRead = NoSem THEN "exited" ELSE "awaitServer"
    /\ UNCHANGED <<memory, sems, cnt, rec, cSwitch, server, history>>

AwaitServer ==
    /\ cpc = "awaitServer" /\ cpc' = "attach"
    /\ serverRead > 0 /\ serverRead' = serverRead - 1
    /\ UNCHANGED <<memory, statusMutex, clientWrote, cLocal, server, history>>

(* Map the memory, open the other semaphores and return: the record of this *)
(* call is not stored.  QEMU exits when one of these calls fails.           *)
Attach ==
    /\ cpc = "attach"
    /\ \/ /\ shmExists /\ clientWrote # NoSem /\ statusMutex # NoSem
          /\ cpc' = "guest" /\ lost' = lost + 1
       \/ cpc' = "exited" /\ UNCHANGED lost
    /\ UNCHANGED <<memory, sems, cLocal, server, sent, analysed>>

ClientLock ==
    /\ cpc = "call" /\ cpc' = "readStatus"
    /\ statusMutex > 0 /\ statusMutex' = statusMutex - 1
    /\ UNCHANGED <<memory, clientWrote, serverRead, cLocal, server, history>>

(* Faulty: the client writes even when both sectors are full. *)
ClientIgnoresFull ==
    /\ cpc = "readStatus" /\ cpc' = "write"
    /\ statusMutex' = statusMutex + 1
    /\ UNCHANGED <<memory, clientWrote, serverRead, cLocal, server, history>>

(* Faulty: a full memory is taken for an error. *)
ClientExitsWhenFull ==
    /\ cpc = "readStatus"
    /\ statusMutex' = statusMutex + 1
    /\ cpc' = IF status # 3 THEN "write" ELSE "exited"
    /\ UNCHANGED <<memory, clientWrote, serverRead, cLocal, server, history>>

ClientReadStatus ==
    /\ cpc = "readStatus"
    /\ statusMutex' = statusMutex + 1
    /\ cpc' = IF status # 3 THEN "write" ELSE "awaitRead"
    /\ UNCHANGED <<memory, clientWrote, serverRead, cLocal, server, history>>

WriteCell ==
    /\ cpc = "write"
    /\ shm' = [shm EXCEPT ![nextToWrite][cnt] = rec]
    /\ sent' = Append(sent, rec)
    /\ IF cnt # NDATA - 1
       THEN cnt' = cnt + 1 /\ cpc' = "guest"
       ELSE cnt' = 0 /\ cpc' = "lock"
    /\ UNCHANGED <<shmExists, status, nextToRead, nextToWrite, sems, firstTime, rec,
                   cSwitch, server, analysed, lost>>

ClientRelock ==
    /\ cpc = "lock" /\ cpc' = "switch"
    /\ statusMutex > 0 /\ statusMutex' = statusMutex - 1
    /\ UNCHANGED <<memory, clientWrote, serverRead, cLocal, server, history>>

ClientSwitch ==
    /\ cpc = "switch" /\ cSwitch' = status
    /\ cpc' = IF status \in {0, 1, 2} THEN "publish" ELSE "badStatus"
    /\ UNCHANGED <<memory, sems, firstTime, cnt, rec, server, history>>

(* The status after sector s has been filled when it was st before. *)
AfterWrite(st, s) == IF st = 0 THEN (IF s = 0 THEN 1 ELSE 2) ELSE 3

PublishSector ==
    /\ cpc = "publish" /\ cpc' = "postWrote"
    /\ status' = AfterWrite(cSwitch, nextToWrite)
    /\ nextToWrite' = 1 - nextToWrite
    /\ cSwitch' = 0
    /\ UNCHANGED <<shmExists, shm, nextToRead, sems, firstTime, cnt, rec, server, history>>

(* Faulty: the post is missing. *)
NoPostClientWrote ==
    /\ cpc = "postWrote" /\ cpc' = "unlock"
    /\ UNCHANGED <<memory, sems, cLocal, server, history>>

PostClientWrote ==
    /\ cpc = "postWrote" /\ cpc' = "unlock"
    /\ clientWrote' = clientWrote + 1
    /\ UNCHANGED <<memory, statusMutex, serverRead, cLocal, server, history>>

ClientUnlock ==
    /\ cpc = "unlock" /\ cpc' = "guest"
    /\ statusMutex' = statusMutex + 1
    /\ UNCHANGED <<memory, clientWrote, serverRead, cLocal, server, history>>

(* Faulty: the client looks at serverRead without taking from it. *)
PeekServerRead ==
    /\ cpc = "awaitRead" /\ cpc' = "guest"
    /\ serverRead > 0
    /\ lost' = lost + 1
    /\ UNCHANGED <<memory, sems, cLocal, server, sent, analysed>>

(* The memory was full: wait for the server, then return.  The record of    *)
(* this call is not stored.                                                 *)
AwaitRead ==
    /\ cpc = "awaitRead" /\ cpc' = "guest"
    /\ serverRead > 0 /\ serverRead' = serverRead - 1
    /\ lost' = lost + 1
    /\ UNCHANGED <<memory, statusMutex, clientWrote, cLocal, server, sent,
                   analysed>>

HelperStep ==
    \/ OpenServerRead \/ AwaitServer \/ Attach \/ ClientLock \/ ClientReadStatus
    \/ WriteCell \/ ClientRelock \/ ClientSwitch \/ PublishSector
    \/ PostClientWrote \/ ClientUnlock \/ AwaitRead

-----------------------------------------------------------------------------
Next == \/ Setup \/ SetupFails \/ ServerLoop
        \/ \E r \in Records : HelperCall(r)
        \/ HelperStep

Spec == Init /\ [][Next]_vars

(* The operating system keeps scheduling both processes, and the guest keeps *)
(* executing branches.  No fairness is asked of the semaphores: a process    *)
(* that waits on one need not win a race for it.                             *)
FairSpec == /\ Spec
            /\ WF_vars(Setup) /\ WF_vars(ServerLoop) /\ WF_vars(HelperStep)
            /\ WF_vars(\E r \in Records : HelperCall(r))

-----------------------------------------------------------------------------
(* Properties. *)

TypeOK ==
    /\ shmExists \in BOOLEAN
    /\ shm \in [Sector -> [Cell -> Records \cup {NoRecord}]]
    /\ status \in 0 .. 3 /\ nextToRead \in Sector /\ nextToWrite \in Sector
    /\ statusMutex \in {NoSem, 0, 1}
    /\ clientWrote \in Nat \cup {NoSem} /\ serverRead \in Nat \cup {NoSem}
    /\ cpc \in ClientPcs /\ firstTime \in {0, 1} /\ cnt \in Cell
    /\ rec \in Records \cup {NoRecord}
    /\ spc \in ServerPcs /\ i \in 0 .. NDATA
    /\ cSwitch \in 0 .. 3 /\ sSwitch \in 0 .. 3
    /\ sent \in Seq(Records) /\ analysed \in Seq(Records \cup {NoRecord})
    /\ lost \in Nat

(* Set-up is complete: serverRead is the last thing the server creates. *)
Ready == serverRead # NoSem

(* The number of sectors that status calls full. *)
Full == IF ~Ready \/ status = 0 THEN 0 ELSE IF status = 3 THEN 2 ELSE 1

(* Records in sectors handed to the server so far: all that were stored but  *)
(* the ones in the sector being filled.                                      *)
Published ==
    Len(sent) - (IF cpc \in {"lock", "switch", "publish"} THEN NDATA ELSE cnt)

(* Records in sectors the server has handed back. *)
Released == Published - Full * NDATA

(* The client never stores into the sector the server is reading: the two    *)
(* sectors let both work at once without a lock on the data (server.c:2,     *)
(* README "SHM partitioning").  Neither nextToRead nor nextToWrite is        *)
(* protected by statusMutex when the sector is chosen.                       *)
SectorExclusive ==
    ~(cpc = "write" /\ spc = "scan" /\ nextToWrite = nextToRead)

(* The records given to the predictor are exactly the stored ones, in order, *)
(* none skipped, repeated, stale or overwritten before it was read.          *)
InOrder ==
    /\ Len(analysed) <= Len(sent)
    /\ \A k \in 1 .. Len(analysed) : analysed[k] = sent[k]

(* Neither switch on status ever takes its error exit, although each process *)
(* acts on a status it read earlier and has since unlocked.                  *)
NoStatusError == cpc # "badStatus" /\ spc # "badStatus"

ClientBlocked == cpc = "awaitRead" /\ serverRead = 0
ServerBlocked == spc = "awaitWrote" /\ clientWrote = 0

(* Client and server never wait for each other: a wake-up posted between the *)
(* look at status and the sem_wait is kept by the semaphore.                 *)
NoDeadlock == ~(ClientBlocked /\ ServerBlocked)

(* A call that finds the memory full drops its record, and may not even      *)
(* block: serverRead also keeps the posts nobody waited for.  Still at most  *)
(* one record is dropped per sector the server has handed back, and one for  *)
(* the call that attaches.                                                   *)
LossBounded == lost * NDATA <= Released + NDATA

(* The channel implements the abstract stream. *)
Stream == INSTANCE BranchStream WITH published <- Published, released <- Released
ImplementsStream == Stream!Spec

(* Every helper call returns to the guest while the server is running. *)
ServerGone == spc \in {"done", "exited"}
CallReturns ==
    cpc # "guest" ~> (cpc \in {"guest", "exited"} \/ ServerGone)

(* The server gets its DesiredIstr records and finishes, unless QEMU failed  *)
(* to attach.                                                                *)
ServerFinishes == <>(ServerGone \/ cpc = "exited")

(* Once the server is done the client fills both sectors, uses up the posts  *)
(* left in serverRead and then blocks inside the helper for good: the guest  *)
(* freezes, it does not run on without the predictor.                        *)
GuestFreezes == (spc = "done" /\ cpc # "exited") ~> [](ClientBlocked)

-----------------------------------------------------------------------------
(* The inductive invariant behind the safety properties, as a conjunction of *)
(* named parts: every step preserves it, and it implies the properties.      *)

(* Cells of the sector being filled that hold a record of this session's    *)
(* stream and are not published yet.                                        *)
Filled == IF cpc \in {"lock", "switch", "publish"} THEN NDATA ELSE cnt

ClientHolds == cpc \in {"readStatus", "switch", "publish", "postWrote", "unlock"}
ServerHolds == spc \in {"readStatus", "switch", "release", "postRead", "unlock"}

(* The set-up order: serverRead is created last, after the flags are reset   *)
(* and the other two semaphores have their initial values; until then the    *)
(* client is outside the protocol.                                           *)
SetupOrder ==
    /\ spc \in {"semMutex", "semWrote", "semRead"} =>
          status = 0 /\ nextToRead = 0 /\ nextToWrite = 0
    /\ spc \in {"semWrote", "semRead"} => statusMutex = 1
    /\ spc = "semRead" => clientWrote = 0
    /\ Ready <=> spc \notin SetupPcs \cup {"exited"}
    /\ ~Ready => /\ cpc \in {"guest", "open", "exited"}
                 /\ firstTime = 1 \/ cpc = "exited"
                 /\ sent = <<>> /\ analysed = <<>> /\ lost = 0 /\ cnt = 0

(* statusMutex is a mutex: its value says whether somebody is inside. *)
MutualExclusion ==
    Ready => /\ ~(ClientHolds /\ ServerHolds)
             /\ statusMutex = IF ClientHolds \/ ServerHolds THEN 0 ELSE 1
             /\ clientWrote # NoSem

(* status and the two sector indices agree. *)
FlagsAgree ==
    Ready => /\ status \in {0, 3} <=> nextToRead = nextToWrite
             /\ status = 1 => nextToRead = 0
             /\ status = 2 => nextToRead = 1

(* What each process learnt about status still holds where it relies on it,  *)
(* although the other one may have changed status since.                     *)
StillTrue ==
    /\ cpc \in {"call", "readStatus", "write"} => rec \in Records
    /\ cpc \in {"write", "lock", "switch", "publish"} => status # 3
    /\ cpc \in {"lock", "switch", "publish"} => cnt = 0
    /\ cpc = "publish" => cSwitch = status
    /\ spc \in {"scan", "switch", "release"} => status # 0
    /\ spc = "release" => sSwitch = status
    /\ cpc # "badStatus" /\ spc # "badStatus"

(* How far the server is in the stream. *)
Progress ==
    /\ Released >= 0 /\ Len(analysed) <= DesiredIstr
    /\ spc \in SetupPcs \cup {"readStatus", "awaitWrote", "exited"} =>
          Len(analysed) = Released
    /\ spc \in {"scan", "switch", "release"} => Len(analysed) = Released + i
    /\ spc \in {"switch", "release"} => i = NDATA \/ Len(analysed) = DesiredIstr
    /\ spc \in {"loop", "postRead", "unlock", "done"} =>
          \/ Len(analysed) = Released
          \/ Len(analysed) = DesiredIstr /\ Len(analysed) <= Released

(* Where the records of the stream lie: the unpublished ones in the sector   *)
(* being filled, then those of the next sector to read and, when the memory  *)
(* is full, of the other one.                                                *)
Contents ==
    /\ \A k \in Cell : k < Filled =>
          shm[nextToWrite][k] = sent[Published + k + 1]
    /\ Full >= 1 => \A k \in Cell : shm[nextToRead][k] = sent[Released + k + 1]
    /\ Full = 2 => \A k \in Cell :
          shm[1 - nextToRead][k] = sent[Released + NDATA + k + 1]
    /\ \A k \in 1 .. Len(analysed) : analysed[k] = sent[k]

(* Every post of serverRead, and its initial value, pays for one dropped     *)
(* record; a post that is due counts too.                                    *)
Tokens == lost + serverRead + (IF cpc = "attach" THEN 1 ELSE 0)
                            + (IF spc = "postRead" THEN 1 ELSE 0)
Paid == Ready => Tokens * NDATA <= Released + NDATA

(* A process that waits does so for a reason, or its wake-up is due. *)
WakeUps ==
    /\ ClientBlocked => status = 3 \/ spc = "postRead"
    /\ ServerBlocked => status = 0 \/ cpc = "postWrote"

(* The inductive invariant of the channel. *)
ChannelInv ==
    /\ TypeOK /\ SetupOrder /\ MutualExclusion /\ FlagsAgree /\ StillTrue
    /\ Progress /\ Contents /\ Paid /\ WakeUps

=============================================================================
