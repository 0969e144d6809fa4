--------------------------- MODULE ShmTransferProofs ---------------------------
(***************************************************************************)
(* ChannelInv is inductive for every sector size, number of records and    *)
(* set of records; it implies the safety properties of ShmTransfer, and    *)
(* under it every step of the channel is a step of BranchStream.           *)
(***************************************************************************)
EXTENDS ShmTransfer, TLAPS

USE DEF vars, memory, sems, client, server, cLocal, sLocal, history

LEMMA InitInv == Init => ChannelInv
<1> SUFFICES ASSUME Init PROVE ChannelInv
  OBVIOUS
<1> USE TransferAssumption
<1>1. TypeOK
  BY DEF Init, TypeOK, Sector, Cell, NoSem, ClientPcs, ServerPcs, SetupPcs
<1>2. SetupOrder
  BY DEF Init, SetupOrder, Ready, NoSem, SetupPcs
<1>3. Published = 0 /\ Released = 0 /\ Full = 0
  BY DEF Init, Published, Released, Full, Ready, NoSem
<1>4. MutualExclusion /\ FlagsAgree /\ StillTrue /\ Paid /\ WakeUps
  BY DEF Init, MutualExclusion, FlagsAgree, StillTrue, Paid, WakeUps, Ready, NoSem,
         ClientBlocked, ServerBlocked
<1>5. Progress
  BY <1>3 DEF Init, Progress, SetupPcs
<1>6. Contents
  BY <1>3 DEF Init, Contents, Filled, Cell
<1> QED
  BY <1>1, <1>2, <1>4, <1>5, <1>6 DEF ChannelInv

(* Type correctness is preserved: the value of statusMutex follows from        *)
(* MutualExclusion, a stored record from the helper's argument.                *)
LEMMA TypeStep ==
    ASSUME ChannelInv, [Next]_vars
    PROVE  TypeOK'
<1> USE TransferAssumption DEF ChannelInv, TypeOK, Sector, Cell, NoSem, ClientPcs,
        ServerPcs, SetupPcs, iCount
<1>1. CASE CreateShm
  BY <1>1 DEF CreateShm
<1>2. CASE ResetFlags
  BY <1>2 DEF ResetFlags
<1>3. CASE CreateStatusMutex
  BY <1>3 DEF CreateStatusMutex
<1>4. CASE CreateClientWrote
  BY <1>4 DEF CreateClientWrote
<1>5. CASE CreateServerRead
  BY <1>5 DEF CreateServerRead
<1>6. CASE SetupFails
  BY <1>6 DEF SetupFails
<1>7. CASE ServerLock
  BY <1>7 DEF ServerLock
<1>8. CASE ServerReadStatus
  BY <1>8 DEF ServerReadStatus, MutualExclusion, SetupOrder, Ready, ClientHolds,
       ServerHolds, SetupPcs
<1>9. CASE AwaitWrote
  BY <1>9 DEF AwaitWrote
<1>10. CASE AnalyseCell
  BY <1>10 DEF AnalyseCell
<1>11. CASE ServerRelock
  BY <1>11 DEF ServerRelock
<1>12. CASE ServerSwitch
  BY <1>12 DEF ServerSwitch
<1>13. CASE ReleaseSector
  BY <1>13 DEF ReleaseSector, AfterRead
<1>14. CASE PostServerRead
  BY <1>14 DEF PostServerRead, SetupOrder, Ready, SetupPcs
<1>15. CASE ServerUnlock
  BY <1>15 DEF ServerUnlock, MutualExclusion, SetupOrder, Ready, ClientHolds,
       ServerHolds, SetupPcs
<1>16. CASE ServerFinish
  BY <1>16 DEF ServerFinish
<1>17. CASE \E r \in Records : HelperCall(r)
  BY <1>17 DEF HelperCall
<1>18. CASE OpenServerRead
  BY <1>18 DEF OpenServerRead
<1>19. CASE AwaitServer
  BY <1>19 DEF AwaitServer
<1>20. CASE Attach
  BY <1>20 DEF Attach
<1>21. CASE ClientLock
  BY <1>21 DEF ClientLock
<1>22. CASE ClientReadStatus
  BY <1>22 DEF ClientReadStatus, MutualExclusion, SetupOrder, Ready, ClientHolds,
       ServerHolds, SetupPcs
<1>23. CASE WriteCell
  BY <1>23 DEF WriteCell, StillTrue
<1>24. CASE ClientRelock
  BY <1>24 DEF ClientRelock
<1>25. CASE ClientSwitch
  BY <1>25 DEF ClientSwitch
<1>26. CASE PublishSector
  BY <1>26 DEF PublishSector, AfterWrite
<1>27. CASE PostClientWrote
  BY <1>27 DEF PostClientWrote, SetupOrder, Ready, MutualExclusion
<1>28. CASE ClientUnlock
  BY <1>28 DEF ClientUnlock, MutualExclusion, SetupOrder, Ready, ClientHolds,
       ServerHolds, SetupPcs
<1>29. CASE AwaitRead
  BY <1>29 DEF AwaitRead
<1>30. CASE UNCHANGED vars
  BY <1>30 DEF vars
<1> QED
  BY <1>1, <1>2, <1>3, <1>4, <1>5, <1>6, <1>7, <1>8, <1>9, <1>10, <1>11, <1>12, <1>13,
       <1>14, <1>15, <1>16, <1>17, <1>18, <1>19, <1>20, <1>21, <1>22, <1>23, <1>24,
       <1>25, <1>26, <1>27, <1>28, <1>29, <1>30 DEF Next, Setup, ServerLoop, HelperStep


(* The set-up order is preserved: nothing but CreateServerRead lets the client in. *)
LEMMA SetupStep ==
    ASSUME ChannelInv, [Next]_vars
    PROVE  SetupOrder'
<1> USE DEF ChannelInv, SetupOrder, Ready, NoSem, SetupPcs
<1>1. CASE CreateShm
  BY <1>1 DEF CreateShm
<1>2. CASE ResetFlags
  BY <1>2 DEF ResetFlags
<1>3. CASE CreateStatusMutex
  BY <1>3 DEF CreateStatusMutex
<1>4. CASE CreateClientWrote
  BY <1>4 DEF CreateClientWrote
<1>5. CASE CreateServerRead
  BY <1>5 DEF CreateServerRead
<1>6. CASE SetupFails
  BY <1>6 DEF SetupFails
<1>7. CASE ServerLock
  BY <1>7 DEF ServerLock
<1>8. CASE ServerReadStatus
  BY <1>8 DEF ServerReadStatus
<1>9. CASE AwaitWrote
  BY <1>9 DEF AwaitWrote
<1>10. CASE AnalyseCell
  BY <1>10 DEF AnalyseCell
<1>11. CASE ServerRelock
  BY <1>11 DEF ServerRelock
<1>12. CASE ServerSwitch
  BY <1>12 DEF ServerSwitch
<1>13. CASE ReleaseSector
  BY <1>13 DEF ReleaseSector
<1>14. CASE PostServerRead
  BY <1>14 DEF PostServerRead, TypeOK
<1>15. CASE ServerUnlock
  BY <1>15 DEF ServerUnlock
<1>16. CASE ServerFinish
  BY <1>16 DEF ServerFinish
<1>17. CASE \E r \in Records : HelperCall(r)
  BY <1>17 DEF HelperCall
<1>18. CASE OpenServerRead
  BY <1>18 DEF OpenServerRead
<1>19. CASE AwaitServer
  BY <1>19 DEF AwaitServer, TypeOK
<1>20. CASE Attach
  BY <1>20 DEF Attach
<1>21. CASE ClientLock
  BY <1>21 DEF ClientLock
<1>22. CASE ClientReadStatus
  BY <1>22 DEF ClientReadStatus
<1>23. CASE WriteCell
  BY <1>23 DEF WriteCell
<1>24. CASE ClientRelock
  BY <1>24 DEF ClientRelock
<1>25. CASE ClientSwitch
  BY <1>25 DEF ClientSwitch
<1>26. CASE PublishSector
  BY <1>26 DEF PublishSector
<1>27. CASE PostClientWrote
  BY <1>27 DEF PostClientWrote
<1>28. CASE ClientUnlock
  BY <1>28 DEF ClientUnlock
<1>29. CASE AwaitRead
  BY <1>29 DEF AwaitRead, TypeOK
<1>30. CASE UNCHANGED vars
  BY <1>30 DEF vars
<1> QED
  BY <1>1, <1>2, <1>3, <1>4, <1>5, <1>6, <1>7, <1>8, <1>9, <1>10, <1>11, <1>12, <1>13,
       <1>14, <1>15, <1>16, <1>17, <1>18, <1>19, <1>20, <1>21, <1>22, <1>23, <1>24,
       <1>25, <1>26, <1>27, <1>28, <1>29, <1>30 DEF Next, Setup, ServerLoop, HelperStep

(* statusMutex stays a mutex. *)
LEMMA MutexStep ==
    ASSUME ChannelInv, [Next]_vars
    PROVE  MutualExclusion'
<1> USE DEF ChannelInv, MutualExclusion, ClientHolds, ServerHolds, SetupOrder, Ready,
        NoSem, SetupPcs
<1>1. CASE CreateShm
  BY <1>1 DEF CreateShm
<1>2. CASE ResetFlags
  BY <1>2 DEF ResetFlags
<1>3. CASE CreateStatusMutex
  BY <1>3 DEF CreateStatusMutex
<1>4. CASE CreateClientWrote
  BY <1>4 DEF CreateClientWrote
<1>5. CASE CreateServerRead
  BY <1>5 DEF CreateServerRead
<1>6. CASE SetupFails
  BY <1>6 DEF SetupFails
<1>7. CASE ServerLock
  BY <1>7 DEF ServerLock
<1>8. CASE ServerReadStatus
  BY <1>8 DEF ServerReadStatus
<1>9. CASE AwaitWrote
  BY <1>9 DEF AwaitWrote, TypeOK
<1>10. CASE AnalyseCell
  BY <1>10 DEF AnalyseCell
<1>11. CASE ServerRelock
  BY <1>11 DEF ServerRelock
<1>12. CASE ServerSwitch
  BY <1>12 DEF ServerSwitch, StillTrue, TypeOK
<1>13. CASE ReleaseSector
  BY <1>13 DEF ReleaseSector
<1>14. CASE PostServerRead
  BY <1>14 DEF PostServerRead, TypeOK
<1>15. CASE ServerUnlock
  BY <1>15 DEF ServerUnlock
<1>16. CASE ServerFinish
  BY <1>16 DEF ServerFinish
<1>17. CASE \E r \in Records : HelperCall(r)
  BY <1>17 DEF HelperCall
<1>18. CASE OpenServerRead
  BY <1>18 DEF OpenServerRead
<1>19. CASE AwaitServer
  BY <1>19 DEF AwaitServer, TypeOK
<1>20. CASE Attach
  BY <1>20 DEF Attach
<1>21. CASE ClientLock
  BY <1>21 DEF ClientLock
<1>22. CASE ClientReadStatus
  BY <1>22 DEF ClientReadStatus
<1>23. CASE WriteCell
  BY <1>23 DEF WriteCell
<1>24. CASE ClientRelock
  BY <1>24 DEF ClientRelock
<1>25. CASE ClientSwitch
  BY <1>25 DEF ClientSwitch, StillTrue, TypeOK
<1>26. CASE PublishSector
  BY <1>26 DEF PublishSector
<1>27. CASE PostClientWrote
  BY <1>27 DEF PostClientWrote, TypeOK
<1>28. CASE ClientUnlock
  BY <1>28 DEF ClientUnlock
<1>29. CASE AwaitRead
  BY <1>29 DEF AwaitRead, TypeOK
<1>30. CASE UNCHANGED vars
  BY <1>30 DEF vars
<1> QED
  BY <1>1, <1>2, <1>3, <1>4, <1>5, <1>6, <1>7, <1>8, <1>9, <1>10, <1>11, <1>12, <1>13,
       <1>14, <1>15, <1>16, <1>17, <1>18, <1>19, <1>20, <1>21, <1>22, <1>23, <1>24,
       <1>25, <1>26, <1>27, <1>28, <1>29, <1>30 DEF Next, Setup, ServerLoop, HelperStep

(* status and the sector indices keep agreeing: each side flips its index in the step *)
(* in which it counts its sector in or out.                                        *)
LEMMA FlagStep ==
    ASSUME ChannelInv, [Next]_vars
    PROVE  FlagsAgree'
<1> USE DEF ChannelInv, FlagsAgree, SetupOrder, Ready, NoSem, SetupPcs, TypeOK, Sector
<1>1. CASE CreateShm
  BY <1>1 DEF CreateShm
<1>2. CASE ResetFlags
  BY <1>2 DEF ResetFlags
<1>3. CASE CreateStatusMutex
  BY <1>3 DEF CreateStatusMutex
<1>4. CASE CreateClientWrote
  BY <1>4 DEF CreateClientWrote
<1>5. CASE CreateServerRead
  BY <1>5 DEF CreateServerRead
<1>6. CASE SetupFails
  BY <1>6 DEF SetupFails
<1>7. CASE ServerLock
  BY <1>7 DEF ServerLock
<1>8. CASE ServerReadStatus
  BY <1>8 DEF ServerReadStatus
<1>9. CASE AwaitWrote
  BY <1>9 DEF AwaitWrote
<1>10. CASE AnalyseCell
  BY <1>10 DEF AnalyseCell
<1>11. CASE ServerRelock
  BY <1>11 DEF ServerRelock
<1>12. CASE ServerSwitch
  BY <1>12 DEF ServerSwitch
<1>13. CASE ReleaseSector
  BY <1>13 DEF ReleaseSector, AfterRead, StillTrue
<1>14. CASE PostServerRead
  BY <1>14 DEF PostServerRead
<1>15. CASE ServerUnlock
  BY <1>15 DEF ServerUnlock
<1>16. CASE ServerFinish
  BY <1>16 DEF ServerFinish
<1>17. CASE \E r \in Records : HelperCall(r)
  BY <1>17 DEF HelperCall
<1>18. CASE OpenServerRead
  BY <1>18 DEF OpenServerRead
<1>19. CASE AwaitServer
  BY <1>19 DEF AwaitServer
<1>20. CASE Attach
  BY <1>20 DEF Attach
<1>21. CASE ClientLock
  BY <1>21 DEF ClientLock
<1>22. CASE ClientReadStatus
  BY <1>22 DEF ClientReadStatus
<1>23. CASE WriteCell
  BY <1>23 DEF WriteCell
<1>24. CASE ClientRelock
  BY <1>24 DEF ClientRelock
<1>25. CASE ClientSwitch
  BY <1>25 DEF ClientSwitch
<1>26. CASE PublishSector
  BY <1>26 DEF PublishSector, AfterWrite, StillTrue
<1>27. CASE PostClientWrote
  BY <1>27 DEF PostClientWrote
<1>28. CASE ClientUnlock
  BY <1>28 DEF ClientUnlock
<1>29. CASE AwaitRead
  BY <1>29 DEF AwaitRead
<1>30. CASE UNCHANGED vars
  BY <1>30 DEF vars
<1> QED
  BY <1>1, <1>2, <1>3, <1>4, <1>5, <1>6, <1>7, <1>8, <1>9, <1>10, <1>11, <1>12, <1>13,
       <1>14, <1>15, <1>16, <1>17, <1>18, <1>19, <1>20, <1>21, <1>22, <1>23, <1>24,
       <1>25, <1>26, <1>27, <1>28, <1>29, <1>30 DEF Next, Setup, ServerLoop, HelperStep

(* What a process learnt about status stays true: only the client makes status    *)
(* fuller, only the server makes it emptier, and neither during the other's switch. *)
LEMMA StillStep ==
    ASSUME ChannelInv, [Next]_vars
    PROVE  StillTrue'
<1> USE DEF ChannelInv, StillTrue, SetupOrder, Ready, NoSem, SetupPcs
<1>1. CASE CreateShm
  BY <1>1 DEF CreateShm
<1>2. CASE ResetFlags
  BY <1>2 DEF ResetFlags
<1>3. CASE CreateStatusMutex
  BY <1>3 DEF CreateStatusMutex
<1>4. CASE CreateClientWrote
  BY <1>4 DEF CreateClientWrote
<1>5. CASE CreateServerRead
  BY <1>5 DEF CreateServerRead
<1>6. CASE SetupFails
  BY <1>6 DEF SetupFails
<1>7. CASE ServerLock
  BY <1>7 DEF ServerLock
<1>8. CASE ServerReadStatus
  BY <1>8 DEF ServerReadStatus
<1>9. CASE AwaitWrote
  BY <1>9 DEF AwaitWrote
<1>10. CASE AnalyseCell
  BY <1>10 DEF AnalyseCell
<1>11. CASE ServerRelock
  BY <1>11 DEF ServerRelock
<1>12. CASE ServerSwitch
  BY <1>12 DEF ServerSwitch, TypeOK
<1>13. CASE ReleaseSector
  BY <1>13 DEF ReleaseSector, AfterRead, MutualExclusion, ClientHolds, ServerHolds,
       FlagsAgree, TypeOK, Sector
<1>14. CASE PostServerRead
  BY <1>14 DEF PostServerRead
<1>15. CASE ServerUnlock
  BY <1>15 DEF ServerUnlock
<1>16. CASE ServerFinish
  BY <1>16 DEF ServerFinish
<1>17. CASE \E r \in Records : HelperCall(r)
  BY <1>17 DEF HelperCall
<1>18. CASE OpenServerRead
  BY <1>18 DEF OpenServerRead
<1>19. CASE AwaitServer
  BY <1>19 DEF AwaitServer
<1>20. CASE Attach
  BY <1>20 DEF Attach
<1>21. CASE ClientLock
  BY <1>21 DEF ClientLock
<1>22. CASE ClientReadStatus
  BY <1>22 DEF ClientReadStatus
<1>23. CASE WriteCell
  BY <1>23 DEF WriteCell, TypeOK, Cell
<1>24. CASE ClientRelock
  BY <1>24 DEF ClientRelock
<1>25. CASE ClientSwitch
  BY <1>25 DEF ClientSwitch, TypeOK
<1>26. CASE PublishSector
  BY <1>26 DEF PublishSector, AfterWrite, MutualExclusion, ClientHolds, ServerHolds,
       FlagsAgree, TypeOK, Sector
<1>27. CASE PostClientWrote
  BY <1>27 DEF PostClientWrote
<1>28. CASE ClientUnlock
  BY <1>28 DEF ClientUnlock
<1>29. CASE AwaitRead
  BY <1>29 DEF AwaitRead
<1>30. CASE UNCHANGED vars
  BY <1>30 DEF vars
<1> QED
  BY <1>1, <1>2, <1>3, <1>4, <1>5, <1>6, <1>7, <1>8, <1>9, <1>10, <1>11, <1>12, <1>13,
       <1>14, <1>15, <1>16, <1>17, <1>18, <1>19, <1>20, <1>21, <1>22, <1>23, <1>24,
       <1>25, <1>26, <1>27, <1>28, <1>29, <1>30 DEF Next, Setup, ServerLoop, HelperStep

(* No wake-up is lost: a post between the look at status and the wait is kept. *)
LEMMA WakeStep ==
    ASSUME ChannelInv, [Next]_vars
    PROVE  WakeUps'
<1> USE DEF ChannelInv, WakeUps, ClientBlocked, ServerBlocked, SetupOrder, Ready, NoSem,
        SetupPcs, TypeOK
<1>1. CASE CreateShm
  BY <1>1 DEF CreateShm
<1>2. CASE ResetFlags
  BY <1>2 DEF ResetFlags
<1>3. CASE CreateStatusMutex
  BY <1>3 DEF CreateStatusMutex
<1>4. CASE CreateClientWrote
  BY <1>4 DEF CreateClientWrote
<1>5. CASE CreateServerRead
  BY <1>5 DEF CreateServerRead
<1>6. CASE SetupFails
  BY <1>6 DEF SetupFails
<1>7. CASE ServerLock
  BY <1>7 DEF ServerLock
<1>8. CASE ServerReadStatus
  BY <1>8 DEF ServerReadStatus
<1>9. CASE AwaitWrote
  BY <1>9 DEF AwaitWrote
<1>10. CASE AnalyseCell
  BY <1>10 DEF AnalyseCell
<1>11. CASE ServerRelock
  BY <1>11 DEF ServerRelock
<1>12. CASE ServerSwitch
  BY <1>12 DEF ServerSwitch
<1>13. CASE ReleaseSector
  BY <1>13 DEF ReleaseSector, AfterRead
<1>14. CASE PostServerRead
  BY <1>14 DEF PostServerRead
<1>15. CASE ServerUnlock
  BY <1>15 DEF ServerUnlock
<1>16. CASE ServerFinish
  BY <1>16 DEF ServerFinish
<1>17. CASE \E r \in Records : HelperCall(r)
  BY <1>17 DEF HelperCall
<1>18. CASE OpenServerRead
  BY <1>18 DEF OpenServerRead
<1>19. CASE AwaitServer
  BY <1>19 DEF AwaitServer
<1>20. CASE Attach
  BY <1>20 DEF Attach
<1>21. CASE ClientLock
  BY <1>21 DEF ClientLock
<1>22. CASE ClientReadStatus
  BY <1>22 DEF ClientReadStatus
<1>23. CASE WriteCell
  BY <1>23 DEF WriteCell
<1>24. CASE ClientRelock
  BY <1>24 DEF ClientRelock
<1>25. CASE ClientSwitch
  BY <1>25 DEF ClientSwitch
<1>26. CASE PublishSector
  BY <1>26 DEF PublishSector, AfterWrite
<1>27. CASE PostClientWrote
  BY <1>27 DEF PostClientWrote, MutualExclusion
<1>28. CASE ClientUnlock
  BY <1>28 DEF ClientUnlock
<1>29. CASE AwaitRead
  BY <1>29 DEF AwaitRead
<1>30. CASE UNCHANGED vars
  BY <1>30 DEF vars
<1> QED
  BY <1>1, <1>2, <1>3, <1>4, <1>5, <1>6, <1>7, <1>8, <1>9, <1>10, <1>11, <1>12, <1>13,
       <1>14, <1>15, <1>16, <1>17, <1>18, <1>19, <1>20, <1>21, <1>22, <1>23, <1>24,
       <1>25, <1>26, <1>27, <1>28, <1>29, <1>30 DEF Next, Setup, ServerLoop, HelperStep


(* The derived counters are numbers. *)
LEMMA CountTypes ==
    ASSUME ChannelInv
    PROVE  Full \in 0 .. 2 /\ Published \in Int /\ Released \in Int
<1>1. Full \in 0 .. 2 /\ Published \in Int
  BY TransferAssumption DEF ChannelInv, TypeOK, Full, Published, Cell
<1> QED
  BY <1>1, TransferAssumption DEF Released

(* The steps that move a sector from one side to the other. *)
Publishing == cpc = "publish" /\ cpc' = "postWrote"
Releasing  == spc = "release" /\ spc' = "postRead"

(* How the derived counters move: only PublishSector and ReleaseSector change them. *)
LEMMA CountStep ==
    ASSUME ChannelInv, [Next]_vars
    PROVE  /\ ~Publishing /\ ~Releasing => Full' = Full /\ Published' = Published
           /\ Publishing => ~Releasing /\ Full' = Full + 1 /\ Published' = Published + NDATA
           /\ Releasing => Full' = Full - 1 /\ Published' = Published
<1> USE TransferAssumption DEF ChannelInv, TypeOK, SetupOrder, SetupPcs, Ready, NoSem,
        Full, Published, Publishing, Releasing
<1>1. CASE CreateShm
  BY <1>1 DEF CreateShm
<1>2. CASE ResetFlags
  BY <1>2 DEF ResetFlags
<1>3. CASE CreateStatusMutex
  BY <1>3 DEF CreateStatusMutex
<1>4. CASE CreateClientWrote
  BY <1>4 DEF CreateClientWrote
<1>5. CASE CreateServerRead
  BY <1>5 DEF CreateServerRead
<1>6. CASE SetupFails
  BY <1>6 DEF SetupFails
<1>7. CASE ServerLock
  BY <1>7 DEF ServerLock
<1>8. CASE ServerReadStatus
  BY <1>8 DEF ServerReadStatus
<1>9. CASE AwaitWrote
  BY <1>9 DEF AwaitWrote
<1>10. CASE AnalyseCell
  BY <1>10 DEF AnalyseCell
<1>11. CASE ServerRelock
  BY <1>11 DEF ServerRelock
<1>12. CASE ServerSwitch
  BY <1>12 DEF ServerSwitch, StillTrue
<1>13. CASE ReleaseSector
  BY <1>13 DEF ReleaseSector, AfterRead, StillTrue, Sector
<1>14. CASE PostServerRead
  BY <1>14 DEF PostServerRead
<1>15. CASE ServerUnlock
  BY <1>15 DEF ServerUnlock
<1>16. CASE ServerFinish
  BY <1>16 DEF ServerFinish
<1>17. CASE \E r \in Records : HelperCall(r)
  BY <1>17 DEF HelperCall
<1>18. CASE OpenServerRead
  BY <1>18 DEF OpenServerRead
<1>19. CASE AwaitServer
  BY <1>19 DEF AwaitServer
<1>20. CASE Attach
  BY <1>20 DEF Attach
<1>21. CASE ClientLock
  BY <1>21 DEF ClientLock
<1>22. CASE ClientReadStatus
  BY <1>22 DEF ClientReadStatus
<1>23. CASE WriteCell
  BY <1>23 DEF WriteCell, Cell, StillTrue
<1>24. CASE ClientRelock
  BY <1>24 DEF ClientRelock
<1>25. CASE ClientSwitch
  BY <1>25 DEF ClientSwitch, StillTrue
<1>26. CASE PublishSector
  BY <1>26 DEF PublishSector, AfterWrite, StillTrue
<1>27. CASE PostClientWrote
  BY <1>27 DEF PostClientWrote
<1>28. CASE ClientUnlock
  BY <1>28 DEF ClientUnlock
<1>29. CASE AwaitRead
  BY <1>29 DEF AwaitRead
<1>30. CASE UNCHANGED vars
  BY <1>30 DEF vars
<1> QED
  BY <1>1, <1>2, <1>3, <1>4, <1>5, <1>6, <1>7, <1>8, <1>9, <1>10, <1>11, <1>12, <1>13,
       <1>14, <1>15, <1>16, <1>17, <1>18, <1>19, <1>20, <1>21, <1>22, <1>23, <1>24,
       <1>25, <1>26, <1>27, <1>28, <1>29, <1>30 DEF Next, Setup, ServerLoop, HelperStep

(* Sectors come back to the client only through ReleaseSector. *)
LEMMA ReleasedStep ==
    ASSUME ChannelInv, [Next]_vars
    PROVE  Released' = IF Releasing THEN Released + NDATA ELSE Released
<1> USE TransferAssumption, CountTypes
<1>1. CASE ~Publishing /\ ~Releasing
  BY <1>1, CountStep DEF Released
<1>2. CASE Publishing
  <2>1. (Full + 1) * NDATA = Full * NDATA + NDATA
    OBVIOUS
  <2> QED
    BY <1>2, <2>1, CountStep DEF Released
<1>3. CASE Releasing
  <2>1. (Full - 1) * NDATA = Full * NDATA - NDATA
    OBVIOUS
  <2> QED
    BY <1>3, <2>1, CountStep DEF Released
<1> QED
  BY <1>1, <1>2, <1>3

(* The server's place in the stream stays tied to the sectors it has handed back. *)
LEMMA ProgressStep ==
    ASSUME ChannelInv, [Next]_vars
    PROVE  Progress'
<1>a. Released \in Int /\ Released' = IF Releasing THEN Released + NDATA ELSE Released
  BY CountTypes, ReleasedStep
<1>b. Progress /\ TypeOK /\ SetupOrder
  BY DEF ChannelInv
<1> USE TransferAssumption DEF Progress, Releasing, TypeOK, SetupOrder, Ready, SetupPcs,
        iCount
<1>1. CASE CreateShm
  BY <1>1, <1>a, <1>b DEF CreateShm
<1>2. CASE ResetFlags
  BY <1>2, <1>a, <1>b DEF ResetFlags
<1>3. CASE CreateStatusMutex
  BY <1>3, <1>a, <1>b DEF CreateStatusMutex
<1>4. CASE CreateClientWrote
  BY <1>4, <1>a, <1>b DEF CreateClientWrote
<1>5. CASE CreateServerRead
  BY <1>5, <1>a, <1>b DEF CreateServerRead
<1>6. CASE SetupFails
  BY <1>6, <1>a, <1>b DEF SetupFails
<1>7. CASE ServerLock
  BY <1>7, <1>a, <1>b DEF ServerLock
<1>8. CASE ServerReadStatus
  BY <1>8, <1>a, <1>b DEF ServerReadStatus
<1>9. CASE AwaitWrote
  BY <1>9, <1>a, <1>b DEF AwaitWrote
<1>10. CASE AnalyseCell
  <2>1. Len(analysed') = Len(analysed) + 1 /\ Len(analysed) \in Nat
    BY <1>10, <1>b DEF AnalyseCell
  <2>2. spc = "scan" /\ spc' = "scan" /\ i < NDATA /\ i' = i + 1 /\ Len(analysed) < DesiredIstr
    BY <1>10 DEF AnalyseCell
  <2> QED
    BY <2>1, <2>2, <1>a, <1>b
<1>11. CASE ServerRelock
  BY <1>11, <1>a, <1>b DEF ServerRelock
<1>12. CASE ServerSwitch
  BY <1>12, <1>a, <1>b DEF ServerSwitch
<1>13. CASE ReleaseSector
  BY <1>13, <1>a, <1>b DEF ReleaseSector
<1>14. CASE PostServerRead
  BY <1>14, <1>a, <1>b DEF PostServerRead
<1>15. CASE ServerUnlock
  BY <1>15, <1>a, <1>b DEF ServerUnlock
<1>16. CASE ServerFinish
  BY <1>16, <1>a, <1>b DEF ServerFinish
<1>17. CASE \E r \in Records : HelperCall(r)
  BY <1>17, <1>a, <1>b DEF HelperCall
<1>18. CASE OpenServerRead
  BY <1>18, <1>a, <1>b DEF OpenServerRead
<1>19. CASE AwaitServer
  BY <1>19, <1>a, <1>b DEF AwaitServer
<1>20. CASE Attach
  BY <1>20, <1>a, <1>b DEF Attach
<1>21. CASE ClientLock
  BY <1>21, <1>a, <1>b DEF ClientLock
<1>22. CASE ClientReadStatus
  BY <1>22, <1>a, <1>b DEF ClientReadStatus
<1>23. CASE WriteCell
  BY <1>23, <1>a, <1>b DEF WriteCell
<1>24. CASE ClientRelock
  BY <1>24, <1>a, <1>b DEF ClientRelock
<1>25. CASE ClientSwitch
  BY <1>25, <1>a, <1>b DEF ClientSwitch
<1>26. CASE PublishSector
  BY <1>26, <1>a, <1>b DEF PublishSector
<1>27. CASE PostClientWrote
  BY <1>27, <1>a, <1>b DEF PostClientWrote
<1>28. CASE ClientUnlock
  BY <1>28, <1>a, <1>b DEF ClientUnlock
<1>29. CASE AwaitRead
  BY <1>29, <1>a, <1>b DEF AwaitRead
<1>30. CASE UNCHANGED vars
  BY <1>30, <1>a, <1>b DEF vars
<1> QED
  BY <1>1, <1>2, <1>3, <1>4, <1>5, <1>6, <1>7, <1>8, <1>9, <1>10, <1>11, <1>12, <1>13,
       <1>14, <1>15, <1>16, <1>17, <1>18, <1>19, <1>20, <1>21, <1>22, <1>23, <1>24,
       <1>25, <1>26, <1>27, <1>28, <1>29, <1>30 DEF Next, Setup, ServerLoop, HelperStep


(* serverRead gains a token only when a sector is handed back. *)
LEMMA TokenStep ==
    ASSUME ChannelInv, [Next]_vars
    PROVE  Ready' => \/ ~Ready /\ Tokens' = 1
                     \/ Ready /\ Tokens' <= IF Releasing THEN Tokens + 1 ELSE Tokens
<1> USE DEF ChannelInv, TypeOK, SetupOrder, SetupPcs, Ready, NoSem, Tokens, Releasing
<1>1. CASE CreateShm
  BY <1>1 DEF CreateShm
<1>2. CASE ResetFlags
  BY <1>2 DEF ResetFlags
<1>3. CASE CreateStatusMutex
  BY <1>3 DEF CreateStatusMutex
<1>4. CASE CreateClientWrote
  BY <1>4 DEF CreateClientWrote
<1>5. CASE CreateServerRead
  BY <1>5 DEF CreateServerRead
<1>6. CASE SetupFails
  BY <1>6 DEF SetupFails
<1>7. CASE ServerLock
  BY <1>7 DEF ServerLock
<1>8. CASE ServerReadStatus
  BY <1>8 DEF ServerReadStatus
<1>9. CASE AwaitWrote
  BY <1>9 DEF AwaitWrote
<1>10. CASE AnalyseCell
  BY <1>10 DEF AnalyseCell
<1>11. CASE ServerRelock
  BY <1>11 DEF ServerRelock
<1>12. CASE ServerSwitch
  BY <1>12 DEF ServerSwitch
<1>13. CASE ReleaseSector
  BY <1>13 DEF ReleaseSector
<1>14. CASE PostServerRead
  BY <1>14 DEF PostServerRead
<1>15. CASE ServerUnlock
  BY <1>15 DEF ServerUnlock
<1>16. CASE ServerFinish
  BY <1>16 DEF ServerFinish
<1>17. CASE \E r \in Records : HelperCall(r)
  BY <1>17 DEF HelperCall
<1>18. CASE OpenServerRead
  BY <1>18 DEF OpenServerRead
<1>19. CASE AwaitServer
  BY <1>19 DEF AwaitServer
<1>20. CASE Attach
  BY <1>20 DEF Attach
<1>21. CASE ClientLock
  BY <1>21 DEF ClientLock
<1>22. CASE ClientReadStatus
  BY <1>22 DEF ClientReadStatus
<1>23. CASE WriteCell
  BY <1>23 DEF WriteCell
<1>24. CASE ClientRelock
  BY <1>24 DEF ClientRelock
<1>25. CASE ClientSwitch
  BY <1>25 DEF ClientSwitch
<1>26. CASE PublishSector
  BY <1>26 DEF PublishSector
<1>27. CASE PostClientWrote
  BY <1>27 DEF PostClientWrote
<1>28. CASE ClientUnlock
  BY <1>28 DEF ClientUnlock
<1>29. CASE AwaitRead
  BY <1>29 DEF AwaitRead
<1>30. CASE UNCHANGED vars
  BY <1>30 DEF vars
<1> QED
  BY <1>1, <1>2, <1>3, <1>4, <1>5, <1>6, <1>7, <1>8, <1>9, <1>10, <1>11, <1>12, <1>13,
       <1>14, <1>15, <1>16, <1>17, <1>18, <1>19, <1>20, <1>21, <1>22, <1>23, <1>24,
       <1>25, <1>26, <1>27, <1>28, <1>29, <1>30 DEF Next, Setup, ServerLoop, HelperStep

(* Arithmetic for PaidStep. *)
LEMMA OneMore ==
    ASSUME NEW n \in Nat, NEW t \in Int, NEW u \in Int, NEW r \in Int,
           u <= t + 1, t * n <= r
    PROVE  u * n <= r + n
<1>1. u * n <= (t + 1) * n
  OBVIOUS
<1>2. (t + 1) * n = t * n + n
  OBVIOUS
<1> QED
  BY <1>1, <1>2

LEMMA NoMore ==
    ASSUME NEW n \in Nat, NEW t \in Int, NEW u \in Int, NEW r \in Int,
           u <= t, t * n <= r
    PROVE  u * n <= r
<1>1. u * n <= t * n
  OBVIOUS
<1> QED
  BY <1>1

(* Every dropped record stays paid for. *)
LEMMA PaidStep ==
    ASSUME ChannelInv, [Next]_vars
    PROVE  Paid'
<1> SUFFICES ASSUME Ready' PROVE Tokens' * NDATA <= Released' + NDATA
  BY DEF Paid
<1>1. NDATA \in Nat /\ Released \in Int
  BY TransferAssumption, CountTypes
<1>2. Released' = IF Releasing THEN Released + NDATA ELSE Released
  BY ReleasedStep
<1>3. CASE ~Ready /\ Tokens' = 1
  <2>1. Released >= 0
    BY DEF ChannelInv, Progress
  <2> QED
    BY <1>1, <1>2, <1>3, <2>1
<1>4. CASE Ready /\ Tokens' <= IF Releasing THEN Tokens + 1 ELSE Tokens
  <2>1. Tokens \in Int /\ Tokens' \in Int
    BY <1>4, TypeStep DEF ChannelInv, TypeOK, Tokens, NoSem
  <2>2. Tokens * NDATA <= Released + NDATA /\ Released + NDATA \in Int
    BY <1>1, <1>4 DEF ChannelInv, Paid
  <2>3. CASE Releasing
    <3>1. Tokens' <= Tokens + 1 /\ Released' = Released + NDATA
      BY <1>2, <1>4, <2>3
    <3>2. Tokens' * NDATA <= (Released + NDATA) + NDATA
      BY <1>1, <2>1, <2>2, <3>1, OneMore
    <3> QED
      BY <3>1, <3>2
  <2>4. CASE ~Releasing
    <3>1. Tokens' <= Tokens /\ Released' = Released
      BY <1>2, <1>4, <2>4
    <3>2. Tokens' * NDATA <= Released + NDATA
      BY <1>1, <2>1, <2>2, <3>1, NoMore
    <3> QED
      BY <3>1, <3>2
  <2> QED
    BY <2>3, <2>4
<1> QED
  BY <1>3, <1>4, TokenStep

(* Only five actions touch the cells, the sector indices or the two streams. *)
LEMMA QuietStep ==
    ASSUME ChannelInv, [Next]_vars,
           ~ResetFlags, ~AnalyseCell, ~ReleaseSector, ~WriteCell, ~PublishSector
    PROVE  /\ UNCHANGED <<shm, nextToRead, nextToWrite, sent, analysed, Filled>>
           /\ ~Publishing /\ ~Releasing
<1> USE DEF ChannelInv, StillTrue, Filled, Publishing, Releasing
<1>1. CASE CreateShm
  BY <1>1 DEF CreateShm
<1>2. CASE CreateStatusMutex
  BY <1>2 DEF CreateStatusMutex
<1>3. CASE CreateClientWrote
  BY <1>3 DEF CreateClientWrote
<1>4. CASE CreateServerRead
  BY <1>4 DEF CreateServerRead
<1>5. CASE SetupFails
  BY <1>5 DEF SetupFails
<1>6. CASE ServerLock
  BY <1>6 DEF ServerLock
<1>7. CASE ServerReadStatus
  BY <1>7 DEF ServerReadStatus
<1>8. CASE AwaitWrote
  BY <1>8 DEF AwaitWrote
<1>9. CASE ServerRelock
  BY <1>9 DEF ServerRelock
<1>10. CASE ServerSwitch
  BY <1>10 DEF ServerSwitch
<1>11. CASE PostServerRead
  BY <1>11 DEF PostServerRead
<1>12. CASE ServerUnlock
  BY <1>12 DEF ServerUnlock
<1>13. CASE ServerFinish
  BY <1>13 DEF ServerFinish
<1>14. CASE \E r \in Records : HelperCall(r)
  BY <1>14 DEF HelperCall
<1>15. CASE OpenServerRead
  BY <1>15 DEF OpenServerRead
<1>16. CASE AwaitServer
  BY <1>16 DEF AwaitServer
<1>17. CASE Attach
  BY <1>17 DEF Attach
<1>18. CASE ClientLock
  BY <1>18 DEF ClientLock
<1>19. CASE ClientReadStatus
  BY <1>19 DEF ClientReadStatus
<1>20. CASE ClientRelock
  BY <1>20 DEF ClientRelock
<1>21. CASE ClientSwitch
  BY <1>21 DEF ClientSwitch, TypeOK
<1>22. CASE PostClientWrote
  BY <1>22 DEF PostClientWrote
<1>23. CASE ClientUnlock
  BY <1>23 DEF ClientUnlock
<1>24. CASE AwaitRead
  BY <1>24 DEF AwaitRead
<1>25. CASE UNCHANGED vars
  BY <1>25 DEF vars
<1> QED
  BY <1>1, <1>2, <1>3, <1>4, <1>5, <1>6, <1>7, <1>8, <1>9, <1>10, <1>11, <1>12, <1>13,
       <1>14, <1>15, <1>16, <1>17, <1>18, <1>19, <1>20, <1>21, <1>22, <1>23, <1>24,
       <1>25 DEF Next, Setup, ServerLoop, HelperStep

(* The order of the counters along the stream, and of the server's reads. *)
LEMMA CountOrder ==
    ASSUME ChannelInv
    PROVE  /\ Filled \in 0 .. NDATA /\ Published \in Nat /\ Released \in Nat
           /\ Len(sent) = Published + Filled
           /\ Full = 0 => Published = Released
           /\ Full = 1 => Published = Released + NDATA
           /\ Full = 2 => Published = Released + NDATA + NDATA
           /\ Len(analysed) \in Nat /\ Len(analysed) <= Published
<1>a. /\ Full \in 0 .. 2 /\ Published \in Int /\ Released \in Int /\ Released >= 0
      /\ Released = Published - Full * NDATA /\ NDATA \in Nat
  BY CountTypes, TransferAssumption DEF Released, ChannelInv, Progress
<1>1. Filled \in 0 .. NDATA /\ Len(sent) = Published + Filled
  BY TransferAssumption DEF ChannelInv, TypeOK, Cell, Filled, Published
<1>2. /\ Full = 0 => Published = Released
      /\ Full = 1 => Published = Released + NDATA
      /\ Full = 2 => Published = Released + NDATA + NDATA
  BY <1>a
<1>3. Published \in Nat /\ Released \in Nat
  BY <1>a, <1>2
<1>4. Len(analysed) \in Nat /\ Len(analysed) <= Published
  <2>1. CASE spc \in {"scan", "switch", "release"}
    <3>1. Full # 0 /\ i <= NDATA /\ i \in Int
      BY <2>1 DEF ChannelInv, StillTrue, SetupOrder, SetupPcs, Ready, Full, TypeOK
    <3> QED
      BY <2>1, <3>1, <1>a, <1>2 DEF ChannelInv, Progress, TypeOK
  <2>2. CASE spc \notin {"scan", "switch", "release"}
    <3>1. Len(analysed) \in Nat /\ Len(analysed) <= Released
      BY <2>2, <1>a DEF ChannelInv, Progress, TypeOK, StillTrue, ServerPcs, SetupPcs
    <3> QED
      BY <3>1, <1>a, <1>2
  <2> QED
    BY <2>1, <2>2
<1> QED
  BY <1>1, <1>2, <1>3, <1>4

(* The cells keep holding the stream where the reader expects it. *)
LEMMA ContentsStep ==
    ASSUME ChannelInv, [Next]_vars
    PROVE  Contents'
<1>a. Contents /\ TypeOK /\ SetupOrder /\ FlagsAgree /\ StillTrue /\ Progress
  BY DEF ChannelInv
<1>b. NDATA \in Nat \ {0}
  BY TransferAssumption
<1>1. CASE ResetFlags
  <2>1. Full' = 0 /\ Filled' = 0 /\ analysed' = <<>>
    BY <1>1, <1>a DEF ResetFlags, SetupOrder, SetupPcs, Ready, Full, Filled
  <2> QED
    BY <2>1 DEF Contents, Cell
<1>2. CASE AnalyseCell
  <2>1. UNCHANGED <<shm, nextToRead, nextToWrite, sent, Filled, Full, Published, Released>>
    BY <1>2 DEF AnalyseCell, Filled, Full, Published, Released, Ready
  <2>2. shm[nextToRead][i] = sent[Len(analysed) + 1]
    <3>1. Full >= 1 /\ i \in Cell /\ Len(analysed) = Released + i
      BY <1>2, <1>a, <1>b
         DEF AnalyseCell, StillTrue, SetupOrder, Ready, SetupPcs, Full, TypeOK, Cell,
             Progress
    <3> QED
      BY <3>1, <1>a DEF Contents
  <2>3. \A k \in 1 .. Len(analysed') : analysed'[k] = sent[k]
    BY <1>2, <2>2, <1>a DEF AnalyseCell, Contents, TypeOK
  <2> QED
    BY <2>1, <2>3, <1>a DEF Contents
<1>3. CASE ReleaseSector
  <2>1. UNCHANGED <<shm, nextToWrite, sent, analysed, Filled, Published>>
    BY <1>3 DEF ReleaseSector, Filled, Published
  <2>2. Full' = Full - 1 /\ Released' = Released + NDATA /\ Full \in 0 .. 2
    BY <1>3, CountStep, ReleasedStep, CountTypes DEF ReleaseSector, Releasing
  <2>3. nextToRead' = 1 - nextToRead
    BY <1>3 DEF ReleaseSector
  <2> QED
    BY <2>1, <2>2, <2>3, <1>a DEF Contents
<1>4. CASE WriteCell
  <2>1. ~Publishing /\ ~Releasing /\ UNCHANGED <<nextToRead, nextToWrite, analysed>>
    BY <1>4 DEF WriteCell, Publishing, Releasing
  <2>2. UNCHANGED <<Full, Published, Released>>
    BY <2>1, CountStep, ReleasedStep
  <2>3. Filled' = cnt + 1 /\ Filled = cnt /\ Full # 2 /\ cnt \in Cell
    <3>1. /\ cpc = "write" /\ status # 3 /\ cnt \in Cell
          /\ \/ cnt # NDATA - 1 /\ cnt' = cnt + 1 /\ cpc' = "guest"
             \/ cnt = NDATA - 1 /\ cpc' = "lock"
      BY <1>4, <1>a DEF WriteCell, TypeOK, StillTrue
    <3>2. Full # 2
      BY <3>1 DEF Full
    <3>3. Filled = cnt
      BY <3>1 DEF Filled
    <3>4. CASE cnt' = cnt + 1 /\ cpc' = "guest"
      BY <3>1, <3>2, <3>3, <3>4 DEF Filled
    <3>5. CASE cnt = NDATA - 1 /\ cpc' = "lock"
      <4>1. cnt + 1 = NDATA
        BY <3>5, <1>b
      <4> QED
        BY <3>1, <3>2, <3>3, <3>5, <4>1 DEF Filled
    <3> QED
      BY <3>1, <3>4, <3>5
  <2>4. /\ \A k \in 1 .. Len(sent) : sent'[k] = sent[k]
        /\ sent'[Len(sent) + 1] = rec
    BY <1>4, <1>a DEF WriteCell, TypeOK
  <2>5. /\ \A k \in Cell : k # cnt => shm'[nextToWrite][k] = shm[nextToWrite][k]
        /\ shm'[nextToWrite][cnt] = rec
        /\ \A s \in Sector : s # nextToWrite => shm'[s] = shm[s]
    BY <1>4, <1>a DEF WriteCell, TypeOK
  <2>6. ASSUME NEW k \in Cell, k < Filled'
        PROVE  shm'[nextToWrite][k] = sent'[Published + k + 1]
    <3>1. CASE k = cnt
      BY <3>1, <2>3, <2>4, <2>5, CountOrder
    <3>2. CASE k # cnt
      <4>1. k < Filled /\ Published + k + 1 \in 1 .. Len(sent)
        BY <3>2, <2>3, <2>6, <1>b, CountOrder DEF Cell
      <4> QED
        BY <3>2, <4>1, <2>4, <2>5, <1>a DEF Contents
    <3> QED
      BY <3>1, <3>2
  <2>7. ASSUME Full >= 1, NEW k \in Cell
        PROVE  shm'[nextToRead][k] = sent'[Released + k + 1]
    <3>1. nextToRead \in Sector /\ nextToRead # nextToWrite
      BY <2>3, <2>7, <1>a DEF Full, FlagsAgree, TypeOK
    <3>2. Released + k + 1 \in 1 .. Len(sent)
      BY <2>3, <2>7, <1>b, CountOrder, CountTypes DEF Cell
    <3> QED
      BY <3>1, <3>2, <2>4, <2>5, <2>7, <1>a DEF Contents
  <2>8. \A k \in 1 .. Len(analysed) : k \in 1 .. Len(sent)
    BY <1>b, CountOrder
  <2>9. \A k \in 1 .. Len(analysed) : analysed[k] = sent'[k]
    BY <2>4, <2>8, <1>a DEF Contents
  <2> QED
    BY <2>1, <2>2, <2>3, <2>6, <2>7, <2>9 DEF Contents
<1>5. CASE PublishSector
  <2>1. UNCHANGED <<shm, nextToRead, sent, analysed>> /\ Publishing
    BY <1>5 DEF PublishSector, Publishing
  <2>2. Full' = Full + 1 /\ Released' = Released
    BY <2>1, CountStep, ReleasedStep
  <2>3. Filled = NDATA /\ Filled' = 0
    BY <1>5, <1>a DEF PublishSector, Filled, StillTrue
  <2>4. \A k \in Cell : shm[nextToWrite][k] = sent[Published + k + 1]
    BY <2>3, <1>a, <1>b DEF Contents, Cell
  <2>5. \A k \in Cell : ~(k < 0)
    BY <1>b DEF Cell
  <2>6. \/ Full = 0 /\ nextToRead = nextToWrite
        \/ Full = 1 /\ nextToWrite = 1 - nextToRead
    BY <1>5, <1>a DEF PublishSector, Full, FlagsAgree, SetupOrder, StillTrue, TypeOK, Sector
  <2>7. CASE Full = 0 /\ nextToRead = nextToWrite
    BY <2>1, <2>2, <2>3, <2>4, <2>5, <2>7, <1>a, CountOrder DEF Contents
  <2>8. CASE Full = 1 /\ nextToWrite = 1 - nextToRead
    BY <2>1, <2>2, <2>3, <2>4, <2>5, <2>8, <1>a, CountOrder DEF Contents
  <2> QED
    BY <2>6, <2>7, <2>8
<1>6. CASE ~(ResetFlags \/ AnalyseCell \/ ReleaseSector \/ WriteCell \/ PublishSector)
  <2>1. UNCHANGED <<shm, nextToRead, nextToWrite, sent, analysed, Filled>>
    BY <1>6, QuietStep
  <2>2. UNCHANGED <<Full, Published, Released>>
    BY <1>6, QuietStep, CountStep, ReleasedStep
  <2> QED
    BY <2>1, <2>2, <1>a DEF Contents
<1> QED
  BY <1>1, <1>2, <1>3, <1>4, <1>5, <1>6


-----------------------------------------------------------------------------
(* The theorems. *)

(* ChannelInv holds in every reachable state of the channel, for every sector *)
(* size, number of wanted records and set of records.                         *)
THEOREM ChannelInvariant == Spec => []ChannelInv
<1>1. ChannelInv /\ [Next]_vars => ChannelInv'
  BY TypeStep, SetupStep, MutexStep, FlagStep, StillStep, ProgressStep, ContentsStep,
     PaidStep, WakeStep DEF ChannelInv
<1> QED
  BY <1>1, InitInv, PTL DEF Spec

(* Type correctness of both processes, the memory and the semaphores; in       *)
(* particular statusMutex never exceeds 1.                                     *)
THEOREM TypeCorrect == Spec => []TypeOK
<1>1. ChannelInv => TypeOK
  BY DEF ChannelInv
<1> QED
  BY <1>1, ChannelInvariant, PTL

(* Helper and server never work on the same sector at the same time. *)
THEOREM SectorsExclusive == Spec => []SectorExclusive
<1>1. ChannelInv => SectorExclusive
  BY DEF ChannelInv, SectorExclusive, StillTrue, FlagsAgree, SetupOrder, SetupPcs, Ready,
         TypeOK
<1> QED
  BY <1>1, ChannelInvariant, PTL

(* The predictor sees the stored records in order, each once and unspoilt. *)
THEOREM AnalysedInOrder == Spec => []InOrder
<1>1. ChannelInv => InOrder
  <2> SUFFICES ASSUME ChannelInv PROVE InOrder
    OBVIOUS
  <2>1. Len(analysed) <= Len(sent)
    BY CountOrder, TransferAssumption
  <2> QED
    BY <2>1 DEF ChannelInv, Contents, InOrder
<1> QED
  BY <1>1, ChannelInvariant, PTL

(* Neither process ever reaches the "status out of range" exit. *)
THEOREM StatusInRange == Spec => []NoStatusError
<1>1. ChannelInv => NoStatusError
  BY DEF ChannelInv, StillTrue, NoStatusError
<1> QED
  BY <1>1, ChannelInvariant, PTL

(* Helper and server never wait for each other. *)
THEOREM DeadlockFree == Spec => []NoDeadlock
<1>1. ChannelInv => NoDeadlock
  BY DEF ChannelInv, WakeUps, NoDeadlock, ClientBlocked, ServerBlocked
<1> QED
  BY <1>1, ChannelInvariant, PTL

(* At most one record is dropped per sector handed back, and one on attaching. *)
THEOREM LossIsBounded == Spec => []LossBounded
<1>1. ChannelInv => LossBounded
  <2> SUFFICES ASSUME ChannelInv PROVE LossBounded
    OBVIOUS
  <2>1. NDATA \in Nat /\ Released \in Nat /\ Released + NDATA \in Int
    BY TransferAssumption, CountOrder
  <2>2. CASE ~Ready
    BY <2>1, <2>2 DEF ChannelInv, SetupOrder, LossBounded
  <2>3. CASE Ready
    <3>1. Tokens \in Int /\ lost \in Int /\ lost <= Tokens
      BY <2>3 DEF ChannelInv, TypeOK, Ready, NoSem, Tokens
    <3>2. Tokens * NDATA <= Released + NDATA
      BY <2>3 DEF ChannelInv, Paid
    <3> QED
      BY <2>1, <3>1, <3>2, NoMore DEF LossBounded
  <2> QED
    BY <2>2, <2>3
<1> QED
  BY <1>1, ChannelInvariant, PTL

(* Under the invariant every step of the channel is a step of the abstract      *)
(* stream or leaves it unchanged.                                               *)
LEMMA StreamStep ==
    ASSUME ChannelInv, [Next]_vars
    PROVE  [Stream!Next]_(Stream!streamVars)
<1>a. /\ Full \in 0 .. 2 /\ NDATA \in Nat \ {0}
      /\ TypeOK /\ StillTrue /\ SetupOrder /\ Progress /\ Contents
  BY CountTypes, TransferAssumption DEF ChannelInv
<1>1. CASE WriteCell
  <2>1. Stream!Store(rec)
    <3>1. ~Publishing /\ ~Releasing /\ UNCHANGED <<analysed, lost>> /\ sent' = Append(sent, rec)
      BY <1>1 DEF WriteCell, Publishing, Releasing
    <3>2. UNCHANGED <<Published, Released>>
      BY <3>1, CountStep, ReleasedStep
    <3>3. Full # 2 /\ Filled < NDATA
      BY <1>1, <1>a DEF WriteCell, StillTrue, TypeOK, Cell, Full, Filled
    <3> QED
      BY <3>1, <3>2, <3>3, <1>a, CountOrder DEF Stream!Store
  <2>2. rec \in Records
    BY <1>1, <1>a DEF WriteCell, StillTrue
  <2> QED
    BY <2>1, <2>2 DEF Stream!Next
<1>2. CASE PublishSector
  <2>1. Publishing /\ UNCHANGED <<sent, analysed, lost>> /\ Filled = NDATA
    BY <1>2 DEF PublishSector, Publishing, Filled
  <2>2. Published' = Published + NDATA /\ Released' = Released
    BY <2>1, CountStep, ReleasedStep
  <2> QED
    BY <2>1, <2>2, CountOrder DEF Stream!Next, Stream!Publish
<1>3. CASE AnalyseCell
  <2>1. ~Publishing /\ ~Releasing /\ UNCHANGED <<sent, lost>>
    BY <1>3 DEF AnalyseCell, Publishing, Releasing
  <2>2. UNCHANGED <<Published, Released>>
    BY <2>1, CountStep, ReleasedStep
  <2>3. /\ Full >= 1 /\ i \in Cell /\ i < NDATA /\ Len(analysed) = Released + i
        /\ Len(analysed) < DesiredIstr
    BY <1>3, <1>a
       DEF AnalyseCell, StillTrue, SetupOrder, Ready, SetupPcs, Full, TypeOK, Cell,
           Progress, iCount
  <2>4. Released + NDATA <= Published /\ Len(analysed) < Released + NDATA
    BY <2>3, <1>a, CountOrder DEF Cell
  <2>5. analysed' = Append(analysed, sent[Len(analysed) + 1])
    BY <1>3, <2>3, <1>a DEF AnalyseCell, Contents
  <2> QED
    BY <2>1, <2>2, <2>3, <2>4, <2>5 DEF Stream!Next, Stream!Analyse
<1>4. CASE ReleaseSector
  <2>1. Releasing /\ UNCHANGED <<sent, analysed, lost>>
    BY <1>4 DEF ReleaseSector, Releasing
  <2>2. Published' = Published /\ Released' = Released + NDATA
    BY <2>1, CountStep, ReleasedStep
  <2>3. Full >= 1 /\ (Len(analysed) = Released + NDATA \/ Len(analysed) = DesiredIstr)
    BY <1>4, <1>a DEF ReleaseSector, StillTrue, SetupOrder, Ready, SetupPcs, Full, Progress
  <2>4. Released + NDATA <= Published
    BY <2>3, <1>a, CountOrder
  <2> QED
    BY <2>1, <2>2, <2>3, <2>4 DEF Stream!Next, Stream!Release
<1>5. CASE (Attach /\ lost' = lost + 1) \/ AwaitRead
  <2>1. ~Publishing /\ ~Releasing /\ UNCHANGED <<sent, analysed>> /\ lost' = lost + 1
    BY <1>5 DEF Attach, AwaitRead, Publishing, Releasing
  <2>2. UNCHANGED <<Published, Released>>
    BY <2>1, CountStep, ReleasedStep
  <2>3. lost + 1 <= Tokens /\ Tokens \in Int /\ lost \in Nat /\ Ready
    BY <1>5, <1>a DEF Attach, AwaitRead, TypeOK, SetupOrder, Ready, NoSem, Tokens
  <2>4. (lost + 1) * NDATA <= Released + NDATA
    BY <2>3, <1>a, CountOrder, NoMore DEF ChannelInv, Paid
  <2>5. (lost + 1) * NDATA = lost * NDATA + NDATA
    BY <2>3, <1>a
  <2>6. lost * NDATA <= Released
    BY <2>3, <2>4, <2>5, <1>a, CountOrder
  <2> QED
    BY <2>1, <2>2, <2>6 DEF Stream!Next, Stream!Drop
<1>6. CASE ~(\/ WriteCell \/ PublishSector \/ AnalyseCell \/ ReleaseSector
             \/ (Attach /\ lost' = lost + 1) \/ AwaitRead)
  <2>1. UNCHANGED <<sent, analysed, lost>>
    BY <1>6 DEF Next, Setup, ServerLoop, HelperStep, CreateShm, ResetFlags,
       CreateStatusMutex, CreateClientWrote, CreateServerRead, SetupFails, ServerLock,
       ServerReadStatus, AwaitWrote, ServerRelock, ServerSwitch, PostServerRead,
       ServerUnlock, ServerFinish, HelperCall, OpenServerRead, AwaitServer, Attach,
       ClientLock, ClientReadStatus, ClientRelock, ClientSwitch, PostClientWrote,
       ClientUnlock
  <2>2. ~Publishing /\ ~Releasing
    <3>1. CASE ResetFlags
      BY <3>1 DEF ResetFlags, Publishing, Releasing
    <3>2. CASE ~ResetFlags
      BY <3>2, <1>6, QuietStep
    <3> QED
      BY <3>1, <3>2
  <2>3. UNCHANGED <<Published, Released>>
    BY <2>2, CountStep, ReleasedStep
  <2> QED
    BY <2>1, <2>3 DEF Stream!streamVars
<1> QED
  BY <1>1, <1>2, <1>3, <1>4, <1>5, <1>6

(* The channel implements the abstract stream: nothing the double buffer, its   *)
(* flags and its semaphores do is visible beyond the actions of BranchStream.   *)
THEOREM Refinement == Spec => ImplementsStream
<1>1. Init => Stream!Init
  BY TransferAssumption DEF Init, Stream!Init, Published, Released, Full, Ready, NoSem
<1>2. ChannelInv /\ [Next]_vars => [Stream!Next]_(Stream!streamVars)
  BY StreamStep
<1> QED
  BY <1>1, <1>2, ChannelInvariant, PTL DEF Spec, ImplementsStream, Stream!Spec

=============================================================================
