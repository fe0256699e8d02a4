------------------------------- MODULE Programs -------------------------------
(***************************************************************************)
(* The smaller programs side by side.  One of them is chosen in the        *)
(* initial state; the variables of the others do not change.               *)
(*                                                                         *)
(* A thread of any of them has a number, so that a fairness condition or a *)
(* leads-to property is about the thread of that number in each program.   *)
(***************************************************************************)
EXTENDS EventPC, TestTHB, Handshake, MutexSemQueue, ServerSK, JobMgt

CONSTANTS Chosen,               \* the programs to check
          Numbers,              \* of the threads, from 0
          Senders, Receivers, Removers, NoThread, q_max, b_max,
          MQ_MAX_MESSAGE_SIZE, MQ_MAX_BYTES_IN_QUEUE, LONG,
          Types, Sizes, MsgTypes, Buffers, Keys, MaxBytes,
          MAX_CLIENTS,
          Writers, FirstWriter, WriterRequests, SRWMaxElements,
          MAX_CLIENTS_CP, MAX_SERVER_TH, MaxLines, Leavers,
          MAX_OVRLP, MaxRecords,
          nRec, CrewSizes, SortKeys, fileSize, blockSize, nThreads, MAX_MISMATCH, Files,
          Sockets, Lengths, MAX_MESSAGE_LEN, MaxSends

VARIABLES
  program,
  f_consumed, main,
  msg_key, msg_busy, msg_cbytes, msg_qnum, msg_qbytes, msg_list, q_current, b_current,
  q_guard, call, callArg,
  npShutDown, npipe, request, conTh, hConTh, server, monitor, npMain, late,
  overwritten,
  q, nRequestNum, g_fShutdown, srwHolders, qpc, stopping, sleptLate,
  cpShutDown, cpMain, iNp, npState, lines, io, port, cpThread, cpKey, cancelled, cpClient,
  nRecords, offset, overLapOut, overLap, completed, bBuffer, outFile,
  nDone, nReadsInProgress, nWritesInProgress, liNextReadOffset, WorkerId,
  crew, crewMain, numThreads, pRecords, given, twoToI, pDest, differ, mmLocation, curPos,
  pFile, contents, tHandle, targv, searched, reported,
  nRemainSend, nSends, socket, disconnected, staticBuf, sd, receiver, record, nRemainRecv,
  pending,
  shutDown, dwCurrentState, hSStat, service, dispatcher, update, sent, manager, overtaken

multiOnly == <<f_consumed, main>>
messageVars == <<eventVars, multiOnly>>
msgVars == <<msg_key, msg_busy, msg_cbytes, msg_qnum, msg_qbytes, msg_list, q_current,
             b_current, q_guard, call, callArg>>
npVars == <<npShutDown, npipe, request, conTh, hConTh, server, monitor, npMain, late,
            overwritten>>
srwVars == <<q, nRequestNum, g_fShutdown, srwHolders, qpc, stopping, sleptLate>>
cpVars == <<cpShutDown, cpMain, iNp, npState, lines, io, port, cpThread, cpKey, cancelled,
            cpClient>>
fileVars == <<nRecords, offset, overLapOut, overLap, completed, bBuffer, outFile, nDone,
              nReadsInProgress, nWritesInProgress, liNextReadOffset, WorkerId>>
crewVars == <<crew, crewMain, numThreads, pRecords, given, twoToI, pDest, differ, mmLocation,
              curPos, pFile, contents, tHandle, targv, searched, reported>>
streamVars == <<nRemainSend, nSends, socket, disconnected, staticBuf, sd, receiver, record,
                nRemainRecv, pending>>
serviceVars == <<shutDown, dwCurrentState, hSStat, service, dispatcher, update, sent, manager,
                 overtaken>>

programVars == <<program, messageVars, testVars, msgVars, npVars, skVars, srwVars, msqVars,
                 handVars, jobVars, cpVars, fileVars, crewVars, streamVars,
                 serviceVars>>

Multi == INSTANCE MultiPCav
Msg == INSTANCE MsgEmulation WITH pc <- call, arg <- callArg
\* One client sends commands, the other asks for the shut down.
NP == INSTANCE ServerNP
        WITH Requests <- [i \in 1 .. MAX_CLIENTS |->
                            IF i = 1 THEN {"command"} ELSE {"$ShutDownServer"}]
SRW == INSTANCE SRWQueue
         WITH m_nMaxElements <- SRWMaxElements,
              MaxRequests <- [w \in Writers |-> WriterRequests + (IF w = FirstWriter THEN 1 ELSE 0)]
CP == INSTANCE ServerNPCP
File == INSTANCE OverlappedFiles WITH converter <- program, request <- overLap, buffer <- bBuffer
Crew == INSTANCE WorkCrew WITH tool <- program, CrewThreads <- Numbers
Stream == INSTANCE MessageStream WITH library <- program
Simple == INSTANCE Services

ASSUME ProgramsAssumption ==
  /\ CP!ServerCPAssumption /\ Crew!WorkCrewAssumption /\ JobAssumption
  /\ Stream!StreamAssumption /\ MSQAssumption /\ SlotsAssumption
  /\ File!FilesAssumption /\ Msg!MsgAssumption

MessageProgram == {"simplePC", "eventPC", "multiPCav"}
FileProgram == File!Converter
CrewProgram == {"sortMT", "compMP", "grepMT"}
StreamProgram == {"SendReceiveSKST", "SendReceiveSKHA"}

ProgramsInit ==
  /\ program \in Chosen
  /\ IF program = "multiPCav"
     THEN Multi!MultiInit /\ nCons = 0 /\ nLost = 0 /\ mReady = FALSE
     ELSE EventInit /\ f_consumed = TRUE /\ main = "prompt"
  /\ TestInit /\ (program # "testTHB" => workers = {})
  /\ Msg!Init /\ NP!NPInit /\ SKInit /\ SRW!QInit
  /\ MSQInit /\ HandInit /\ JobInit
  /\ CP!CPInit /\ File!FilesInit /\ Crew!CrewInit
  /\ Stream!StreamInit /\ Simple!ServicesInit

InSimple(step) == program = "simplePC" /\ step /\ UNCHANGED <<mReady, multiOnly>>
InEvent(step) == program = "eventPC" /\ step /\ UNCHANGED multiOnly
InMulti(step) == program = "multiPCav" /\ step /\ UNCHANGED <<countVars, mReady>>

-----------------------------------------------------------------------------
(* What runs by itself: thread n of each program, and its main thread.     *)

Thread(n) ==
  \/ n \in ThbThreads /\ program = "testTHB" /\ (CreateWorker(n) \/ Worker(n))
  \/ n = Consumer /\ (InSimple(SimpleConsume) \/ InEvent(EventConsume))
  \/ n \in Consumers /\ InMulti(Multi!MultiConsume(n))
  \/ n \in Msg!Caller /\ program = "msg_emulation" /\ Msg!GoesOn(n)
  \/ n \in NP!Instance /\ program = "serverNP" /\ NP!Server(n)
  \/ \E i \in NP!Instance : n = (i + MAX_CLIENTS) % (2 * MAX_CLIENTS)
       /\ program = "serverNP" /\ NP!Connect(i)
  \/ n \in Slot /\ program = "serverSK" /\ (StopServer(n) \/ ServesItself(n))
  \/ n = SK_CLIENTS /\ program = "serverSK" /\ (StartServer \/ MarkRunning)
  \/ n \in SRW!Readers /\ program = "08-Queue" /\ SRW!Reader(n)
  \/ n \in Writers /\ program = "08-Queue" /\ SRW!Writer(n)
  \/ program = "serverNPCP" /\ CP!CpGoesOn(n)
  \/ program \in FileProgram /\ n \in File!Buffer /\ File!FileThread(n)
  \/ program \in CrewProgram /\ Crew!CrewGoesOn(n)
  \/ program \in StreamProgram /\ n \in Sockets /\ Stream!Receiver(n)
  \/ program = "SimpleService" /\ n = 0 /\ Simple!ServiceThread

MainThread ==
  \/ program = "testTHB" /\ (WaitForWorkers \/ Close)
  \/ InSimple(SimpleProduce) \/ InEvent(EventProduce) \/ InMulti(Multi!MultiProduce)
  \/ program = "serverNP" /\ (NP!BroadcastEnds \/ NP!CancelIo \/ NP!ServerExit)
  \/ program = "serverSK" /\ Main
  \/ program = "08-Queue" /\ SRW!FreeThreads
  \/ program = "serverNPCP" /\ CP!CpMainStep
  \/ program \in FileProgram /\ File!FileMain
  \/ program \in CrewProgram /\ Crew!CrewMainStep
  \/ program = "SimpleService" /\ Simple!DispatcherThread

\* What nobody has to do: users, clients, callers, and spurious wake-ups; and
\* the programs of which only safety is claimed.
Environment ==
  \/ InSimple(ConsumerStop \/ ConsumerAsk)
  \/ InEvent(AskStop \/ AskMessage)
  \/ InMulti(Multi!Main \/ Multi!SpuriousWakeup)
  \/ program = "msg_emulation" /\ Msg!Calling
  \/ program = "serverNP" /\ NP!Users
  \/ program = "serverSK" /\ (SKHandler \/ Accept \/ \E s \in Slot : ServeSlot(s))
  \/ /\ program = "08-Queue"
     /\ SRW!SetShutdown \/ SRW!JoinThreads \/ \E w \in Writers : SRW!SpuriousWakeup(w)
  \/ program = "09-Queue" /\ MSQNext
  \/ program = "Handshake" /\ HandNext
  \/ program = "JobShell" /\ JobNext
  \/ program = "serverNPCP" /\ CP!CpEnvironment
  \/ program \in StreamProgram /\ \E s \in Sockets : Stream!Sender(s)
  \/ program = "SimpleService" /\ Simple!Control

\* The variables of the programs that were not chosen.
Frozen(programs, vs) == IF program \in programs THEN TRUE ELSE UNCHANGED vs

ProgramsNext ==
  /\ (\E n \in Numbers : Thread(n)) \/ MainThread \/ Environment
  /\ UNCHANGED program
  /\ Frozen(MessageProgram, messageVars)
  /\ Frozen({"testTHB"}, testVars)
  /\ Frozen({"msg_emulation"}, msgVars)
  /\ Frozen({"serverNP"}, npVars)
  /\ Frozen({"serverSK"}, skVars)
  /\ Frozen({"08-Queue"}, srwVars)
  /\ Frozen({"09-Queue"}, msqVars)
  /\ Frozen({"Handshake"}, handVars)
  /\ Frozen({"JobShell"}, jobVars)
  /\ Frozen({"serverNPCP"}, cpVars)
  /\ Frozen(FileProgram, fileVars)
  /\ Frozen(CrewProgram, crewVars)
  /\ Frozen(StreamProgram, streamVars)
  /\ Frozen({"SimpleService"}, serviceVars)

\* The variables of the program chosen.
Own == CASE program \in MessageProgram -> messageVars
         [] program = "testTHB" -> testVars
         [] program = "msg_emulation" -> msgVars
         [] program = "serverNP" -> npVars
         [] program = "serverSK" -> skVars
         [] program = "08-Queue" -> srwVars
         [] program = "serverNPCP" -> cpVars
         [] program \in FileProgram -> fileVars
         [] program \in CrewProgram -> crewVars
         [] program \in StreamProgram -> streamVars
         [] program = "SimpleService" -> serviceVars
         [] OTHER -> <<>>

ThreadGoesOn(n) == Thread(n) /\ UNCHANGED program
MainGoesOn == MainThread /\ UNCHANGED program

\* A thread that can go on does so in the end: it is scheduled, and finite waits
\* end.  Strong fairness is for the threads of serverSK.c that want a critical
\* section which main enters again and again; the others do without.
ProgramsFairness ==
  /\ \A n \in Slot : SF_Own(ThreadGoesOn(n))
  /\ \A n \in Numbers \ Slot : WF_Own(ThreadGoesOn(n))
  /\ WF_Own(MainGoesOn)

ProgramsSpec == ProgramsInit /\ [][ProgramsNext]_programVars /\ ProgramsFairness
-----------------------------------------------------------------------------
(***************************************************************************)
(* No message is displayed twice or half filled; in multiPCav.c every      *)
(* message is consumed, by one consumer.  ReceiveCSMessage returns what    *)
(* was sent, whole and once, however send and recv divide the characters,  *)
(* unless it runs out of its count of them before a null has come.         *)
(***************************************************************************)
MessagesOnce ==
  CASE program = "multiPCav" -> Multi!EachConsumedOnce
    [] program \in StreamProgram -> Stream!MessagesFramed
    [] OTHER -> DisplayedOnce

(***************************************************************************)
(* The counts of eventPC.c; those of simplePC.c go over mSequence by two.  *)
(***************************************************************************)
CountsBoundedInEventPC == program = "eventPC" => CountsBounded

(***************************************************************************)
(* eventPC.c announces every message.                                      *)
(***************************************************************************)
ReadyIsAnnouncedInEventPC == program = "eventPC" => ReadyIsAnnounced

(***************************************************************************)
(* msg_emulation.c: what it counts of a queue is never below what is in it. *)
(***************************************************************************)
StatusCoversMessages == Msg!StatusCoversMessages

(***************************************************************************)
(* serverNPCP.C: a pipe has one operation, packet or thread at a time.     *)
(***************************************************************************)
OneOperationPerPipe == CP!OneOperationPerPipe

(***************************************************************************)
(* cciOV.C and its relatives, FileCopy.cpp: every record is converted, or  *)
(* copied, once, and to its place.                                         *)
(***************************************************************************)
FilesConverted == program \in FileProgram => File!FilesConverted

(***************************************************************************)
(* sortMT.c: the file is sorted when main has waited for thread 0 alone.   *)
(***************************************************************************)
SortedInTheEnd == Crew!SortedInTheEnd

(***************************************************************************)
(* compMP.c: the first mismatches are found, in any order of the threads.  *)
(***************************************************************************)
LowestMismatches == Crew!LowestMismatches

(***************************************************************************)
(* grepMT.c: each result is reported once, under the name of its file.     *)
(***************************************************************************)
ResultsReported == Crew!ResultsReported

\* Somebody waits for something that is there, or owed.
Waiting ==
  \/ program = "testTHB" /\ ThresholdReached
  \/ program = "eventPC" /\ pc[Consumer] = "wait" /\ (fReady \/ mSequence < MaxMessages)
  \/ program = "multiPCav" /\ fReady /\ \E c \in Consumers : pc[c] # "none"
  \/ program = "msg_emulation" /\ Msg!SomeText
  \/ program = "serverNP" /\ NP!AwaitsAnswer
  \/ program = "serverNPCP" /\ CP!AwaitsResponse
  \/ program = "08-Queue"

Served ==
  CASE program = "testTHB" -> AllReleased
    [] program = "eventPC" -> pc[Consumer] # "wait"
    [] program = "multiPCav" -> ~fReady \/ fStop
    [] program = "msg_emulation" -> Msg!TextsReceived
    [] program = "serverNP" -> NP!Answered
    [] program = "serverNPCP" -> CP!Responded
    [] program = "08-Queue" -> SRW!RequestsDone
    [] OTHER -> TRUE

(***************************************************************************)
(* Nobody waits for ever for what is there or owed: the threads at the     *)
(* barrier when enough have come; the consumer of eventPC.c, when there is *)
(* a message or one is still to come; a message that is ready in           *)
(* multiPCav.c, where signals may be sent when nobody waits, and the       *)
(* two-second waits see to it; a receiver in msg_emulation.c; a client of  *)
(* serverNP.C, and one of serverNPCP.C while there are threads; the        *)
(* requests of 08-Queue, and the writers that wait for room.               *)
(***************************************************************************)
WaitsAreServed == Waiting ~> Served

\* The producer of multiPCav.c waits for ever when no consumer is left to
\* signal mconsumed, and main, which has signalled mReady, waits for it.
ProducerStuck ==
  /\ program = "multiPCav" /\ pc[Producer] = "wait"
  /\ \A c \in Consumers : pc[c] \in {"none", "done"}

Stopping ==
  \/ program \in MessageProgram /\ fStop
  \/ program = "testTHB" /\ TestMustEnd
  \/ program = "serverNP" /\ npShutDown
  \/ program = "serverSK" /\ shutFlag
  \/ program = "08-Queue" /\ g_fShutdown
  \/ program = "serverNPCP" /\ cpShutDown
  \/ program \in StreamProgram /\ Stream!AllDisconnected
  \/ program = "SimpleService" /\ shutDown
  \/ program \in FileProgram \cup CrewProgram

Stopped ==
  CASE program \in MessageProgram ->
         \A t \in Threads : \/ pc[t] \in {"none", "done"}
                            \/ t = Producer /\ ProducerStuck
    [] program = "testTHB" -> TestEnded
    [] program = "serverNP" -> NP!ServerStopped
    [] program = "serverSK" -> ShutDownEnded
    [] program = "08-Queue" -> SRW!ThreadsStopped
    [] program = "serverNPCP" -> CP!CpEnded
    [] program \in FileProgram -> File!FileEnded
    [] program \in CrewProgram -> Crew!CrewEnded
    [] program \in StreamProgram -> Stream!ReceiversEnded
    [] program = "SimpleService" -> Simple!ServiceEnded
    [] OTHER -> TRUE

(***************************************************************************)
(* A program that has been told to stop ends, with all its threads, but    *)
(* for the exceptions that its module names; and so do, by themselves, the *)
(* programs that work on files, and the receivers of messages when all the *)
(* peers have left.                                                        *)
(***************************************************************************)
StopsEnd == Stopping ~> Stopped
=============================================================================
