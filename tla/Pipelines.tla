------------------------------ MODULE Pipelines ------------------------------
(***************************************************************************)
(* The three-stage programs side by side: ThreeStage.c over a queue whose  *)
(* calls wait as long as asked ("ThreeStage"), the same over               *)
(* QueueObjSig_noSOAW.c ("ThreeStageSig_noSOAW"), ThreeStageCancel.c, and  *)
(* ThreeStagePthreads/ThreeStage.c.                                        *)
(* One of them is chosen in the initial state.  What a pipeline is for is  *)
(* stated once, here, for the programs that achieve it.                    *)
(***************************************************************************)
EXTENDS Pipeline

CONSTANTS Programs,    \* the programs to choose from
          ShortPairs,  \* bound on npc in the programs whose waits are finite
          MAX_RETRY    \* of ThreeStagePthreads

ASSUME ProgramsAssumption ==
  /\ Programs \subseteq {"ThreeStage", "ThreeStageSig_noSOAW", "ThreeStageCancel",
                         "ThreeStagePthreads"}
  /\ MAX_RETRY \in Nat \ {0}
  /\ ShortPairs \in 1 .. MaxPairs

VARIABLES program,                        \* the program that runs
          running, tLeft, rLeft,          \* of ThreeStage
          late,                           \* of ThreeStageSig_noSOAW
          apc, shutDownGet, ShutDownPut,  \* of ThreeStageCancel
          AllProduced, Retries            \* of ThreeStagePthreads

countVars == <<running, tLeft, rLeft>>
cancelVars == <<apc, shutDownGet, ShutDownPut>>
retryVars == <<AllProduced, Retries>>
vars == <<pipelineVars, program, countVars, late, cancelVars, retryVars>>

Plain == INSTANCE ThreeStage
Timed == INSTANCE ThreeStageSig_noSOAW
Cancel == INSTANCE ThreeStageCancel
Pthreads == INSTANCE ThreeStagePthreads

Init == /\ program \in Programs
        /\ npc \in 1 .. (IF program \in {"ThreeStage", "ThreeStageCancel"}
                        THEN MaxPairs ELSE ShortPairs)
        /\ Timed!TimedInit
        /\ Cancel!Init
        /\ Pthreads!Init

\* A step of one of the programs.
InPlain(step) == /\ program = "ThreeStage" /\ step
                 /\ UNCHANGED <<program, npc, late, cancelVars, retryVars>>
InTimed(step) == /\ program = "ThreeStageSig_noSOAW" /\ step
                 /\ UNCHANGED <<program, npc, cancelVars, retryVars>>
InCancel(step) == /\ program = "ThreeStageCancel" /\ step
                  /\ UNCHANGED <<program, npc, countVars, late, retryVars>>
InPthreads(step) == /\ program = "ThreeStagePthreads" /\ step
                    /\ UNCHANGED <<program, npc, countVars, late, cancelVars>>

Producer(p) == \/ InPlain(Plain!Producer(p))
               \/ InTimed(Timed!TimedProducer(p))
               \/ InCancel(Cancel!Producer(p))
               \/ InPthreads(Pthreads!Producer(p))
Consumer(c) == \/ InPlain(Plain!Consumer(c))
               \/ InTimed(Timed!TimedConsumer(c))
               \/ InCancel(Cancel!Consumer(c))
               \/ InPthreads(Pthreads!Consumer(c))
Transmitter == \/ InPlain(Plain!Transmitter)
               \/ InTimed(Timed!TimedTransmitter)
               \/ InCancel(Cancel!Transmitter)
               \/ InPthreads(Pthreads!Transmitter)
Receiver == \/ InPlain(Plain!Receiver)
            \/ InTimed(Timed!TimedReceiver)
            \/ InCancel(Cancel!Receiver)
            \/ InPthreads(Pthreads!Receiver)
Boss == \/ InPlain(Plain!Boss)
        \/ InTimed(Timed!TimedBoss)
        \/ InCancel(Cancel!Boss)
        \/ InPthreads(Pthreads!Boss)

Next == \/ \E i \in Pair : Producer(i) \/ Consumer(i)
        \/ Transmitter
        \/ Receiver
        \/ Boss

Spec == Init /\ [][Next]_vars

\* Threads keep running, short waits end, and a queued APC runs when its
\* thread waits.  A call that waits on a queue is served although others call
\* too: several producers compete for the room in p2tq.
Fairness == /\ \A i \in 1 .. MaxPairs : /\ SF_vars(i \in Pair /\ Producer(i))
                                        /\ WF_vars(i \in Pair /\ Consumer(i))
            /\ WF_vars(Transmitter) /\ WF_vars(Receiver) /\ WF_vars(Boss)

FairSpec == Spec /\ Fairness

-----------------------------------------------------------------------------
TypeOK ==
  /\ program \in Programs
  /\ PipelineTypeOK
  /\ running \subseteq {"producer", "consumer"} \X Pair
  /\ tLeft \in 0 .. npc /\ rLeft \in 0 .. npc
  /\ late \subseteq Timed!Thread
  /\ apc \subseteq {"transmitter", "receiver"}
  /\ {shutDownGet, ShutDownPut, AllProduced} \subseteq BOOLEAN
  /\ Retries \in [Pthreads!Getter -> 0 .. MAX_RETRY]

IsLast(m) == Plain!IsLast(m)

\* The sequence numbers a consumer still has coming.
Owed(c) ==
  [i \in 1 .. produced[c] - consumed[c] |-> consumed[c] + i - 1]
    \o (IF <<"producer", c>> \in running THEN <<>> ELSE <<-1>>)

\* The messages of s are in the order of their production, none twice and the
\* final one last.
Ordered(s) ==
  \A i, j \in DOMAIN s :
    i < j => /\ ~IsLast(s[i])
             /\ IsLast(s[j]) \/ s[i].sequence < s[j].sequence

(***************************************************************************)
(* Nothing is lost, doubled, reordered or sent to another consumer between *)
(* a producer and its consumer, through three queues, two blocks and the   *)
(* shutdown: the messages in flight are the ones produced and not yet      *)
(* consumed, in the order of their production, the final one last.  Over   *)
(* QueueObjSig_noSOAW messages may be lost, and the order remains.         *)
(***************************************************************************)
EndToEndOrder ==
  \A c \in Pair :
    IF program = "ThreeStageSig_noSOAW"
    THEN Ordered(InFlight(c))
    ELSE [i \in DOMAIN InFlight(c) |-> InFlight(c)[i].sequence] = Owed(c)

(***************************************************************************)
(* The stages do not give up too early, because of the flag or a count.    *)
(* In ThreeStage whatever is behind a stage that has returned is a final   *)
(* message nobody waits for; in ThreeStageCancel the stages are cancelled  *)
(* when there is nothing left to send, so that no stage is cancelled while *)
(* it waits for room.                                                      *)
(***************************************************************************)
NoDataLeftBehind ==
  LET behind == rBlock \o FlattenSeq(t2rq) IN
  CASE program = "ThreeStage" ->
         /\ tpc = "done" => \A i \in DOMAIN p2tq : IsLast(p2tq[i])
         /\ rpc = "done" => \A i \in DOMAIN behind : IsLast(behind[i])
    [] program = "ThreeStageCancel" ->
         ShutDown => /\ p2tq = <<>> /\ tBlock = <<>> /\ behind = <<>>
                     /\ \A c \in Pair : r2cq[c] = <<>>
    [] OTHER -> TRUE

(***************************************************************************)
(* In ThreeStage the receiver never waits for room that only a finished    *)
(* consumer could make: it is not blocked by a queue nobody reads any more.*)
(***************************************************************************)
FinishedConsumerHasRoom ==
  program = "ThreeStage" =>
    \A c \in Pair : <<"consumer", c>> \notin running =>
      \A i \in DOMAIN rBlock : rBlock[i].destination = c =>
        Room(r2cq[c], R2C_QLEN)

Delivers ==
  \/ program = "ThreeStage"
  \/ program = "ThreeStageCancel" /\ (npc * Goal) % TBLOCK_SIZE = 0
Delivered == \A c \in Pair : consumed[c] = Goal

(***************************************************************************)
(* Each consumer gets its Goal messages, however the stages are blocked    *)
(* and blocks are filled.  ThreeStageCancel does it when the messages fill *)
(* the blocks evenly.                                                      *)
(***************************************************************************)
ConsumersFinish == Delivers ~> Delivered

(***************************************************************************)
(* "System has finished. Shutting down": main gets to its end.             *)
(***************************************************************************)
BossTerminates == <>(boss = "done")

(***************************************************************************)
(* "Set a shutdown flag - All messages have been consumed"                 *)
(* (ThreeStagePthreads/ThreeStage.c, line 169).                            *)
(***************************************************************************)
AllConsumedAtShutDown ==
  program = "ThreeStagePthreads" /\ ShutDown => Delivered

\* A thread waits in a QueuePut for room that only a thread could make that has
\* returned, or, like a transmitter out of retries, calls QueueGet no more.
BlockedForGood ==
  \/ Pthreads!GaveUp(Pthreads!theTransmitter) /\ ~Room(p2tq, P2T_QLEN)
  \/ tpc = "send" /\ rpc = "done" /\ ~Room(t2rq, T2R_QLEN)
  \/ /\ rpc = "distribute" /\ rBlock # <<>>
     /\ LET c == Head(rBlock).destination IN
          Pthreads!Returned(c) /\ ~Room(r2cq[c], R2C_QLEN)

(***************************************************************************)
(* In ThreeStagePthreads main gets to its end, with or without the         *)
(* messages: time-outs, retries and flags leave nobody waiting but in a    *)
(* QueuePut, INFINITE as it is, for a reader that reads no more.           *)
(***************************************************************************)
RetriesTerminate ==
  program = "ThreeStagePthreads" ~> boss = "done" \/ BlockedForGood

(***************************************************************************)
(* Over QueueObjSig_noSOAW, where no wait is longer than CV_TIMEOUT, it    *)
(* does.                                                                   *)
(***************************************************************************)
ShortWaitsTerminate == (program = "ThreeStageSig_noSOAW") ~> (boss = "done")
=============================================================================
