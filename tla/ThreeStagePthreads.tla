-------------------------- MODULE ThreeStagePthreads --------------------------
(***************************************************************************)
(* CHAPTR10/ThreeStagePthreads/ThreeStage.c over its QueueObj.c: the       *)
(* pipeline without final messages whose stages end by time-outs and       *)
(* flags.  QueuePuts wait for ever; a QueueGet that finds nothing for      *)
(* Q_TIMEOUT fails, and a thread gives up after MAX_RETRY failures in a    *)
(* row.  The transmitter does not: it then sends blocks as they are, for   *)
(* the rest of its life empty ones, until main sets AllProduced, which the *)
(* producers cannot do (theirs is a local variable).                       *)
(*                                                                         *)
(* A call is one step: it moves a message, or it fails at an instant when  *)
(* the queue is empty.                                                     *)
(***************************************************************************)
EXTENDS Pipeline

CONSTANT MAX_RETRY

VARIABLES AllProduced,
          Retries     \* of the transmitter, the receiver and each consumer

retryVars == <<AllProduced, Retries>>
tVars == <<tpc, tBlock>>
rVars == <<rpc, rBlock>>
vars == <<pipelineVars, retryVars>>

theTransmitter == <<"transmitter", 1>>
theReceiver == <<"receiver", 1>>
Getter == {theTransmitter, theReceiver} \cup ({"consumer"} \X Pair)

Init == /\ PipelineInit
        /\ AllProduced = FALSE
        /\ Retries = [t \in Getter |-> 0]

-----------------------------------------------------------------------------
\* A QueueGet by t that succeeds, and one that does not.
Succeeds(t) == Retries' = [Retries EXCEPT ![t] = 0]
TimesOut(t, q) == q = <<>> /\ Retries' = [Retries EXCEPT ![t] = @ + 1]

\* ShutDown is set after all producers have returned, and consumers too.
Producer(p) ==
  /\ produced[p] < Goal
  /\ Room(p2tq, P2T_QLEN)
  /\ p2tq' = Append(p2tq, [destination |-> p, sequence |-> produced[p]])
  /\ produced' = [produced EXCEPT ![p] = @ + 1]
  /\ UNCHANGED <<t2rq, r2cq, consumed, tVars, rVars, bossVars, retryVars>>

GaveUp(t) == Retries[t] = MAX_RETRY

\* The consumer has returned.
Returned(c) == consumed[c] = Goal \/ GaveUp(<<"consumer", c>>)

ConsumerGet(c) ==
  /\ ~Returned(c)
  /\ r2cq[c] # <<>>
  /\ r2cq' = [r2cq EXCEPT ![c] = Tail(@)]
  /\ consumed' = [consumed EXCEPT ![c] = @ + 1]
  /\ Succeeds(<<"consumer", c>>)
  /\ UNCHANGED <<p2tq, t2rq, produced, tVars, rVars, bossVars, AllProduced>>

ConsumerTimeOut(c) ==
  /\ ~Returned(c)
  /\ TimesOut(<<"consumer", c>>, r2cq[c])
  /\ UNCHANGED <<queues, workVars, tVars, rVars, bossVars, AllProduced>>

-----------------------------------------------------------------------------
(* Transmitter and Receiver. *)

TransmitterLoop ==
  /\ tpc = "loop"
  /\ tpc' = IF ShutDown \/ AllProduced THEN "done" ELSE "pack"
  /\ tBlock' = <<>>
  /\ UNCHANGED <<queues, workVars, rVars, bossVars, retryVars>>

\* The test of the inner loop; a call that has begun does not see the flags.
TransmitterTest ==
  /\ tpc = "pack"
  /\ tpc' = IF /\ Len(tBlock) < TBLOCK_SIZE
               /\ Retries[theTransmitter] < MAX_RETRY
               /\ ~ShutDown /\ ~AllProduced
            THEN "getting" ELSE "send"
  /\ UNCHANGED <<queues, workVars, tBlock, rVars, bossVars, retryVars>>

\* Fault: the message stays in the queue.
TransmitterGet_KeepsMessage ==
  /\ tpc = "getting" /\ p2tq # <<>>
  /\ tBlock' = Append(tBlock, Head(p2tq))
  /\ tpc' = "pack"
  /\ Succeeds(theTransmitter)
  /\ UNCHANGED <<queues, workVars, rVars, bossVars, AllProduced>>

TransmitterGet ==
  /\ tpc = "getting" /\ p2tq # <<>>
  /\ p2tq' = Tail(p2tq)
  /\ tBlock' = Append(tBlock, Head(p2tq))
  /\ tpc' = "pack"
  /\ Succeeds(theTransmitter)
  /\ UNCHANGED <<t2rq, r2cq, workVars, rVars, bossVars, AllProduced>>

TransmitterTimeOut ==
  /\ tpc = "getting"
  /\ TimesOut(theTransmitter, p2tq)
  /\ tpc' = "pack"
  /\ UNCHANGED <<queues, workVars, tBlock, rVars, bossVars, AllProduced>>

TransmitterSend ==
  /\ tpc = "send" /\ Room(t2rq, T2R_QLEN)
  /\ t2rq' = Append(t2rq, tBlock)
  /\ tBlock' = <<>>
  /\ tpc' = "loop"
  /\ UNCHANGED <<p2tq, r2cq, workVars, rVars, bossVars, retryVars>>

ReceiverLoop ==
  /\ rpc = "loop"
  /\ rpc' = IF ShutDown \/ GaveUp(theReceiver) THEN "done" ELSE "get"
  /\ UNCHANGED <<queues, workVars, tVars, rBlock, bossVars, retryVars>>

\* An empty block counts as a success.
ReceiverGet ==
  /\ rpc = "get" /\ t2rq # <<>>
  /\ t2rq' = Tail(t2rq)
  /\ rBlock' = Head(t2rq)
  /\ rpc' = IF rBlock' = <<>> THEN "loop" ELSE "distribute"
  /\ Succeeds(theReceiver)
  /\ UNCHANGED <<p2tq, r2cq, workVars, tVars, bossVars, AllProduced>>

\* Fault: the receiver calls again without a look at ShutDown or a count.
ReceiverTimeOut_Forever ==
  /\ rpc = "get" /\ t2rq = <<>>
  /\ UNCHANGED vars

ReceiverTimeOut ==
  /\ rpc = "get"
  /\ TimesOut(theReceiver, t2rq)
  /\ rpc' = "loop"
  /\ UNCHANGED <<queues, workVars, tVars, rBlock, bossVars, AllProduced>>

ReceiverPut ==
  /\ rpc = "distribute"
  /\ LET m == Head(rBlock) IN
       /\ Room(r2cq[m.destination], R2C_QLEN)
       /\ r2cq' = [r2cq EXCEPT ![m.destination] = Append(@, m)]
       /\ rBlock' = Tail(rBlock)
       /\ rpc' = IF rBlock' = <<>> THEN "loop" ELSE "distribute"
  /\ UNCHANGED <<p2tq, t2rq, workVars, tVars, bossVars, retryVars>>

-----------------------------------------------------------------------------
(* main. *)

BossProducers ==
  /\ boss = "producers" /\ \A p \in Pair : produced[p] = Goal
  /\ boss' = "consumers"
  /\ AllProduced' = TRUE
  /\ UNCHANGED <<queues, workVars, tVars, rVars, ShutDown, Retries>>

BossConsumers ==
  /\ boss = "consumers" /\ \A c \in Pair : Returned(c)
  /\ boss' = "stages"
  /\ ShutDown' = TRUE
  /\ UNCHANGED <<queues, workVars, tVars, rVars, retryVars>>

BossStages ==
  /\ boss = "stages" /\ tpc = "done" /\ rpc = "done"
  /\ boss' = "done"
  /\ UNCHANGED <<queues, workVars, tVars, rVars, ShutDown, retryVars>>

Consumer(c) == ConsumerGet(c) \/ ConsumerTimeOut(c)
Transmitter == TransmitterLoop \/ TransmitterTest \/ TransmitterGet
               \/ TransmitterTimeOut \/ TransmitterSend
Receiver == ReceiverLoop \/ ReceiverGet \/ ReceiverTimeOut \/ ReceiverPut
Boss == BossProducers \/ BossConsumers \/ BossStages

Next == /\ \/ \E i \in Pair : Producer(i) \/ Consumer(i)
           \/ Transmitter
           \/ Receiver
           \/ Boss
        /\ UNCHANGED npc

Spec == Init /\ [][Next]_vars
=============================================================================
