------------------------ MODULE ThreeStageSig_noSOAW ------------------------
(***************************************************************************)
(* The ThreeStageSig_noSOAW program: CHAPTR10/ThreeStage.c linked with     *)
(* QueueObjSig_noSOAW.c, whose calls give up after CV_TIMEOUT although     *)
(* ThreeStage.c passes INFINITE (TimedSpec).  A call whose wait has timed  *)
(* out while the queue was empty, or full, is late; it reports             *)
(* WAIT_TIMEOUT then, whether or not it moves a message in the end.        *)
(*                                                                         *)
(* Producers ignore the status of QueuePut, consumers, the receiver and    *)
(* the transmitter's QueuePut return on it, and the transmitter's QueueGet *)
(* ends the block, without the message that came late.                     *)
(***************************************************************************)
EXTENDS ThreeStage

VARIABLE late   \* the threads in a call whose wait has timed out

timedVars == <<vars, late>>

theTransmitter == <<"transmitter", 1>>
theReceiver == <<"receiver", 1>>
Thread == ({"producer", "consumer"} \X Pair) \cup {theTransmitter, theReceiver}

TimedInit == Init /\ late = {}

\* The call in progress has to wait, and waits too long.
TimeOut(t, mustWait) ==
  /\ t \notin late /\ mustWait
  /\ late' = late \cup {t}
  /\ UNCHANGED vars

NextMessage(p) ==
  [destination |-> p, sequence |-> IF produced[p] < Goal THEN produced[p] ELSE -1]

ProducerTimeOut(p) ==
  /\ <<"producer", p>> \in running
  /\ TimeOut(<<"producer", p>>, ~Room(p2tq, P2T_QLEN))

\* The producer counts the message as produced, also if it is not in p2tq.
ProducerLate(p) ==
  /\ <<"producer", p>> \in running \cap late
  /\ p2tq' = IF Room(p2tq, P2T_QLEN) THEN Append(p2tq, NextMessage(p)) ELSE p2tq
  /\ IF produced[p] < Goal
     THEN /\ produced' = [produced EXCEPT ![p] = @ + 1]
          /\ UNCHANGED running
     ELSE /\ running' = running \ {<<"producer", p>>}
          /\ UNCHANGED produced
  /\ late' = late \ {<<"producer", p>>}
  /\ UNCHANGED <<t2rq, r2cq, consumed, tVars, rVars, bossVars>>

ConsumerTimeOut(c) ==
  /\ <<"consumer", c>> \in running /\ consumed[c] < Goal
  /\ TimeOut(<<"consumer", c>>, r2cq[c] = <<>>)

ConsumerLate(c) ==
  /\ <<"consumer", c>> \in running \cap late
  /\ r2cq' = [r2cq EXCEPT ![c] = IF @ = <<>> THEN @ ELSE Tail(@)]
  /\ running' = running \ {<<"consumer", c>>}
  /\ late' = late \ {<<"consumer", c>>}
  /\ UNCHANGED <<p2tq, t2rq, produced, consumed, tVars, rVars, bossVars>>

TransmitterTimeOut ==
  \/ tpc = "pack" /\ TimeOut(theTransmitter, p2tq = <<>>)
  \/ tpc = "send" /\ TimeOut(theTransmitter, ~Room(t2rq, T2R_QLEN))

\* The for loop ends.  A message moved into the block is not counted in it.
TransmitterPackLate ==
  /\ tpc = "pack" /\ theTransmitter \in late
  /\ p2tq' = IF p2tq = <<>> THEN p2tq ELSE Tail(p2tq)
  /\ tpc' = "send"
  /\ late' = late \ {theTransmitter}
  /\ UNCHANGED <<t2rq, r2cq, pairVars, tBlock, tLeft, rVars, bossVars>>

\* Fault: the block is sent again whenever the status is not 0.
TransmitterSendLate_Retries ==
  /\ tpc = "send" /\ theTransmitter \in late
  /\ t2rq' = IF Room(t2rq, T2R_QLEN) THEN Append(t2rq, tBlock) ELSE t2rq
  /\ late' = late \ {theTransmitter}
  /\ UNCHANGED <<p2tq, r2cq, pairVars, tVars, rVars, bossVars>>

TransmitterSendLate ==
  /\ tpc = "send" /\ theTransmitter \in late
  /\ t2rq' = IF Room(t2rq, T2R_QLEN) THEN Append(t2rq, tBlock) ELSE t2rq
  /\ tBlock' = <<>>
  /\ tpc' = "done"
  /\ late' = late \ {theTransmitter}
  /\ UNCHANGED <<p2tq, r2cq, pairVars, tLeft, rVars, bossVars>>

ReceiverTimeOut ==
  \/ rpc = "get" /\ TimeOut(theReceiver, t2rq = <<>>)
  \/ rpc = "distribute" /\ rBlock # <<>>
     /\ TimeOut(theReceiver, ~Room(r2cq[Head(rBlock).destination], R2C_QLEN))

\* Fault: the receiver calls QueueGet again without looking at ShutDown.
ReceiverGetLate_Retries ==
  /\ rpc = "get" /\ theReceiver \in late
  /\ t2rq' = IF t2rq = <<>> THEN t2rq ELSE Tail(t2rq)
  /\ late' = late \ {theReceiver}
  /\ UNCHANGED <<p2tq, r2cq, pairVars, tVars, rVars, bossVars>>

ReceiverGetLate ==
  /\ rpc = "get" /\ theReceiver \in late
  /\ t2rq' = IF t2rq = <<>> THEN t2rq ELSE Tail(t2rq)
  /\ rpc' = "done"
  /\ late' = late \ {theReceiver}
  /\ UNCHANGED <<p2tq, r2cq, pairVars, tVars, rBlock, rLeft, bossVars>>

ReceiverPutLate ==
  /\ rpc = "distribute" /\ theReceiver \in late
  /\ LET m == Head(rBlock) IN
       r2cq' = [r2cq EXCEPT ![m.destination] =
                  IF Room(@, R2C_QLEN) THEN Append(@, m) ELSE @]
  /\ rBlock' = <<>>
  /\ rpc' = "done"
  /\ late' = late \ {theReceiver}
  /\ UNCHANGED <<p2tq, t2rq, pairVars, tVars, rLeft, bossVars>>

\* The block of a transmitter that timed out at once holds no message.
ReceiverEmptyBlock ==
  /\ rpc = "distribute" /\ rBlock = <<>>
  /\ rpc' = "loop"
  /\ UNCHANGED <<p2tq, t2rq, r2cq, pairVars, tVars, rBlock, rLeft, bossVars, late>>
-----------------------------------------------------------------------------
\* Calls that are not late are those of ThreeStage.
InTime(t, step) == t \notin late /\ step /\ UNCHANGED late

TimedProducer(p) ==
  InTime(<<"producer", p>>, Producer(p)) \/ ProducerTimeOut(p) \/ ProducerLate(p)
TimedConsumer(c) ==
  InTime(<<"consumer", c>>, Consumer(c)) \/ ConsumerTimeOut(c) \/ ConsumerLate(c)
TimedTransmitter ==
  \/ InTime(theTransmitter, Transmitter)
  \/ TransmitterTimeOut
  \/ TransmitterPackLate
  \/ TransmitterSendLate
TimedReceiver ==
  \/ InTime(theReceiver, ReceiverLoop \/ ReceiverGet \/ (rBlock # <<>> /\ ReceiverPut))
  \/ ReceiverTimeOut
  \/ ReceiverGetLate
  \/ ReceiverPutLate
  \/ ReceiverEmptyBlock

TimedBoss == Boss /\ UNCHANGED late

TimedNext == /\ \/ \E i \in Pair : TimedProducer(i) \/ TimedConsumer(i)
                \/ TimedTransmitter
                \/ TimedReceiver
                \/ TimedBoss
             /\ UNCHANGED npc

TimedSpec == TimedInit /\ [][TimedNext]_timedVars
=============================================================================
