----------------------------- MODULE ThreeStage -----------------------------
(***************************************************************************)
(* CHAPTR10/ThreeStage.c (ThreeStageCS.c is the same program over another  *)
(* version of the queue).  A producer's last message is a final one, with  *)
(* sequence number -1; the two stages count them and end after the last.   *)
(* When the consumers are through the boss sets ShutDown, which the stages *)
(* look at before each block, and waits for them.                          *)
(***************************************************************************)
EXTENDS Pipeline

VARIABLES running,        \* the producers and consumers still running
          tLeft, rLeft    \* nProducers and nConsumers of the two stages

pairVars == <<workVars, running>>
tVars == <<tpc, tBlock, tLeft>>
rVars == <<rpc, rBlock, rLeft>>
vars == <<pipelineVars, running, tLeft, rLeft>>

IsLast(m) == m.sequence < 0

Init ==
  /\ PipelineInit
  /\ running = {"producer", "consumer"} \X Pair
  /\ tLeft = npc /\ rLeft = npc

-----------------------------------------------------------------------------
(* Producer and Consumer. *)

\* Fault: <= for < in the loop's test.
Producer_OneMore(p) ==
  /\ <<"producer", p>> \in running
  /\ Room(p2tq, P2T_QLEN)
  /\ IF produced[p] <= Goal
     THEN /\ p2tq' = Append(p2tq, [destination |-> p, sequence |-> produced[p]])
          /\ produced' = [produced EXCEPT ![p] = @ + 1]
          /\ UNCHANGED running
     ELSE /\ p2tq' = Append(p2tq, [destination |-> p, sequence |-> -1])
          /\ running' = running \ {<<"producer", p>>}
          /\ UNCHANGED produced
  /\ UNCHANGED <<t2rq, r2cq, consumed, tVars, rVars, bossVars>>

\* QueuePut (&p2tq, ...) of the next message, or of the final one, after
\* which the producer returns.
Producer(p) ==
  /\ <<"producer", p>> \in running
  /\ Room(p2tq, P2T_QLEN)
  /\ IF produced[p] < Goal
     THEN /\ p2tq' = Append(p2tq, [destination |-> p, sequence |-> produced[p]])
          /\ produced' = [produced EXCEPT ![p] = @ + 1]
          /\ UNCHANGED running
     ELSE /\ p2tq' = Append(p2tq, [destination |-> p, sequence |-> -1])
          /\ running' = running \ {<<"producer", p>>}
          /\ UNCHANGED produced
  /\ UNCHANGED <<t2rq, r2cq, consumed, tVars, rVars, bossVars>>

ConsumerGet(c) ==
  /\ <<"consumer", c>> \in running /\ consumed[c] < Goal
  /\ r2cq[c] # <<>>
  /\ r2cq' = [r2cq EXCEPT ![c] = Tail(@)]
  /\ IF IsLast(Head(r2cq[c]))
     THEN /\ running' = running \ {<<"consumer", c>>}
          /\ UNCHANGED consumed
     ELSE /\ consumed' = [consumed EXCEPT ![c] = @ + 1]
          /\ UNCHANGED running
  /\ UNCHANGED <<p2tq, t2rq, produced, tVars, rVars, bossVars>>

\* Fault: the consumer leaves one message early.
ConsumerReturn_Early(c) ==
  /\ <<"consumer", c>> \in running /\ consumed[c] + 1 >= Goal
  /\ running' = running \ {<<"consumer", c>>}
  /\ UNCHANGED <<p2tq, t2rq, r2cq, produced, consumed, tVars, rVars, bossVars>>

\* The consumer has its workGoal messages and does not read the final one.
ConsumerReturn(c) ==
  /\ <<"consumer", c>> \in running /\ consumed[c] >= Goal
  /\ running' = running \ {<<"consumer", c>>}
  /\ UNCHANGED <<p2tq, t2rq, r2cq, produced, consumed, tVars, rVars, bossVars>>

-----------------------------------------------------------------------------
(* Transmitter and Receiver. *)

\* while (!ShutDown)
TransmitterLoop ==
  /\ tpc = "loop"
  /\ tpc' = IF ShutDown THEN "done" ELSE "pack"
  /\ tBlock' = <<>>
  /\ UNCHANGED <<p2tq, t2rq, r2cq, pairVars, tLeft, rVars, bossVars>>

\* One round of the for loop: a message goes into the block, which is sent
\* when it is full or holds the last final message.
TransmitterPack ==
  /\ tpc = "pack"
  /\ p2tq # <<>>
  /\ p2tq' = Tail(p2tq)
  /\ tBlock' = Append(tBlock, Head(p2tq))
  /\ tLeft' = IF IsLast(Head(p2tq)) THEN tLeft - 1 ELSE tLeft
  /\ tpc' = IF Len(tBlock') = TBLOCK_SIZE \/ (IsLast(Head(p2tq)) /\ tLeft' = 0)
            THEN "send" ELSE "pack"
  /\ UNCHANGED <<t2rq, r2cq, pairVars, rVars, bossVars>>

\* Fault: only a full block is sent on.
TransmitterSend_DropsPartial ==
  /\ tpc = "send"
  /\ Room(t2rq, T2R_QLEN)
  /\ t2rq' = IF Len(tBlock) = TBLOCK_SIZE THEN Append(t2rq, tBlock) ELSE t2rq
  /\ tBlock' = <<>>
  /\ tpc' = IF tLeft = 0 THEN "done" ELSE "loop"
  /\ UNCHANGED <<p2tq, r2cq, pairVars, tLeft, rVars, bossVars>>

TransmitterSend ==
  /\ tpc = "send"
  /\ Room(t2rq, T2R_QLEN)
  /\ t2rq' = Append(t2rq, tBlock)
  /\ tBlock' = <<>>
  /\ tpc' = IF tLeft = 0 THEN "done" ELSE "loop"
  /\ UNCHANGED <<p2tq, r2cq, pairVars, tLeft, rVars, bossVars>>

ReceiverLoop ==
  /\ rpc = "loop"
  /\ rpc' = IF ShutDown THEN "done" ELSE "get"
  /\ UNCHANGED <<p2tq, t2rq, r2cq, pairVars, tVars, rBlock, rLeft, bossVars>>

ReceiverGet ==
  /\ rpc = "get"
  /\ t2rq # <<>>
  /\ rBlock' = Head(t2rq)
  /\ t2rq' = Tail(t2rq)
  /\ rpc' = "distribute"
  /\ UNCHANGED <<p2tq, r2cq, pairVars, tVars, rLeft, bossVars>>

\* Fault: the counter is tested for every message, so that a final message
\* of one consumer ends the receiver while messages of others are in the block.
ReceiverPut_StopsAtFirstLast ==
  /\ rpc = "distribute"
  /\ LET m == Head(rBlock) IN
       /\ Room(r2cq[m.destination], R2C_QLEN)
       /\ r2cq' = [r2cq EXCEPT ![m.destination] = Append(@, m)]
       /\ rLeft' = IF IsLast(m) THEN rLeft - 1 ELSE rLeft
       /\ rBlock' = Tail(rBlock)
       /\ rpc' = IF IsLast(m) THEN "done"
                 ELSE IF rBlock' = <<>> THEN "loop" ELSE "distribute"
  /\ UNCHANGED <<p2tq, t2rq, pairVars, tVars, bossVars>>

\* One round of the for loop, and what follows the loop after the last one.
ReceiverPut ==
  /\ rpc = "distribute"
  /\ LET m == Head(rBlock) IN
       /\ Room(r2cq[m.destination], R2C_QLEN)
       /\ r2cq' = [r2cq EXCEPT ![m.destination] = Append(@, m)]
       /\ rLeft' = IF IsLast(m) THEN rLeft - 1 ELSE rLeft
       /\ rBlock' = Tail(rBlock)
       /\ rpc' = IF rLeft' = 0 THEN "done"
                 ELSE IF rBlock' = <<>> THEN "loop" ELSE "distribute"
  /\ UNCHANGED <<p2tq, t2rq, pairVars, tVars, bossVars>>

-----------------------------------------------------------------------------
(* main. *)

BossProducers ==
  /\ boss = "producers"
  /\ \A p \in Pair : <<"producer", p>> \notin running
  /\ boss' = "consumers"
  /\ UNCHANGED <<p2tq, t2rq, r2cq, pairVars, tVars, rVars, ShutDown>>

BossConsumers ==
  /\ boss = "consumers"
  /\ \A c \in Pair : <<"consumer", c>> \notin running
  /\ boss' = "stages"
  /\ ShutDown' = TRUE
  /\ UNCHANGED <<p2tq, t2rq, r2cq, pairVars, tVars, rVars>>

\* The waits for the transmitter and then the receiver, and the QueueDestroys.
BossStages ==
  /\ boss = "stages"
  /\ tpc = "done" /\ rpc = "done"
  /\ boss' = "done"
  /\ UNCHANGED <<p2tq, t2rq, r2cq, pairVars, tVars, rVars, ShutDown>>

Transmitter == TransmitterLoop \/ TransmitterPack \/ TransmitterSend
Receiver == ReceiverLoop \/ ReceiverGet \/ ReceiverPut
Boss == BossProducers \/ BossConsumers \/ BossStages
Consumer(c) == ConsumerGet(c) \/ ConsumerReturn(c)

Next == /\ \/ \E i \in Pair : Producer(i) \/ Consumer(i)
           \/ Transmitter
           \/ Receiver
           \/ Boss
        /\ UNCHANGED npc

Spec == Init /\ [][Next]_vars
=============================================================================
