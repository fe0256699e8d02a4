-------------------------- MODULE ThreeStageCancel --------------------------
(***************************************************************************)
(* CHAPTR10/ThreeStageCancel.c over QueueObjCancel.c: the pipeline without *)
(* final messages.  When the consumers are through, main sets ShutDown and *)
(* cancels the transmitter and the receiver with an APC each.              *)
(*                                                                         *)
(* A call on a queue is one step, or, when it has to wait in an alertable  *)
(* wait, a step to "getting" and one out of it: back to the test when the  *)
(* queue is not empty any more (its event has been set), or through the    *)
(* APC.  Waits for room are guards here: no APC can arrive in one, because *)
(* ShutDown is set when the queues are empty (NoDataLeftBehind).           *)
(* A guard that a stage keeps is abandoned when it ends, which it does at  *)
(* once, so the guards are left out.                                       *)
(***************************************************************************)
EXTENDS Pipeline

VARIABLES apc,                       \* the stages with an APC still queued
          shutDownGet, ShutDownPut   \* the flags of QueueObjCancel.c

tVars == <<tpc, tBlock>>
rVars == <<rpc, rBlock>>
cancelVars == <<apc, shutDownGet, ShutDownPut>>
vars == <<pipelineVars, cancelVars>>

Init ==
  /\ PipelineInit
  /\ apc = {} /\ shutDownGet = FALSE /\ ShutDownPut = FALSE

-----------------------------------------------------------------------------
Producer(p) ==
  /\ produced[p] < Goal
  /\ Room(p2tq, P2T_QLEN)
  /\ p2tq' = Append(p2tq, [destination |-> p, sequence |-> produced[p]])
  /\ produced' = [produced EXCEPT ![p] = @ + 1]
  /\ UNCHANGED <<t2rq, r2cq, consumed, tVars, rVars, bossVars, cancelVars>>

Consumer(c) ==
  /\ consumed[c] < Goal
  /\ r2cq[c] # <<>>
  /\ r2cq' = [r2cq EXCEPT ![c] = Tail(@)]
  /\ consumed' = [consumed EXCEPT ![c] = @ + 1]
  /\ UNCHANGED <<p2tq, t2rq, produced, tVars, rVars, bossVars, cancelVars>>

-----------------------------------------------------------------------------
(* Transmitter. *)

TransmitterLoop ==
  /\ tpc = "loop"
  /\ tpc' = IF ShutDown THEN "done" ELSE "pack"
  /\ tBlock' = <<>>
  /\ UNCHANGED <<queues, workVars, rVars, bossVars, cancelVars>>

\* One round of the for loop; the cancelled QueueGet breaks it off.
TransmitterPack ==
  /\ tpc = "pack"
  /\ IF shutDownGet
     THEN tpc' = "send" /\ UNCHANGED <<p2tq, tBlock>>
     ELSE IF p2tq = <<>>
     THEN tpc' = "getting" /\ UNCHANGED <<p2tq, tBlock>>
     ELSE /\ p2tq' = Tail(p2tq)
          /\ tBlock' = Append(tBlock, Head(p2tq))
          /\ tpc' = IF Len(tBlock') = TBLOCK_SIZE THEN "send" ELSE "pack"
  /\ UNCHANGED <<t2rq, r2cq, workVars, rVars, bossVars, cancelVars>>

TransmitterWakes ==
  /\ tpc = "getting" /\ p2tq # <<>>
  /\ tpc' = "pack"
  /\ UNCHANGED <<queues, workVars, tBlock, rVars, bossVars, cancelVars>>

\* QueueShutDown (1) runs in the transmitter.
TransmitterCancelled ==
  /\ tpc = "getting" /\ "transmitter" \in apc
  /\ apc' = apc \ {"transmitter"}
  /\ shutDownGet' = TRUE
  /\ tpc' = "send"
  /\ UNCHANGED <<queues, workVars, tBlock, rVars, bossVars, ShutDownPut>>

TransmitterSend ==
  /\ tpc = "send"
  /\ \/ ShutDownPut /\ tpc' = "done" /\ UNCHANGED t2rq
     \/ /\ ~ShutDownPut /\ Room(t2rq, T2R_QLEN)
        /\ t2rq' = Append(t2rq, tBlock)
        /\ tpc' = "loop"
  /\ tBlock' = <<>>
  /\ UNCHANGED <<p2tq, r2cq, workVars, rVars, bossVars, cancelVars>>

-----------------------------------------------------------------------------
(* Receiver. *)

ReceiverLoop ==
  /\ rpc = "loop"
  /\ rpc' = IF ShutDown THEN "done" ELSE "get"
  /\ UNCHANGED <<queues, workVars, tVars, rBlock, bossVars, cancelVars>>

ReceiverGet ==
  /\ rpc = "get"
  /\ IF shutDownGet
     THEN rpc' = "done" /\ UNCHANGED <<t2rq, rBlock>>
     ELSE IF t2rq = <<>>
     THEN rpc' = "getting" /\ UNCHANGED <<t2rq, rBlock>>
     ELSE /\ t2rq' = Tail(t2rq)
          /\ rBlock' = Head(t2rq)
          /\ rpc' = IF rBlock' = <<>> THEN "loop" ELSE "distribute"
  /\ UNCHANGED <<p2tq, r2cq, workVars, tVars, bossVars, cancelVars>>

ReceiverWakes ==
  /\ rpc = "getting" /\ t2rq # <<>>
  /\ rpc' = "get"
  /\ UNCHANGED <<queues, workVars, tVars, rBlock, bossVars, cancelVars>>

\* QueueShutDown (2) runs in the receiver.  It sets the other flag, and the
\* receiver, in QueueGet, goes on waiting unless shutDownGet is set.
ReceiverCancelled ==
  /\ rpc = "getting" /\ "receiver" \in apc
  /\ apc' = apc \ {"receiver"}
  /\ ShutDownPut' = TRUE
  /\ rpc' = IF shutDownGet THEN "done" ELSE "get"
  /\ UNCHANGED <<queues, workVars, tVars, rBlock, bossVars, shutDownGet>>

\* Fault: the receiver reads the next block before the rest of this one.
ReceiverPut_OnlyFirst ==
  /\ rpc = "distribute"
  /\ LET m == Head(rBlock) IN
       /\ Room(r2cq[m.destination], R2C_QLEN)
       /\ r2cq' = [r2cq EXCEPT ![m.destination] = Append(@, m)]
       /\ rBlock' = <<>>
       /\ rpc' = "loop"
  /\ UNCHANGED <<p2tq, t2rq, workVars, tVars, bossVars, cancelVars>>

ReceiverPut ==
  /\ rpc = "distribute"
  /\ \/ ShutDownPut /\ rpc' = "done" /\ rBlock' = <<>> /\ UNCHANGED r2cq
     \/ LET m == Head(rBlock) IN
          /\ ~ShutDownPut /\ Room(r2cq[m.destination], R2C_QLEN)
          /\ r2cq' = [r2cq EXCEPT ![m.destination] = Append(@, m)]
          /\ rBlock' = Tail(rBlock)
          /\ rpc' = IF rBlock' = <<>> THEN "loop" ELSE "distribute"
  /\ UNCHANGED <<p2tq, t2rq, workVars, tVars, bossVars, cancelVars>>

-----------------------------------------------------------------------------
(* main. *)

BossProducers ==
  /\ boss = "producers" /\ \A p \in Pair : produced[p] = Goal
  /\ boss' = "consumers"
  /\ UNCHANGED <<queues, workVars, tVars, rVars, ShutDown, cancelVars>>

\* Fault: the stages are cancelled when the producers are through.
BossConsumers_TooEarly ==
  /\ boss = "consumers"
  /\ boss' = "cancel"
  /\ ShutDown' = TRUE
  /\ UNCHANGED <<queues, workVars, tVars, rVars, cancelVars>>

BossConsumers ==
  /\ boss = "consumers" /\ \A c \in Pair : consumed[c] = Goal
  /\ boss' = "cancel"
  /\ ShutDown' = TRUE
  /\ UNCHANGED <<queues, workVars, tVars, rVars, cancelVars>>

BossCancelsTransmitter ==
  /\ boss = "cancel"
  /\ boss' = "cancelReceiver"
  /\ apc' = apc \cup {"transmitter"}
  /\ UNCHANGED <<queues, workVars, tVars, rVars, ShutDown, shutDownGet, ShutDownPut>>

BossCancelsReceiver ==
  /\ boss = "cancelReceiver"
  /\ boss' = "stages"
  /\ apc' = apc \cup {"receiver"}
  /\ UNCHANGED <<queues, workVars, tVars, rVars, ShutDown, shutDownGet, ShutDownPut>>

BossStages ==
  /\ boss = "stages" /\ tpc = "done" /\ rpc = "done"
  /\ boss' = "done"
  /\ UNCHANGED <<queues, workVars, tVars, rVars, ShutDown, cancelVars>>

Transmitter == TransmitterLoop \/ TransmitterPack \/ TransmitterWakes
               \/ TransmitterCancelled \/ TransmitterSend
Receiver == ReceiverLoop \/ ReceiverGet \/ ReceiverWakes
            \/ ReceiverCancelled \/ ReceiverPut
Boss == BossProducers \/ BossConsumers \/ BossCancelsTransmitter
        \/ BossCancelsReceiver \/ BossStages

Next == /\ \/ \E i \in Pair : Producer(i) \/ Consumer(i)
           \/ Transmitter
           \/ Receiver
           \/ Boss
        /\ UNCHANGED npc

Spec == Init /\ [][Next]_vars
=============================================================================
