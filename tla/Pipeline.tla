------------------------------ MODULE Pipeline ------------------------------
(***************************************************************************)
(* What the three-stage programs have in common: producers -> p2tq ->      *)
(* transmitter -> t2rq -> receiver -> r2cqArray[c] -> consumer c, and the  *)
(* boss, main.                                                             *)
(*                                                                         *)
(* The queues are the bounded buffers of BoundedFIFO: a call is one step,  *)
(* which waits until it can be taken.  QueueVersions_proofs shows that     *)
(* each version of the queue is such a buffer.  A queue created with nMsgs *)
(* slots holds at most nMsgs - 1 messages.                                 *)
(***************************************************************************)
EXTENDS Integers, Sequences, FiniteSets, SequencesExt

CONSTANTS MaxPairs,     \* bound on npc
          Goal,         \* messages per producer
          TBLOCK_SIZE, P2T_QLEN, T2R_QLEN, R2C_QLEN

ASSUME PipelineAssumption ==
  /\ MaxPairs \in Nat \ {0} /\ Goal \in Nat /\ TBLOCK_SIZE \in Nat \ {0}
  /\ P2T_QLEN \in Nat \ {0, 1} /\ T2R_QLEN \in Nat \ {0, 1}
  /\ R2C_QLEN \in Nat \ {0, 1}

VARIABLES npc,                  \* the number of producer-consumer pairs
          p2tq, t2rq, r2cq,     \* the queues
          produced, consumed,   \* workDone of each producer and consumer
          tpc, tBlock,          \* transmitter: place and block
          rpc, rBlock,          \* receiver: place and what is left to hand out
          boss, ShutDown

Pair == 1 .. npc

queues == <<p2tq, t2rq, r2cq>>
workVars == <<produced, consumed>>
bossVars == <<boss, ShutDown>>
pipelineVars == <<npc, queues, workVars, tpc, tBlock, rpc, rBlock, bossVars>>

\* The fields of a MSG_BLOCK that the pipeline looks at.
Message == [destination : Pair, sequence : Int]

Room(q, qlen) == Len(q) < qlen - 1

\* npc and Goal are the arguments of main.
PipelineInit ==
  /\ npc \in 1 .. MaxPairs
  /\ p2tq = <<>> /\ t2rq = <<>> /\ r2cq = [c \in Pair |-> <<>>]
  /\ produced = [p \in Pair |-> 0] /\ consumed = [c \in Pair |-> 0]
  /\ tpc = "loop" /\ tBlock = <<>>
  /\ rpc = "loop" /\ rBlock = <<>>
  /\ boss = "producers" /\ ShutDown = FALSE

PipelineTypeOK ==
  /\ npc \in 1 .. MaxPairs
  /\ p2tq \in Seq(Message) /\ Len(p2tq) < P2T_QLEN
  /\ t2rq \in Seq(Seq(Message)) /\ Len(t2rq) < T2R_QLEN
  /\ \A c \in Pair : r2cq[c] \in Seq(Message) /\ Len(r2cq[c]) < R2C_QLEN
  /\ produced \in [Pair -> 0 .. Goal] /\ consumed \in [Pair -> 0 .. Goal]
  /\ tpc \in {"loop", "pack", "getting", "send", "done"}
  /\ tBlock \in Seq(Message) /\ Len(tBlock) <= TBLOCK_SIZE
  /\ rpc \in {"loop", "get", "getting", "distribute", "done"}
  /\ rBlock \in Seq(Message)
  /\ boss \in {"producers", "consumers", "cancel", "cancelReceiver", "stages", "done"}
  /\ ShutDown \in BOOLEAN

\* The messages of s that are for consumer c, in their order.
To(c, s) == FlattenSeq([i \in DOMAIN s |-> IF s[i].destination = c THEN <<s[i]>> ELSE <<>>])

\* Everything between the producers and the consumers, nearest consumer first.
InFlight(c) == To(c, r2cq[c] \o rBlock \o FlattenSeq(t2rq) \o tBlock \o p2tq)
=============================================================================
