------------------------------- MODULE EventPC -------------------------------
(***************************************************************************)
(* CHAPTR08/simplePC.c: the producer makes a new message now and then,     *)
(* whether or not the last one was consumed; the consumer displays the     *)
(* most recent one when the user asks for it.                              *)
(*                                                                         *)
(* CHAPTR08/eventPC.c, "a reimplementation of simplePC.c to use an event": *)
(* the producer sets the auto-reset event mReady with every message, and   *)
(* the consumer waits for the event before it takes the guard.  The guard  *)
(* is a mutex.  The event may be set with no message left, when the        *)
(* producer fills the block again between the consumer's two waits.        *)
(***************************************************************************)
EXTENDS MessageBlock

CONSTANT Consumer   \* the one consumer of this program

ASSUME ConsumerAssumption == Consumer \in Consumers

VARIABLES nCons, nLost

countVars == <<nCons, nLost>>
simpleVars == <<blockVars, pc, countVars>>

SimpleInit ==
  /\ BlockInit
  /\ nCons = 0 /\ nLost = 0
  /\ pc = [t \in Threads |-> IF t = Producer THEN "loop"
                             ELSE IF t = Consumer THEN "prompt" ELSE "none"]

-----------------------------------------------------------------------------
(* Produce. *)

ProducerLoop ==
  /\ pc[Producer] = "loop"
  /\ Goto(Producer, IF fStop THEN "done" ELSE "enter")
  /\ UNCHANGED <<blockVars, countVars>>

\* fReady is cleared first, for the data are about to change.
ProducerEnter ==
  /\ pc[Producer] = "enter" /\ mGuard = Nobody
  /\ fStop \/ mSequence < MaxMessages
  /\ IF fStop
     THEN Goto(Producer, "loop") /\ UNCHANGED <<mGuard, fReady, mData>>
     ELSE /\ mGuard' = Producer
          /\ fReady' = FALSE
          /\ MessageFill
          /\ Goto(Producer, "fill")
  /\ UNCHANGED <<fStop, mSequence, displayed, countVars>>

ProducerPublish ==
  /\ pc[Producer] = "fill"
  /\ Publish
  /\ mGuard' = Nobody
  /\ Goto(Producer, "loop")
  /\ UNCHANGED <<fStop, displayed, countVars>>

-----------------------------------------------------------------------------
(* Consume. *)

\* 's': without the guard.  The test of the loop follows.
ConsumerStop ==
  /\ pc[Consumer] = "prompt"
  /\ fStop' = TRUE
  /\ Goto(Consumer, "done")
  /\ UNCHANGED <<mGuard, fReady, mSequence, mData, displayed, countVars>>

\* 'c'
ConsumerAsk ==
  /\ pc[Consumer] = "prompt"
  /\ Goto(Consumer, "enter")
  /\ UNCHANGED <<blockVars, countVars>>

\* Fault: the flag is not looked at.
ConsumerEnter_NoTest ==
  /\ pc[Consumer] = "enter" /\ mGuard = Nobody
  /\ mGuard' = Consumer
  /\ Goto(Consumer, "display")
  /\ UNCHANGED <<fReady, fStop, mSequence, mData, displayed, countVars>>

ConsumerEnter ==
  /\ pc[Consumer] = "enter" /\ mGuard = Nobody
  /\ IF fReady
     THEN mGuard' = Consumer /\ Goto(Consumer, "display")
     ELSE Goto(Consumer, "prompt") /\ UNCHANGED mGuard
  /\ UNCHANGED <<fReady, fStop, mSequence, mData, displayed, countVars>>

\* nLost is computed before nCons is incremented, and one too many besides.
ConsumerDisplay ==
  /\ pc[Consumer] = "display"
  /\ MessageDisplay
  /\ nLost' = mSequence - nCons + 1
  /\ fReady' = FALSE
  /\ nCons' = nCons + 1
  /\ mGuard' = Nobody
  /\ Goto(Consumer, "prompt")
  /\ UNCHANGED <<fStop, mSequence, mData>>

-----------------------------------------------------------------------------
SimpleProduce == ProducerLoop \/ ProducerEnter \/ ProducerPublish

\* What the consumer does without being asked.
SimpleConsume == ConsumerEnter \/ ConsumerDisplay

SimpleNext == SimpleProduce \/ ConsumerStop \/ ConsumerAsk \/ SimpleConsume

-----------------------------------------------------------------------------
(* eventPC.c: what is different. *)

VARIABLE mReady

eventVars == <<simpleVars, mReady>>

EventInit == SimpleInit /\ mReady = FALSE

\* Fault: the event is not set.
EventPublish_NoSetEvent == ProducerPublish /\ UNCHANGED mReady

EventPublish == ProducerPublish /\ mReady' = TRUE

\* 's': the guard, then the flag.
AskStop ==
  /\ pc[Consumer] = "prompt"
  /\ Goto(Consumer, "stop")
  /\ UNCHANGED <<blockVars, countVars, mReady>>

ShutDown ==
  /\ pc[Consumer] = "stop" /\ mGuard = Nobody
  /\ fStop' = TRUE
  /\ Goto(Consumer, "done")
  /\ UNCHANGED <<mGuard, fReady, mSequence, mData, displayed, countVars, mReady>>

\* 'c': first the event,
AskMessage ==
  /\ pc[Consumer] = "prompt"
  /\ Goto(Consumer, "wait")
  /\ UNCHANGED <<blockVars, countVars, mReady>>

Wake ==
  /\ pc[Consumer] = "wait" /\ mReady
  /\ mReady' = FALSE
  /\ Goto(Consumer, "enter")
  /\ UNCHANGED <<blockVars, countVars>>

\* then, after ConsumerEnter, the message, and the counts one after the other.
EventDisplay ==
  /\ pc[Consumer] = "display"
  /\ MessageDisplay
  /\ nCons' = nCons + 1
  /\ Goto(Consumer, "count")
  /\ UNCHANGED <<mGuard, fReady, fStop, mSequence, mData, nLost, mReady>>

\* Fault: as in simplePC.c.
EventCount_TooMany ==
  /\ pc[Consumer] = "count"
  /\ nLost' = mSequence - nCons + 1
  /\ fReady' = FALSE
  /\ mGuard' = Nobody
  /\ Goto(Consumer, "prompt")
  /\ UNCHANGED <<fStop, mSequence, mData, displayed, nCons, mReady>>

EventCount ==
  /\ pc[Consumer] = "count"
  /\ nLost' = mSequence - nCons
  /\ fReady' = FALSE
  /\ mGuard' = Nobody
  /\ Goto(Consumer, "prompt")
  /\ UNCHANGED <<fStop, mSequence, mData, displayed, nCons, mReady>>

-----------------------------------------------------------------------------
EventProduce == \/ (ProducerLoop \/ ProducerEnter) /\ UNCHANGED mReady
                \/ EventPublish

EventConsume == \/ ShutDown
                \/ Wake
                \/ ConsumerEnter /\ UNCHANGED mReady
                \/ EventDisplay
                \/ EventCount

EventNext == EventProduce \/ AskStop \/ AskMessage \/ EventConsume

EventSpec == EventInit /\ [][EventNext]_eventVars

-----------------------------------------------------------------------------
(***************************************************************************)
(* "At all times, 0 <= nLost + nCons <= mSequence", also between the two   *)
(* assignments of the consumer: the counts never claim more messages than  *)
(* were produced.                                                          *)
(***************************************************************************)
CountsBounded == 0 <= nLost + nCons /\ nLost + nCons <= mSequence

(***************************************************************************)
(* A message that is ready is announced: the event is set, or the consumer *)
(* has seen it and is on the way to the message.  The event may say so     *)
(* when there is none (the comment at the test of fReady), never the other *)
(* way round.                                                              *)
(***************************************************************************)
ReadyIsAnnounced ==
  fReady => mReady \/ pc[Consumer] \in {"enter", "display", "count"}

(***************************************************************************)
(* What is displayed is a complete message, later than all displayed       *)
(* before: "Don't process a message twice", and none while it is filled.   *)
(***************************************************************************)
DisplayedOnce ==
  \A j \in DOMAIN displayed :
    /\ displayed[j] \in 1 .. mSequence
    /\ \A i \in 1 .. j - 1 : displayed[i] < displayed[j]
=============================================================================
