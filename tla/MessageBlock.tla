---------------------------- MODULE MessageBlock ----------------------------
(***************************************************************************)
(* The message block that simplePC.c, eventPC.c (CHAPTR08) and multiPCav.c *)
(* (CHAPTR10) share between a producer and consumers: one message at a     *)
(* time, a guard, a ready and a stop flag, and a sequence number.  Of the  *)
(* data only whose they are matters: mData is the number of the message    *)
(* that the block holds complete with its checksum, and 0 when it holds    *)
(* none, as while MessageFill runs.                                        *)
(***************************************************************************)
EXTENDS Integers, Sequences

CONSTANTS Producer, Consumers,   \* threads
          Nobody,                \* owner of a free guard
          MaxMessages            \* bound of the model: when the producer pauses

ASSUME BlockAssumption ==
  /\ Producer \notin Consumers
  /\ Nobody \notin Consumers \cup {Producer}
  /\ MaxMessages \in Nat

VARIABLES mGuard, fReady, fStop, mSequence, mData,
          displayed,   \* history: what MessageDisplay has found in the block
          pc

Threads == Consumers \cup {Producer}

blockVars == <<mGuard, fReady, fStop, mSequence, mData, displayed>>

BlockInit ==
  /\ mGuard = Nobody
  /\ fReady = FALSE /\ fStop = FALSE
  /\ mSequence = 0 /\ mData = 0
  /\ displayed = <<>>

Goto(t, l) == pc' = [pc EXCEPT ![t] = l]

\* MessageFill has begun and not yet written the checksum of the new data.
MessageFill == mData' = 0

\* It is complete, and sequenced.
Publish ==
  /\ mData' = mSequence + 1
  /\ mSequence' = mSequence + 1
  /\ fReady' = TRUE

MessageDisplay == displayed' = Append(displayed, mData)

BlockTypeOK ==
  /\ mGuard \in Threads \cup {Nobody}
  /\ fReady \in BOOLEAN /\ fStop \in BOOLEAN
  /\ mSequence \in Nat /\ mData \in Nat
  /\ displayed \in Seq(Nat)
=============================================================================
