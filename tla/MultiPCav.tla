------------------------------ MODULE MultiPCav ------------------------------
(***************************************************************************)
(* CHAPTR10/multiPCav.c, a Pthreads program: the producer makes the next   *)
(* message when the last one was consumed, and each is consumed by one of  *)
(* the consumers that main creates when the user asks for it.  Between     *)
(* them are the condition variables mconsumed, on which the producer       *)
(* waits, and mReady, on which consumers wait for two seconds at a time.   *)
(***************************************************************************)
EXTENDS MessageBlock

VARIABLES f_consumed,
          main          \* place of main

multiVars == <<blockVars, pc, f_consumed, main>>

MultiInit ==
  /\ BlockInit
  /\ f_consumed = TRUE
  /\ main = "prompt"
  /\ pc = [t \in Threads |-> IF t = Producer THEN "loop" ELSE "none"]

\* Thread t goes on to l, having signalled one of the threads that sleep in S.
Signal(S, t, l) ==
  \/ S = {} /\ Goto(t, l)
  \/ \E u \in S : pc' = [pc EXCEPT ![t] = l, ![u] = "again"]

Sleepers == {c \in Consumers : pc[c] = "wait"}
SleepingProducer == {t \in {Producer} : pc[t] = "wait"}

-----------------------------------------------------------------------------
(* main *)

CreateConsumer(c) ==
  /\ main = "prompt" /\ ~fStop
  /\ pc[c] = "none"
  /\ Goto(c, "start")
  /\ UNCHANGED <<blockVars, f_consumed, main>>

\* The flag and the signal, under the guard.  Nobody signals mconsumed.
Stop ==
  /\ main = "prompt" /\ ~fStop
  /\ mGuard = Nobody
  /\ fStop' = TRUE
  /\ main' = "join"
  /\ \/ Sleepers = {} /\ UNCHANGED pc
     \/ \E c \in Sleepers : Goto(c, "again")
  /\ UNCHANGED <<mGuard, fReady, mSequence, mData, displayed, f_consumed>>

Join ==
  /\ main = "join"
  /\ pc[Producer] = "done"
  /\ \A c \in Consumers : pc[c] \in {"none", "done"}
  /\ main' = "done"
  /\ UNCHANGED <<blockVars, pc, f_consumed>>

-----------------------------------------------------------------------------
(* Produce *)

MultiLoop ==
  /\ pc[Producer] = "loop"
  /\ Goto(Producer, IF fStop THEN "done" ELSE "lock")
  /\ UNCHANGED <<blockVars, f_consumed, main>>

\* The loop around pthread_cond_wait, which gives the guard back.
ProduceTest ==
  /\ pc[Producer] \in {"lock", "again"} /\ mGuard = Nobody
  /\ IF ~f_consumed /\ ~fStop
     THEN Goto(Producer, "wait") /\ UNCHANGED <<mGuard, mData>>
     ELSE /\ fStop \/ mSequence < MaxMessages
          /\ mGuard' = Producer
          /\ IF fStop THEN UNCHANGED mData ELSE MessageFill
          /\ Goto(Producer, "fill")
  /\ UNCHANGED <<fReady, fStop, mSequence, displayed, f_consumed, main>>

ProduceSignal ==
  /\ pc[Producer] = "fill"
  /\ IF fStop
     THEN UNCHANGED <<mData, mSequence, fReady, f_consumed>>
     ELSE Publish /\ f_consumed' = FALSE
  /\ mGuard' = Nobody
  /\ Signal(Sleepers, Producer, "loop")
  /\ UNCHANGED <<fStop, displayed, main>>

-----------------------------------------------------------------------------
(* Consume *)

\* Storage of its own, and a number, under the guard.
ConsumerStart(c) ==
  /\ pc[c] = "start" /\ mGuard = Nobody
  /\ Goto(c, "loop")
  /\ UNCHANGED <<blockVars, f_consumed, main>>

ConsumerLoop(c) ==
  /\ pc[c] = "loop"
  /\ Goto(c, IF fStop THEN "report" ELSE "lock")
  /\ UNCHANGED <<blockVars, f_consumed, main>>

\* do { pthread_cond_timedwait: the wait comes before the first test.
ConsumerWait(c) ==
  /\ pc[c] = "lock" /\ mGuard = Nobody
  /\ Goto(c, "wait")
  /\ UNCHANGED <<blockVars, f_consumed, main>>

\* Fault: the stop flag is not in the condition.
ConsumerTest_NoStop(c) ==
  /\ pc[c] = "again" /\ mGuard = Nobody
  /\ IF fReady
     THEN mGuard' = c /\ Goto(c, "take")
     ELSE Goto(c, "wait") /\ UNCHANGED mGuard
  /\ UNCHANGED <<fReady, fStop, mSequence, mData, displayed, f_consumed, main>>

ConsumerTest(c) ==
  /\ pc[c] = "again" /\ mGuard = Nobody
  /\ IF fReady \/ fStop
     THEN mGuard' = c /\ Goto(c, "take")
     ELSE Goto(c, "wait") /\ UNCHANGED mGuard
  /\ UNCHANGED <<fReady, fStop, mSequence, mData, displayed, f_consumed, main>>

\* accumulate_statistics reads the whole message.
ConsumerTake(c) ==
  /\ pc[c] = "take"
  /\ IF fStop
     THEN UNCHANGED <<displayed, f_consumed, fReady>>
     ELSE MessageDisplay /\ f_consumed' = TRUE /\ fReady' = FALSE
  /\ mGuard' = Nobody
  /\ Signal(SleepingProducer, c, "loop")
  /\ UNCHANGED <<fStop, mSequence, mData, main>>

\* report_statistics, under the guard.
ConsumerReport(c) ==
  /\ pc[c] = "report" /\ mGuard = Nobody
  /\ Goto(c, "done")
  /\ UNCHANGED <<blockVars, f_consumed, main>>

\* Fault: a wait without a time-out.
TimeOut_Infinite(c) == FALSE /\ pc[c] = "wait" /\ UNCHANGED multiVars

\* The two seconds are over.
TimeOut(c) ==
  /\ pc[c] = "wait"
  /\ Goto(c, "again")
  /\ UNCHANGED <<blockVars, f_consumed, main>>

\* pthread_cond_wait may return without a signal.
SpuriousWakeup ==
  /\ pc[Producer] = "wait"
  /\ Goto(Producer, "again")
  /\ UNCHANGED <<blockVars, f_consumed, main>>

-----------------------------------------------------------------------------
MultiProduce == MultiLoop \/ ProduceTest \/ ProduceSignal

MultiConsume(c) ==
  \/ ConsumerStart(c) \/ ConsumerLoop(c) \/ ConsumerWait(c) \/ ConsumerTest(c)
  \/ ConsumerTake(c) \/ ConsumerReport(c) \/ TimeOut(c)

Main == Stop \/ Join \/ \E c \in Consumers : CreateConsumer(c)

(***************************************************************************)
(* "The producer does not create new data until the previous buffer has    *)
(* been consumed; it will be consumed by a single consumer thread": what   *)
(* was taken out are the messages produced, each once and in order, but    *)
(* for the one in the block.                                               *)
(***************************************************************************)
EachConsumedOnce ==
  /\ f_consumed = ~fReady
  /\ displayed = [i \in 1 .. mSequence - (IF fReady THEN 1 ELSE 0) |-> i]
=============================================================================
