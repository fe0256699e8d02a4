---------------------------- MODULE TestMultiSem ----------------------------
(***************************************************************************)
(* CHAPTR10/TestMultiSem.c: consumers take random numbers of units from a  *)
(* MultiSem semaphore, producers release them, and both count the units in *)
(* NumConsumed and NumProduced, under a mutex of their own and after the   *)
(* call has returned.  A monitor thread compares the two counts with the   *)
(* semaphore's.  On Control-C a handler sets Exit and releases a unit for  *)
(* every consumer, and main waits for all the threads.                     *)
(***************************************************************************)
EXTENDS MultiSem, FiniteSetsExt

CONSTANTS Handler,      \* the thread, one of Releasers, that runs CtrlcHandler
          MaxProduced   \* bound of the model: when the producers pause

ASSUME HandlerAssumption == Handler \in Releasers

VARIABLES NumProduced, NumConsumed,
          uncounted,    \* units a thread has moved and not yet counted
          Exit,
          place,        \* where a thread is in its loop
          left,         \* releases the handler has yet to make
          given         \* units the handler has released, which nobody counts

\* (long)(((float)rand()/RAND_MAX) * SemMax)+1: one too many for RAND_MAX.
OneToTooMany == 1 .. MaxCount + 1

Producers == Releasers \ {Handler}
Loopers == Waiters \cup Producers

countVars == <<NumProduced, NumConsumed, uncounted>>
exitVars == <<Exit, left, given>>
testVars == <<vars, countVars, exitVars, place>>

TestInit ==
  /\ Init
  /\ NumProduced = InitialCount /\ NumConsumed = 0
  /\ uncounted = [t \in Callers |-> 0]
  /\ Exit = FALSE /\ left = 0 /\ given = 0
  /\ place = [t \in Loopers |-> "test"]

\* The test of while (!Exit).  A mutex that an ending thread has kept is
\* abandoned, which the code takes for free.
Loop(t) ==
  /\ place[t] = "test" /\ pc[t] = "out" /\ uncounted[t] = 0
  /\ place' = [place EXCEPT ![t] = IF Exit THEN "done" ELSE "body"]
  /\ IF Exit /\ hMutexa = t
     THEN hMutexa' = Nobody /\ kept' = kept \ {t}
     ELSE UNCHANGED <<hMutexa, kept>>
  /\ UNCHANGED <<CurCount, eventVars, hMutex, fFirstComeFirstServed, pc, cSemRequest, result>>
  /\ UNCHANGED <<countVars, exitVars>>

\* A consumer's or producer's call is the last thing in the loop but counting.
EnterCall(t) ==
  /\ place[t] = "body"
  /\ place' = [place EXCEPT ![t] = "test"]
  /\ UNCHANGED <<countVars, exitVars>>

ConsumerCall(w, n) == Call(w, n) /\ EnterCall(w)

\* A step inside WaitForSemaphoreMW; WAIT_OBJECT_0 makes the consumer count.
ConsumerStep(w) ==
  /\ Proceed(w) \/ TimeOut(w)
  /\ uncounted' = [uncounted EXCEPT
                     ![w] = IF pc'[w] = "out" /\ result'[w] = "ok"
                            THEN cSemRequest[w] ELSE 0]
  /\ UNCHANGED <<NumProduced, NumConsumed, exitVars, place>>

\* Fault: the units asked for are counted whatever the call returned.
ConsumerCount_Always(w) ==
  /\ pc[w] = "out" /\ cSemRequest[w] > 0
  /\ uncounted[w] > 0 \/ result[w] = "timeout"
  /\ NumConsumed' = NumConsumed + cSemRequest[w]
  /\ uncounted' = [uncounted EXCEPT ![w] = 0]
  /\ UNCHANGED <<vars, NumProduced, exitVars, place>>

ConsumerCount(w) ==
  /\ uncounted[w] > 0
  /\ NumConsumed' = NumConsumed + uncounted[w]
  /\ uncounted' = [uncounted EXCEPT ![w] = 0]
  /\ UNCHANGED <<vars, NumProduced, exitVars, place>>

ProducerCall(r, n) ==
  /\ Exit \/ NumProduced + n <= MaxProduced
  /\ CallRelease(r, n)
  /\ EnterCall(r)

ProducerRelease(r) ==
  /\ ReleaseSemaphoreMW(r)
  /\ uncounted' = [uncounted EXCEPT
                     ![r] = IF result'[r] = "ok" THEN cSemRequest[r] ELSE 0]
  /\ UNCHANGED <<NumProduced, NumConsumed, exitVars, place>>

ProducerCount(r) ==
  /\ uncounted[r] > 0
  /\ NumProduced' = NumProduced + uncounted[r]
  /\ uncounted' = [uncounted EXCEPT ![r] = 0]
  /\ UNCHANGED <<vars, NumConsumed, exitVars, place>>

-----------------------------------------------------------------------------
(* CtrlcHandler, run once. *)

CtrlC ==
  /\ ~Exit
  /\ Exit' = TRUE
  /\ left' = Cardinality(Waiters)
  /\ UNCHANGED <<vars, countVars, given, place>>

HandlerCall ==
  /\ left > 0
  /\ CallRelease(Handler, 1)
  /\ UNCHANGED <<countVars, exitVars, place>>

HandlerRelease ==
  /\ ReleaseSemaphoreMW(Handler)
  /\ left' = left - 1
  /\ given' = IF result'[Handler] = "ok" THEN given + 1 ELSE given
  /\ UNCHANGED <<countVars, Exit, place>>

CtrlcHandler == CtrlC \/ HandlerCall \/ HandlerRelease

-----------------------------------------------------------------------------
ConsumerTh(w) == \/ Loop(w)
                 \/ \E n \in Units : ConsumerCall(w, n)
                 \/ ConsumerStep(w)
                 \/ ConsumerCount(w)

ProducerTh(r) == \/ Loop(r)
                 \/ \E n \in Units : ProducerCall(r, n)
                 \/ ProducerRelease(r)
                 \/ ProducerCount(r)

TestNext == \/ \E w \in Waiters : ConsumerTh(w)
            \/ \E r \in Producers : ProducerTh(r)
            \/ CtrlcHandler

TestSpec == TestInit /\ [][TestNext]_testVars

\* All threads run, and a mutex is handed over in order.
TestFairness == /\ \A w \in Waiters : SF_testVars(ConsumerTh(w))
                /\ \A r \in Producers : SF_testVars(ProducerTh(r))
                /\ SF_testVars(HandlerCall \/ HandlerRelease)

TestFairSpec == TestSpec /\ TestFairness

-----------------------------------------------------------------------------
Uncounted(S) == FoldSet(LAMBDA t, sum : sum + uncounted[t], 0, S)

(***************************************************************************)
(* Units are neither made nor lost: every one released is in the semaphore *)
(* or was handed to exactly one consumer, also when calls time out.  "For  *)
(* Correctness, we must have: Produced == Consumed + CurCount", up to the  *)
(* units that the threads have yet to count and those of the handler.      *)
(***************************************************************************)
UnitsConserved ==
  NumProduced + Uncounted(Producers) + given
    = NumConsumed + Uncounted(Waiters) + CurCount

(***************************************************************************)
(* The handler releases units to "assure that all Consumer threads are not *)
(* blocked waiting on a semaphore so that they have a chance to shut down":*)
(* after Control-C every consumer ends.                                    *)
(***************************************************************************)
ConsumersShutDown == \A w \in Waiters : Exit ~> (place[w] = "done")
=============================================================================
