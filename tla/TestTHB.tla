------------------------------- MODULE TestTHB -------------------------------
(***************************************************************************)
(* CHAPTR10/testTHB.c: main starts the worker threads one by one, waits    *)
(* for all of them with one WaitForMultipleObjects and closes the barrier. *)
(* The wait fails at once when it is given more handles than the system    *)
(* allows, and main does not look at its result.                           *)
(***************************************************************************)
EXTENDS ThbObject

\* Threads are numbered in the order in which they are created.
ASSUME NumberAssumption == ThbThreads \subseteq Nat

CONSTANT MAXIMUM_WAIT_OBJECTS  \* 64

ASSUME LimitAssumption == MAXIMUM_WAIT_OBJECTS \in Nat \ {0}

VARIABLES workers,    \* the threads to start, as many as main is asked for
          created,    \* those started
          waited      \* main is past its WaitForMultipleObjects

testVars == <<vars, workers, created, waited>>

\* Some number of threads; which they are makes no difference.
Requests == {W \in SUBSET ThbThreads : \A t \in W, u \in ThbThreads : u < t => u \in W}

TestInit == /\ Init
            /\ workers \in Requests
            /\ created = {} /\ waited = FALSE

CreateWorker(t) ==
  /\ t \in workers \ created /\ \A u \in workers \ created : t <= u
  /\ created' = created \cup {t}
  /\ UNCHANGED <<vars, workers, waited>>

Worker(t) ==
  /\ t \in created
  /\ WaitThresholdBarrier(t)
  /\ UNCHANGED <<workers, created, waited>>

Joinable == Cardinality(workers) \in 1 .. MAXIMUM_WAIT_OBJECTS

\* Fault: main waits for any worker, not for all.
WaitForWorkers_Any ==
  /\ created = workers /\ ~waited
  /\ Joinable => \E t \in workers : place[t] = "passed"
  /\ waited' = TRUE
  /\ UNCHANGED <<vars, workers, created>>

WaitForWorkers ==
  /\ created = workers /\ ~waited
  /\ Joinable => \A t \in workers : place[t] = "passed"
  /\ waited' = TRUE
  /\ UNCHANGED <<vars, workers, created>>

Close ==
  /\ waited
  /\ CloseThresholdBarrier
  /\ UNCHANGED <<workers, created, waited>>

TestNext == \/ \E t \in ThbThreads : CreateWorker(t) \/ Worker(t)
            \/ WaitForWorkers
            \/ Close

-----------------------------------------------------------------------------
(***************************************************************************)
(* "Be certain that no thread is waiting on the object": nobody who is in  *)
(* the call uses it after it has been freed, when main has waited.         *)
(***************************************************************************)
NoUseAfterFree == Joinable => \A t \in workers : place[t] # "faulted"

(***************************************************************************)
(* With no fewer workers than the threshold, and no more than fit one      *)
(* wait, the program ends: the barrier is not busy then, and it is freed.  *)
(***************************************************************************)
TestMustEnd == Joinable /\ Cardinality(workers) >= bThreshold
TestEnded == place[Closer] = "closed"
=============================================================================
