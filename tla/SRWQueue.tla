------------------------------ MODULE SRWQueue ------------------------------
(***************************************************************************)
(* WindowsViaCPP5th, 08-Queue/Queue.cpp: writers put requests, readers     *)
(* take those with an even or an odd number, under a slim reader-writer    *)
(* lock with two condition variables.  A reader takes under the shared     *)
(* lock.  StopProcessing sets the flag and wakes all, without the lock.    *)
(*                                                                         *)
(* Stamps put the slots in order, so that the queue is a sequence.  A      *)
(* spurious wake-up of a reader, which looks again, is left out.           *)
(***************************************************************************)
EXTENDS Integers, Sequences, SequencesExt, FiniteSetsExt

CONSTANTS Writers,
          m_nMaxElements,
          MaxRequests       \* bound on the requests of each writer

Readers == {0, 1}           \* and the request numbers modulo two
QThreads == Readers \cup Writers

VARIABLES q,                \* the request numbers in the queue
          nRequestNum,      \* of each writer
          g_fShutdown,
          srwHolders,       \* the threads that hold the lock
          qpc,
          stopping,         \* place of StopProcessing
          sleptLate         \* threads that went to sleep after the flag was set

qVars == <<q, nRequestNum, g_fShutdown, srwHolders, qpc, stopping, sleptLate>>

QInit ==
  /\ q = <<>> /\ nRequestNum = [w \in Writers |-> 1]
  /\ g_fShutdown = FALSE /\ srwHolders = {}
  /\ qpc = [t \in QThreads |-> "loop"]
  /\ stopping = "idle" /\ sleptLate = {}

At(t, from, to) == qpc[t] = from /\ qpc' = [qpc EXCEPT ![t] = to]

NextFor(r) == {i \in DOMAIN q : q[i] % 2 = r}
IsEmpty(r) == NextFor(r) = {}
IsFull == Len(q) >= m_nMaxElements

Sleeping(S) == {t \in S : qpc[t] = "asleep"}

\* Thread t goes on to l and wakes one of S, or all.
WakeOne(S, t, l) ==
  \/ Sleeping(S) = {} /\ qpc' = [qpc EXCEPT ![t] = l]
  \/ \E u \in Sleeping(S) : qpc' = [qpc EXCEPT ![t] = l, ![u] = "again"]

WakeAll(S, t, l) ==
  qpc' = [u \in QThreads |-> IF u = t THEN l
                             ELSE IF u \in Sleeping(S) THEN "again" ELSE qpc[u]]

\* The loop of both ends at its head, when the flag is set there.  The test is
\* no step of its own: a thread at "loop" may have made it, and go on to the lock.
LoopEnds(t) ==
  /\ g_fShutdown /\ At(t, "loop", "done")
  /\ UNCHANGED <<q, nRequestNum, g_fShutdown, srwHolders, stopping, sleptLate>>

\* The lock goes with the sleep.
Sleeps(t) ==
  /\ At(t, "empty", "asleep") \/ At(t, "full", "asleep")
  /\ srwHolders' = srwHolders \ {t}
  /\ sleptLate' = IF g_fShutdown THEN sleptLate \cup {t} ELSE sleptLate
  /\ UNCHANGED <<q, nRequestNum, g_fShutdown, stopping>>

-----------------------------------------------------------------------------
(* ConsumeElement: the lock is held on only to sleep.  The flag is the last *)
(* thing that the test reads.                                              *)

FromLock(r, to) == At(r, "loop", to) \/ At(r, "again", to)

AcquireShared(r) ==
  /\ srwHolders \cap Writers = {}
  /\ \/ /\ g_fShutdown /\ FromLock(r, "bye")
        /\ UNCHANGED <<q, srwHolders>>
     \/ /\ ~g_fShutdown /\ IsEmpty(r) /\ FromLock(r, "empty")
        /\ srwHolders' = srwHolders \cup {r}
        /\ UNCHANGED q
     \/ /\ ~g_fShutdown /\ ~IsEmpty(r) /\ FromLock(r, "taken")
        /\ q' = RemoveAt(q, Min(NextFor(r)))
        /\ UNCHANGED srwHolders
  /\ UNCHANGED <<nRequestNum, g_fShutdown, stopping, sleptLate>>

ReaderWakes(r) ==
  /\ \/ qpc[r] = "taken" /\ WakeOne(Writers, r, "loop")
     \/ qpc[r] = "bye" /\ WakeOne(Readers, r, "done")
  /\ UNCHANGED <<q, nRequestNum, g_fShutdown, srwHolders, stopping, sleptLate>>

Reader(r) == LoopEnds(r) \/ Sleeps(r) \/ AcquireShared(r) \/ ReaderWakes(r)

-----------------------------------------------------------------------------
(* WriterThread *)

\* AddElement does nothing when the queue is full.
AddElement(w) ==
  /\ qpc' = [qpc EXCEPT ![w] = IF g_fShutdown THEN "bye" ELSE "added"]
  /\ q' = IF g_fShutdown \/ IsFull THEN q ELSE Append(q, nRequestNum[w])
  /\ UNCHANGED srwHolders

\* After the sleep the queue is not looked at again.
AcquireExclusive(w) ==
  /\ srwHolders = {}
  /\ \/ /\ IsFull /\ ~g_fShutdown /\ At(w, "loop", "full")
        /\ srwHolders' = {w}
        /\ UNCHANGED q
     \/ qpc[w] = "loop" /\ (~IsFull \/ g_fShutdown) /\ AddElement(w)
     \/ qpc[w] = "again" /\ AddElement(w)
  /\ UNCHANGED <<nRequestNum, g_fShutdown, stopping, sleptLate>>

SpuriousWakeup(w) ==
  /\ At(w, "asleep", "again")
  /\ UNCHANGED <<q, nRequestNum, g_fShutdown, srwHolders, stopping, sleptLate>>

\* A writer that has made MaxRequests sleeps on between two of them.
NextRequest(w) == IF nRequestNum[w] < MaxRequests[w] THEN "loop" ELSE "idle"

\* Fault: one reader is woken, whichever the request is for.
WriterWakes_One(w) ==
  /\ \/ /\ qpc[w] = "added"
        /\ WakeOne(Readers, w, NextRequest(w))
        /\ nRequestNum' = [nRequestNum EXCEPT ![w] = @ + 1]
     \/ qpc[w] = "bye" /\ WakeAll(Writers, w, "done") /\ UNCHANGED nRequestNum
  /\ UNCHANGED <<q, g_fShutdown, srwHolders, stopping, sleptLate>>

WriterWakes(w) ==
  /\ \/ /\ qpc[w] = "added"
        /\ WakeAll(Readers, w, NextRequest(w))
        /\ nRequestNum' = [nRequestNum EXCEPT ![w] = @ + 1]
     \/ qpc[w] = "bye" /\ WakeAll(Writers, w, "done") /\ UNCHANGED nRequestNum
  /\ UNCHANGED <<q, g_fShutdown, srwHolders, stopping, sleptLate>>

\* The bound is not one of the shut down.
WriterIdles(w) ==
  /\ g_fShutdown /\ At(w, "idle", "done")
  /\ UNCHANGED <<q, nRequestNum, g_fShutdown, srwHolders, stopping, sleptLate>>

Writer(w) == \/ LoopEnds(w) \/ Sleeps(w)
             \/ AcquireExclusive(w) \/ WriterWakes(w) \/ WriterIdles(w)

-----------------------------------------------------------------------------
(* StopProcessing *)

SetShutdown ==
  /\ stopping = "idle" /\ stopping' = "readers"
  /\ g_fShutdown' = TRUE
  /\ UNCHANGED <<q, nRequestNum, srwHolders, qpc, sleptLate>>

WakesAll(S) == qpc' = [u \in QThreads |-> IF u \in Sleeping(S) THEN "again" ELSE qpc[u]]

\* Fault: the writers are not woken.
FreeThreads_NoWriters ==
  /\ \/ stopping = "readers" /\ stopping' = "writers" /\ WakesAll(Readers)
     \/ stopping = "writers" /\ stopping' = "join" /\ UNCHANGED qpc
  /\ UNCHANGED <<q, nRequestNum, g_fShutdown, srwHolders, sleptLate>>

FreeThreads ==
  /\ \/ stopping = "readers" /\ stopping' = "writers" /\ WakesAll(Readers)
     \/ stopping = "writers" /\ stopping' = "join" /\ WakesAll(Writers)
  /\ UNCHANGED <<q, nRequestNum, g_fShutdown, srwHolders, sleptLate>>

JoinThreads ==
  /\ stopping = "join" /\ stopping' = "done"
  /\ \A t \in QThreads : qpc[t] = "done"
  /\ UNCHANGED <<q, nRequestNum, g_fShutdown, srwHolders, qpc, sleptLate>>

StopProcessing == SetShutdown \/ FreeThreads \/ JoinThreads

QNext == \/ \E r \in Readers : Reader(r)
         \/ \E w \in Writers : Writer(w) \/ SpuriousWakeup(w)
         \/ StopProcessing
-----------------------------------------------------------------------------
(***************************************************************************)
(* The writers make all their requests, although they may have to wait for *)
(* room, and the readers take those that the queue has, although each is   *)
(* of use to one of them only, unless the program is stopped.              *)
(***************************************************************************)
RequestsDone == \/ q = <<>> /\ \A w \in Writers : qpc[w] = "idle"
                \/ g_fShutdown

(***************************************************************************)
(* "Free all threads waiting on condition variables": after StopProcessing *)
(* all threads end, but for one that has looked at the flag before it was  *)
(* set and gone to sleep after it.                                         *)
(***************************************************************************)
ThreadsStopped == \A t \in QThreads : qpc[t] = "done" \/ t \in sleptLate
=============================================================================
