---------------------------- MODULE QueueMonitor ----------------------------
(***************************************************************************)
(* The part of WSP4_Examples/CHAPTR10/QueueObj*.c that all the versions of *)
(* the bounded queue share: the ring buffer of a QUEUE_OBJECT (synchobj.h),*)
(* the guard that protects it, the way into QueueGet and QueuePut, and     *)
(* QueueDestroy.  The versions differ in how a caller waits for "not       *)
(* empty" (qNe) and "not full" (qNf) and how it announces them; each is a  *)
(* module of its own that EXTENDS this one.                                *)
(*                                                                         *)
(* The test of the while loop is a step of its own: that its outcome still *)
(* holds when the thread acts on it is what the guard is there for.  What  *)
(* a thread does after the loop, up to its release of the guard, is one    *)
(* step: change the ring, announce the change, leave.                      *)
(***************************************************************************)
EXTENDS Naturals, Sequences, FiniteSets

CONSTANTS Producers,   \* threads that call QueuePut
          Consumers,   \* threads that call QueueGet
          Destroyers,  \* threads that call QueueDestroy, at most once each
          Msg, NoMsg,  \* message contents; content of an unused slot or buffer
          QSize,       \* nMsgs, the number of slots allocated
          DWordMod,    \* 2^32 in the code: DWORD arithmetic wraps
          NoThread     \* the guard's owner when it is free

Callers == Producers \cup Consumers
Threads == Callers \cup Destroyers
Slots == 0 .. QSize - 1

ASSUME ThreadsAssumption ==
  /\ Producers \cap Consumers = {}
  /\ Callers \cap Destroyers = {}
  /\ NoThread \notin Threads

ASSUME SizeAssumption ==
  /\ QSize \in Nat \ {0}
  /\ DWordMod \in Nat
  /\ QSize < DWordMod

VARIABLES qFirst, qLast, msgArray,
          destroyed,   \* msgArray = NULL
          guardOpen,   \* the handle qGuard has not been closed
          qGuard,      \* the thread that owns the guard
          pc,          \* where each thread is
          rcvd,        \* rcvd[c]: the buffer c passes to QueueGet
          status       \* status[t]: result of t's last call

ringVars == <<qFirst, qLast, msgArray, rcvd>>
closeVars == <<destroyed, guardOpen>>
queueVars == <<qFirst, qLast, msgArray, destroyed, guardOpen, qGuard, pc,
               rcvd, status>>

(***************************************************************************)
(* Where a thread can be: "out" of the queue functions; "enter", blocked   *)
(* on the guard at the start of a call; "in", owner of the guard at the    *)
(* test of the while loop; "sleep", in the body of the loop; "gap", past   *)
(* the release of the guard but not yet waiting; "wait", blocked on its    *)
(* event; "again", woken and blocked on the guard; "act", past the loop;   *)
(* "ret", past the release of the guard at the end of a call; "closing",   *)
(* in QueueDestroy with the guard released but not closed; "gone", past    *)
(* QueueDestroy; "crashed", when the process has ended.                    *)
(***************************************************************************)
PCs == {"out", "enter", "in", "sleep", "gap", "wait", "again", "act",
        "ret", "closing", "gone", "crashed"}

\* Where a thread owns the guard.
Inside == {"in", "sleep", "act"}

Statuses == {"ok", "pending", "destroyed", "timeout"}

MonitorTypeOK ==
  /\ qFirst \in Slots /\ qLast \in Slots
  /\ msgArray \in [Slots -> Msg \cup {NoMsg}]
  /\ destroyed \in BOOLEAN /\ guardOpen \in BOOLEAN
  /\ qGuard \in Threads \cup {NoThread}
  /\ pc \in [Threads -> PCs]
  /\ rcvd \in [Consumers -> Msg \cup {NoMsg}]
  /\ status \in [Callers -> Statuses]

-----------------------------------------------------------------------------
(* The ring. *)

\* Subtraction of two DWORDs.
DWordMinus(a, b) == IF a >= b THEN a - b ELSE DWordMod - (b - a)

\* Fault: the index is not reduced modulo qSize.
NextSlot_NoWrap(i) == i + 1

\* Where an index moves when its slot has been used.
NextSlot(i) == (i + 1) % QSize

QueueEmpty == qFirst = qLast

\* Fault: the case of the gap between the last slot and the first is missing.
QueueFull_NoWrap == DWordMinus(qFirst, qLast) = 1

QueueFull == \/ DWordMinus(qFirst, qLast) = 1
             \/ qLast = QSize - 1 /\ qFirst = 0

QueueRemove(c) ==
  IF QueueEmpty
  THEN UNCHANGED ringVars
  ELSE /\ rcvd' = [rcvd EXCEPT ![c] = msgArray[qFirst]]
       /\ qFirst' = NextSlot(qFirst)
       /\ UNCHANGED <<qLast, msgArray>>

\* Fault: the index is advanced before the copy.
QueueInsert_AdvanceFirst(m) ==
  IF QueueFull
  THEN UNCHANGED ringVars
  ELSE /\ msgArray' = [msgArray EXCEPT ![NextSlot(qLast)] = m]
       /\ qLast' = NextSlot(qLast)
       /\ UNCHANGED <<qFirst, rcvd>>

QueueInsert(m) ==
  IF QueueFull
  THEN UNCHANGED ringVars
  ELSE /\ msgArray' = [msgArray EXCEPT ![qLast] = m]
       /\ qLast' = NextSlot(qLast)
       /\ UNCHANGED <<qFirst, rcvd>>

QueueInitialize ==
  /\ qFirst = 0 /\ qLast = 0
  /\ msgArray = [i \in Slots |-> NoMsg]
  /\ destroyed = FALSE /\ guardOpen = TRUE
  /\ qGuard = NoThread
  /\ pc = [t \in Threads |-> "out"]
  /\ rcvd = [c \in Consumers |-> NoMsg]
  /\ status = [t \in Callers |-> "ok"]

\* The number of messages held, and the messages, oldest first.
Count == IF qLast >= qFirst THEN qLast - qFirst ELSE QSize - (qFirst - qLast)
Contents == [i \in 1 .. Count |-> msgArray[(qFirst + i - 1) % QSize]]

FIFO == INSTANCE BoundedFIFO
          WITH buffer <- Contents, Capacity <- QSize - 1,
               Failures <- {"destroyed", "timeout"}, Late <- "timeout"

-----------------------------------------------------------------------------
(* The guard. *)

\* A wait for the guard succeeds when it is free (or already owned: mutexes
\* and critical sections are recursive).  Once the guard's handle has been
\* closed the wait may also fail at once; the code does not look at its
\* result and goes on without the guard.
AcquireGuard(t) ==
  \/ qGuard \in {NoThread, t} /\ qGuard' = t
  \/ ~guardOpen /\ UNCHANGED qGuard

ReleaseGuard(t) == qGuard' = IF qGuard = t THEN NoThread ELSE qGuard

Goto(t, l) == pc' = [pc EXCEPT ![t] = l]

-----------------------------------------------------------------------------
(* The steps that all versions have in common. *)

\* A caller starts QueueGet or QueuePut.
Call(t) ==
  /\ pc[t] = "out"
  /\ Goto(t, "enter")
  /\ status' = [status EXCEPT ![t] = "pending"]
  /\ UNCHANGED <<ringVars, closeVars, qGuard>>

\* The first wait for the guard, and the test of msgArray made right after
\* it: the early return keeps the guard.
Enter(t) ==
  /\ pc[t] = "enter"
  /\ AcquireGuard(t)
  /\ IF destroyed
     THEN /\ Goto(t, "out")
          /\ status' = [status EXCEPT ![t] = "destroyed"]
     ELSE /\ Goto(t, "in")
          /\ UNCHANGED status
  /\ UNCHANGED <<ringVars, closeVars>>

\* Fault: the loop body does not wait for the guard again.
Reacquire_NoGuard(t) ==
  /\ pc[t] = "again"
  /\ Goto(t, "in")
  /\ UNCHANGED <<ringVars, closeVars, qGuard, status>>

\* Fault: if in place of while.
Reacquire_NoRetest(t) ==
  /\ pc[t] = "again"
  /\ AcquireGuard(t)
  /\ Goto(t, "act")
  /\ UNCHANGED <<ringVars, closeVars, status>>

\* The wait for the guard after the wait for the event.
Reacquire(t) ==
  /\ pc[t] = "again"
  /\ AcquireGuard(t)
  /\ Goto(t, "in")
  /\ UNCHANGED <<ringVars, closeVars, status>>

\* The test of the while loop.
Test(t, mustWait) ==
  /\ pc[t] = "in"
  /\ Goto(t, IF mustWait THEN "sleep" ELSE "act")
  /\ UNCHANGED <<ringVars, closeVars, qGuard, status>>

\* A thread that had been waiting when the queue was destroyed does not look
\* at msgArray again.  If it has to wait, its wait on the closed event fails
\* at once and it keeps whatever it holds; if not, it uses msgArray, now NULL,
\* and that ends the process.
ResumeDestroyed(t) ==
  /\ destroyed
  /\ \/ pc[t] = "sleep" /\ Goto(t, "again")
     \/ pc[t] = "act" /\ pc' = [u \in Threads |-> "crashed"]
  /\ UNCHANGED <<ringVars, closeVars, qGuard, status>>

CallDestroy(d) ==
  /\ pc[d] = "out"
  /\ Goto(d, "enter")
  /\ UNCHANGED <<ringVars, closeVars, qGuard, status>>

\* QueueDestroy up to its ReleaseMutex.  Nothing wakes the threads that wait.
QueueDestroy(d) ==
  /\ pc[d] = "enter"
  /\ \/ qGuard = NoThread
     \/ ~guardOpen
  /\ destroyed' = TRUE
  /\ Goto(d, "closing")
  /\ UNCHANGED <<ringVars, guardOpen, qGuard, status>>

CloseGuard(d) ==
  /\ pc[d] = "closing"
  /\ guardOpen' = FALSE
  /\ Goto(d, "gone")
  /\ UNCHANGED <<ringVars, destroyed, qGuard, status>>

CallerStep(t) == Call(t) \/ Enter(t) \/ Reacquire(t)

Destroyer(d) == CallDestroy(d) \/ QueueDestroy(d) \/ CloseGuard(d)

CommonStep ==
  \/ \E t \in Callers : CallerStep(t) \/ ResumeDestroyed(t)
  \/ \E d \in Destroyers : Destroyer(d)

-----------------------------------------------------------------------------
(***************************************************************************)
(* What a thread decided from the ring while it owned the guard is still   *)
(* so when it acts: one past the loop of QueueGet has a message to remove, *)
(* one past the loop of QueuePut has a slot to fill, and one about to wait *)
(* has reason to.  No other thread can have moved an index in between.     *)
(***************************************************************************)
DecisionsHoldFor(C, P) ==
  ~destroyed =>
    /\ \A c \in C : /\ pc[c] = "act" => ~QueueEmpty
                    /\ pc[c] = "sleep" => QueueEmpty
    /\ \A p \in P : /\ pc[p] = "act" => ~QueueFull
                    /\ pc[p] = "sleep" => QueueFull

DecisionsHold == DecisionsHoldFor(Consumers, Producers)

(***************************************************************************)
(* A thread inside QueueGet while a message is there gets out, or finds    *)
(* the message taken by another; the same for QueuePut and a free slot.    *)
(* A queue that is destroyed owes nobody anything.                         *)
(***************************************************************************)
NoCallStuck ==
  /\ \A c \in Consumers :
       (pc[c] # "out" /\ ~QueueEmpty /\ ~destroyed)
         ~> (pc[c] = "out" \/ QueueEmpty \/ destroyed)
  /\ \A p \in Producers :
       (pc[p] # "out" /\ ~QueueFull /\ ~destroyed)
         ~> (pc[p] = "out" \/ QueueFull \/ destroyed)

Waiting(S) == {t \in S : pc[t] = "wait"}

\* The threads of S that are past their wait, or never had to wait.
Arriving(S) == {t \in S : pc[t] \in {"again", "in", "act"}}

(***************************************************************************)
(* No wake-up is lost: while a consumer sleeps there is a consumer awake   *)
(* inside QueueGet for every message in the queue, and while a producer    *)
(* sleeps there is one awake inside QueuePut for every free slot.          *)
(***************************************************************************)
NoLostSignal ==
  ~destroyed =>
    /\ Waiting(Consumers) # {} => Count <= Cardinality(Arriving(Consumers))
    /\ Waiting(Producers) # {} =>
         QSize - 1 - Count <= Cardinality(Arriving(Producers))
=============================================================================
