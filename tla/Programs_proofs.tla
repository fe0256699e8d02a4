--------------------------- MODULE Programs_proofs ---------------------------
(***************************************************************************)
(* Proofs about the smaller programs: first about each by itself, then     *)
(* that the program chosen in Programs does what was proved of it.         *)
(***************************************************************************)
EXTENDS Programs, FoldTheorems, FiniteSetTheorems, SequenceTheorems, TLAPS

-----------------------------------------------------------------------------
(* ThbObject.c, for every finite set of threads and every threshold, and   *)
(* testTHB.c, which uses it.                                               *)

(***************************************************************************)
(* Every thread that has reached the barrier is counted, once, as long as  *)
(* there is a counter.                                                     *)
(***************************************************************************)
Counted == IF freed THEN Cardinality(Arrived) >= bThreshold
           ELSE bCount = Cardinality(Arrived)

(***************************************************************************)
(* The event is set, and a thread is let through, only when the threshold  *)
(* has been reached.                                                       *)
(***************************************************************************)
OpenAtThreshold ==
  /\ bEvent => bCount >= bThreshold
  /\ Passed # {} => bCount >= bThreshold

(***************************************************************************)
(* Until CloseThresholdBarrier closes the guard, a thread between its wait *)
(* for the guard and its release of it owns it.                            *)
(***************************************************************************)
GuardOwned ==
  "bGuard" \in open =>
    /\ \A t \in ThbThreads : place[t] \in {"in", "retest"} => bGuard = t
    /\ place[Closer] = "check" => bGuard = Closer

(***************************************************************************)
(* The object is taken apart only when the threshold has been reached, and *)
(* whoever waits then has been signalled.                                  *)
(***************************************************************************)
ClosedAtThreshold ==
  /\ place[Closer] \in {"idle", "check", "busy"} =>
       open = {"bEvent", "bGuard"} /\ ~freed
  /\ place[Closer] \in {"closing", "closed"} =>
       /\ bCount >= bThreshold
       /\ (\E t \in ThbThreads : place[t] = "wait") => bEvent

(***************************************************************************)
(* The inductive invariant.                                                *)
(***************************************************************************)
IInv == /\ TypeOK /\ Counted /\ OpenAtThreshold /\ GuardOwned
        /\ ClosedAtThreshold /\ NoLostBroadcast

-----------------------------------------------------------------------------
(***************************************************************************)
(* The number of threads that have arrived is a number, at most all.       *)
(***************************************************************************)
LEMMA ArrivedBounds ==
  /\ Cardinality(Arrived) \in Nat
  /\ Cardinality(Arrived) <= Cardinality(ThbThreads)
  /\ Cardinality(ThbThreads) \in Nat
<1>1. Arrived \in SUBSET ThbThreads
  BY DEF Arrived
<1> QED
  BY <1>1, BarrierAssumption, FS_Subset, FS_CardinalityType

(***************************************************************************)
(* One more arrival is one more thread; every other step leaves the set of *)
(* those who have arrived alone.                                           *)
(***************************************************************************)
LEMMA ArriveCounts ==
  ASSUME TypeOK, Counted, NEW t \in ThbThreads, Arrive(t)
  PROVE  Counted' /\ bCount' \in 0 .. Cardinality(ThbThreads)
<1>1. /\ place \in [ThbThreads \cup {Closer} -> ThreadPCs \cup CloserPCs]
      /\ place' = [place EXCEPT ![t] = "in"] /\ place[t] = "enter"
      /\ ~freed /\ ~freed'
      /\ bCount' = bCount + 1 /\ t # Closer
  BY BarrierAssumption DEF Arrive, MoveTo, TypeOK
<1>2. Arrived' = Arrived \cup {t} /\ t \notin Arrived
  BY <1>1 DEF Arrived
<1>3. IsFiniteSet(Arrived)
  BY BarrierAssumption, FS_Subset DEF Arrived
<1>4. Cardinality(Arrived') = Cardinality(Arrived) + 1
  BY <1>2, <1>3, FS_AddElement
<1>5. Arrived' \in SUBSET ThbThreads
  BY <1>2 DEF Arrived
<1>6. Cardinality(Arrived') <= Cardinality(ThbThreads)
  BY <1>5, BarrierAssumption, FS_Subset
<1> QED
  BY <1>1, <1>4, <1>6, ArrivedBounds DEF Counted

LEMMA ArrivedUnchanged ==
  ASSUME NEW t \in ThbThreads \cup {Closer}, NEW l,
         place \in [ThbThreads \cup {Closer} -> ThreadPCs \cup CloserPCs],
         place' = [place EXCEPT ![t] = l],
         t \in ThbThreads => (place[t] \in {"start", "enter"} <=> l \in {"start", "enter"})
  PROVE  Arrived' = Arrived
BY BarrierAssumption DEF Arrived

-----------------------------------------------------------------------------
LEMMA InitIInv == Init => IInv
<1> SUFFICES ASSUME Init PROVE IInv
  OBVIOUS
<1>1. Arrived = {} /\ Passed = {}
  BY BarrierAssumption DEF Init, Arrived, Passed
<1>2. Cardinality({}) = 0
  BY FS_EmptySet
<1>3. TypeOK
  <2>1. /\ place \in [ThbThreads \cup {Closer} -> ThreadPCs \cup CloserPCs]
        /\ place[Closer] = "idle" /\ \A t \in ThbThreads : place[t] = "start"
    BY BarrierAssumption DEF Init, ThreadPCs, CloserPCs
  <2>2. bCount \in 0 .. Cardinality(ThbThreads)
    BY ArrivedBounds DEF Init
  <2> QED
    BY <2>1, <2>2 DEF Init, TypeOK, ThreadPCs, CloserPCs
<1> QED
  BY <1>1, <1>2, <1>3, BarrierAssumption DEF Init, IInv, Counted, OpenAtThreshold,
     GuardOwned, ClosedAtThreshold, NoLostBroadcast

(***************************************************************************)
(* Each step of a thread keeps the inductive invariant.                    *)
(***************************************************************************)
LEMMA ThreadStep ==
  ASSUME IInv, NEW t \in ThbThreads, WaitThresholdBarrier(t)
  PROVE  IInv'
<1> USE BarrierAssumption DEF MoveTo, ThreadPCs, CloserPCs
<1>n. bCount \in Nat /\ bThreshold \in Nat /\ Cardinality(ThbThreads) \in Nat
  BY ArrivedBounds DEF IInv, TypeOK
<1>1. CASE Arrive(t)
  <2>1. Counted' /\ bCount' \in 0 .. Cardinality(ThbThreads)
    BY <1>1, ArriveCounts DEF IInv
  <2>2. TypeOK'
    BY <1>1, <2>1 DEF IInv, TypeOK, Arrive, WaitGuard
  <2>3. OpenAtThreshold'
    BY <1>1, <1>n DEF IInv, TypeOK, OpenAtThreshold, Arrive, Passed
  <2>4. GuardOwned'
    BY <1>1 DEF IInv, TypeOK, GuardOwned, Arrive, WaitGuard
  <2>5. ClosedAtThreshold'
    BY <1>1, <1>n DEF IInv, TypeOK, ClosedAtThreshold, Arrive
  <2>6. NoLostBroadcast'
    BY <1>1 DEF IInv, TypeOK, NoLostBroadcast, Arrive
  <2> QED BY <2>1, <2>2, <2>3, <2>4, <2>5, <2>6 DEF IInv
<1>2. CASE Sleep(t)
  <2>1. Arrived' = Arrived
    BY <1>2, ArrivedUnchanged DEF IInv, TypeOK, Sleep
  <2>2. TypeOK' /\ Counted'
    BY <1>2, <2>1 DEF IInv, TypeOK, Counted, Sleep, ReleaseGuard
  <2>3. OpenAtThreshold' /\ GuardOwned' /\ ClosedAtThreshold' /\ NoLostBroadcast'
    BY <1>2, <1>n DEF IInv, TypeOK, OpenAtThreshold, Passed, GuardOwned, ClosedAtThreshold,
       NoLostBroadcast, Sleep, ReleaseGuard
  <2> QED BY <2>2, <2>3 DEF IInv
<1>3. CASE Call(t) \/ Awake(t) \/ Reacquire(t)
  <2>1. Arrived' = Arrived
    BY <1>3, ArrivedUnchanged DEF IInv, TypeOK, Call, Awake, Reacquire
  <2>2. Counted'
    BY <1>3, <2>1 DEF IInv, Counted, Call, Awake, Reacquire
  <2>5. TypeOK'
    BY <1>3 DEF IInv, TypeOK, Call, Awake, Reacquire, WaitGuard
  <2>3. OpenAtThreshold' /\ ClosedAtThreshold' /\ NoLostBroadcast'
    BY <1>3 DEF IInv, TypeOK, OpenAtThreshold, Passed, ClosedAtThreshold,
       NoLostBroadcast, Call, Awake, Reacquire
  <2>4. GuardOwned'
    BY <1>3 DEF IInv, TypeOK, GuardOwned, Call, Awake, Reacquire, WaitGuard
  <2> QED BY <2>2, <2>3, <2>4, <2>5 DEF IInv
<1>4. CASE Pass(t)
  <2>1. Arrived' = Arrived
    BY <1>4, ArrivedUnchanged DEF IInv, TypeOK, Pass
  <2>2. TypeOK' /\ Counted'
    BY <1>4, <2>1 DEF IInv, TypeOK, Counted, Pass, ReleaseGuard
  <2>3. OpenAtThreshold' /\ GuardOwned' /\ ClosedAtThreshold'
    BY <1>4 DEF IInv, TypeOK, OpenAtThreshold, Passed, GuardOwned, ClosedAtThreshold,
       Pass, ReleaseGuard
  <2>4. NoLostBroadcast'
    <3>1. CASE "bEvent" \in open
      BY <1>4, <3>1 DEF Pass, NoLostBroadcast
    <3>2. CASE "bEvent" \notin open
      BY <1>4, <3>2 DEF IInv, TypeOK, ClosedAtThreshold, Pass, NoLostBroadcast
    <3> QED BY <3>1, <3>2
  <2> QED BY <2>2, <2>3, <2>4 DEF IInv
<1>5. CASE UseFreed(t)
  <2>1. Arrived' = Arrived \cup {t} /\ freed /\ freed'
    BY <1>5 DEF IInv, TypeOK, UseFreed, Arrived
  <2>2. IsFiniteSet(Arrived) /\ Cardinality(Arrived) \in Nat
    BY FS_Subset, ArrivedBounds DEF Arrived
  <2>7. Cardinality(Arrived') \in {Cardinality(Arrived), Cardinality(Arrived) + 1}
    BY <2>1, <2>2, FS_AddElement
  <2>3. Counted'
    BY <2>1, <2>2, <2>7, <1>n DEF IInv, Counted
  <2>4. TypeOK' /\ OpenAtThreshold'
    BY <1>5 DEF IInv, TypeOK, OpenAtThreshold, Passed, UseFreed
  <2>5. GuardOwned' /\ ClosedAtThreshold'
    BY <1>5 DEF IInv, TypeOK, GuardOwned, ClosedAtThreshold, UseFreed
  <2>6. NoLostBroadcast'
    BY <1>5 DEF IInv, TypeOK, ClosedAtThreshold, NoLostBroadcast, UseFreed
  <2> QED BY <2>3, <2>4, <2>5, <2>6 DEF IInv
<1> QED
  BY <1>1, <1>2, <1>3, <1>4, <1>5 DEF WaitThresholdBarrier

(***************************************************************************)
(* So does each step of the thread that closes the barrier.                *)
(***************************************************************************)
LEMMA CloserStep ==
  ASSUME IInv, CloseThresholdBarrier
  PROVE  IInv'
<1> USE BarrierAssumption DEF MoveTo, ThreadPCs, CloserPCs
<1>1. Arrived' = Arrived /\ Passed' = Passed
  BY DEF IInv, TypeOK, Arrived, Passed, CloseThresholdBarrier, CloseWait, CloseCheck,
     CloseBEvent, CloseBGuard, Free
<1>2. Counted'
  BY <1>1 DEF IInv, Counted, ClosedAtThreshold, CloseThresholdBarrier, CloseWait,
     CloseCheck, CloseBEvent, CloseBGuard, Free
<1>3. OpenAtThreshold'
  BY <1>1 DEF IInv, OpenAtThreshold, CloseThresholdBarrier, CloseWait, CloseCheck,
     CloseBEvent, CloseBGuard, Free
<1>7. TypeOK'
  <2>1. CASE CloseWait
    BY <2>1 DEF IInv, TypeOK, CloseWait, WaitGuard
  <2>2. CASE CloseCheck
    BY <2>2 DEF IInv, TypeOK, CloseCheck, ReleaseGuard
  <2>3. CASE CloseBEvent \/ CloseBGuard \/ Free
    BY <2>3 DEF IInv, TypeOK, CloseBEvent, CloseBGuard, Free
  <2> QED BY <2>1, <2>2, <2>3 DEF CloseThresholdBarrier
<1>4. GuardOwned'
  BY DEF IInv, TypeOK, GuardOwned, WaitGuard, ReleaseGuard,
     CloseThresholdBarrier, CloseWait, CloseCheck, CloseBEvent, CloseBGuard, Free
<1>5. ClosedAtThreshold'
  <2>1. CASE CloseCheck
    <3>1. "bGuard" \in open /\ bGuard = Closer
      BY <2>1 DEF IInv, ClosedAtThreshold, GuardOwned, CloseCheck
    <3>2. \A t \in ThbThreads : place[t] \notin {"in", "retest"}
      BY <3>1 DEF IInv, GuardOwned
    <3> QED
      BY <2>1, <3>2, ArrivedBounds
      DEF IInv, TypeOK, NoLostBroadcast, ClosedAtThreshold, CloseCheck
  <2>2. CASE CloseWait \/ CloseBEvent \/ CloseBGuard \/ Free
    BY <2>2 DEF IInv, TypeOK, ClosedAtThreshold, CloseWait, CloseBEvent, CloseBGuard, Free
  <2> QED BY <2>1, <2>2 DEF CloseThresholdBarrier
<1>6. NoLostBroadcast'
  BY DEF IInv, TypeOK, NoLostBroadcast, CloseThresholdBarrier, CloseWait, CloseCheck,
     CloseBEvent, CloseBGuard, Free
<1> QED
  BY <1>2, <1>3, <1>4, <1>5, <1>6, <1>7 DEF IInv

\* No step breaks it.
LEMMA BarrierStep == IInv /\ [Next]_vars => IInv'
<1> SUFFICES ASSUME IInv, [Next]_vars PROVE IInv'
  OBVIOUS
<1>1. CASE UNCHANGED vars
  BY <1>1 DEF vars, IInv, TypeOK, Counted, Arrived, Passed, OpenAtThreshold, GuardOwned,
     ClosedAtThreshold, NoLostBroadcast
<1> QED
  BY <1>1, ThreadStep, CloserStep DEF Next

(***************************************************************************)
(* IInv is an invariant.                                                   *)
(***************************************************************************)
THEOREM Invariance == Spec => []IInv
BY BarrierStep, InitIInv, PTL DEF Spec

\* What IInv says of the barrier.
LEMMA BarrierFacts == IInv => BarrierHolds /\ NoLostBroadcast /\ BusyProtectsWaiters
<1> SUFFICES ASSUME IInv PROVE BarrierHolds /\ BusyProtectsWaiters
  BY DEF IInv
<1>1. BarrierHolds
  <2> SUFFICES ASSUME Passed # {} PROVE Cardinality(Arrived) >= bThreshold
    BY DEF BarrierHolds
  <2> QED
    BY DEF IInv, Counted, OpenAtThreshold
<1>2. BusyProtectsWaiters
  BY DEF IInv, TypeOK, ClosedAtThreshold, BusyProtectsWaiters, CloserPCs
<1> QED
  BY <1>1, <1>2

(***************************************************************************)
(* The variables of the barrier keep their types; in particular bCount     *)
(* never exceeds the number of threads.                                    *)
(***************************************************************************)
THEOREM TypeCorrect == Spec => []TypeOK
BY Invariance, PTL DEF IInv

(***************************************************************************)
(* No thread passes before bThreshold threads have reached the barrier.    *)
(***************************************************************************)
THEOREM NobodyPassesEarly == Spec => []BarrierHolds
BY BarrierFacts, Invariance, PTL

(***************************************************************************)
(* No broadcast is lost.                                                   *)
(***************************************************************************)
THEOREM BroadcastsNeverLost == Spec => []NoLostBroadcast
BY Invariance, PTL DEF IInv

(***************************************************************************)
(* No thread is left waiting, unsignalled, on an object that is freed.     *)
(***************************************************************************)
THEOREM WaitersNeverStranded == Spec => []BusyProtectsWaiters
BY BarrierFacts, Invariance, PTL

-----------------------------------------------------------------------------
(* testTHB.c *)

TestSpec == TestInit /\ [][TestNext]_testVars

\* The barrier is taken apart only after main has waited, and then all workers
\* have passed, if they are no more than one wait can take.
JoinedFirst ==
  /\ place \in [ThbThreads \cup {Closer} -> ThreadPCs \cup CloserPCs]
  /\ created \subseteq workers /\ workers \subseteq ThbThreads
  /\ freed => waited
  /\ waited /\ Joinable => created = workers /\ \A t \in workers : place[t] = "passed"
  /\ NoUseAfterFree

(***************************************************************************)
(* No step of main or of a worker breaks that: a worker that has passed    *)
(* takes no more steps, and before main has waited nothing is freed.       *)
(***************************************************************************)
LEMMA TestStep == JoinedFirst /\ [TestNext]_testVars => JoinedFirst'
<1> SUFFICES ASSUME JoinedFirst, [TestNext]_testVars PROVE JoinedFirst'
  OBVIOUS
<1> USE BarrierAssumption DEF JoinedFirst, MoveTo, ThreadPCs, CloserPCs
<1>1. CASE \E t \in ThbThreads : CreateWorker(t)
  BY <1>1 DEF CreateWorker, vars, Joinable, NoUseAfterFree
<1>2. ASSUME NEW t \in ThbThreads, Worker(t) PROVE JoinedFirst'
  <2>1. /\ t \in created /\ UNCHANGED <<freed, workers, created, waited>>
        /\ place[t] # "passed" /\ \E l \in ThreadPCs : place' = [place EXCEPT ![t] = l]
        /\ place'[t] = "faulted" => freed
    BY <1>2 DEF Worker, WaitThresholdBarrier, Call, Arrive, Sleep, Awake, Reacquire, Pass, UseFreed
  <2>2. Joinable' = Joinable
    BY <2>1 DEF Joinable
  <2>3. Joinable => ~waited
    BY <2>1
  <2> QED
    BY <2>1, <2>2, <2>3 DEF NoUseAfterFree
<1>3. CASE WaitForWorkers
  BY <1>3 DEF WaitForWorkers, vars, Joinable, NoUseAfterFree
<1>4. CASE Close
  <2>1. waited /\ UNCHANGED <<workers, created, waited>>
    BY <1>4 DEF Close
  <2>2. \A t \in ThbThreads : place'[t] = place[t]
    BY <1>4 DEF Close, CloseThresholdBarrier, CloseWait, CloseCheck, CloseBEvent, CloseBGuard, Free
  <2>3. place' \in [ThbThreads \cup {Closer} -> ThreadPCs \cup CloserPCs]
    BY <1>4 DEF Close, CloseThresholdBarrier, CloseWait, CloseCheck, CloseBEvent, CloseBGuard, Free
  <2>4. Joinable' = Joinable
    BY <2>1 DEF Joinable
  <2> QED
    BY <2>1, <2>2, <2>3, <2>4 DEF NoUseAfterFree
<1>5. CASE UNCHANGED testVars
  BY <1>5 DEF testVars, vars, Joinable, NoUseAfterFree
<1> QED
  BY <1>1, <1>2, <1>3, <1>4, <1>5 DEF TestNext

\* Main begins with nothing created, waited for or freed.
LEMMA TestBegins == TestInit => JoinedFirst
BY BarrierAssumption
   DEF TestInit, Init, Requests, JoinedFirst, NoUseAfterFree, ThreadPCs, CloserPCs

(***************************************************************************)
(* testTHB.c frees the barrier under no worker, for any threshold and any  *)
(* number of workers that one WaitForMultipleObjects can take.             *)
(***************************************************************************)
THEOREM FreedAfterUse == TestSpec => []NoUseAfterFree
<1>1. JoinedFirst => NoUseAfterFree
  BY DEF JoinedFirst
<1> QED
  BY <1>1, TestBegins, TestStep, PTL DEF TestSpec

\* To the barrier, a step of testTHB.c is one of its own, or none.
LEMMA TestUsesBarrier == [TestNext]_testVars => [Next]_vars
BY DEF TestNext, testVars, CreateWorker, Worker, WaitForWorkers, Close, Next

-----------------------------------------------------------------------------
(* eventPC.c, for any number of messages. *)

EventPCs == {"none", "prompt", "loop", "enter", "stop", "wait", "display", "count", "fill",
        "done"}

EventTypeOK ==
  /\ BlockTypeOK
  /\ nCons \in Nat /\ nLost \in Nat
  /\ mReady \in BOOLEAN
  /\ pc \in [Threads -> EventPCs]

(***************************************************************************)
(* The guard is owned by the thread that has something under way, and only *)
(* a ready message is displayed.                                           *)
(***************************************************************************)
EventGuardOwned ==
  /\ pc[Producer] = "fill" <=> mGuard = Producer
  /\ pc[Consumer] \in {"display", "count"} <=> mGuard = Consumer
  /\ pc[Consumer] \in {"display", "count"} => fReady

(***************************************************************************)
(* A ready message is complete, and the last one produced; while it is     *)
(* filled it is not ready.                                                 *)
(***************************************************************************)
DataValid ==
  /\ fReady => mData = mSequence /\ mSequence > 0
  /\ pc[Producer] = "fill" => ~fReady

\* There is a message that was neither displayed nor counted.
MessagePending == fReady /\ pc[Consumer] # "count"

(***************************************************************************)
(* The counts and the displayed messages leave room for it.                *)
(***************************************************************************)
PendingUncounted ==
  /\ nLost + nCons <= mSequence
  /\ MessagePending => nLost + nCons < mSequence

PendingUndisplayed ==
  /\ DisplayedOnce
  /\ MessagePending => \A j \in DOMAIN displayed : displayed[j] < mSequence

EventInv == /\ EventTypeOK /\ EventGuardOwned /\ DataValid
        /\ PendingUncounted /\ PendingUndisplayed /\ ReadyIsAnnounced

-----------------------------------------------------------------------------
LEMMA ThreadsDistinct ==
  /\ Consumer # Producer /\ Consumer # Nobody /\ Producer # Nobody
  /\ Consumer \in Threads /\ Producer \in Threads
BY BlockAssumption, ConsumerAssumption DEF Threads

LEMMA EventBegins == EventInit => EventInv
<1> SUFFICES ASSUME EventInit PROVE EventInv
  OBVIOUS
<1> USE ThreadsDistinct DEF EventInit, SimpleInit, BlockInit
<1>1. EventTypeOK
  <2>1. pc \in [Threads -> EventPCs]
    BY DEF EventPCs
  <2>2. displayed \in Seq(Nat)
    OBVIOUS
  <2>3. mGuard \in Threads \cup {Nobody} /\ mSequence \in Nat /\ mData \in Nat
    OBVIOUS
  <2>4. fReady \in BOOLEAN /\ fStop \in BOOLEAN
    OBVIOUS
  <2> QED BY <2>1, <2>2, <2>3, <2>4 DEF EventTypeOK, BlockTypeOK
<1>2. EventGuardOwned /\ DataValid /\ ReadyIsAnnounced
  BY DEF EventGuardOwned, DataValid, ReadyIsAnnounced
<1>3. PendingUncounted /\ PendingUndisplayed
  BY DEF PendingUncounted, PendingUndisplayed, MessagePending, DisplayedOnce
<1> QED BY <1>1, <1>2, <1>3 DEF EventInv

(***************************************************************************)
(* The producer keeps the inductive invariant.                             *)
(***************************************************************************)
LEMMA EventProducerStep == EventInv /\ EventProduce => EventInv'
<1> SUFFICES ASSUME EventInv, EventProduce PROVE EventInv'
  OBVIOUS
<1> USE ThreadsDistinct DEF Goto, EventPCs
<1>1. CASE ProducerLoop /\ UNCHANGED mReady
  <2>1. EventTypeOK'
    BY <1>1 DEF EventInv, EventTypeOK, BlockTypeOK, ProducerLoop, blockVars, countVars
  <2>2. EventGuardOwned' /\ DataValid' /\ ReadyIsAnnounced'
    BY <1>1 DEF EventInv, EventTypeOK, EventGuardOwned, DataValid, ReadyIsAnnounced,
                ProducerLoop, blockVars, countVars
  <2>3. PendingUncounted' /\ PendingUndisplayed'
    BY <1>1 DEF EventInv, EventTypeOK, PendingUncounted, PendingUndisplayed, MessagePending, DisplayedOnce,
                ProducerLoop, blockVars, countVars
  <2> QED BY <2>1, <2>2, <2>3 DEF EventInv
<1>2. CASE ProducerEnter /\ UNCHANGED mReady
  <2>1. EventTypeOK'
    <3>1. /\ fReady' \in BOOLEAN /\ fStop' \in BOOLEAN
          /\ mReady' \in BOOLEAN
      BY <1>2 DEF EventInv, EventTypeOK, BlockTypeOK, ProducerEnter, MessageFill, countVars
    <3>2. mGuard' \in Threads \cup {Nobody} /\ mSequence' \in Nat /\ mData' \in Nat
      BY <1>2 DEF EventInv, EventTypeOK, BlockTypeOK, ProducerEnter, MessageFill, countVars
    <3>3. displayed' \in Seq(Nat) /\ nCons' \in Nat /\ nLost' \in Nat
      BY <1>2 DEF EventInv, EventTypeOK, BlockTypeOK, ProducerEnter, MessageFill, countVars
    <3>4. pc' \in [Threads -> EventPCs]
      BY <1>2 DEF EventInv, EventTypeOK, ProducerEnter, MessageFill, countVars
    <3> QED BY <3>1, <3>2, <3>3, <3>4 DEF EventTypeOK, BlockTypeOK
  <2>2. EventGuardOwned' /\ DataValid' /\ ReadyIsAnnounced'
    BY <1>2 DEF EventInv, EventTypeOK, EventGuardOwned, DataValid, ReadyIsAnnounced,
                ProducerEnter, countVars
  <2>3. PendingUncounted' /\ PendingUndisplayed'
    BY <1>2 DEF EventInv, EventTypeOK, PendingUncounted, PendingUndisplayed, MessagePending, DisplayedOnce,
                ProducerEnter, countVars
  <2> QED BY <2>1, <2>2, <2>3 DEF EventInv
<1>3. CASE EventPublish
  <2>1. EventTypeOK'
    BY <1>3 DEF EventInv, EventTypeOK, BlockTypeOK, EventPublish, ProducerPublish, Publish, countVars
  <2>2. EventGuardOwned' /\ DataValid' /\ ReadyIsAnnounced'
    BY <1>3 DEF EventInv, EventTypeOK, BlockTypeOK, EventGuardOwned, DataValid, ReadyIsAnnounced,
                EventPublish, ProducerPublish, Publish
  <2>3. mSequence \in Nat /\ mSequence' = mSequence + 1
        /\ UNCHANGED <<nCons, nLost, displayed>>
    BY <1>3 DEF EventInv, EventTypeOK, BlockTypeOK, EventPublish, ProducerPublish, Publish, countVars
  <2>4. PendingUncounted'
    BY <2>3 DEF EventInv, EventTypeOK, PendingUncounted
  <2>5. PendingUndisplayed'
    BY <2>3 DEF EventInv, EventTypeOK, PendingUndisplayed, DisplayedOnce
  <2> QED BY <2>1, <2>2, <2>4, <2>5 DEF EventInv
<1> QED BY <1>1, <1>2, <1>3 DEF EventProduce

(***************************************************************************)
(* So do the consumer and the user.                                        *)
(***************************************************************************)
LEMMA EventConsumerStep == EventInv /\ (EventConsume \/ AskStop \/ AskMessage) => EventInv'
<1> SUFFICES ASSUME EventInv, EventConsume \/ AskStop \/ AskMessage PROVE EventInv'
  OBVIOUS
<1> USE ThreadsDistinct DEF Goto, EventPCs
<1>1. CASE AskStop \/ ShutDown \/ AskMessage \/ Wake \/ (ConsumerEnter /\ UNCHANGED mReady)
  <2>1. EventTypeOK'
    BY <1>1 DEF EventInv, EventTypeOK, BlockTypeOK,
                AskStop, ShutDown, AskMessage, Wake, ConsumerEnter, blockVars, countVars
  <2>2. EventGuardOwned' /\ DataValid' /\ ReadyIsAnnounced'
    BY <1>1 DEF EventInv, EventTypeOK, EventGuardOwned, DataValid, ReadyIsAnnounced,
                AskStop, ShutDown, AskMessage, Wake, ConsumerEnter, blockVars
  <2>3. PendingUncounted' /\ PendingUndisplayed'
    BY <1>1 DEF EventInv, EventTypeOK, PendingUncounted, PendingUndisplayed, MessagePending, DisplayedOnce,
                AskStop, ShutDown, AskMessage, Wake, ConsumerEnter, blockVars, countVars
  <2> QED BY <2>1, <2>2, <2>3 DEF EventInv
<1>2. CASE EventDisplay
  <2>1. EventTypeOK'
    BY <1>2 DEF EventInv, EventTypeOK, BlockTypeOK, EventDisplay, MessageDisplay
  <2>2. EventGuardOwned' /\ DataValid' /\ ReadyIsAnnounced'
    BY <1>2 DEF EventInv, EventTypeOK, EventGuardOwned, DataValid, ReadyIsAnnounced, EventDisplay
  <2>3. /\ MessagePending /\ ~MessagePending' /\ mData = mSequence /\ mSequence \in Nat /\ mSequence > 0
        /\ UNCHANGED <<mSequence, nLost>> /\ nCons' = nCons + 1
        /\ displayed' = Append(displayed, mData) /\ displayed \in Seq(Nat)
    BY <1>2 DEF EventInv, EventTypeOK, BlockTypeOK, EventGuardOwned, DataValid, MessagePending,
                EventDisplay, MessageDisplay
  <2>4. PendingUncounted'
    BY <2>3 DEF EventInv, EventTypeOK, PendingUncounted
  <2>5. DisplayedOnce'
    <3>1. \A j \in DOMAIN displayed : displayed[j] < mSequence
      BY <2>3 DEF EventInv, PendingUndisplayed
    <3> QED BY <2>3, <3>1 DEF EventInv, PendingUndisplayed, DisplayedOnce
  <2> QED BY <2>1, <2>2, <2>3, <2>4, <2>5 DEF EventInv, PendingUndisplayed
<1>3. CASE EventCount
  <2>1. nCons \in Nat /\ mSequence \in Nat /\ nLost \in Nat /\ nCons <= mSequence
    BY DEF EventInv, EventTypeOK, BlockTypeOK, PendingUncounted
  <2>2. EventTypeOK'
    <3>1. /\ fReady' \in BOOLEAN /\ fStop' \in BOOLEAN
          /\ mReady' \in BOOLEAN
      BY <1>3 DEF EventInv, EventTypeOK, BlockTypeOK, EventCount
    <3>2. mGuard' \in Threads \cup {Nobody} /\ mSequence' \in Nat /\ mData' \in Nat
      BY <1>3 DEF EventInv, EventTypeOK, BlockTypeOK, EventCount
    <3>3. displayed' \in Seq(Nat) /\ nCons' \in Nat /\ nLost' \in Nat
      BY <1>3, <2>1 DEF EventInv, EventTypeOK, BlockTypeOK, EventCount
    <3>4. pc' \in [Threads -> EventPCs]
      BY <1>3 DEF EventInv, EventTypeOK, EventCount
    <3> QED BY <3>1, <3>2, <3>3, <3>4 DEF EventTypeOK, BlockTypeOK
  <2>3. EventGuardOwned' /\ DataValid' /\ ReadyIsAnnounced'
    BY <1>3 DEF EventInv, EventTypeOK, EventGuardOwned, DataValid, ReadyIsAnnounced, EventCount
  <2>4. PendingUncounted' /\ PendingUndisplayed'
    BY <1>3, <2>1 DEF EventInv, PendingUncounted, PendingUndisplayed, MessagePending, DisplayedOnce,
                      EventCount
  <2> QED BY <2>2, <2>3, <2>4 DEF EventInv
<1> QED BY <1>1, <1>2, <1>3 DEF EventConsume

LEMMA EventStep == EventInv /\ [EventNext]_eventVars => EventInv'
<1> SUFFICES ASSUME EventInv, [EventNext]_eventVars PROVE EventInv'
  OBVIOUS
<1>1. CASE UNCHANGED eventVars
  BY <1>1 DEF eventVars, simpleVars, blockVars, countVars, EventInv, EventTypeOK, BlockTypeOK,
              EventGuardOwned, DataValid, MessagePending, PendingUncounted, PendingUndisplayed,
              DisplayedOnce, ReadyIsAnnounced
<1> QED
  BY <1>1, EventProducerStep, EventConsumerStep DEF EventNext

(***************************************************************************)
(* EventInv is an invariant.                                               *)
(***************************************************************************)
THEOREM EventInvariance == EventSpec => []EventInv
BY EventBegins, EventStep, PTL DEF EventSpec

\* What EventInv says of eventPC.c.
LEMMA EventFacts == EventInv => CountsBounded /\ ReadyIsAnnounced /\ DisplayedOnce
BY DEF EventInv, EventTypeOK, PendingUncounted, PendingUndisplayed, CountsBounded

(***************************************************************************)
(* The comment's bound on the counts holds at all times.                   *)
(***************************************************************************)
THEOREM CountsStayBounded == EventSpec => []CountsBounded
BY EventFacts, EventInvariance, PTL

(***************************************************************************)
(* Every message that is ready is announced.                               *)
(***************************************************************************)
THEOREM MessagesAnnounced == EventSpec => []ReadyIsAnnounced
BY EventFacts, EventInvariance, PTL

(***************************************************************************)
(* No message is displayed twice, out of order, or half filled.            *)
(***************************************************************************)
THEOREM MessagesDisplayedOnce == EventSpec => []DisplayedOnce
BY EventFacts, EventInvariance, PTL

-----------------------------------------------------------------------------
(* The proof that the handshake is right for any text, also for the one    *)
(* that the program itself sends to end the server thread.                 *)

HandSpec == HandInit /\ [][HandNext]_handVars

Reversed(text) == [text |-> text, reversed |-> TRUE]

\* Neither event is set, and the server thread waits for the first.
Idle == ~g_hevtRequestSubmitted /\ ~g_hevtResultReturned /\ answerer = "wait"

\* Whose turn it is: the request, the thread and the result follow each other,
\* and the buffer is the request's until the thread has reversed it.
Answering ==
  \/ /\ g_hevtRequestSubmitted /\ ~g_hevtResultReturned
     /\ answerer = "wait" /\ buffer = Plain(submitted)
  \/ /\ ~g_hevtRequestSubmitted /\ ~g_hevtResultReturned
     /\ answerer = "process" /\ buffer = Plain(submitted)
  \/ /\ ~g_hevtRequestSubmitted /\ ~g_hevtResultReturned
     /\ answerer = "return" /\ buffer = Reversed(submitted)
  \/ /\ ~g_hevtRequestSubmitted /\ g_hevtResultReturned
     /\ answerer = "wait" /\ buffer = Reversed(submitted)

HandInv ==
  /\ dialog \in {"start", "open", "wait", "closing", "join", "done"}
  /\ dialog \in {"start", "open", "closing"} => Idle
  /\ dialog = "start" => submitted = Nothing
  /\ dialog \in {"open", "wait"} => g_hMainDlg
  /\ dialog = "wait" => Answering
  /\ dialog = "open" /\ submitted # Nothing => shown = Reversed(submitted)

-----------------------------------------------------------------------------
(***************************************************************************)
(* The dialog starts before the first request.                             *)
(***************************************************************************)
LEMMA InitialTurn == HandInit => HandInv
BY DEF HandInit, HandInv, Idle

(***************************************************************************)
(* No step of the dialog or of the server thread is out of turn.           *)
(***************************************************************************)
LEMMA StepInTurn == HandInv /\ [HandNext]_handVars => HandInv'
<1> SUFFICES ASSUME HandInv, [HandNext]_handVars
             PROVE  HandInv'
    OBVIOUS
<1> USE DEF HandInv, Idle
<1>1. CASE InitDialog
  BY <1>1 DEF InitDialog
<1>2. CASE \E text \in Texts : Submit(text)
  BY <1>2 DEF Submit, Answering
<1>3. CASE ShowResult
  BY <1>3 DEF ShowResult, Answering
<1>4. CASE EndDialog
  BY <1>4 DEF EndDialog
<1>5. CASE RequestShutdown
  BY <1>5 DEF RequestShutdown
<1>6. CASE JoinServer
  BY <1>6 DEF JoinServer
<1>7. CASE AwaitRequest
  BY <1>7 DEF AwaitRequest, Answering
<1>8. CASE Process
  <2>1. CASE dialog = "wait"
    <3>1. /\ ~g_hevtRequestSubmitted /\ ~g_hevtResultReturned
          /\ answerer = "process" /\ buffer = Plain(submitted)
      BY <1>8, <2>1 DEF Process, Answering
    <3>2. answerer' = "return" /\ buffer' = [text |-> buffer.text, reversed |-> ~buffer.reversed]
      BY <1>8, <2>1 DEF Process, fShutdown
    <3>3. [text |-> Plain(submitted).text, reversed |-> ~Plain(submitted).reversed] = Reversed(submitted)
      BY DEF Plain, Reversed
    <3>4. Answering'
      BY <1>8, <3>1, <3>2, <3>3 DEF Process, Answering, Reversed
    <3> QED
      BY <1>8, <2>1, <3>4 DEF Process
  <2>2. CASE dialog # "wait"
    BY <1>8, <2>2 DEF Process
  <2> QED
    BY <2>1, <2>2
<1>9. CASE ReturnResult
  BY <1>9 DEF ReturnResult, Answering
<1>10. CASE UNCHANGED handVars
  BY <1>10 DEF handVars, Answering, Plain, Reversed
<1> QED
  BY <1>1, <1>2, <1>3, <1>4, <1>5, <1>6, <1>7, <1>8, <1>9, <1>10
     DEF HandNext, Dialog, Server

\* An open dialog shows the result of its last request.
LEMMA ReversedWhenOpen == HandInv => ResultOfRequest
BY DEF HandInv, ResultOfRequest, Reversed

(***************************************************************************)
(* The dialog shows the reversal of what it submitted, whatever the texts  *)
(* that the user may type (ServerThread, Dlg_OnCommand).                   *)
(***************************************************************************)
THEOREM AnswersMatchRequests == HandSpec => []ResultOfRequest
BY InitialTurn, StepInTurn, ReversedWhenOpen, PTL DEF HandSpec

-----------------------------------------------------------------------------
(***************************************************************************)
(* The queue of 09-Queue, for any number of clients and servers and any    *)
(* size: the mutex makes of Append's count and store one step for Remove,  *)
(* although Remove waits for the two objects in one call.                  *)
(***************************************************************************)

MSQSpec == MSQInit /\ [][MSQNext]_msqVars

ElementOf == QueueClients \X Nat
ElementSlots == 1 .. m_nMaxElements

MSQTypeOK ==
  /\ m_hmtxQ \in MSQThreads \cup {Unowned}
  /\ m_hsemNumElements \in 0 .. m_nMaxElements
  /\ m_pElements \in [ElementSlots -> ElementOf \cup {Uninitialised}]
  /\ msqNumber \in [QueueClients -> Nat]
  /\ msqpc \in [MSQThreads -> {"loop", "append", "count", "store", "remove", "shift", "unlock", "done"}]
  /\ lPrevCount \in Nat
  /\ appended \in Seq(ElementOf)

\* Where a thread owns the mutex, and who may be where.
WithMutex == {"count", "store", "shift", "unlock"}
MutexOwned ==
  /\ \A t \in MSQThreads : msqpc[t] \in WithMutex <=> m_hmtxQ = t
  /\ \A c \in QueueClients : msqpc[c] \notin {"remove", "shift"}
  /\ \A s \in QueueServers : msqpc[s] \notin {"append", "count", "store"}

\* The first k slots hold what was appended.
Stored(k) == k <= Len(appended) /\ k <= m_nMaxElements /\ \A i \in 1 .. k : m_pElements[i] = appended[i]

AtStore == \E c \in QueueClients : msqpc[c] = "store"
AtShift == \E s \in QueueServers : msqpc[s] = "shift"

\* Between the two halves of Append the last element is counted and not
\* stored; between those of Remove the first is stored and not counted.
ElementsStored ==
  /\ ~AtStore /\ ~AtShift => m_hsemNumElements = Len(appended) /\ Stored(m_hsemNumElements)
  /\ \A c \in QueueClients : msqpc[c] = "store" =>
       /\ m_hsemNumElements = lPrevCount + 1 /\ m_hsemNumElements = Len(appended)
       /\ Stored(lPrevCount)
       /\ appended[lPrevCount + 1] = Element(c)
  /\ \A s \in QueueServers : msqpc[s] = "shift" =>
       /\ m_hsemNumElements + 1 = Len(appended)
       /\ Stored(m_hsemNumElements + 1)

MSQInv == MSQTypeOK /\ MutexOwned /\ ElementsStored

-----------------------------------------------------------------------------
(***************************************************************************)
(* The queue begins empty and free.                                        *)
(***************************************************************************)
LEMMA InitiallyEmpty == MSQAssumption /\ MSQInit => MSQInv
<1> SUFFICES ASSUME MSQAssumption, MSQInit
             PROVE  MSQInv
    OBVIOUS
<1> USE DEF MSQAssumption, MSQInit, MSQThreads
<1>1. MSQTypeOK
  BY DEF MSQTypeOK, ElementSlots, Uninitialised
<1>2. MutexOwned
  BY DEF MutexOwned, WithMutex
<1>3. ElementsStored
  BY DEF ElementsStored, Stored, AtStore, AtShift
<1> QED
  BY <1>1, <1>2, <1>3 DEF MSQInv

(***************************************************************************)
(* A step that leaves the object alone, and moves one thread between       *)
(* places that own nothing.                                                *)
(***************************************************************************)
LEMMA OutsideStep ==
  ASSUME MSQAssumption, MSQInv, NEW t \in MSQThreads, NEW from, NEW to,
         from \in {"loop", "append", "remove"},
         to \in {"loop", "append", "remove", "done"},
         t \in QueueClients => to # "remove", t \in QueueServers => to # "append",
         Go(t, from, to), UNCHANGED objectVars,
         msqNumber' \in [QueueClients -> Nat],
         \A c \in QueueClients \ {t} : msqNumber'[c] = msqNumber[c]
  PROVE  MSQInv'
<1> USE DEF MSQInv, Go, objectVars
<1>1. MSQTypeOK'
  BY DEF MSQTypeOK
<1>2. MutexOwned'
  BY DEF MutexOwned, WithMutex, MSQTypeOK, MSQAssumption, MSQThreads
<1>3. \A u \in MSQThreads : \A section \in {"store", "shift"} :
         (msqpc'[u] = section) <=> (msqpc[u] = section)
  BY DEF MSQTypeOK
<1>4. \A c \in QueueClients : msqpc[c] = "store" => Element(c)' = Element(c)
  BY DEF Element, MSQTypeOK
<1>5. \A k : Stored(k)' <=> Stored(k)
  BY DEF Stored
<1>6. ElementsStored'
  BY <1>3, <1>4, <1>5 DEF ElementsStored, AtStore, AtShift, MSQThreads
<1> QED
  BY <1>1, <1>2, <1>6

(***************************************************************************)
(* Leaving the mutex.                                                      *)
(***************************************************************************)
LEMMA UnlockStep ==
  ASSUME MSQAssumption, MSQInv, NEW t \in MSQThreads, Unlock(t)
  PROVE  MSQInv'
<1> USE DEF MSQInv, Go, Unlock
<1>1. MSQTypeOK'
  BY DEF MSQTypeOK
<1>2. MutexOwned'
  BY DEF MutexOwned, WithMutex, MSQTypeOK, MSQAssumption, MSQThreads
<1>3. \A u \in MSQThreads : \A section \in {"store", "shift"} :
         (msqpc'[u] = section) <=> (msqpc[u] = section)
  BY DEF MSQTypeOK
<1>4. \A c : Element(c)' = Element(c)
  BY DEF Element
<1>5. \A k : Stored(k)' <=> Stored(k)
  BY DEF Stored
<1>6. ElementsStored'
  BY <1>3, <1>4, <1>5 DEF ElementsStored, AtStore, AtShift, MSQThreads
<1> QED
  BY <1>1, <1>2, <1>6

(***************************************************************************)
(* Append: a client enters, counts and stores.                             *)
(***************************************************************************)
LEMMA ClientStep ==
  ASSUME MSQAssumption, MSQInv, NEW c \in QueueClients, QueueClient(c)
  PROVE  MSQInv'
<1> USE DEF MSQInv
<1>0. c \in MSQThreads /\ c \notin QueueServers
  BY DEF MSQThreads, MSQAssumption
<1>1. CASE NextRequest(c)
  <2>1. msqNumber' \in [QueueClients -> Nat]
    BY <1>1 DEF NextRequest, MSQTypeOK
  <2>2. \A d \in QueueClients \ {c} : msqNumber'[d] = msqNumber[d]
    BY <1>1 DEF NextRequest, MSQTypeOK
  <2>3. PICK to \in {"done", "append"} : Go(c, "loop", to)
    BY <1>1 DEF NextRequest, TestFlag
  <2>4. UNCHANGED objectVars
    BY <1>1 DEF NextRequest
  <2> QED
    BY <1>0, <2>1, <2>2, <2>3, <2>4, OutsideStep
<1>2. CASE AppendWait(c) /\ UNCHANGED m_hmtxQ /\ Go(c, "append", "loop")
  <2>1. UNCHANGED objectVars /\ UNCHANGED msqNumber
    BY <1>2 DEF AppendWait, objectVars
  <2> QED
    BY <1>0, <1>2, <2>1, OutsideStep DEF MSQTypeOK
<1>3. CASE AppendWait(c) /\ m_hmtxQ = Unowned /\ m_hmtxQ' = c /\ Go(c, "append", "count")
  <2> USE <1>0, <1>3 DEF AppendWait, Go
  <2>1. MSQTypeOK'
    BY DEF MSQTypeOK
  <2>2. MutexOwned'
    BY DEF MutexOwned, WithMutex, MSQTypeOK, MSQAssumption, MSQThreads
  <2>3. \A u \in MSQThreads : \A section \in {"store", "shift"} :
           (msqpc'[u] = section) <=> (msqpc[u] = section)
    BY DEF MSQTypeOK
  <2>4. \A d : Element(d)' = Element(d)
    BY DEF Element
  <2>5. \A k : Stored(k)' <=> Stored(k)
    BY DEF Stored
  <2>6. ElementsStored'
    BY <2>3, <2>4, <2>5 DEF ElementsStored, AtStore, AtShift, MSQThreads
  <2> QED
    BY <2>1, <2>2, <2>6
<1>4. CASE AppendCount(c)
  <2>1. \A u \in MSQThreads \ {c} : msqpc[u] \notin WithMutex
    BY <1>0, <1>4 DEF AppendCount, Go, MutexOwned, WithMutex
  <2>2. ~AtStore /\ ~AtShift
    BY <1>0, <1>4, <2>1 DEF AppendCount, Go, AtStore, AtShift, WithMutex, MSQThreads, MutexOwned
  <2>3. m_hsemNumElements = Len(appended) /\ Stored(m_hsemNumElements)
    BY <2>2 DEF ElementsStored
  <2>4. CASE m_hsemNumElements < m_nMaxElements
    <3> USE <1>0, <1>4, <2>4 DEF AppendCount, Go
    <3>1. Element(c) \in ElementOf
      BY DEF Element, ElementOf, MSQTypeOK
    <3>a. m_hsemNumElements' \in 0 .. m_nMaxElements /\ lPrevCount' \in Nat
      BY DEF MSQTypeOK, MSQAssumption
    <3>b. appended' \in Seq(ElementOf)
      <4>1. appended' = Append(appended, Element(c)) /\ appended \in Seq(ElementOf)
        BY DEF MSQTypeOK
      <4> QED
        BY <3>1, <4>1, AppendProperties
    <3>2. MSQTypeOK'
      BY <3>a, <3>b DEF MSQTypeOK
    <3>3. MutexOwned'
      BY DEF MutexOwned, WithMutex, MSQTypeOK, MSQAssumption, MSQThreads
    <3>4. /\ Len(appended') = Len(appended) + 1
          /\ \A i \in 1 .. Len(appended) : appended'[i] = appended[i]
          /\ appended'[Len(appended) + 1] = Element(c)
      BY <3>1 DEF MSQTypeOK
    <3>5. Stored(lPrevCount)'
      BY <2>3, <3>4 DEF Stored, MSQTypeOK, MSQAssumption
    <3>6. Element(c)' = Element(c)
      BY DEF Element
    <3>7. \A d \in QueueClients : msqpc'[d] = "store" => d = c
      BY <2>1 DEF MSQTypeOK, WithMutex, MSQThreads
    <3>8. \A s \in QueueServers : msqpc'[s] # "shift"
      BY <2>1 DEF MSQTypeOK, WithMutex, MSQThreads
    <3>9. msqpc'[c] = "store"
      BY DEF MSQTypeOK
    <3>10. m_hsemNumElements' = lPrevCount' + 1 /\ m_hsemNumElements' = Len(appended')
           /\ appended'[lPrevCount' + 1] = Element(c)
      BY <2>3, <3>4
    <3>11. ElementsStored'
      BY <3>5, <3>6, <3>7, <3>8, <3>9, <3>10 DEF ElementsStored, AtStore, AtShift
    <3> QED
      BY <3>2, <3>3, <3>11
  <2>5. CASE ~(m_hsemNumElements < m_nMaxElements)
    <3> USE <1>0, <1>4, <2>5 DEF AppendCount, Go
    <3>1. MSQTypeOK'
      BY DEF MSQTypeOK
    <3>2. MutexOwned'
      BY DEF MutexOwned, WithMutex, MSQTypeOK, MSQAssumption, MSQThreads
    <3>3. \A u \in MSQThreads : \A section \in {"store", "shift"} :
             (msqpc'[u] = section) <=> (msqpc[u] = section)
      BY DEF MSQTypeOK
    <3>4. \A k : Stored(k)' <=> Stored(k)
      BY DEF Stored
    <3>5. ElementsStored'
      BY <2>2, <3>3, <3>4 DEF ElementsStored, AtStore, AtShift, MSQThreads
    <3> QED
      BY <3>1, <3>2, <3>5
  <2> QED
    BY <2>4, <2>5
<1>5. CASE AppendStore(c)
  <2> USE <1>0, <1>5 DEF AppendStore, Go
  <2>1. \A u \in MSQThreads \ {c} : msqpc[u] \notin WithMutex
    BY DEF MutexOwned, WithMutex
  <2>2. /\ m_hsemNumElements = lPrevCount + 1 /\ m_hsemNumElements = Len(appended)
        /\ Stored(lPrevCount)
        /\ appended[lPrevCount + 1] = Element(c)
    BY DEF ElementsStored
  <2>3. Element(c) \in ElementOf
    BY DEF Element, ElementOf, MSQTypeOK
  <2>4. MSQTypeOK'
    BY <2>3 DEF MSQTypeOK
  <2>5. MutexOwned'
    BY DEF MutexOwned, WithMutex, MSQTypeOK, MSQAssumption, MSQThreads
  <2>6. lPrevCount + 1 \in ElementSlots
    BY <2>2 DEF ElementSlots, MSQTypeOK, MSQAssumption
  <2>7. m_pElements'[lPrevCount + 1] = Element(c)
    BY <2>6 DEF MSQTypeOK
  <2>8. \A i \in 1 .. lPrevCount : m_pElements'[i] = m_pElements[i]
    BY <2>6 DEF MSQTypeOK, ElementSlots
  <2>9. Stored(m_hsemNumElements)'
    BY <2>2, <2>7, <2>8 DEF Stored, MSQTypeOK, MSQAssumption
  <2>10. ~AtStore' /\ ~AtShift'
    BY <2>1 DEF AtStore, AtShift, MSQTypeOK, WithMutex, MSQThreads
  <2>11. ElementsStored'
    BY <2>2, <2>9, <2>10 DEF ElementsStored, AtStore, AtShift
  <2> QED
    BY <2>4, <2>5, <2>11
<1>6. CASE Unlock(c)
  BY <1>0, <1>6, UnlockStep
<1> QED
  BY <1>1, <1>2, <1>3, <1>4, <1>5, <1>6 DEF QueueClient, AppendWait

(***************************************************************************)
(* Remove: a server takes the mutex and a count, and shifts.               *)
(***************************************************************************)
LEMMA ServerStep ==
  ASSUME MSQAssumption, MSQInv, NEW s \in QueueServers, QueueServer(s)
  PROVE  MSQInv'
<1> USE DEF MSQInv
<1>0. s \in MSQThreads /\ s \notin QueueClients
  BY DEF MSQThreads, MSQAssumption
<1>1. CASE TestFlag(s, "remove") /\ UNCHANGED <<objectVars, msqNumber, msqShutdown, msqMain>>
  <2>1. PICK to \in {"done", "remove"} : Go(s, "loop", to)
    BY <1>1 DEF TestFlag
  <2> QED
    BY <1>0, <1>1, <2>1, OutsideStep DEF MSQTypeOK
<1>2. CASE RemoveWait(s) /\ Go(s, "remove", "loop") /\ UNCHANGED <<m_hmtxQ, m_hsemNumElements>>
  <2>1. UNCHANGED objectVars /\ UNCHANGED msqNumber
    BY <1>2 DEF RemoveWait, objectVars
  <2> QED
    BY <1>0, <1>2, <2>1, OutsideStep DEF MSQTypeOK
<1>3. CASE /\ RemoveWait(s)
           /\ m_hmtxQ = Unowned /\ m_hsemNumElements > 0
           /\ m_hmtxQ' = s /\ m_hsemNumElements' = m_hsemNumElements - 1
           /\ Go(s, "remove", "shift")
  <2> USE <1>0, <1>3 DEF RemoveWait, Go
  <2>1. \A u \in MSQThreads : msqpc[u] \notin WithMutex
    BY DEF MutexOwned, WithMutex, MSQAssumption
  <2>2. m_hsemNumElements = Len(appended) /\ Stored(m_hsemNumElements)
    BY <2>1 DEF ElementsStored, AtStore, AtShift, WithMutex, MSQThreads
  <2>3. MSQTypeOK'
    BY DEF MSQTypeOK, MSQAssumption
  <2>4. MutexOwned'
    BY DEF MutexOwned, WithMutex, MSQTypeOK, MSQAssumption, MSQThreads
  <2>5. \A c \in QueueClients : msqpc'[c] # "store"
    BY <2>1 DEF MSQTypeOK, WithMutex, MSQThreads
  <2>6. msqpc'[s] = "shift"
    BY DEF MSQTypeOK
  <2>7. m_hsemNumElements' + 1 = Len(appended)
    BY <2>2 DEF MSQTypeOK, MSQAssumption
  <2>8. Stored(m_hsemNumElements + 1)'
    BY <2>2, <2>7 DEF Stored
  <2>9. ElementsStored'
    BY <2>5, <2>6, <2>7, <2>8 DEF ElementsStored, AtStore, AtShift
  <2> QED
    BY <2>3, <2>4, <2>9
<1>4. CASE RemoveShift(s)
  <2> USE <1>0, <1>4 DEF RemoveShift, Go
  <2>1. \A u \in MSQThreads \ {s} : msqpc[u] \notin WithMutex
    BY DEF MutexOwned, WithMutex
  <2>2. m_hsemNumElements + 1 = Len(appended) /\ Stored(m_hsemNumElements + 1)
    BY DEF ElementsStored
  <2>3. m_pElements' \in [ElementSlots -> ElementOf \cup {Uninitialised}]
    BY DEF MSQTypeOK, ElementSlots, MSQAssumption
  <2>4. appended # <<>> /\ appended' = Tail(appended)
    BY <2>2 DEF MSQTypeOK
  <2>5. /\ appended' \in Seq(ElementOf) /\ Len(appended') = Len(appended) - 1
        /\ \A i \in 1 .. Len(appended') : appended'[i] = appended[i + 1]
    BY <2>4 DEF MSQTypeOK
  <2>6. MSQTypeOK'
    BY <2>3, <2>5 DEF MSQTypeOK
  <2>7. MutexOwned'
    BY DEF MutexOwned, WithMutex, MSQTypeOK, MSQAssumption, MSQThreads
  <2>8. m_hsemNumElements' = Len(appended')
    BY <2>2, <2>5 DEF MSQTypeOK
  <2>9. \A i \in 1 .. m_hsemNumElements : m_pElements'[i] = m_pElements[i + 1]
    BY <2>2 DEF Stored, MSQTypeOK, ElementSlots, MSQAssumption
  <2>10. Stored(m_hsemNumElements)'
    BY <2>2, <2>5, <2>8, <2>9 DEF Stored, MSQTypeOK, MSQAssumption
  <2>11. ~AtStore' /\ ~AtShift'
    BY <2>1 DEF AtStore, AtShift, MSQTypeOK, WithMutex, MSQThreads
  <2>12. ElementsStored'
    BY <2>8, <2>10, <2>11 DEF ElementsStored, AtStore, AtShift
  <2> QED
    BY <2>6, <2>7, <2>12
<1>5. CASE Unlock(s)
  BY <1>0, <1>5, UnlockStep
<1> QED
  BY <1>1, <1>2, <1>3, <1>4, <1>5 DEF QueueServer, RemoveWait

(***************************************************************************)
(* Every step keeps the queue in order.                                    *)
(***************************************************************************)
LEMMA QueueStep == MSQAssumption /\ MSQInv /\ [MSQNext]_msqVars => MSQInv'
<1> SUFFICES ASSUME MSQAssumption, MSQInv, [MSQNext]_msqVars
             PROVE  MSQInv'
    OBVIOUS
<1>1. CASE \E c \in QueueClients : QueueClient(c)
  BY <1>1, ClientStep
<1>2. CASE \E s \in QueueServers : QueueServer(s)
  BY <1>2, ServerStep
<1>3. CASE UNCHANGED <<objectVars, msqNumber, msqpc>>
  BY <1>3 DEF objectVars, MSQInv, MSQTypeOK, MutexOwned, ElementsStored, Stored, AtStore, AtShift, Element
<1> QED
  BY <1>1, <1>2, <1>3 DEF MSQNext, CloseDialog, JoinAll, msqVars, objectVars

\* With the mutex free, no Append and no Remove is halfway.
LEMMA StoredWhenFree == MSQAssumption /\ MSQInv => CountedElementsStored
<1> SUFFICES ASSUME MSQAssumption, MSQInv, m_hmtxQ = Unowned
             PROVE  /\ m_hsemNumElements = Len(appended)
                    /\ SubSeq(m_pElements, 1, m_hsemNumElements) = appended
    BY DEF CountedElementsStored
<1>1. ~AtStore /\ ~AtShift
  BY DEF MSQInv, MutexOwned, AtStore, AtShift, WithMutex, MSQAssumption, MSQThreads
<1>2. m_hsemNumElements = Len(appended) /\ Stored(m_hsemNumElements)
  BY <1>1 DEF MSQInv, ElementsStored
<1>3. \A i \in 1 .. m_hsemNumElements : m_pElements[i] = appended[i]
  BY <1>2 DEF Stored
<1>4. m_pElements \in Seq(ElementOf \cup {Uninitialised}) /\ Len(m_pElements) = m_nMaxElements
  BY DEF MSQInv, MSQTypeOK, ElementSlots, MSQAssumption
<1>5. SubSeq(m_pElements, 1, m_hsemNumElements) = [i \in 1 .. m_hsemNumElements |-> m_pElements[i]]
  BY <1>4 DEF MSQInv, MSQTypeOK, MSQAssumption
<1>6. appended = [i \in 1 .. m_hsemNumElements |-> appended[i]]
  BY <1>2 DEF MSQInv, MSQTypeOK
<1> QED
  BY <1>2, <1>3, <1>5, <1>6

(***************************************************************************)
(* Whoever gets the mutex finds as many elements as the semaphore counts,  *)
(* stored in the order of their Appends.                                   *)
(***************************************************************************)
THEOREM CountsAreOfElements ==
  ASSUME MSQAssumption
  PROVE  MSQSpec => []CountedElementsStored
<1>1. MSQInit => MSQInv
  BY InitiallyEmpty
<1>2. MSQInv /\ [MSQNext]_msqVars => MSQInv'
  BY QueueStep
<1>3. MSQInv => CountedElementsStored
  BY StoredWhenFree
<1> QED
  BY <1>1, <1>2, <1>3, PTL DEF MSQSpec

-----------------------------------------------------------------------------
(* The slots of serverSK.c, for any number of slots. *)

SKSpec == SKInit /\ [][SKNext]_skVars

SKTypeOK ==
  /\ skMain \in {"scan", "accept", "poll", "drain", "wait", "close", "done"}
  /\ iThread \in Slot /\ nRunningThreads \in Nat
  /\ thState \in [Slot -> {"FREE", "RUNNING", "STOPPED", "INVALID"}]
  /\ threadCs \in [Slot -> {"none", "main", "accept"}]
  /\ srvThread \in [Slot -> {"none", "loop", "receive", "command", "crashed",
                             "stop", "leave", "ended"}]
  /\ acceptThread \in {"none", "accept", "create", "mark", "ended"}
  /\ acceptSlot \in Slot /\ hAcceptThread \in BOOLEAN

\* Whose section it is.
SlotSections ==
  /\ \A s \in Slot : threadCs[s] = "main" <=> skMain = "wait" /\ iThread = s
  /\ \A s \in Slot : threadCs[s] = "accept" <=> acceptThread = "mark" /\ acceptSlot = s

\* There is an accept thread only while main waits for it, or in the shut
\* down, and then main has its handle; its slot stays free for it.
Accepting ==
  /\ skMain \in {"scan", "accept"} => acceptThread \in {"none", "ended"}
  /\ skMain = "accept" => thState[iThread] = "FREE"
  /\ skMain = "poll" => hAcceptThread
  /\ acceptThread \in {"accept", "create", "mark"} =>
       hAcceptThread /\ thState[acceptSlot] = "FREE"
  /\ acceptThread = "mark" => srvThread[acceptSlot] \notin {"none", "leave", "ended"}

\* The thread of a slot, by the slot's state.
SlotStates ==
  \A s \in Slot :
    /\ thState[s] = "FREE" /\ Running(s) => acceptSlot = s /\ acceptThread = "mark"
    /\ thState[s] = "RUNNING" => srvThread[s] \notin {"none", "leave", "ended"}
    /\ thState[s] = "STOPPED" => srvThread[s] \in {"leave", "ended"}
    /\ thState[s] = "INVALID" => Ended(s)

\* A slot at which the shut down has been without counting its thread.
PassedBy(s) == Running(s) => hAcceptThread /\ acceptSlot = s

Drained ==
  /\ skMain \in {"drain", "wait"} /\ nRunningThreads = 0 =>
       \A s \in Slot : s < iThread => PassedBy(s)
  /\ skMain \in {"close", "done"} => \A s \in Slot : PassedBy(s)

SKInv == SKTypeOK /\ SlotSections /\ Accepting /\ SlotStates /\ Drained

-----------------------------------------------------------------------------
(***************************************************************************)
(* All slots begin free.                                                   *)
(***************************************************************************)
LEMMA SlotsBeginFree == SlotsAssumption /\ SKInit => SKInv
<1> SUFFICES ASSUME SlotsAssumption, SKInit
             PROVE  SKInv
    OBVIOUS
<1> USE DEF SlotsAssumption, SKInit
<1>0. 0 \in Slot
  BY DEF Slot
<1>1. SKTypeOK
  BY <1>0 DEF SKTypeOK
<1>2. SlotSections /\ Accepting
  BY DEF SlotSections, Accepting
<1>3. SlotStates /\ Drained
  BY DEF SlotStates, Drained, Running
<1> QED
  BY <1>1, <1>2, <1>3 DEF SKInv

(***************************************************************************)
(* A step of main before the shut down, or into it.                        *)
(***************************************************************************)
LEMMA ScanStep ==
  ASSUME SlotsAssumption, SKInv,
         ScanSlot \/ LeaveScan \/ CreateAcceptThread \/ AcceptThreadEnded
  PROVE  SKInv'
<1> USE DEF SKInv, SlotsAssumption, acceptVars, slotVars
<1>1. CASE ScanSlot
  <2> USE <1>1 DEF ScanSlot, Marks, NextSlot
  <2>1. SKTypeOK'
    BY DEF SKTypeOK, Slot
  <2>2. SlotSections' /\ Accepting'
    BY DEF SKTypeOK, SlotSections, Accepting
  <2>3. SlotStates'
    BY DEF SKTypeOK, SlotStates, Running, Ended
  <2>4. Drained'
    BY DEF Drained
  <2> QED
    BY <2>1, <2>2, <2>3, <2>4
<1>2. CASE LeaveScan
  <2> USE <1>2 DEF LeaveScan, Marks
  <2>0. 0 \in Slot
    BY DEF Slot
  <2>1. SKTypeOK'
    BY <2>0 DEF SKTypeOK
  <2>2. SlotSections' /\ Accepting'
    BY DEF SKTypeOK, SlotSections, Accepting
  <2>3. SlotStates'
    BY DEF SKTypeOK, SlotStates, Running, Ended
  <2>4. Drained'
    BY DEF Drained, Slot
  <2> QED
    BY <2>1, <2>2, <2>3, <2>4
<1>3. CASE CreateAcceptThread
  <2> USE <1>3 DEF CreateAcceptThread
  <2>1. SKTypeOK'
    BY DEF SKTypeOK
  <2>2. SlotSections' /\ Accepting'
    BY DEF SKTypeOK, SlotSections, Accepting
  <2>3. SlotStates'
    BY DEF SKTypeOK, Accepting, SlotStates, Running, Ended
  <2>4. Drained'
    BY DEF Drained
  <2> QED
    BY <2>1, <2>2, <2>3, <2>4
<1>4. CASE AcceptThreadEnded
  <2> USE <1>4 DEF AcceptThreadEnded
  <2>0. 0 \in Slot
    BY DEF Slot
  <2>1. SKTypeOK'
    BY <2>0 DEF SKTypeOK
  <2>2. SlotSections' /\ Accepting'
    BY DEF SKTypeOK, SlotSections, Accepting
  <2>3. SlotStates'
    BY DEF SKTypeOK, SlotStates, Running, Ended
  <2>4. Drained'
    BY DEF Drained, Slot
  <2> QED
    BY <2>1, <2>2, <2>3, <2>4
<1> QED
  BY <1>1, <1>2, <1>3, <1>4

(***************************************************************************)
(* A step of main in the shut down: it counts the threads that go on.      *)
(***************************************************************************)
LEMMA DrainStep ==
  ASSUME SlotsAssumption, SKInv, DrainEnter \/ DrainSlot \/ ServerExits
  PROVE  SKInv'
<1> USE DEF SKInv, SlotsAssumption, acceptVars, slotVars
<1>1. CASE DrainEnter
  <2> USE <1>1 DEF DrainEnter
  <2>1. SKTypeOK'
    BY DEF SKTypeOK, Slot
  <2>2. SlotSections' /\ Accepting'
    BY DEF SKTypeOK, SlotSections, Accepting
  <2>3. SlotStates' /\ Drained'
    BY DEF SKTypeOK, SlotStates, Running, Ended, Drained, PassedBy
  <2> QED
    BY <2>1, <2>2, <2>3
<1>2. CASE DrainSlot
  <2>1. PICK running \in {nRunningThreads, nRunningThreads + 1} :
          /\ DrainLeave(running)
          /\ \/ running = nRunningThreads + 1
             \/ thState[iThread] \notin {"RUNNING", "STOPPED"}
             \/ Ended(iThread)
    BY <1>2 DEF DrainSlot
  <2>2. SKTypeOK'
    BY <1>2, <2>1 DEF DrainSlot, DrainLeave, NextSlot, Marks, SKTypeOK, Slot
  <2>3. SlotSections'
    BY <1>2, <2>1 DEF DrainSlot, DrainLeave, SKTypeOK, SlotSections
  <2>4. Accepting'
    BY <1>2, <2>1 DEF DrainSlot, DrainLeave, Marks, SKTypeOK, Accepting
  <2>5. SlotStates'
    BY <1>2 DEF DrainSlot, Marks, SKTypeOK, SlotStates, Running, Ended
  <2>6. \A s \in Slot : PassedBy(s)' <=> PassedBy(s)
    BY <1>2 DEF DrainSlot, PassedBy, Running
  <2>7. running = 0 => nRunningThreads = 0 /\ PassedBy(iThread)
    <3>1. CASE thState[iThread] \notin {"RUNNING", "STOPPED"}
      <4>1. ~Running(iThread)
        BY <1>2, <3>1 DEF DrainSlot, SKTypeOK, SlotStates, SlotSections, Running, Ended
      <4> QED
        BY <1>2, <2>1, <3>1, <4>1 DEF PassedBy, SKTypeOK
    <3>2. CASE Ended(iThread)
      BY <2>1, <3>2 DEF Ended, PassedBy, Running, SKTypeOK
    <3>3. CASE running = nRunningThreads + 1
      BY <3>3 DEF SKTypeOK
    <3> QED
      BY <2>1, <3>1, <3>2, <3>3
  <2>8. Drained'
    BY <1>2, <2>1, <2>6, <2>7 DEF DrainSlot, DrainLeave, NextSlot, SKTypeOK, Drained, Slot
  <2> QED
    BY <2>2, <2>3, <2>4, <2>5, <2>8
<1>3. CASE ServerExits
  BY <1>3 DEF ServerExits, SKTypeOK, SlotSections, Accepting, SlotStates, Drained, Running, Ended, PassedBy
<1> QED
  BY <1>1, <1>2, <1>3

(***************************************************************************)
(* A step of the accept thread, which starts a thread in its slot.         *)
(***************************************************************************)
LEMMA AcceptStep ==
  ASSUME SlotsAssumption, SKInv, Accept \/ StartServer \/ MarkRunning
  PROVE  SKInv'
<1> USE DEF SKInv, mainVars, slotVars
<1>1. CASE Accept
  BY <1>1 DEF Accept, SKTypeOK, SlotSections, Accepting, SlotStates, Drained, Running, Ended, PassedBy
<1>2. CASE StartServer
  <2> USE <1>2 DEF StartServer
  <2>1. SKTypeOK'
    BY DEF SKTypeOK
  <2>2. SlotSections' /\ Accepting'
    BY DEF SKTypeOK, SlotSections, Accepting
  <2>3. SlotStates'
    BY DEF SKTypeOK, Accepting, SlotStates, Running, Ended
  <2>4. \A s \in Slot : PassedBy(s) => PassedBy(s)'
    BY DEF SKTypeOK, Accepting, PassedBy, Running
  <2>5. Drained'
    BY <2>4 DEF Drained
  <2> QED
    BY <2>1, <2>2, <2>3, <2>5
<1>3. CASE MarkRunning
  <2> USE <1>3 DEF MarkRunning, Marks
  <2>1. SKTypeOK'
    BY DEF SKTypeOK
  <2>2. SlotSections' /\ Accepting'
    BY DEF SKTypeOK, SlotSections, Accepting
  <2>3. SlotStates'
    BY DEF SKTypeOK, Accepting, SlotStates, Running, Ended
  <2>4. Drained'
    BY DEF Drained, PassedBy, Running
  <2> QED
    BY <2>1, <2>2, <2>3, <2>4
<1> QED
  BY <1>1, <1>2, <1>3

(***************************************************************************)
(* A step of a server thread.                                              *)
(***************************************************************************)
LEMMA ServerThreadStep ==
  ASSUME SlotsAssumption, SKInv, NEW s \in Slot, ServeSlot(s) \/ StopServer(s)
  PROVE  SKInv'
<1> USE DEF SKInv, mainVars, slotVars, acceptVars
<1>1. CASE ServeSlot(s)
  <2>1. PICK from, to :
          /\ srvThread[s] = from /\ srvThread' = [srvThread EXCEPT ![s] = to]
          /\ <<from, to>> \in {<<"loop", "stop">>, <<"loop", "receive">>, <<"receive", "command">>,
                               <<"receive", "stop">>, <<"command", "loop">>,
                               <<"command", "crashed">>, <<"leave", "ended">>}
    BY <1>1 DEF ServeSlot, Moves
  <2>2. UNCHANGED <<shutFlag, mainVars, thState, threadCs, acceptVars>>
    BY <1>1 DEF ServeSlot
  <2>3. SKTypeOK'
    BY <2>1, <2>2 DEF SKTypeOK
  <2>4. SlotSections' /\ Accepting'
    BY <2>1, <2>2 DEF SKTypeOK, SlotSections, Accepting
  <2>5. SlotStates'
    BY <2>1, <2>2 DEF SKTypeOK, Accepting, SlotStates, Running, Ended
  <2>6. \A r \in Slot : PassedBy(r) => PassedBy(r)'
    BY <2>1, <2>2 DEF SKTypeOK, PassedBy, Running
  <2>7. Drained'
    BY <2>2, <2>6 DEF Drained
  <2> QED
    BY <2>3, <2>4, <2>5, <2>7
<1>2. CASE StopServer(s)
  <2> USE <1>2 DEF StopServer, Moves, Marks
  <2>1. SKTypeOK'
    BY DEF SKTypeOK
  <2>2. thState[s] = "RUNNING"
    BY DEF SKTypeOK, SlotSections, SlotStates, Running, Ended
  <2>3. SlotSections' /\ Accepting'
    BY <2>2 DEF SKTypeOK, SlotSections, Accepting
  <2>4. SlotStates'
    BY <2>2 DEF SKTypeOK, SlotStates, Running, Ended
  <2>5. \A r \in Slot : PassedBy(r) => PassedBy(r)'
    BY DEF SKTypeOK, PassedBy, Running
  <2>6. Drained'
    BY <2>5 DEF Drained
  <2> QED
    BY <2>1, <2>3, <2>4, <2>6
<1> QED
  BY <1>1, <1>2

(***************************************************************************)
(* Every step of the server.                                               *)
(***************************************************************************)
LEMMA SlotsStep == SlotsAssumption /\ SKInv /\ [SKNext]_skVars => SKInv'
<1> SUFFICES ASSUME SlotsAssumption, SKInv, [SKNext]_skVars
             PROVE  SKInv'
    OBVIOUS
<1>1. CASE UNCHANGED <<mainVars, slotVars, acceptVars>>
  BY <1>1 DEF mainVars, slotVars, acceptVars, SKInv, SKTypeOK, SlotSections, Accepting, SlotStates,
              Drained, Running, Ended, PassedBy
<1> QED
  BY <1>1, ScanStep, DrainStep, AcceptStep, ServerThreadStep DEF SKNext, Main, SKHandler, skVars

\* SKInv says the more of the slots.
LEMMA SlotsFact == SKInv => SlotsTellThreads
BY DEF SKInv, SlotStates, Drained, PassedBy, SlotsTellThreads

(***************************************************************************)
(* Main of serverSK.c frees no slot of a running thread, and does not exit *)
(* with one, but for a client accepted behind it in the shut down.         *)
(***************************************************************************)
THEOREM SlotsAreTrue ==
  ASSUME SlotsAssumption
  PROVE  SKSpec => []SlotsTellThreads
<1>1. SKInit => SKInv
  BY SlotsBeginFree
<1>2. SKInv /\ [SKNext]_skVars => SKInv'
  BY SlotsStep
<1> QED
  BY <1>1, <1>2, SlotsFact, PTL DEF SKSpec

-----------------------------------------------------------------------------
(* The job management of JobShell.c. *)

JobSpec == JobInit /\ [][JobNext]_jobVars

Places == {"prompt", "number", "lock", "enter", "write", "full", "resume",
           "read", "empty", "kill", "exited"}

JobTypes ==
  /\ jobFile \in Seq(ProcessIds \cup {0})
  /\ fileLock \in Shells \cup {NoShell}
  /\ fileSizePlus \in [Shells -> Nat]
  /\ process \in [ProcessIds -> {"none", "suspended", "running", "ended"}]
  /\ jobNumber \in [ProcessIds -> Nat]
  /\ shell \in [Shells -> Places]
  /\ current \in [Shells -> Nat]

Launching(s) == shell[s] \in {"number", "lock", "enter", "write", "full", "resume"}

\* A shell that starts a job has a process of its own, which only it resumes;
\* another shell may have killed it.
OwnProcess ==
  \A s \in Shells : Launching(s) =>
    /\ current[s] \in ProcessIds
    /\ process[current[s]] \in {"suspended", "ended"}
    /\ \A t \in Shells : Launching(t) /\ current[t] = current[s] => t = s

\* Between the search for a slot and the write one shell has the lock.
OneSearches == \A s \in Shells : shell[s] \in {"enter", "write", "full"} => fileLock = s

\* What was found free remains free until it is written.
SlotStaysFree ==
  \A s \in Shells : shell[s] = "write" =>
    LET n == jobNumber[current[s]] IN
    /\ n \in 1 .. Len(jobFile) + 1
    /\ n <= Len(jobFile) => Gone(jobFile[n])

\* The shells that look for a process have one, those that empty a record too.
Looking ==
  \A s \in Shells : /\ shell[s] = "kill" => current[s] \in ProcessIds
                    /\ shell[s] = "read" => current[s] # 0
                    /\ shell[s] = "empty" => current[s] \in 1 .. Len(jobFile)

\* A job is recorded from the write on, also when it has not been resumed yet.
Started(p) == \/ process[p] = "running"
              \/ process[p] = "suspended" /\ \E s \in Shells : shell[s] = "resume" /\ current[s] = p
Recorded ==
  \A p \in ProcessIds \ wiped :
    Started(p) => jobNumber[p] \in 1 .. Len(jobFile) /\ jobFile[jobNumber[p]] = p

JobInv == JobTypes /\ OwnProcess /\ OneSearches /\ SlotStaysFree /\ Looking /\ Recorded

-----------------------------------------------------------------------------
(***************************************************************************)
(* No shell has a job at first.                                            *)
(***************************************************************************)
LEMMA InitialJobs == JobAssumption /\ JobInit => JobInv
BY DEF JobAssumption, JobInit, JobInv, JobTypes, Places, OwnProcess, Launching, OneSearches,
       SlotStaysFree, Looking, Recorded, Started

(***************************************************************************)
(* A shell that starts a job.                                              *)
(***************************************************************************)
LEMMA JobbgStep ==
  ASSUME JobAssumption, JobInv, NEW s \in Shells, Jobbg(s)
  PROVE  JobInv'
<1> USE DEF JobAssumption, JobInv, JobTypes, Places, From
<1>1. CASE CreateSuspended(s)
  <2>1. PICK p \in ProcessIds :
          /\ process[p] = "none"
          /\ process' = [process EXCEPT ![p] = "suspended"]
          /\ current' = [current EXCEPT ![s] = p]
          /\ shell[s] = "prompt" /\ shell' = [shell EXCEPT ![s] = "number"]
          /\ UNCHANGED <<jobFile, fileLock, fileSizePlus, jobNumber, wiped>>
    BY <1>1 DEF CreateSuspended
  <2>2. JobTypes'
    BY <2>1
  <2>3. OwnProcess'
    <3>1. \A t \in Shells \ {s} :
            Launching(t)' => /\ Launching(t) /\ current'[t] = current[t]
                             /\ current[t] \in ProcessIds \ {p}
                             /\ process'[current[t]] \in {"suspended", "ended"}
      BY <2>1 DEF OwnProcess, Launching
    <3>2. current'[s] = p /\ process'[p] = "suspended"
      BY <2>1
    <3> SUFFICES ASSUME NEW t \in Shells, Launching(t)'
                 PROVE  /\ current'[t] \in ProcessIds
                        /\ process'[current'[t]] \in {"suspended", "ended"}
                        /\ \A u \in Shells : Launching(u)' /\ current'[u] = current'[t] => u = t
      BY DEF OwnProcess
    <3>3. CASE t = s
      BY <3>1, <3>2, <3>3
    <3>4. CASE t # s
      <4>1. /\ Launching(t) /\ current'[t] = current[t] /\ current[t] # p
            /\ current[t] \in ProcessIds /\ process'[current[t]] \in {"suspended", "ended"}
        BY <3>1, <3>4
      <4>2. \A u \in Shells : Launching(u)' /\ current'[u] = current'[t] => u = t
        <5> SUFFICES ASSUME NEW u \in Shells, Launching(u)', current'[u] = current'[t]
                     PROVE  u = t
          OBVIOUS
        <5>1. u # s
          BY <3>2, <4>1
        <5>2. Launching(u) /\ current[u] = current[t]
          BY <3>1, <4>1, <5>1
        <5> QED
          BY <4>1, <5>2 DEF OwnProcess
      <4> QED
        BY <4>1, <4>2
    <3> QED
      BY <3>3, <3>4
  <2>4. OneSearches' /\ Looking'
    BY <2>1 DEF OneSearches, Looking
  <2>5. SlotStaysFree'
    BY <2>1 DEF SlotStaysFree, Gone
  <2>6. Recorded'
    <3>1. \A other \in ProcessIds : Started(other)' => Started(other)
      BY <2>1 DEF Started, OwnProcess, Launching
    <3> QED
      BY <2>1, <3>1 DEF Recorded
  <2> QED
    BY <2>2, <2>3, <2>4, <2>5, <2>6
<1>2. CASE GetFileSize(s) \/ LockFile(s)
  <2>1. JobTypes'
    <3>1. CASE GetFileSize(s)
      BY <3>1 DEF GetFileSize
    <3>2. CASE LockFile(s)
      BY <3>2 DEF LockFile
    <3> QED
      BY <1>2, <3>1, <3>2
  <2>2. OwnProcess'
    BY <1>2 DEF GetFileSize, LockFile, OwnProcess, Launching
  <2>3. OneSearches' /\ Looking'
    BY <1>2 DEF GetFileSize, LockFile, OneSearches, Looking
  <2>4. SlotStaysFree'
    BY <1>2 DEF GetFileSize, LockFile, SlotStaysFree, Gone
  <2>5. Recorded'
    BY <1>2 DEF GetFileSize, LockFile, Recorded, Started
  <2> QED
    BY <2>1, <2>2, <2>3, <2>4, <2>5
<1>3. CASE FindSlot(s)
  <2>1. PICK n \in 1 .. MAX_JOBS_ALLOWED + 1 :
          /\ FreeSlot(n)
          /\ From(s, "enter", IF n > MAX_JOBS_ALLOWED THEN "full" ELSE "write")
          /\ jobNumber' = [jobNumber EXCEPT ![current[s]] = n]
    BY <1>3 DEF FindSlot
  <2>2. /\ UNCHANGED <<jobFile, fileLock, fileSizePlus, process, current, wiped>>
        /\ shell[s] = "enter" /\ fileLock = s /\ current[s] \in ProcessIds
        /\ process[current[s]] \in {"suspended", "ended"}
    BY <1>3 DEF FindSlot, OneSearches, OwnProcess, Launching
  <2>3. JobTypes'
    BY <2>1, <2>2
  <2>4. OwnProcess'
    BY <2>1, <2>2 DEF OwnProcess, Launching
  <2>5. OneSearches' /\ Looking'
    BY <2>1, <2>2 DEF OneSearches, Looking
  <2>6. SlotStaysFree'
    BY <2>1, <2>2 DEF SlotStaysFree, OneSearches, FreeSlot, Gone
  <2>7. ~Started(current[s]) /\ \A p \in ProcessIds : Started(p)' => Started(p)
    BY <2>1, <2>2 DEF Started, OwnProcess, Launching
  <2>8. Recorded'
    BY <2>1, <2>2, <2>7 DEF Recorded
  <2> QED
    BY <2>3, <2>4, <2>5, <2>6, <2>8
<1>4. CASE WriteRecord(s)
  <2> DEFINE p == current[s]
             n == jobNumber[p]
  <2>1. /\ shell[s] = "write" /\ shell' = [shell EXCEPT ![s] = "resume"]
        /\ jobFile' = IF n > Len(jobFile) THEN Append(jobFile, p) ELSE [jobFile EXCEPT ![n] = p]
        /\ fileLock' = NoShell
        /\ UNCHANGED <<fileSizePlus, process, jobNumber, current, wiped>>
    BY <1>4 DEF WriteRecord
  <2>2. /\ p \in ProcessIds /\ n \in 1 .. Len(jobFile) + 1
        /\ n <= Len(jobFile) => Gone(jobFile[n])
    BY <2>1 DEF OwnProcess, Launching, SlotStaysFree
  <2>3. \A t \in Shells \ {s} : shell[t] \notin {"enter", "write", "full"}
    BY <2>1 DEF OneSearches
  <2>4. /\ jobFile' \in Seq(ProcessIds \cup {0})
        /\ n \in 1 .. Len(jobFile') /\ jobFile'[n] = p
        /\ Len(jobFile) <= Len(jobFile')
        /\ \A i \in 1 .. Len(jobFile) : i # n => jobFile'[i] = jobFile[i]
    <3>1. CASE n > Len(jobFile)
      BY <2>1, <2>2, <3>1
    <3>2. CASE n <= Len(jobFile)
      <4>1. n \in 1 .. Len(jobFile) /\ jobFile' = [jobFile EXCEPT ![n] = p]
        BY <2>1, <2>2, <3>2
      <4> QED
        BY <4>1, <2>2, ExceptSeq
    <3> QED
      BY <2>2, <3>1, <3>2
  <2>5. JobTypes'
    BY <2>1, <2>4
  <2>6. OwnProcess'
    BY <2>1 DEF OwnProcess, Launching
  <2>7. OneSearches' /\ SlotStaysFree' /\ Looking'
    BY <2>1, <2>3, <2>4 DEF OneSearches, SlotStaysFree, Looking
  <2>8. Recorded'
    <3> SUFFICES ASSUME NEW other \in ProcessIds, other \notin wiped, Started(other)'
                 PROVE  jobNumber[other] \in 1 .. Len(jobFile') /\ jobFile'[jobNumber[other]] = other
      BY <2>1 DEF Recorded
    <3>1. CASE other = p
      BY <3>1, <2>4
    <3>2. CASE other # p
      <4>1. Started(other)
        BY <3>2, <2>1 DEF Started
      <4>2. jobNumber[other] \in 1 .. Len(jobFile) /\ jobFile[jobNumber[other]] = other
        BY <4>1 DEF Recorded
      <4>3. ~Gone(other)
        BY <4>1 DEF Started, Gone
      <4>4. jobNumber[other] # n
        BY <2>2, <4>2, <4>3
      <4> QED
        BY <2>4, <4>2, <4>4
    <3> QED
      BY <3>1, <3>2
  <2> QED
    BY <2>5, <2>6, <2>7, <2>8
<1>5. CASE ResumeOrTerminate(s)
  <2> DEFINE p == current[s]
  <2>1. p \in ProcessIds /\ shell[s] \in {"resume", "full"}
    BY <1>5 DEF ResumeOrTerminate, OwnProcess, Launching
  <2>2. /\ shell' = [shell EXCEPT ![s] = "prompt"] /\ current' = [current EXCEPT ![s] = 0]
        /\ UNCHANGED <<jobFile, fileSizePlus, wiped>>
        /\ \/ /\ shell[s] = "resume" /\ UNCHANGED <<fileLock, jobNumber>>
              /\ process' = [process EXCEPT ![p] = IF process[p] = "suspended" THEN "running"
                                                   ELSE process[p]]
           \/ /\ shell[s] = "full" /\ fileLock' = NoShell
              /\ process' = [process EXCEPT ![p] = "ended"]
              /\ jobNumber' = [jobNumber EXCEPT ![p] = 0]
    BY <1>5 DEF ResumeOrTerminate
  <2>3. \A t \in Shells : Launching(t)' => Launching(t) /\ t # s /\ current[t] # p
    BY <2>2, <2>1 DEF Launching, OwnProcess
  <2>4. JobTypes'
    <3>1. process' \in [ProcessIds -> {"none", "suspended", "running", "ended"}]
      BY <2>1, <2>2
    <3>2. shell' \in [Shells -> Places] /\ current' \in [Shells -> Nat]
      BY <2>2
    <3>3. fileLock' \in Shells \cup {NoShell} /\ jobNumber' \in [ProcessIds -> Nat]
      <4>1. [jobNumber EXCEPT ![p] = 0] \in [ProcessIds -> Nat]
        BY <2>1
      <4> QED
        BY <2>2, <4>1
    <3> QED
      BY <2>2, <3>1, <3>2, <3>3
  <2>5. OwnProcess'
    BY <2>1, <2>2, <2>3 DEF OwnProcess
  <2>6. OneSearches' /\ Looking'
    BY <2>1, <2>2 DEF OneSearches, Looking
  <2>7. SlotStaysFree'
    <3>1. \A other : Gone(other) => Gone(other)'
      BY <2>1, <2>2 DEF Gone, OwnProcess, Launching
    <3>2. \A t \in Shells : shell'[t] = "write" =>
            shell[t] = "write" /\ current'[t] = current[t] /\ current[t] # p
      BY <2>2, <2>3 DEF Launching
    <3>3. \A t \in Shells : shell'[t] = "write" => jobNumber'[current[t]] = jobNumber[current[t]]
      BY <2>2, <3>2 DEF OwnProcess, Launching
    <3> QED
      BY <2>2, <3>1, <3>2, <3>3 DEF SlotStaysFree
  <2>8. Recorded'
    <3>1. \A other \in ProcessIds : Started(other)' => Started(other) /\ jobNumber'[other] = jobNumber[other]
      BY <2>1, <2>2 DEF Started, OwnProcess, Launching
    <3> QED
      BY <2>2, <3>1 DEF Recorded
  <2> QED
    BY <2>4, <2>5, <2>6, <2>7, <2>8
<1> QED
  BY <1>1, <1>2, <1>3, <1>4, <1>5 DEF Jobbg

(***************************************************************************)
(* A shell that lists the jobs may empty a record that was written since,  *)
(* whose process is in wiped then.                                         *)
(***************************************************************************)
LEMMA JobsStep ==
  ASSUME JobAssumption, JobInv, NEW s \in Shells, Jobs(s)
  PROVE  JobInv'
<1> USE DEF JobAssumption, JobInv, JobTypes, Places, From
<1>1. CASE StartDisplay(s) \/ ReadRecord(s)
  <2>1. /\ UNCHANGED <<jobFile, fileLock, fileSizePlus, process, jobNumber, wiped>>
        /\ \A t \in Shells \ {s} : shell'[t] = shell[t] /\ current'[t] = current[t]
        /\ shell' \in [Shells -> Places] /\ current' \in [Shells -> Nat]
        /\ shell[s] \in {"prompt", "read"} /\ shell'[s] \in {"prompt", "read", "empty"}
        /\ shell'[s] = "read" => current'[s] # 0
        /\ shell'[s] = "empty" => current'[s] \in 1 .. Len(jobFile)
    <3>1. CASE StartDisplay(s)
      BY <3>1 DEF StartDisplay
    <3>2. CASE ReadRecord(s)
      <4>1. CASE From(s, "read", "empty")
        <5>1. shell' = [shell EXCEPT ![s] = "empty"] /\ shell'[s] = "empty" /\ shell[s] = "read"
          BY <4>1
        <5>2. current' = current /\ current[s] <= Len(jobFile)
          BY <3>2, <5>1 DEF ReadRecord
        <5>3. UNCHANGED <<jobFile, fileLock, fileSizePlus, process, jobNumber, wiped>>
          BY <3>2 DEF ReadRecord
        <5>4. current[s] \in 1 .. Len(jobFile)
          BY <5>1, <5>2 DEF Looking
        <5> QED
          BY <5>1, <5>2, <5>3, <5>4
      <4>2. CASE From(s, "read", "prompt")
        <5>1. shell' = [shell EXCEPT ![s] = "prompt"] /\ shell'[s] = "prompt" /\ shell[s] = "read"
          BY <4>2
        <5>2. current' = [current EXCEPT ![s] = 0]
          BY <3>2, <5>1 DEF ReadRecord
        <5> QED
          BY <3>2, <5>1, <5>2 DEF ReadRecord
      <4>3. CASE From(s, "read", "read")
        BY <3>2, <4>3 DEF ReadRecord
      <4> QED
        BY <3>2, <4>1, <4>2, <4>3 DEF ReadRecord
    <3> QED
      BY <1>1, <3>1, <3>2
  <2>2. JobTypes' /\ Looking'
    BY <2>1 DEF Looking
  <2>3. OwnProcess'
    <3>1. \A t \in Shells : Launching(t)' => Launching(t) /\ t # s /\ current'[t] = current[t]
      BY <2>1 DEF Launching
    <3> QED
      BY <2>1, <3>1 DEF OwnProcess
  <2>4. OneSearches'
    BY <2>1 DEF OneSearches
  <2>5. SlotStaysFree'
    BY <2>1 DEF SlotStaysFree, Gone
  <2>6. Recorded'
    <3>1. \A other \in ProcessIds : Started(other)' => Started(other)
      BY <2>1 DEF Started
    <3> QED
      BY <2>1, <3>1 DEF Recorded
  <2> QED
    BY <2>2, <2>3, <2>4, <2>5, <2>6
<1>2. CASE EmptyRecord(s)
  <2> DEFINE n == current[s]
  <2>1. /\ UNCHANGED <<fileLock, fileSizePlus, process, jobNumber>>
        /\ \A t \in Shells \ {s} : shell'[t] = shell[t] /\ current'[t] = current[t]
        /\ shell[s] = "empty" /\ shell'[s] \in {"exited", "read"}
        /\ n \in 1 .. Len(jobFile) /\ current'[s] \in Nat \ {0}
        /\ \/ UNCHANGED <<jobFile, wiped>>
           \/ /\ jobFile' = [jobFile EXCEPT ![n] = 0]
              /\ wiped' = IF Gone(jobFile[n]) THEN wiped ELSE wiped \cup {jobFile[n]}
    BY <1>2 DEF EmptyRecord, Looking, Launching
  <2>2. JobTypes'
    <3>1. current' \in [Shells -> Nat] /\ shell' \in [Shells -> Places]
      BY <1>2, <2>1 DEF EmptyRecord
    <3>2. jobFile' \in Seq(ProcessIds \cup {0})
      <4>1. [jobFile EXCEPT ![n] = 0] \in Seq(ProcessIds \cup {0})
        BY <2>1, ExceptSeq
      <4> QED
        BY <2>1, <4>1
    <3>3. jobFile[n] \in ProcessIds \cup {0}
      BY <2>1
    <3> QED
      BY <2>1, <3>1, <3>2
  <2>3. /\ Len(jobFile') = Len(jobFile)
        /\ \A i \in 1 .. Len(jobFile) : (i = n /\ jobFile'[i] = 0) \/ jobFile'[i] = jobFile[i]
    BY <2>1
  <2>4. OwnProcess' /\ OneSearches' /\ Looking'
    <3>1. OwnProcess'
      <4>1. \A t \in Shells : Launching(t)' => Launching(t) /\ t # s /\ current'[t] = current[t]
        BY <2>1 DEF Launching
      <4> QED
        BY <2>1, <4>1 DEF OwnProcess
    <3>2. OneSearches' /\ Looking'
      BY <2>1, <2>3 DEF OneSearches, Looking
    <3> QED
      BY <3>1, <3>2
  <2>5. SlotStaysFree'
    <3>1. \A i \in 1 .. Len(jobFile) : Gone(jobFile[i]) => Gone(jobFile'[i])
      BY <2>1, <2>3 DEF Gone
    <3>2. \A t \in Shells : shell'[t] = "write" => /\ shell[t] = "write" /\ current'[t] = current[t]
                                                  /\ current[t] \in ProcessIds
      BY <2>1 DEF OwnProcess, Launching
    <3>3. jobNumber \in [ProcessIds -> Nat]
      OBVIOUS
    <3> QED
      BY <2>1, <2>3, <3>1, <3>2, <3>3 DEF SlotStaysFree, Gone
  <2>6. Recorded'
    <3> SUFFICES ASSUME NEW other \in ProcessIds, other \notin wiped', Started(other)'
                 PROVE  jobNumber[other] \in 1 .. Len(jobFile') /\ jobFile'[jobNumber[other]] = other
      BY <2>1 DEF Recorded
    <3>1. Started(other) /\ ~Gone(other) /\ other \notin wiped
      BY <2>1 DEF Started, Gone, Launching
    <3>2. jobNumber[other] \in 1 .. Len(jobFile) /\ jobFile[jobNumber[other]] = other
      BY <3>1 DEF Recorded
    <3> QED
      BY <2>1, <2>3, <3>1, <3>2
  <2> QED
    BY <2>2, <2>4, <2>5, <2>6
<1> QED
  BY <1>1, <1>2 DEF Jobs

(***************************************************************************)
(* A job that is killed, or ends, is not a running one.                    *)
(***************************************************************************)
LEMMA KillStep ==
  ASSUME JobAssumption, JobInv, NEW s \in Shells, Kill(s)
  PROVE  JobInv'
<1> USE DEF JobAssumption, JobInv, JobTypes, Places, From
<1>1. CASE FindProcessId(s)
  <2>1. /\ UNCHANGED <<jobFile, fileLock, fileSizePlus, process, jobNumber, wiped>>
        /\ shell[s] = "prompt" /\ shell' = [shell EXCEPT ![s] = "kill"]
        /\ \E p \in ProcessIds : current' = [current EXCEPT ![s] = p]
    <3>1. PICK n \in 1 .. Len(jobFile) + 1 :
            /\ From(s, "prompt", "kill")
            /\ \/ n <= Len(jobFile) /\ jobFile[n] # 0 /\ current' = [current EXCEPT ![s] = jobFile[n]]
               \/ \E p \in ProcessIds : current' = [current EXCEPT ![s] = p]
      BY <1>1 DEF FindProcessId
    <3>2. n <= Len(jobFile) /\ jobFile[n] # 0 => jobFile[n] \in ProcessIds
      OBVIOUS
    <3> QED
      BY <1>1, <3>1, <3>2 DEF FindProcessId
  <2>2. JobTypes' /\ Looking'
    BY <2>1 DEF Looking
  <2>3. OwnProcess' /\ OneSearches'
    BY <2>1 DEF OwnProcess, OneSearches, Launching
  <2>4. SlotStaysFree' /\ Recorded'
    BY <2>1 DEF SlotStaysFree, Gone, Recorded, Started
  <2> QED
    BY <2>2, <2>3, <2>4
<1>2. CASE Terminate(s)
  <2>1. /\ UNCHANGED <<jobFile, fileLock, fileSizePlus, jobNumber, wiped>>
        /\ shell[s] = "kill" /\ shell' = [shell EXCEPT ![s] = "prompt"]
        /\ current' = [current EXCEPT ![s] = 0] /\ current[s] \in ProcessIds
        /\ process' \in [ProcessIds -> {"none", "suspended", "running", "ended"}]
        /\ \A p \in ProcessIds : process'[p] = process[p] \/ (process[p] # "none" /\ process'[p] = "ended")
    <3>1. current[s] \in ProcessIds /\ shell[s] = "kill"
      BY <1>2 DEF Terminate, Looking
    <3> DEFINE p == current[s]
    <3>2. process' = [process EXCEPT ![p] = IF process[p] = "none" THEN process[p] ELSE "ended"]
      BY <1>2 DEF Terminate
    <3>4. p \in ProcessIds
      BY <3>1
    <3> HIDE DEF p
    <3>3. /\ process' \in [ProcessIds -> {"none", "suspended", "running", "ended"}]
          /\ \A other \in ProcessIds : process'[other] = process[other] \/ (process[other] # "none" /\ process'[other] = "ended")
      <4>1. \A other \in ProcessIds \ {p} : process'[other] = process[other]
        BY <3>2, <3>4
      <4>2. process'[p] = IF process[p] = "none" THEN process[p] ELSE "ended"
        BY <3>2, <3>4
      <4>3. process' \in [ProcessIds -> {"none", "suspended", "running", "ended"}]
        BY <3>2, <3>4
      <4> QED
        BY <4>1, <4>2, <4>3
    <3> QED
      BY <1>2, <3>1, <3>3 DEF Terminate
  <2>2. JobTypes' /\ Looking'
    BY <2>1 DEF Looking
  <2>3. OwnProcess' /\ OneSearches'
    BY <2>1 DEF OwnProcess, OneSearches, Launching
  <2>4. SlotStaysFree'
    BY <2>1 DEF SlotStaysFree, Gone
  <2>5. Recorded'
    <3>1. \A other \in ProcessIds : Started(other)' => Started(other)
      BY <2>1 DEF Started
    <3> QED
      BY <2>1, <3>1 DEF Recorded
  <2> QED
    BY <2>2, <2>3, <2>4, <2>5
<1> QED
  BY <1>1, <1>2 DEF Kill

(***************************************************************************)
(* JobInv is an invariant.                                                 *)
(***************************************************************************)
LEMMA JobStep == JobAssumption /\ JobInv /\ [JobNext]_jobVars => JobInv'
<1> SUFFICES ASSUME JobAssumption, JobInv, [JobNext]_jobVars PROVE JobInv'
  OBVIOUS
<1>1. CASE \E p \in ProcessIds : ProcessEnds(p)
  BY <1>1 DEF ProcessEnds, JobInv, JobTypes, OwnProcess, Launching, OneSearches,
              SlotStaysFree, Gone, Looking, Recorded, Started
<1>2. CASE UNCHANGED jobVars
  BY <1>2 DEF jobVars, JobInv, JobTypes, OwnProcess, Launching, OneSearches,
              SlotStaysFree, Gone, Looking, Recorded, Started
<1> QED
  BY <1>1, <1>2, JobbgStep, JobsStep, KillStep DEF JobNext

(***************************************************************************)
(* A job that runs is found under the number that the user was told, for   *)
(* any shells, processes and size of the file: the locks of GetJobNumber   *)
(* are enough, though their regions are computed before they are taken.    *)
(***************************************************************************)
THEOREM RunningJobsAreFound == JobAssumption /\ JobSpec => []JobsFound
<1>1. JobInv => JobsFound
  BY DEF JobInv, Recorded, Started, JobsFound
<1>2. JobAssumption /\ JobSpec => []JobInv
  <2> SUFFICES ASSUME JobAssumption PROVE JobSpec => []JobInv
    OBVIOUS
  <2>1. JobInit => JobInv
    BY InitialJobs
  <2>2. JobInv /\ [JobNext]_jobVars => JobInv'
    BY JobStep
  <2> QED
    BY <2>1, <2>2, PTL DEF JobSpec
<1> QED
  BY <1>1, <1>2, PTL
-----------------------------------------------------------------------------
(* simplePC.c, which has no event.                                         *)

SimpleInv ==
  /\ BlockTypeOK /\ pc \in [Threads -> EventPCs] /\ pc[Consumer] # "count"
  /\ EventGuardOwned /\ DataValid /\ PendingUndisplayed

LEMMA SimpleStep == SimpleInv /\ SimpleNext => SimpleInv'
<1> SUFFICES ASSUME SimpleInv, SimpleNext PROVE SimpleInv'
  OBVIOUS
<1> USE ThreadsDistinct DEF SimpleInv, Goto, EventPCs
<1>1. CASE ProducerLoop \/ ConsumerStop \/ ConsumerAsk \/ ConsumerEnter
  <2>1. BlockTypeOK'
    BY <1>1 DEF BlockTypeOK, ProducerLoop, ConsumerStop, ConsumerAsk, ConsumerEnter, blockVars
  <2>2. (pc \in [Threads -> EventPCs] /\ pc[Consumer] # "count")'
    BY <1>1 DEF ProducerLoop, ConsumerStop, ConsumerAsk, ConsumerEnter
  <2>3. EventGuardOwned' /\ DataValid'
    BY <1>1 DEF EventGuardOwned, DataValid, ProducerLoop, ConsumerStop, ConsumerAsk,
                ConsumerEnter, blockVars
  <2>4. PendingUndisplayed'
    BY <1>1 DEF PendingUndisplayed, MessagePending, DisplayedOnce,
                ProducerLoop, ConsumerStop, ConsumerAsk, ConsumerEnter, blockVars
  <2> QED BY <2>1, <2>2, <2>3, <2>4
<1>2. CASE ProducerEnter
  <2>1. BlockTypeOK'
    <3>1. fReady' \in BOOLEAN /\ fStop' \in BOOLEAN
      BY <1>2 DEF BlockTypeOK, ProducerEnter
    <3>2. mGuard' \in Threads \cup {Nobody} /\ mSequence' \in Nat /\ mData' \in Nat
      BY <1>2 DEF BlockTypeOK, ProducerEnter, MessageFill
    <3>3. displayed' \in Seq(Nat)
      BY <1>2 DEF BlockTypeOK, ProducerEnter
    <3> QED BY <3>1, <3>2, <3>3 DEF BlockTypeOK
  <2>2. (pc \in [Threads -> EventPCs] /\ pc[Consumer] # "count")'
    BY <1>2 DEF ProducerEnter
  <2>3. EventGuardOwned' /\ DataValid'
    BY <1>2 DEF EventGuardOwned, DataValid, ProducerEnter
  <2>4. PendingUndisplayed'
    BY <1>2 DEF PendingUndisplayed, MessagePending, DisplayedOnce, ProducerEnter
  <2> QED BY <2>1, <2>2, <2>3, <2>4
<1>3. CASE ProducerPublish
  <2>1. mSequence \in Nat /\ mSequence' = mSequence + 1 /\ UNCHANGED displayed
    BY <1>3 DEF BlockTypeOK, ProducerPublish, Publish
  <2>2. BlockTypeOK'
    BY <1>3 DEF BlockTypeOK, ProducerPublish, Publish
  <2>3. (pc \in [Threads -> EventPCs] /\ pc[Consumer] # "count")'
    BY <1>3 DEF ProducerPublish
  <2>4. EventGuardOwned' /\ DataValid'
    BY <1>3, <2>1 DEF EventGuardOwned, DataValid, ProducerPublish, Publish
  <2>5. PendingUndisplayed'
    BY <2>1 DEF PendingUndisplayed, DisplayedOnce
  <2> QED BY <2>2, <2>3, <2>4, <2>5
<1>4. CASE ConsumerDisplay
  <2>1. /\ MessagePending /\ mData = mSequence /\ mSequence \in Nat /\ mSequence > 0
        /\ UNCHANGED mSequence /\ fReady' = FALSE
        /\ displayed' = Append(displayed, mData) /\ displayed \in Seq(Nat)
    BY <1>4 DEF BlockTypeOK, EventGuardOwned, DataValid, MessagePending, ConsumerDisplay,
                MessageDisplay
  <2>2. BlockTypeOK'
    <3>1. fReady' \in BOOLEAN /\ fStop' \in BOOLEAN
      BY <1>4 DEF BlockTypeOK, ConsumerDisplay
    <3>2. mGuard' \in Threads \cup {Nobody} /\ mSequence' \in Nat /\ mData' \in Nat
      BY <1>4 DEF BlockTypeOK, ConsumerDisplay
    <3>3. displayed' \in Seq(Nat)
      BY <2>1
    <3> QED BY <3>1, <3>2, <3>3 DEF BlockTypeOK
  <2>3. (pc \in [Threads -> EventPCs] /\ pc[Consumer] # "count")'
    BY <1>4 DEF ConsumerDisplay
  <2>4. EventGuardOwned' /\ DataValid'
    BY <1>4 DEF EventGuardOwned, DataValid, ConsumerDisplay
  <2>5. DisplayedOnce'
    <3>1. \A j \in DOMAIN displayed : displayed[j] < mSequence
      BY <2>1 DEF PendingUndisplayed
    <3> QED BY <2>1, <3>1 DEF PendingUndisplayed, DisplayedOnce
  <2>6. PendingUndisplayed'
    BY <2>1, <2>5 DEF PendingUndisplayed, MessagePending
  <2> QED BY <2>2, <2>3, <2>4, <2>6
<1> QED
  BY <1>1, <1>2, <1>3, <1>4 DEF SimpleNext, SimpleProduce, SimpleConsume

-----------------------------------------------------------------------------
(* multiPCav.c, for any number of consumers.                               *)

MultiPCs == {"none", "loop", "lock", "wait", "again", "fill", "start", "take", "report", "done"}

MultiInv ==
  /\ BlockTypeOK /\ f_consumed \in BOOLEAN /\ pc \in [Threads -> MultiPCs]
  /\ pc[Producer] = "fill" => mGuard = Producer /\ (fStop \/ ~fReady)
  /\ \A c \in Consumers : pc[c] = "take" => mGuard = c /\ (fStop \/ fReady)
  /\ fReady => mData = mSequence /\ mSequence > 0
  /\ Multi!EachConsumedOnce

LEMMA MultiBegins == Multi!MultiInit => MultiInv
<1> SUFFICES ASSUME Multi!MultiInit PROVE MultiInv
  OBVIOUS
<1> USE BlockAssumption DEF Multi!MultiInit, Multi!BlockInit, Multi!Threads, Threads
<1>1. pc \in [Threads -> MultiPCs]
  BY DEF MultiPCs
<1>2. BlockTypeOK
  <2>1. displayed \in Seq(Nat) /\ mSequence \in Nat /\ mData \in Nat
    OBVIOUS
  <2>2. mGuard \in Threads \cup {Nobody} /\ fReady \in BOOLEAN /\ fStop \in BOOLEAN
    OBVIOUS
  <2> QED BY <2>1, <2>2 DEF BlockTypeOK
<1>3. Multi!EachConsumedOnce
  <2>1. displayed = <<>> /\ mSequence = 0 /\ fReady = FALSE /\ f_consumed = TRUE
    OBVIOUS
  <2>2. 1 .. mSequence - (IF fReady THEN 1 ELSE 0) = {}
    BY <2>1
  <2>3. [i \in {} |-> i] = <<>>
    OBVIOUS
  <2> QED
    BY <2>1, <2>2, <2>3 DEF Multi!EachConsumedOnce
<1> QED
  BY <1>1, <1>2, <1>3 DEF MultiInv

\* A signal wakes at most one thread, and its sender goes on.
LEMMA Signalled ==
  ASSUME pc \in [Threads -> MultiPCs], NEW S, S \subseteq Threads, NEW t \in Threads,
         NEW l \in MultiPCs, Multi!Signal(S, t, l), t \notin S
  PROVE  /\ pc' \in [Threads -> MultiPCs] /\ pc'[t] = l
         /\ \A v \in Threads \ {t} : pc'[v] \in {pc[v], "again"}
<1>1. CASE S = {} /\ Goto(t, l)
  BY <1>1 DEF Goto
<1>2. CASE \E u \in S : pc' = [pc EXCEPT ![t] = l, ![u] = "again"]
  <2>1. PICK u \in S : pc' = [pc EXCEPT ![t] = l, ![u] = "again"]
    BY <1>2
  <2>2. "again" \in MultiPCs /\ u # t /\ u \in Threads
    BY DEF MultiPCs
  <2> QED
    BY <2>1, <2>2
<1> QED
  BY <1>1, <1>2 DEF Multi!Signal, Multi!Goto, Goto

\* Steps that do not use the block.
MultiQuiet == UNCHANGED <<mGuard, fReady, mSequence, mData, displayed, f_consumed>>

LEMMA QuietStep ==
  ASSUME MultiInv, MultiQuiet, fStop' \in BOOLEAN, fStop => fStop',
         pc' \in [Threads -> MultiPCs],
         \A v \in Threads : pc'[v] \in {"fill", "take"} => pc'[v] = pc[v]
  PROVE  MultiInv'
<1>1. BlockTypeOK' /\ f_consumed' \in BOOLEAN
  BY DEF MultiInv, BlockTypeOK, MultiQuiet
<1>2. (pc[Producer] = "fill" => mGuard = Producer /\ (fStop \/ ~fReady))'
  BY DEF MultiInv, MultiQuiet, Threads
<1>3. ASSUME NEW c \in Consumers, pc'[c] = "take"
      PROVE  mGuard' = c /\ (fStop' \/ fReady')
  <2>1. pc[c] = "take"
    BY <1>3 DEF Threads
  <2>2. mGuard = c /\ (fStop \/ fReady)
    BY <2>1 DEF MultiInv
  <2> QED
    BY <2>2 DEF MultiQuiet
<1>4. (fReady => mData = mSequence /\ mSequence > 0)'
  BY DEF MultiInv, MultiQuiet
<1>5. Multi!EachConsumedOnce'
  BY DEF MultiInv, MultiQuiet, Multi!EachConsumedOnce
<1> QED
  BY <1>1, <1>2, <1>3, <1>4, <1>5 DEF MultiInv

\* The producer fills the block, or is told to stop.
LEMMA ProduceTestStep ==
  ASSUME MultiInv, Multi!ProduceTest
  PROVE  MultiInv'
<1> USE BlockAssumption DEF Multi!Goto, Threads
<1>1. CASE ~f_consumed /\ ~fStop
  <2>1. pc' = [pc EXCEPT ![Producer] = "wait"] /\ MultiQuiet /\ fStop' = fStop
    BY <1>1 DEF Multi!ProduceTest, MultiQuiet
  <2>2. /\ pc' \in [Threads -> MultiPCs]
        /\ \A v \in Threads : pc'[v] \in {"fill", "take"} => pc'[v] = pc[v]
    BY <2>1 DEF MultiInv, MultiPCs
  <2> QED
    BY <2>1, <2>2, QuietStep DEF MultiInv, BlockTypeOK
<1>2. CASE f_consumed \/ fStop
  <2>1. /\ pc' = [pc EXCEPT ![Producer] = "fill"] /\ mGuard = Nobody /\ mGuard' = Producer
        /\ UNCHANGED <<fReady, fStop, mSequence, displayed, f_consumed>>
        /\ mData' = mData \/ (mData' = 0 /\ ~fStop)
    BY <1>2 DEF Multi!ProduceTest, Multi!MessageFill, MultiInv
  <2>2. BlockTypeOK'
    <3>1. mGuard' \in Threads \cup {Nobody} /\ mSequence' \in Nat /\ mData' \in Nat
      BY <2>1 DEF MultiInv, BlockTypeOK
    <3>2. fReady' \in BOOLEAN /\ fStop' \in BOOLEAN
      BY <2>1 DEF MultiInv, BlockTypeOK
    <3>3. displayed' \in Seq(Nat)
      BY <2>1 DEF MultiInv, BlockTypeOK
    <3> QED
      BY <3>1, <3>2, <3>3 DEF BlockTypeOK
  <2>3. f_consumed' \in BOOLEAN /\ pc' \in [Threads -> MultiPCs] /\ pc'[Producer] = "fill"
    BY <2>1 DEF MultiInv, MultiPCs
  <2>4. mGuard' = Producer /\ (fStop' \/ ~fReady')
    BY <1>2, <2>1 DEF MultiInv, Multi!EachConsumedOnce
  <2>5. \A c \in Consumers : pc'[c] # "take"
    BY <2>1 DEF MultiInv
  <2>6. (fReady => mData = mSequence /\ mSequence > 0)'
    BY <1>2, <2>1 DEF MultiInv, Multi!EachConsumedOnce
  <2>7. Multi!EachConsumedOnce'
    BY <2>1 DEF MultiInv, Multi!EachConsumedOnce
  <2> QED
    BY <2>2, <2>3, <2>4, <2>5, <2>6, <2>7 DEF MultiInv
<1> QED
  BY <1>1, <1>2 DEF MultiInv

\* The message is complete and ready; or there is none, since the program stops.
LEMMA ProduceSignalStep ==
  ASSUME MultiInv, Multi!ProduceSignal
  PROVE  MultiInv'
<1> USE BlockAssumption DEF Threads
<1>1. /\ pc[Producer] = "fill" /\ mGuard = Producer /\ mGuard' = Nobody
      /\ UNCHANGED <<fStop, displayed>>
  BY DEF MultiInv, Multi!ProduceSignal
<1>2. /\ pc' \in [Threads -> MultiPCs] /\ pc'[Producer] = "loop"
      /\ \A v \in Threads \ {Producer} : pc'[v] \in {pc[v], "again"}
  <2>1. Multi!Sleepers \subseteq Threads /\ Producer \notin Multi!Sleepers
    BY DEF Multi!Sleepers
  <2>2. "loop" \in MultiPCs /\ Producer \in Threads
    BY DEF MultiPCs
  <2> QED
    BY <2>1, <2>2, Signalled DEF Multi!ProduceSignal, MultiInv
<1>3. \A c \in Consumers : pc'[c] # "take"
  BY <1>1, <1>2 DEF MultiInv
<1>4. CASE fStop
  <2>1. UNCHANGED <<mData, mSequence, fReady, f_consumed>>
    BY <1>4 DEF Multi!ProduceSignal
  <2>2. BlockTypeOK' /\ f_consumed' \in BOOLEAN
    BY <1>1, <2>1 DEF MultiInv, BlockTypeOK
  <2>3. (fReady => mData = mSequence /\ mSequence > 0)'
    BY <2>1 DEF MultiInv
  <2>4. Multi!EachConsumedOnce'
    BY <1>1, <2>1 DEF MultiInv, Multi!EachConsumedOnce
  <2> QED
    BY <1>2, <1>3, <2>2, <2>3, <2>4 DEF MultiInv
<1>5. CASE ~fStop
  <2>1. /\ mData' = mSequence + 1 /\ mSequence' = mSequence + 1 /\ mSequence \in Nat
        /\ fReady' = TRUE /\ f_consumed' = FALSE /\ ~fReady
    BY <1>1, <1>5 DEF Multi!ProduceSignal, Multi!Publish, MultiInv, BlockTypeOK
  <2>2. BlockTypeOK' /\ f_consumed' \in BOOLEAN
    <3>1. mGuard' \in Threads \cup {Nobody} /\ mSequence' \in Nat /\ mData' \in Nat
      BY <1>1, <2>1 DEF MultiInv, BlockTypeOK
    <3>2. fReady' \in BOOLEAN /\ fStop' \in BOOLEAN /\ f_consumed' \in BOOLEAN
      BY <1>1, <2>1 DEF MultiInv, BlockTypeOK
    <3>3. displayed' \in Seq(Nat)
      BY <1>1 DEF MultiInv, BlockTypeOK
    <3> QED
      BY <3>1, <3>2, <3>3 DEF BlockTypeOK
  <2>3. (fReady => mData = mSequence /\ mSequence > 0)'
    BY <2>1
  <2>4. Multi!EachConsumedOnce'
    <3>1. 1 .. mSequence - (IF fReady THEN 1 ELSE 0) = 1 .. mSequence
      BY <2>1
    <3>2. 1 .. mSequence' - (IF fReady' THEN 1 ELSE 0) = 1 .. mSequence
      BY <2>1
    <3>3. displayed = [i \in 1 .. mSequence |-> i]
      BY <3>1 DEF MultiInv, Multi!EachConsumedOnce
    <3>4. f_consumed' = ~fReady'
      BY <2>1
    <3> QED
      BY <1>1, <3>2, <3>3, <3>4 DEF Multi!EachConsumedOnce
  <2> QED
    BY <1>2, <1>3, <2>2, <2>3, <2>4 DEF MultiInv
<1> QED
  BY <1>4, <1>5

\* A consumer takes the message that is ready, the next one.
LEMMA ConsumerTakeStep ==
  ASSUME MultiInv, NEW c \in Consumers, Multi!ConsumerTake(c)
  PROVE  MultiInv'
<1> USE BlockAssumption DEF Threads
<1>1. /\ pc[c] = "take" /\ mGuard = c /\ mGuard' = Nobody
      /\ UNCHANGED <<fStop, mSequence, mData>>
  BY DEF MultiInv, Multi!ConsumerTake
<1>2. /\ pc' \in [Threads -> MultiPCs] /\ pc'[c] = "loop"
      /\ \A v \in Threads \ {c} : pc'[v] \in {pc[v], "again"}
  <2>1. Multi!SleepingProducer \subseteq Threads /\ c \notin Multi!SleepingProducer
    BY DEF Multi!SleepingProducer
  <2>2. "loop" \in MultiPCs /\ c \in Threads
    BY DEF MultiPCs
  <2> QED
    BY <2>1, <2>2, Signalled DEF Multi!ConsumerTake, MultiInv
<1>3. pc'[Producer] # "fill"
  BY <1>1, <1>2 DEF MultiInv
<1>6. \A d \in Consumers : pc'[d] # "take"
  BY <1>1, <1>2 DEF MultiInv
<1>4. CASE fStop
  <2>1. UNCHANGED <<displayed, fReady, f_consumed>>
    BY <1>4 DEF Multi!ConsumerTake
  <2>2. BlockTypeOK' /\ f_consumed' \in BOOLEAN
    BY <1>1, <2>1 DEF MultiInv, BlockTypeOK
  <2>3. (fReady => mData = mSequence /\ mSequence > 0)'
    BY <1>1, <2>1 DEF MultiInv
  <2>4. Multi!EachConsumedOnce'
    BY <1>1, <2>1 DEF MultiInv, Multi!EachConsumedOnce
  <2> QED
    BY <1>2, <1>3, <1>6, <2>2, <2>3, <2>4 DEF MultiInv
<1>5. CASE ~fStop
  <2>1. /\ displayed' = Append(displayed, mData) /\ f_consumed' = TRUE /\ fReady' = FALSE
        /\ fReady /\ mData = mSequence /\ mSequence > 0 /\ mSequence \in Nat
        /\ displayed \in Seq(Nat)
    BY <1>1, <1>5 DEF Multi!ConsumerTake, Multi!MessageDisplay, MultiInv, BlockTypeOK
  <2>2. BlockTypeOK' /\ f_consumed' \in BOOLEAN
    <3>1. mGuard' \in Threads \cup {Nobody} /\ mSequence' \in Nat /\ mData' \in Nat
      BY <1>1, <2>1 DEF MultiInv, BlockTypeOK
    <3>2. fReady' \in BOOLEAN /\ fStop' \in BOOLEAN /\ f_consumed' \in BOOLEAN
      BY <1>1, <2>1 DEF MultiInv, BlockTypeOK
    <3>3. displayed' \in Seq(Nat)
      BY <2>1
    <3> QED
      BY <3>1, <3>2, <3>3 DEF BlockTypeOK
  <2>3. (fReady => mData = mSequence /\ mSequence > 0)'
    BY <2>1
  <2>4. Multi!EachConsumedOnce'
    <3>1. 1 .. mSequence - (IF fReady THEN 1 ELSE 0) = 1 .. mSequence - 1
      BY <2>1
    <3>2. 1 .. mSequence' - (IF fReady' THEN 1 ELSE 0) = 1 .. mSequence
      BY <1>1, <2>1
    <3>3. displayed = [i \in 1 .. mSequence - 1 |-> i]
      BY <3>1 DEF MultiInv, Multi!EachConsumedOnce
    <3>4. f_consumed' = ~fReady'
      BY <2>1
    <3>5. Len(displayed) = mSequence - 1 /\ DOMAIN displayed' = 1 .. mSequence
      BY <2>1, <3>3
    <3>6. \A i \in 1 .. mSequence : displayed'[i] = i
      BY <2>1, <3>3, <3>5
    <3>7. displayed' \in Seq(Nat) /\ Len(displayed') = mSequence
      BY <2>1, <3>5, AppendProperties
    <3>9. [i \in 1 .. mSequence |-> i] \in Seq(Nat) /\ Len([i \in 1 .. mSequence |-> i]) = mSequence
      BY <2>1
    <3>8. displayed' = [i \in 1 .. mSequence |-> i]
      BY <3>6, <3>7, <3>9, SeqEqual
    <3> QED
      BY <3>2, <3>4, <3>8 DEF Multi!EachConsumedOnce
  <2> QED
    BY <1>2, <1>3, <1>6, <2>2, <2>3, <2>4 DEF MultiInv
<1> QED
  BY <1>4, <1>5

MultiNext ==
  \/ Multi!MultiProduce \/ Multi!Main \/ Multi!SpuriousWakeup
  \/ \E c \in Consumers : Multi!MultiConsume(c)

LEMMA MultiStep == MultiInv /\ MultiNext => MultiInv'
<1> SUFFICES ASSUME MultiInv, MultiNext PROVE MultiInv'
  OBVIOUS
<1> USE BlockAssumption DEF Threads
<1>1. CASE Multi!MultiLoop \/ Multi!SpuriousWakeup \/ Multi!Join
  <2>1. /\ MultiQuiet /\ fStop' = fStop
        /\ \/ \E l \in {"done", "lock", "again"} : pc' = [pc EXCEPT ![Producer] = l]
           \/ pc' = pc
    BY <1>1 DEF Multi!MultiLoop, Multi!SpuriousWakeup, Multi!Join, Multi!Goto, Multi!blockVars,
                MultiQuiet
  <2>2. /\ pc' \in [Threads -> MultiPCs]
        /\ \A v \in Threads : pc'[v] \in {"fill", "take"} => pc'[v] = pc[v]
    BY <2>1 DEF MultiInv, MultiPCs
  <2> QED
    BY <2>1, <2>2, QuietStep DEF MultiInv, BlockTypeOK
<1>2. ASSUME NEW c \in Consumers,
             \/ Multi!ConsumerStart(c) \/ Multi!ConsumerLoop(c) \/ Multi!ConsumerWait(c)
             \/ Multi!ConsumerReport(c) \/ Multi!TimeOut(c) \/ Multi!CreateConsumer(c)
      PROVE  MultiInv'
  <2>1. /\ MultiQuiet /\ fStop' = fStop
        /\ \E l \in MultiPCs \ {"fill", "take"} : pc' = [pc EXCEPT ![c] = l]
    BY <1>2 DEF Multi!ConsumerStart, Multi!ConsumerLoop, Multi!ConsumerWait,
                Multi!ConsumerReport, Multi!TimeOut, Multi!CreateConsumer, Multi!Goto,
                Multi!blockVars, MultiQuiet, MultiPCs
  <2>2. /\ pc' \in [Threads -> MultiPCs]
        /\ \A v \in Threads : pc'[v] \in {"fill", "take"} => pc'[v] = pc[v]
    BY <2>1 DEF MultiInv
  <2> QED
    BY <2>1, <2>2, QuietStep DEF MultiInv, BlockTypeOK
<1>3. CASE Multi!Stop
  <2>1. /\ MultiQuiet /\ fStop' = TRUE
        /\ pc' = pc \/ \E c \in Consumers : pc' = [pc EXCEPT ![c] = "again"]
    BY <1>3 DEF Multi!Stop, Multi!Sleepers, Multi!Goto, MultiQuiet
  <2>2. /\ pc' \in [Threads -> MultiPCs]
        /\ \A v \in Threads : pc'[v] \in {"fill", "take"} => pc'[v] = pc[v]
    BY <2>1 DEF MultiInv, MultiPCs
  <2> QED
    BY <2>1, <2>2, QuietStep DEF MultiInv, BlockTypeOK
<1>4. ASSUME NEW c \in Consumers, Multi!ConsumerTest(c)
      PROVE  MultiInv'
  <2>1. CASE ~(fReady \/ fStop)
    <3>1. MultiQuiet /\ fStop' = fStop /\ pc' = [pc EXCEPT ![c] = "wait"]
      BY <1>4, <2>1 DEF Multi!ConsumerTest, Multi!Goto, MultiQuiet
    <3>2. /\ pc' \in [Threads -> MultiPCs]
          /\ \A v \in Threads : pc'[v] \in {"fill", "take"} => pc'[v] = pc[v]
      BY <3>1 DEF MultiInv, MultiPCs
    <3> QED
      BY <3>1, <3>2, QuietStep DEF MultiInv, BlockTypeOK
  <2>2. CASE fReady \/ fStop
    <3>1. /\ pc' = [pc EXCEPT ![c] = "take"] /\ mGuard = Nobody /\ mGuard' = c
          /\ UNCHANGED <<fReady, fStop, mSequence, mData, displayed, f_consumed>>
      BY <1>4, <2>2 DEF Multi!ConsumerTest, Multi!Goto
    <3>2. BlockTypeOK' /\ f_consumed' \in BOOLEAN
      BY <3>1 DEF MultiInv, BlockTypeOK
    <3>3. /\ pc' \in [Threads -> MultiPCs] /\ pc'[c] = "take"
          /\ \A v \in Threads \ {c} : pc'[v] = pc[v]
      BY <3>1 DEF MultiInv, MultiPCs
    <3>4. pc'[Producer] # "fill" /\ \A d \in Consumers : pc'[d] = "take" => d = c
      BY <3>1, <3>3 DEF MultiInv
    <3>5. mGuard' = c /\ (fStop' \/ fReady')
      BY <2>2, <3>1
    <3>6. (fReady => mData = mSequence /\ mSequence > 0)'
      BY <3>1 DEF MultiInv
    <3>7. Multi!EachConsumedOnce'
      BY <3>1 DEF MultiInv, Multi!EachConsumedOnce
    <3> QED
      BY <3>2, <3>3, <3>4, <3>5, <3>6, <3>7 DEF MultiInv
  <2> QED
    BY <2>1, <2>2
<1> QED
  BY <1>1, <1>2, <1>3, <1>4, ProduceTestStep, ProduceSignalStep, ConsumerTakeStep
  DEF MultiNext, Multi!MultiProduce, Multi!MultiConsume, Multi!Main

-----------------------------------------------------------------------------
(* SendReceiveSKST.c and SendReceiveSKHA.c: null-terminated texts in       *)
(* streams of characters.                                                  *)

Char == Nat \X Nat

NullFree(cs) == \A i \in 1 .. Len(cs) : cs[i] # Stream!Null

\* A text that ends with its only null.
Whole(cs) == \E u \in Seq(Char) : NullFree(u) /\ cs = Append(u, Stream!Null)

LEMMA NullIsChar == Stream!Null \in Char
BY DEF Stream!Null, Char

\* The operators of the library, as they are named in an instance.
LEMMA SameOperators ==
  /\ \A s, e : Stream!Contains(s, e) = Contains(s, e)
  /\ \A I : Stream!Min(I) = Min(I)
  /\ \A ss : Stream!FlattenSeq(ss) = FlattenSeq(ss)
<1>1. \A s, e : Stream!Contains(s, e) = Contains(s, e)
  BY DEF Stream!Contains, Contains
<1>2. \A I : Stream!Min(I) = Min(I)
  BY DEF Stream!Min, Min
<1>3. \A ss : Stream!FlattenSeq(ss) = FlattenSeq(ss)
  BY DEF Stream!FlattenSeq, FlattenSeq
<1> QED
  BY <1>1, <1>2, <1>3

\* The numbers of the positions of nulls, and of those before the first.
LEMMA FirstNull ==
  ASSUME NEW cs \in Seq(Char)
  PROVE  /\ Stream!UpToNull(cs) \in 0 .. Len(cs)
         /\ \A i \in 1 .. Stream!UpToNull(cs) : cs[i] # Stream!Null
         /\ IF Contains(cs, Stream!Null)
            THEN /\ Stream!UpToNull(cs) < Len(cs)
                 /\ cs[Stream!UpToNull(cs) + 1] = Stream!Null
            ELSE Stream!UpToNull(cs) = Len(cs)
<1> DEFINE I == {i \in 1 .. Len(cs) : cs[i] = Stream!Null}
<1>1. Len(cs) \in Nat /\ I \subseteq Nat
  OBVIOUS
<1>2. CASE Contains(cs, Stream!Null)
  <2>1. I # {}
    BY <1>2 DEF Contains
  <2>2. Stream!UpToNull(cs) = Min(I) - 1
    <3>1. Stream!SelectInSeq(cs, LAMBDA c : c = Stream!Null) = Stream!Min(I)
      BY <2>1 DEF Stream!SelectInSeq
    <3>2. Stream!UpToNull(cs) = Stream!Min(I) - 1
      BY <1>2, <3>1, SameOperators DEF Stream!UpToNull
    <3> QED
      BY <3>2, SameOperators
  <2>3. \E x \in I : \A y \in I : x <= y
    BY <1>1, <2>1, LeastElement
  <2>4. Min(I) \in I /\ \A y \in I : Min(I) <= y
    BY <2>3 DEF Min
  <2> DEFINE m == Min(I)
  <2>5. /\ m \in 1 .. Len(cs) /\ cs[m] = Stream!Null
        /\ \A i \in 1 .. Len(cs) : cs[i] = Stream!Null => m <= i
    BY <2>4
  <2>6. Stream!UpToNull(cs) = m - 1
    BY <2>2
  <2> HIDE DEF m, I
  <2>7. Stream!UpToNull(cs) \in 0 .. Len(cs) /\ Stream!UpToNull(cs) < Len(cs)
        /\ Stream!UpToNull(cs) + 1 = m
    BY <1>1, <2>5, <2>6
  <2>8. \A i \in 1 .. Stream!UpToNull(cs) : cs[i] # Stream!Null
    BY <1>1, <2>5, <2>6
  <2> QED
    BY <1>2, <2>5, <2>7, <2>8
<1>3. CASE ~Contains(cs, Stream!Null)
  <2>1. Stream!UpToNull(cs) = Len(cs)
    BY <1>3, SameOperators DEF Stream!UpToNull
  <2>2. \A i \in 1 .. Len(cs) : cs[i] # Stream!Null
    BY <1>3 DEF Contains
  <2> QED
    BY <1>1, <1>3, <2>1, <2>2
<1> QED
  BY <1>2, <1>3

\* Two ways to divide a sequence behind place n.
LEMMA Divided ==
  ASSUME NEW S, NEW s \in Seq(S), NEW n \in 0 .. Len(s)
  PROVE  /\ SubSeq(s, 1, n) \in Seq(S) /\ SubSeq(s, n + 1, Len(s)) \in Seq(S)
         /\ s = SubSeq(s, 1, n) \o SubSeq(s, n + 1, Len(s))
         /\ Len(SubSeq(s, 1, n)) = n
         /\ \A i \in 1 .. n : SubSeq(s, 1, n)[i] = s[i]
<1> DEFINE a == SubSeq(s, 1, n)
           b == SubSeq(s, n + 1, Len(s))
<1>0. Len(s) \in Nat /\ n \in Nat /\ n <= Len(s) /\ \A i \in 1 .. Len(s) : s[i] \in S
  OBVIOUS
<1>1. a \in Seq(S) /\ Len(a) = n /\ \A i \in 1 .. n : a[i] = s[i]
  BY <1>0, SubSeqProperties
<1>2. /\ b \in Seq(S) /\ Len(b) = Len(s) - n
      /\ \A i \in 1 .. Len(s) - n : b[i] = s[n + i]
  <2>1. \A i \in n + 1 .. Len(s) : s[i] \in S
    BY <1>0
  <2>2. /\ b \in Seq(S) /\ Len(b) = IF n + 1 <= Len(s) THEN Len(s) - (n + 1) + 1 ELSE 0
        /\ \A i \in 1 .. Len(s) - (n + 1) + 1 : b[i] = s[n + 1 + i - 1]
    BY <1>0, <2>1, SubSeqProperties
  <2> HIDE DEF b
  <2> QED
    BY <1>0, <2>2
<1> HIDE DEF a, b
<1>3. /\ a \o b \in Seq(S) /\ Len(a \o b) = Len(a) + Len(b)
      /\ \A i \in 1 .. Len(a) + Len(b) : (a \o b)[i] = IF i <= Len(a) THEN a[i] ELSE b[i - Len(a)]
  BY <1>1, <1>2, ConcatProperties
<1>4. ASSUME NEW i \in 1 .. Len(s)
      PROVE  s[i] = (a \o b)[i]
  <2>1. (a \o b)[i] = IF i <= n THEN a[i] ELSE b[i - n]
    BY <1>0, <1>1, <1>2, <1>3
  <2>2. CASE i <= n
    BY <1>0, <1>1, <2>1, <2>2
  <2>3. CASE i > n
    <3>1. i - n \in 1 .. Len(s) - n
      BY <1>0, <2>3
    <3> QED
      BY <1>0, <1>2, <2>1, <2>3, <3>1
  <2>4. i <= n \/ i > n
    BY <1>0
  <2> QED
    BY <2>2, <2>3, <2>4
<1>5. s = a \o b
  <2>1. Len(a \o b) = Len(s)
    BY <1>0, <1>1, <1>2, <1>3
  <2>2. s \in Seq(S) /\ a \o b \in Seq(S)
    BY <1>3
  <2> QED
    BY <1>4, <2>1, <2>2, SeqEqual
<1> QED
  BY <1>1, <1>2, <1>5 DEF a, b

\* What comes before the first null, the null, and what comes behind it.
LEMMA SplitAtNull ==
  ASSUME NEW cs \in Seq(Char)
  PROVE  LET a == SubSeq(cs, 1, Stream!UpToNull(cs)) IN
         /\ a \in Seq(Char) /\ NullFree(a)
         /\ IF Contains(cs, Stream!Null)
            THEN /\ Stream!BehindNull(cs) \in Seq(Char)
                 /\ cs = Append(a, Stream!Null) \o Stream!BehindNull(cs)
            ELSE a = cs
<1> DEFINE k == Stream!UpToNull(cs)
           a == SubSeq(cs, 1, k)
<1>1. k \in 0 .. Len(cs) /\ Len(cs) \in Nat
  BY FirstNull
<1>2. /\ a \in Seq(Char) /\ Len(a) = k /\ \A i \in 1 .. k : a[i] = cs[i]
      /\ cs = a \o SubSeq(cs, k + 1, Len(cs))
  BY <1>1, Divided
<1>3. NullFree(a)
  <2>1. \A i \in 1 .. k : cs[i] # Stream!Null
    BY FirstNull
  <2> HIDE DEF a, k
  <2> QED
    BY <1>2, <2>1 DEF NullFree
<1>4. CASE Contains(cs, Stream!Null)
  <2>1. k + 1 \in 0 .. Len(cs) /\ k + 1 \in 1 .. Len(cs) /\ cs[k + 1] = Stream!Null
    BY <1>1, <1>4, FirstNull
  <2> DEFINE c == SubSeq(cs, 1, k + 1)
             b == SubSeq(cs, k + 2, Len(cs))
  <2>2. /\ c \in Seq(Char) /\ Len(c) = k + 1 /\ \A i \in 1 .. k + 1 : c[i] = cs[i]
        /\ b \in Seq(Char) /\ cs = c \o b
    <3>1. (k + 1) + 1 = k + 2
      BY <1>1
    <3> HIDE DEF k
    <3> QED
      BY <2>1, <3>1, Divided, ZenonT(40)
  <2>3. b = Stream!BehindNull(cs)
    BY DEF Stream!BehindNull
  <2> HIDE DEF a, k, b, c
  <2>4. Append(a, Stream!Null) \in Seq(Char) /\ Len(Append(a, Stream!Null)) = k + 1
        /\ \A i \in 1 .. k + 1 :
             Append(a, Stream!Null)[i] = IF i <= k THEN a[i] ELSE Stream!Null
    BY <1>1, <1>2, NullIsChar, AppendProperties
  <2>5. \A i \in 1 .. k + 1 : c[i] = Append(a, Stream!Null)[i]
    BY <1>1, <1>2, <2>1, <2>2, <2>4
  <2>6. c = Append(a, Stream!Null)
    BY <2>2, <2>4, <2>5, SeqEqual
  <2> QED
    BY <1>2, <1>3, <1>4, <2>2, <2>3, <2>6 DEF a, k
<1>5. CASE ~Contains(cs, Stream!Null)
  <2>1. k = Len(cs)
    BY <1>5, FirstNull
  <2> HIDE DEF k
  <2>2. SubSeq(cs, 1, Len(cs)) = cs
    BY SubSeqFull
  <2>3. a = cs
    BY <2>1, <2>2
  <2> QED
    BY <1>2, <1>3, <1>5, <2>3 DEF k
<1> QED
  BY <1>4, <1>5

\* The characters of a text.
LEMMA TextIs ==
  ASSUME NEW u \in Seq(Char)
  PROVE  /\ Append(u, Stream!Null) \in Seq(Char) /\ Len(Append(u, Stream!Null)) = Len(u) + 1
         /\ \A i \in 1 .. Len(u) + 1 :
              Append(u, Stream!Null)[i] = IF i <= Len(u) THEN u[i] ELSE Stream!Null
<1> DEFINE e == Stream!Null
<1>1. e \in Char
  BY NullIsChar
<1> HIDE DEF e
<1>2. /\ Append(u, e) \in Seq(Char) /\ Len(Append(u, e)) = Len(u) + 1
      /\ \A i \in 1 .. Len(u) : Append(u, e)[i] = u[i]
      /\ Append(u, e)[Len(u) + 1] = e
  BY <1>1, AppendProperties
<1>3. Len(u) \in Nat
  OBVIOUS
<1>4. \A i \in 1 .. Len(u) + 1 : Append(u, e)[i] = IF i <= Len(u) THEN u[i] ELSE e
  BY <1>2, <1>3
<1> QED
  BY <1>2, <1>4 DEF e

\* What the stream holds when the text u is followed by r.
TextThen(u, r) == Append(u, Stream!Null) \o r

\* The first text of a stream is determined.
LEMMA FirstText ==
  ASSUME NEW u \in Seq(Char), NullFree(u), NEW v \in Seq(Char), NullFree(v),
         NEW r \in Seq(Char), NEW q1 \in Seq(Char),
         TextThen(u, r) = TextThen(v, q1)
  PROVE  u = v /\ r = q1
<1> DEFINE x == Append(u, Stream!Null)
           y == Append(v, Stream!Null)
<1>1. /\ x \in Seq(Char) /\ Len(x) = Len(u) + 1
      /\ \A i \in 1 .. Len(u) + 1 : x[i] = IF i <= Len(u) THEN u[i] ELSE Stream!Null
  BY TextIs
<1>2. /\ y \in Seq(Char) /\ Len(y) = Len(v) + 1
      /\ \A i \in 1 .. Len(v) + 1 : y[i] = IF i <= Len(v) THEN v[i] ELSE Stream!Null
  BY TextIs
<1>3. x \o r = y \o q1
  BY DEF TextThen
<1>4. Len(u) \in Nat /\ Len(v) \in Nat /\ Len(r) \in Nat /\ Len(q1) \in Nat
  OBVIOUS
<1> HIDE DEF x, y
<1>5. /\ Len(x \o r) = Len(x) + Len(r)
      /\ \A i \in 1 .. Len(x) + Len(r) : (x \o r)[i] = IF i <= Len(x) THEN x[i] ELSE r[i - Len(x)]
  BY <1>1, ConcatProperties
<1>6. /\ Len(y \o q1) = Len(y) + Len(q1)
      /\ \A i \in 1 .. Len(y) + Len(q1) :
           (y \o q1)[i] = IF i <= Len(y) THEN y[i] ELSE q1[i - Len(y)]
  BY <1>2, ConcatProperties
<1>7. Len(x) + Len(r) = Len(y) + Len(q1)
  BY <1>3, <1>5, <1>6
<1>8. \A i \in 1 .. Len(u) : u[i] # Stream!Null
  BY DEF NullFree
<1>9. \A i \in 1 .. Len(v) : v[i] # Stream!Null
  BY DEF NullFree
<1>10. ~(Len(u) < Len(v))
  <2> SUFFICES ASSUME Len(u) < Len(v) PROVE FALSE
    OBVIOUS
  <2> DEFINE i == Len(u) + 1
  <2>3. i \in 1 .. Len(u) + 1 /\ i \in 1 .. Len(v) /\ i \in 1 .. Len(v) + 1
    BY <1>4
  <2>1. x[i] = Stream!Null /\ y[i] = v[i] /\ v[i] # Stream!Null
    <3>1. x[i] = Stream!Null
      BY <1>1, <1>4, <2>3
    <3>2. y[i] = v[i]
      BY <1>2, <1>4, <2>3
    <3>3. v[i] # Stream!Null
      BY <1>9, <2>3
    <3> QED
      BY <3>1, <3>2, <3>3
  <2>2. (x \o r)[i] = x[i] /\ (y \o q1)[i] = y[i]
    BY <1>1, <1>2, <1>4, <1>5, <1>6
  <2> QED
    BY <1>3, <2>1, <2>2
<1>11. ~(Len(v) < Len(u))
  <2> SUFFICES ASSUME Len(v) < Len(u) PROVE FALSE
    OBVIOUS
  <2> DEFINE i == Len(v) + 1
  <2>3. i \in 1 .. Len(v) + 1 /\ i \in 1 .. Len(u) /\ i \in 1 .. Len(u) + 1
    BY <1>4
  <2>1. y[i] = Stream!Null /\ x[i] = u[i] /\ u[i] # Stream!Null
    <3>1. y[i] = Stream!Null
      BY <1>2, <1>4, <2>3
    <3>2. x[i] = u[i]
      BY <1>1, <1>4, <2>3
    <3>3. u[i] # Stream!Null
      BY <1>8, <2>3
    <3> QED
      BY <3>1, <3>2, <3>3
  <2>2. (x \o r)[i] = x[i] /\ (y \o q1)[i] = y[i]
    BY <1>1, <1>2, <1>4, <1>5, <1>6
  <2> QED
    BY <1>3, <2>1, <2>2
<1>12. Len(u) = Len(v) /\ Len(x) = Len(y) /\ Len(r) = Len(q1)
  BY <1>1, <1>2, <1>4, <1>7, <1>10, <1>11
<1>13. \A i \in 1 .. Len(u) : u[i] = v[i]
  <2> TAKE i \in 1 .. Len(u)
  <2>1. (x \o r)[i] = x[i] /\ (y \o q1)[i] = y[i]
    BY <1>1, <1>2, <1>4, <1>5, <1>6, <1>12
  <2>2. x[i] = u[i] /\ y[i] = v[i]
    BY <1>1, <1>2, <1>4, <1>12
  <2> QED
    BY <1>3, <2>1, <2>2
<1>14. u = v
  BY <1>12, <1>13, SeqEqual
<1>15. x = y
  BY <1>14 DEF x, y
<1>16. r = q1
  <2>1. \A S : \A s, t, w \in Seq(S) : s \o t = s \o w => t = w
    BY ConcatSimplifications
  <2> QED
    BY <1>1, <1>3, <1>15, <2>1
<1> QED
  BY <1>14, <1>16

-----------------------------------------------------------------------------
(***************************************************************************)
(* The texts that were sent and that nobody has had are whole, and so is   *)
(* the order of their characters; the record of a call has no null; and a  *)
(* call that waits in recv has emptied the buffer.                         *)
(***************************************************************************)
Receiving == {"idle", "recv", "TRUE", "FALSE", "cut"}

StreamTypeOK ==
  /\ nRemainSend \in [Sockets -> Seq(Char)] /\ socket \in [Sockets -> Seq(Char)]
  /\ staticBuf \in [Sockets -> Seq(Char)] /\ record \in [Sockets -> Seq(Char)]
  /\ pending \in [Sockets -> Seq(Seq(Char))]
  /\ receiver \in [Sockets -> Receiving] /\ DOMAIN sd = Sockets
  /\ nRemainRecv \in [Sockets -> Int] /\ nSends \in Nat

WholeTexts == \A s \in Sockets : \A i \in 1 .. Len(pending[s]) : Whole(pending[s][i])

\* The thread that uses socket s, in library lib.
ThreadOf(lib, s) == IF lib = "SendReceiveSKST" THEN s ELSE 1

CallsOwn ==
  \A t \in Sockets :
    /\ receiver[t] # "idle" => sd[t] \in Sockets /\ ThreadOf(program, sd[t]) = t
    /\ receiver[t] = "recv" => staticBuf[sd[t]] = <<>>
    /\ NullFree(record[t])

InOrder == \A s \in Sockets : Stream!InTransit(s) = FlattenSeq(pending[s])

StreamInv == StreamTypeOK /\ WholeTexts /\ CallsOwn /\ InOrder

\* Where the characters of a socket are: with the caller, in the buffer, under
\* way, and still to send.
Flow(h, b, c, n) == Cat(Cat(Cat(h, b), c), n)

LEMMA FlowGrows ==
  ASSUME NEW S, NEW h \in Seq(S), NEW b \in Seq(S), NEW c \in Seq(S), NEW n \in Seq(S)
  PROVE  Cat(Flow(h, b, c, <<>>), n) = Flow(h, b, c, n) /\ Flow(h, b, c, n) \in Seq(S)
<1>1. Cat(h, b) \in Seq(S)
  BY CatStays
<1>2. Cat(Cat(h, b), c) \in Seq(S)
  BY <1>1, CatStays
<1>3. Cat(Cat(Cat(h, b), c), <<>>) = Cat(Cat(h, b), c)
  BY <1>2, CatNone
<1> QED
  BY <1>2, <1>3, CatStays DEF Flow

\* send: x goes from the sender to the socket.
LEMMA FlowSends ==
  ASSUME NEW S, NEW h \in Seq(S), NEW b \in Seq(S), NEW c \in Seq(S),
         NEW x \in Seq(S), NEW y \in Seq(S)
  PROVE  Flow(h, b, c, Cat(x, y)) = Flow(h, b, Cat(c, x), y)
<1>1. \A s, t \in Seq(S) : Cat(s, t) \in Seq(S)
  BY CatStays
<1>2. \A s, t, u \in Seq(S) : Cat(Cat(s, t), u) = Cat(s, Cat(t, u))
  BY CatAssoc
<1> QED
  BY <1>1, <1>2 DEF Flow

\* A call begins with x, which it takes from the buffer.
LEMMA FlowTakes ==
  ASSUME NEW S, NEW c, NEW n, NEW x \in Seq(S), NEW y \in Seq(S)
  PROVE  Flow(<<>>, Cat(x, y), c, n) = Flow(x, y, c, n)
BY CatStays, CatNone DEF Flow

\* recv brings x for the call, and y for the buffer.
LEMMA FlowReceives ==
  ASSUME NEW S, NEW h \in Seq(S), NEW c \in Seq(S), NEW n,
         NEW x \in Seq(S), NEW y \in Seq(S)
  PROVE  Flow(h, <<>>, Cat(Cat(x, y), c), n) = Flow(Cat(h, x), y, c, n)
<1>1. \A s, t \in Seq(S) : Cat(s, t) \in Seq(S)
  BY CatStays
<1>2. \A s, t, u \in Seq(S) : Cat(Cat(s, t), u) = Cat(s, Cat(t, u))
  BY CatAssoc
<1>3. Cat(h, <<>>) = h
  BY CatNone
<1> QED
  BY <1>1, <1>2, <1>3 DEF Flow

\* The caller has h.
LEMMA FlowLeaves ==
  ASSUME NEW S, NEW h \in Seq(S), NEW b \in Seq(S), NEW c \in Seq(S), NEW n \in Seq(S)
  PROVE  Flow(h, b, c, n) = Cat(h, Flow(<<>>, b, c, n))
<1>1. \A s, t \in Seq(S) : Cat(s, t) \in Seq(S)
  BY CatStays
<1>2. \A s, t, u \in Seq(S) : Cat(Cat(s, t), u) = Cat(s, Cat(t, u))
  BY CatAssoc
<1>3. Cat(<<>>, b) = b
  BY CatNone
<1> QED
  BY <1>1, <1>2, <1>3 DEF Flow

\* What a socket's characters are, in both libraries.
LEMMA Transit ==
  ASSUME program \in StreamProgram, Stream!StreamAssumption, NEW s \in Sockets
  PROVE  /\ Stream!User(s) \in Sockets
         /\ Stream!InTransit(s) = Flow(Stream!Had(Stream!User(s), s), staticBuf[s], socket[s],
                                       nRemainSend[s])
<1>1. Stream!User(s) \in Sockets
  BY DEF Stream!User, Stream!StreamAssumption
<1>2. Stream!Buffer(Stream!User(s), s) = s
  BY DEF Stream!User, Stream!Buffer
<1> QED
  BY <1>1, <1>2 DEF Stream!InTransit, Flow, Cat

\* The same of the next state.
LEMMA TransitNext ==
  ASSUME program \in StreamProgram, program' = program, Stream!StreamAssumption,
         NEW s \in Sockets, NEW u \in Sockets, u = Stream!User(s)
  PROVE  /\ Stream!User(s)' = u
         /\ Stream!InTransit(s)' = Flow(Stream!Had(u, s)', staticBuf'[s], socket'[s],
                                        nRemainSend'[s])
<1>1. Stream!User(s)' = u
  BY DEF Stream!User
<1>2. Stream!Buffer(u, s)' = s
  BY DEF Stream!User, Stream!Buffer
<1>3. Stream!InTransit(s)' = ((Stream!Had(u, s)' \o staticBuf'[s]) \o socket'[s]) \o nRemainSend'[s]
  BY <1>1, <1>2 DEF Stream!InTransit
<1> QED
  BY <1>1, <1>3 DEF Flow, Cat

\* What a call has are characters.
LEMMA HadChars ==
  ASSUME StreamTypeOK, NEW t \in Sockets, NEW s
  PROVE  Stream!Had(t, s) \in Seq(Char)
<1>1. record[t] \in Seq(Char) /\ Append(record[t], Stream!Null) \in Seq(Char)
  BY TextIs DEF StreamTypeOK
<1>2. \/ Stream!Had(t, s) = <<>> \/ Stream!Had(t, s) = record[t]
      \/ Stream!Had(t, s) = Append(record[t], Stream!Null)
  BY DEF Stream!Had
<1>3. <<>> \in Seq(Char)
  OBVIOUS
<1> QED
  BY <1>1, <1>2, <1>3

LEMMA StreamBegins ==
  ASSUME program \in StreamProgram, Stream!StreamAssumption, Stream!StreamInit
  PROVE  StreamInv
<1> USE DEF Stream!StreamInit
<1>1. StreamTypeOK
  <2>1. <<>> \in Seq(Char) /\ <<>> \in Seq(Seq(Char))
    OBVIOUS
  <2> QED
    BY <2>1 DEF StreamTypeOK, Receiving
<1>2. WholeTexts
  BY DEF WholeTexts
<1>3. CallsOwn
  BY DEF CallsOwn, NullFree
<1>4. InOrder
  <2> SUFFICES ASSUME NEW s \in Sockets PROVE Stream!InTransit(s) = FlattenSeq(pending[s])
    BY DEF InOrder
  <2>1. Stream!User(s) \in Sockets
    BY Transit
  <2>2. Stream!Had(Stream!User(s), s) = <<>>
    BY <2>1 DEF Stream!Had
  <2>3. Flow(<<>>, <<>>, <<>>, <<>>) = <<>>
    <3>1. <<>> \in Seq(Char)
      OBVIOUS
    <3>2. Cat(<<>>, <<>>) = <<>>
      BY <3>1, CatNone
    <3> QED
      BY <3>2 DEF Flow
  <2>4. Stream!InTransit(s) = <<>>
    BY <2>2, <2>3, Transit
  <2>5. <<>> \in Seq(Seq(Char)) /\ pending[s] = <<>>
    OBVIOUS
  <2> QED
    BY <2>4, <2>5, FlattenIsSeq
<1> QED
  BY <1>1, <1>2, <1>3, <1>4 DEF StreamInv


-----------------------------------------------------------------------------
\* Only the call of thread t changes, which is about one socket.
OnlyCall(t) ==
  /\ receiver[t] = "idle" \/ sd'[t] = sd[t]
  /\ \A v \in Sockets \ {t} : sd'[v] = sd[v] /\ receiver'[v] = receiver[v] /\ record'[v] = record[v]

\* To the other sockets nothing happens.
LEMMA Elsewhere ==
  ASSUME program \in StreamProgram, program' = program, Stream!StreamAssumption, InOrder,
         NEW t \in Sockets, OnlyCall(t), NEW s \in Sockets, s # sd'[t],
         staticBuf'[s] = staticBuf[s], socket'[s] = socket[s],
         nRemainSend'[s] = nRemainSend[s], pending'[s] = pending[s]
  PROVE  Stream!InTransit(s)' = FlattenSeq(pending'[s])
<1> DEFINE u == Stream!User(s)
<1>1. u \in Sockets /\ Stream!InTransit(s) = Flow(Stream!Had(u, s), staticBuf[s], socket[s],
                                                   nRemainSend[s])
  BY Transit
<1>2. PICK w \in Sockets : w = u
  BY <1>1
<1>3. Stream!InTransit(s)' = Flow(Stream!Had(w, s)', staticBuf'[s], socket'[s], nRemainSend'[s])
  BY <1>2, TransitNext
<1>4. Stream!Had(w, s)' = Stream!Had(w, s)
  <2>1. CASE w = t
    <3>1. Stream!Had(w, s)' = <<>>
      BY <2>1 DEF Stream!Had
    <3>2. Stream!Had(w, s) = <<>>
      BY <2>1 DEF Stream!Had, OnlyCall
    <3> QED
      BY <3>1, <3>2
  <2>2. CASE w # t
    BY <2>2 DEF Stream!Had, OnlyCall
  <2> QED
    BY <2>1, <2>2
<1> QED
  BY <1>1, <1>2, <1>3, <1>4 DEF InOrder

\* A text fits into a record, so that it is sent to the end.
LEMMA TextIsWhole ==
  ASSUME Stream!StreamAssumption, NEW s \in Sockets, NEW k \in Nat, NEW n \in Lengths
  PROVE  LET text == Stream!Text(s, k + 1, n) IN
         /\ text \in Seq(Char) /\ Whole(text)
         /\ SubSeq(text, 1, Stream!Smaller(Len(text), MAX_MESSAGE_LEN)) = text
<1> DEFINE w == [j \in 1 .. n |-> <<s, k + 1>>]
           text == Append(w, Stream!Null)
<1>1. n \in Nat /\ n + 1 <= MAX_MESSAGE_LEN /\ MAX_MESSAGE_LEN \in Nat /\ s \in Nat /\ s # 0
  BY DEF Stream!StreamAssumption
<1>2. <<s, k + 1>> \in Char /\ <<s, k + 1>> # Stream!Null
  BY <1>1 DEF Char, Stream!Null
<1>3. w \in Seq(Char) /\ Len(w) = n /\ NullFree(w)
  BY <1>1, <1>2 DEF NullFree
<1> HIDE DEF w
<1>4. text \in Seq(Char) /\ Len(text) = n + 1
  BY <1>3, TextIs
<1>5. Whole(text)
  BY <1>3 DEF Whole
<1> HIDE DEF text
<1>6. Stream!Smaller(Len(text), MAX_MESSAGE_LEN) = Len(text)
  BY <1>1, <1>4 DEF Stream!Smaller
<1>7. SubSeq(text, 1, Len(text)) = text
  BY <1>4, SubSeqFull
<1>8. text = Stream!Text(s, k + 1, n)
  BY DEF text, w, Stream!Text
<1> QED
  BY <1>4, <1>5, <1>6, <1>7, <1>8

\* What senders do: a new text, characters on their way, and the end.
LEMMA SenderStep ==
  ASSUME program \in StreamProgram, program' = program, Stream!StreamAssumption, StreamInv,
         NEW s0 \in Sockets, Stream!Sender(s0)
  PROVE  StreamInv'
<1>1. UNCHANGED <<staticBuf, sd, receiver, record, nRemainRecv>>
  BY DEF Stream!Sender, Stream!SendCSMessage, Stream!Send, Stream!Disconnect, Stream!receiveVars
<1>2. CallsOwn'
  BY <1>1 DEF StreamInv, CallsOwn
<1>3. ASSUME NEW u \in Sockets, NEW s \in Sockets
      PROVE  Stream!Had(u, s)' = Stream!Had(u, s)
  BY <1>1 DEF Stream!Had
<1>4. CASE Stream!SendCSMessage(s0)
  <2>1. nSends \in Nat /\ nRemainSend[s0] = <<>> /\ nSends' = nSends + 1 /\ socket' = socket
    BY <1>4 DEF Stream!SendCSMessage, StreamInv, StreamTypeOK
  <2>2. PICK n \in Lengths :
          LET text == Stream!Text(s0, nSends + 1, n) IN
          /\ nRemainSend' = [nRemainSend EXCEPT ![s0] =
                               SubSeq(text, 1, Stream!Smaller(Len(text), MAX_MESSAGE_LEN))]
          /\ pending' = [pending EXCEPT ![s0] = Append(@, text)]
    BY <1>4 DEF Stream!SendCSMessage
  <2> DEFINE text == Stream!Text(s0, nSends + 1, n)
  <2>3. /\ text \in Seq(Char) /\ Whole(text)
        /\ SubSeq(text, 1, Stream!Smaller(Len(text), MAX_MESSAGE_LEN)) = text
    BY <2>1, TextIsWhole
  <2>4. nRemainSend' = [nRemainSend EXCEPT ![s0] = text]
    BY <2>2, <2>3
  <2>5. pending' = [pending EXCEPT ![s0] = Append(pending[s0], text)]
    BY <2>2
  <2> HIDE DEF text
  <2>6. /\ Append(pending[s0], text) \in Seq(Seq(Char)) /\ pending[s0] \in Seq(Seq(Char))
        /\ Len(Append(pending[s0], text)) = Len(pending[s0]) + 1
        /\ \A i \in 1 .. Len(pending[s0]) : Append(pending[s0], text)[i] = pending[s0][i]
        /\ Append(pending[s0], text)[Len(pending[s0]) + 1] = text
        /\ Len(pending[s0]) \in Nat
    BY <2>3, AppendProperties, LenProperties DEF StreamInv, StreamTypeOK
  <2>7. StreamTypeOK'
    BY <1>1, <2>1, <2>3, <2>4, <2>5, <2>6 DEF StreamInv, StreamTypeOK
  <2>8. WholeTexts'
    <3> SUFFICES ASSUME NEW s \in Sockets, NEW i \in 1 .. Len(pending'[s])
                 PROVE  Whole(pending'[s][i])
      BY DEF WholeTexts
    <3>1. CASE s = s0
      <4>1. pending'[s] = Append(pending[s0], text)
        BY <2>5, <3>1 DEF StreamInv, StreamTypeOK
      <4>2. i \in 1 .. Len(pending[s0]) \/ i = Len(pending[s0]) + 1
        BY <2>6, <4>1
      <4> QED
        BY <2>3, <2>6, <3>1, <4>1, <4>2 DEF StreamInv, WholeTexts
    <3>2. CASE s # s0
      <4>1. pending'[s] = pending[s]
        BY <2>5, <3>2 DEF StreamInv, StreamTypeOK
      <4> QED
        BY <4>1 DEF StreamInv, WholeTexts
    <3> QED
      BY <3>1, <3>2
  <2>9. InOrder'
    <3>0. SUFFICES ASSUME NEW s \in Sockets
                   PROVE  Stream!InTransit(s)' = FlattenSeq(pending'[s])
      BY DEF InOrder
    <3>1. PICK u \in Sockets : u = Stream!User(s)
      BY Transit
    <3>2. Stream!InTransit(s) = Flow(Stream!Had(u, s), staticBuf[s], socket[s], nRemainSend[s])
      BY <3>1, Transit
    <3>3. Stream!InTransit(s)' = Flow(Stream!Had(u, s), staticBuf[s], socket[s], nRemainSend'[s])
      BY <1>1, <1>3, <2>1, <3>1, TransitNext
    <3>4. /\ Stream!Had(u, s) \in Seq(Char) /\ staticBuf[s] \in Seq(Char)
          /\ socket[s] \in Seq(Char) /\ <<>> \in Seq(Char)
      BY HadChars, SMTT(30) DEF StreamInv, StreamTypeOK
    <3>5. CASE s = s0
      <4>1. pending'[s] = Append(pending[s], text) /\ nRemainSend'[s] = text
        BY <2>4, <2>5, <3>5 DEF StreamInv, StreamTypeOK
      <4>2. FlattenSeq(pending'[s]) = Cat(FlattenSeq(pending[s]), text)
        <5> DEFINE ss == pending[s]
        <5>1. ss \in Seq(Seq(Char)) /\ text \in Seq(Char)
          BY <2>3, <2>6, <3>5
        <5> HIDE DEF ss
        <5>2. FlattenSeq(Append(ss, text)) = FlattenSeq(ss) \o text
          BY <5>1, FlattenAppend
        <5> QED
          BY <4>1, <5>2 DEF Cat, ss
      <4>3. Cat(Flow(Stream!Had(u, s), staticBuf[s], socket[s], <<>>), text)
              = Flow(Stream!Had(u, s), staticBuf[s], socket[s], text)
        BY <2>3, <3>4, FlowGrows
      <4>4. FlattenSeq(pending[s]) = Flow(Stream!Had(u, s), staticBuf[s], socket[s], <<>>)
        BY <2>1, <3>2, <3>5 DEF StreamInv, InOrder
      <4> QED
        BY <3>3, <4>1, <4>2, <4>3, <4>4
    <3>6. CASE s # s0
      <4>1. pending'[s] = pending[s] /\ nRemainSend'[s] = nRemainSend[s]
        BY <2>4, <2>5, <3>6 DEF StreamInv, StreamTypeOK
      <4> QED
        BY <3>2, <3>3, <4>1 DEF StreamInv, InOrder
    <3> QED
      BY <3>5, <3>6
  <2> QED
    BY <1>2, <2>7, <2>8, <2>9 DEF StreamInv
<1>5. CASE Stream!Send(s0)
  <2> DEFINE x == nRemainSend[s0]
  <2>1. x \in Seq(Char) /\ socket[s0] \in Seq(Char)
    BY DEF StreamInv, StreamTypeOK
  <2>2. PICK n \in 1 .. Len(x) :
          /\ socket' = [socket EXCEPT ![s0] = Cat(@, SubSeq(x, 1, n))]
          /\ nRemainSend' = [nRemainSend EXCEPT ![s0] = SubSeq(x, n + 1, Len(x))]
    BY <1>5 DEF Stream!Send, Cat
  <2>3. UNCHANGED <<nSends, pending>>
    BY <1>5 DEF Stream!Send
  <2> HIDE DEF x
  <2>4. n \in 0 .. Len(x)
    BY <2>1
  <2>5. PICK y, z \in Seq(Char) : y = SubSeq(x, 1, n) /\ z = SubSeq(x, n + 1, Len(x)) /\ x = Cat(y, z)
    <3>1. /\ SubSeq(x, 1, n) \in Seq(Char) /\ SubSeq(x, n + 1, Len(x)) \in Seq(Char)
          /\ x = SubSeq(x, 1, n) \o SubSeq(x, n + 1, Len(x))
      BY <2>1, <2>4, Divided
    <3> QED
      BY <3>1 DEF Cat
  <2>6. /\ socket' = [socket EXCEPT ![s0] = Cat(socket[s0], y)]
        /\ nRemainSend' = [nRemainSend EXCEPT ![s0] = z]
    BY <2>2, <2>5
  <2>7. StreamTypeOK'
    <3>1. Cat(socket[s0], y) \in Seq(Char)
      BY <2>1, CatStays
    <3> QED
      BY <1>1, <2>3, <2>6, <3>1 DEF StreamInv, StreamTypeOK
  <2>8. WholeTexts'
    BY <2>3 DEF StreamInv, WholeTexts
  <2>9. InOrder'
    <3>0. SUFFICES ASSUME NEW s \in Sockets
                   PROVE  Stream!InTransit(s)' = FlattenSeq(pending'[s])
      BY DEF InOrder
    <3>1. PICK u \in Sockets : u = Stream!User(s)
      BY Transit
    <3>2. Stream!InTransit(s) = Flow(Stream!Had(u, s), staticBuf[s], socket[s], nRemainSend[s])
      BY <3>1, Transit
    <3>3. Stream!InTransit(s)' = Flow(Stream!Had(u, s), staticBuf[s], socket'[s], nRemainSend'[s])
      BY <1>1, <1>3, <3>1, TransitNext
    <3>4. /\ Stream!Had(u, s) \in Seq(Char) /\ staticBuf[s] \in Seq(Char)
          /\ socket[s] \in Seq(Char)
      BY HadChars DEF StreamInv, StreamTypeOK
    <3>5. CASE s = s0
      <4>1. socket'[s] = Cat(socket[s], y) /\ nRemainSend'[s] = z /\ nRemainSend[s] = Cat(y, z)
        BY <2>5, <2>6, <3>5 DEF StreamInv, StreamTypeOK, x
      <4>2. Flow(Stream!Had(u, s), staticBuf[s], socket[s], Cat(y, z))
              = Flow(Stream!Had(u, s), staticBuf[s], Cat(socket[s], y), z)
        BY <3>4, FlowSends
      <4> QED
        BY <2>3, <3>2, <3>3, <4>1, <4>2 DEF StreamInv, InOrder
    <3>6. CASE s # s0
      <4>1. socket'[s] = socket[s] /\ nRemainSend'[s] = nRemainSend[s]
        BY <2>6, <3>6 DEF StreamInv, StreamTypeOK
      <4> QED
        BY <2>3, <3>2, <3>3, <4>1 DEF StreamInv, InOrder
    <3> QED
      BY <3>5, <3>6
  <2> QED
    BY <1>2, <2>7, <2>8, <2>9 DEF StreamInv
<1>6. CASE Stream!Disconnect(s0)
  <2>1. UNCHANGED <<nRemainSend, nSends, socket, pending>>
    BY <1>6 DEF Stream!Disconnect
  <2>2. StreamTypeOK' /\ WholeTexts'
    BY <1>1, <2>1 DEF StreamInv, StreamTypeOK, WholeTexts
  <2>3. InOrder'
    <3>0. SUFFICES ASSUME NEW s \in Sockets
                   PROVE  Stream!InTransit(s)' = FlattenSeq(pending'[s])
      BY DEF InOrder
    <3>1. PICK u \in Sockets : u = Stream!User(s)
      BY Transit
    <3>2. Stream!InTransit(s)' = Stream!InTransit(s)
      BY <1>1, <1>3, <2>1, <3>1, Transit, TransitNext
    <3> QED
      BY <2>1, <3>2 DEF StreamInv, InOrder
  <2> QED
    BY <1>2, <2>2, <2>3 DEF StreamInv
<1> QED
  BY <1>4, <1>5, <1>6 DEF Stream!Sender

\* A call takes a message out of the buffer, or what there is of one.
LEMMA ReceiveStep ==
  ASSUME program \in StreamProgram, program' = program, Stream!StreamAssumption, StreamInv,
         NEW t \in Sockets, NEW s0 \in Sockets, Stream!ReceiveCSMessage(t, s0)
  PROVE  StreamInv'
<1> DEFINE cs == staticBuf[s0]
           a == SubSeq(cs, 1, Stream!UpToNull(cs))
           rest == IF Contains(cs, Stream!Null) THEN Stream!BehindNull(cs) ELSE <<>>
           comes == IF Contains(cs, Stream!Null) THEN "TRUE" ELSE "recv"
           had == IF Contains(cs, Stream!Null) THEN Append(a, Stream!Null) ELSE a
<1>1. /\ Stream!User(s0) = t /\ receiver[t] = "idle" /\ Stream!Buffer(t, s0) = s0
      /\ UNCHANGED <<nRemainSend, nSends, disconnected, socket, pending>>
  BY DEF Stream!ReceiveCSMessage, Stream!sendVars, Stream!User, Stream!Buffer
<1>2. /\ sd' = [sd EXCEPT ![t] = s0] /\ record' = [record EXCEPT ![t] = a]
      /\ receiver' = [receiver EXCEPT ![t] = comes]
      /\ staticBuf' = [staticBuf EXCEPT ![s0] = rest]
  <2>1. CASE Contains(cs, Stream!Null)
    BY <1>1, <2>1, SameOperators DEF Stream!ReceiveCSMessage, Stream!Keep, Stream!Goes
  <2>2. CASE ~Contains(cs, Stream!Null)
    BY <1>1, <2>2, SameOperators DEF Stream!ReceiveCSMessage, Stream!Keep, Stream!Goes
  <2> QED
    BY <2>1, <2>2
<1>3. nRemainRecv' \in [Sockets -> Int]
  <2>1. \/ nRemainRecv' = nRemainRecv
        \/ nRemainRecv' = [nRemainRecv EXCEPT ![t] = MAX_MESSAGE_LEN - Len(cs)]
    BY <1>1 DEF Stream!ReceiveCSMessage
  <2>2. Len(cs) \in Nat /\ MAX_MESSAGE_LEN \in Nat
    BY LenProperties DEF StreamInv, StreamTypeOK, Stream!StreamAssumption
  <2> QED
    BY <2>1, <2>2, SMTT(30) DEF StreamInv, StreamTypeOK
<1>4. cs \in Seq(Char)
  BY DEF StreamInv, StreamTypeOK
<1> HIDE DEF cs
<1>5. a \in Seq(Char) /\ NullFree(a) /\ had \in Seq(Char) /\ rest \in Seq(Char) /\ cs = Cat(had, rest)
  <2>1. a \in Seq(Char) /\ NullFree(a)
    BY <1>4, SplitAtNull
  <2>2. Append(a, Stream!Null) \in Seq(Char)
    BY <2>1, TextIs
  <2>3. CASE Contains(cs, Stream!Null)
    <3>1. /\ Stream!BehindNull(cs) \in Seq(Char)
          /\ cs = Append(a, Stream!Null) \o Stream!BehindNull(cs)
      BY <1>4, <2>3, SplitAtNull
    <3> QED
      BY <2>1, <2>2, <2>3, <3>1 DEF Cat
  <2>4. CASE ~Contains(cs, Stream!Null)
    <3>1. a = cs
      BY <1>4, <2>4, SplitAtNull
    <3>2. Cat(cs, <<>>) = cs /\ <<>> \in Seq(Char)
      BY <1>4, CatNone
    <3> QED
      BY <1>4, <2>1, <2>4, <3>1, <3>2
  <2> QED
    BY <2>3, <2>4
<1>6. comes \in {"TRUE", "recv"} /\ (comes = "recv" => rest = <<>>)
  OBVIOUS
<1>7. \/ comes = "TRUE" /\ had = Append(a, Stream!Null)
      \/ comes = "recv" /\ had = a
  OBVIOUS
<1> HIDE DEF a, rest, comes, had
<1>8. StreamTypeOK'
  BY <1>1, <1>2, <1>3, <1>5, <1>6 DEF StreamInv, StreamTypeOK, Receiving
<1>9. WholeTexts'
  BY <1>1 DEF StreamInv, WholeTexts
<1>10. CallsOwn'
  <2>0. SUFFICES ASSUME NEW v \in Sockets
                 PROVE  /\ receiver'[v] # "idle" => sd'[v] \in Sockets /\ ThreadOf(program, sd'[v]) = v
                        /\ receiver'[v] = "recv" => staticBuf'[sd'[v]] = <<>>
                        /\ NullFree(record'[v])
    BY DEF CallsOwn
  <2>1. ThreadOf(program, s0) = t
    BY <1>1 DEF Stream!User, ThreadOf
  <2>2. CASE v = t
    <3>1. /\ sd'[v] = s0 /\ record'[v] = a /\ receiver'[v] = comes /\ staticBuf'[s0] = rest
      BY <1>2, <2>2 DEF StreamInv, StreamTypeOK
    <3> QED
      BY <1>5, <1>6, <2>1, <2>2, <3>1
  <2>3. CASE v # t
    <3>1. /\ sd'[v] = sd[v] /\ record'[v] = record[v] /\ receiver'[v] = receiver[v]
      BY <1>2, <2>3 DEF StreamInv, StreamTypeOK
    <3>2. NullFree(record'[v])
      BY <3>1 DEF StreamInv, CallsOwn
    <3>3. CASE receiver[v] # "idle"
      <4>1. sd[v] \in Sockets /\ ThreadOf(program, sd[v]) = v
        BY <3>3 DEF StreamInv, CallsOwn
      <4>3. sd[v] # s0
        BY <2>1, <2>3, <4>1
      <4>4. staticBuf'[sd[v]] = staticBuf[sd[v]]
        BY <1>2, <4>1, <4>3 DEF StreamInv, StreamTypeOK
      <4> QED
        BY <3>1, <3>2, <4>1, <4>4 DEF StreamInv, CallsOwn
    <3> QED
      BY <3>1, <3>2, <3>3
  <2> QED
    BY <2>2, <2>3
<1>11. InOrder'
  <2>0. SUFFICES ASSUME NEW s \in Sockets
                 PROVE  Stream!InTransit(s)' = FlattenSeq(pending'[s])
    BY DEF InOrder
  <2>1. CASE s = s0
    <3>1. Stream!InTransit(s0) = Flow(Stream!Had(t, s0), staticBuf[s0], socket[s0], nRemainSend[s0])
      BY <1>1, Transit
    <3>2. Stream!InTransit(s0)' = Flow(Stream!Had(t, s0)', staticBuf'[s0], socket'[s0], nRemainSend'[s0])
      BY <1>1, TransitNext
    <3>3. Stream!Had(t, s0) = <<>>
      BY <1>1 DEF Stream!Had
    <3>4. Stream!Had(t, s0)' = had /\ staticBuf'[s0] = rest
      <4>1. /\ sd'[t] = s0 /\ record'[t] = a /\ receiver'[t] = comes /\ staticBuf'[s0] = rest
        BY <1>2 DEF StreamInv, StreamTypeOK
      <4> QED
        BY <1>7, <4>1 DEF Stream!Had
    <3>5. staticBuf[s0] = Cat(had, rest)
      BY <1>5 DEF cs
    <3>6. Flow(<<>>, Cat(had, rest), socket[s0], nRemainSend[s0])
            = Flow(had, rest, socket[s0], nRemainSend[s0])
      BY <1>5, FlowTakes
    <3> QED
      BY <1>1, <2>1, <3>1, <3>2, <3>3, <3>4, <3>5, <3>6 DEF StreamInv, InOrder
  <2>2. CASE s # s0
    <3>1. OnlyCall(t) /\ sd'[t] = s0 /\ staticBuf'[s] = staticBuf[s]
      BY <1>1, <1>2, <2>2 DEF StreamInv, StreamTypeOK, OnlyCall
    <3> QED
      BY <1>1, <2>2, <3>1, Elsewhere DEF StreamInv
  <2> QED
    BY <2>1, <2>2
<1> QED
  BY <1>8, <1>9, <1>10, <1>11 DEF StreamInv

\* recv brings characters of the socket, up to a null, or without one.
LEMMA RecvStep ==
  ASSUME program \in StreamProgram, program' = program, Stream!StreamAssumption, StreamInv,
         NEW t \in Sockets, Stream!Recv(t)
  PROVE  StreamInv'
<1>1. /\ receiver[t] = "recv" /\ sd[t] \in Sockets /\ ThreadOf(program, sd[t]) = t
      /\ staticBuf[sd[t]] = <<>> /\ NullFree(record[t]) /\ record[t] \in Seq(Char)
      /\ nRemainRecv[t] \in Int
      /\ UNCHANGED <<nRemainSend, nSends, disconnected, sd, pending>>
  BY DEF Stream!Recv, Stream!sendVars, StreamInv, CallsOwn, StreamTypeOK
<1>2. PICK s0 \in Sockets : s0 = sd[t]
  BY <1>1
<1>3. Stream!User(s0) = t /\ Stream!Buffer(t, s0) = s0
  BY <1>1, <1>2 DEF Stream!User, Stream!Buffer, ThreadOf
<1>4. socket[s0] \in Seq(Char) /\ Len(socket[s0]) \in Nat
  BY DEF StreamInv, StreamTypeOK
<1> DEFINE Step(n, tempBuff, left) ==
             /\ socket' = [socket EXCEPT ![s0] = SubSeq(@, n + 1, Len(@))]
             /\ record' = [record EXCEPT ![t] = @ \o SubSeq(tempBuff, 1, Stream!UpToNull(tempBuff))]
             /\ nRemainRecv' = [nRemainRecv EXCEPT ![t] = left]
             /\ IF Contains(tempBuff, Stream!Null)
                THEN /\ staticBuf' = [staticBuf EXCEPT ![s0] = Stream!BehindNull(tempBuff)]
                     /\ receiver' = [receiver EXCEPT ![t] = "TRUE"]
                ELSE /\ staticBuf' = staticBuf
                     /\ receiver' = receiver \/ receiver' = [receiver EXCEPT ![t] = "cut"]
<1>5. PICK n \in 0 .. Len(socket[s0]), left \in Int : Step(n, SubSeq(socket[s0], 1, n), left)
  <2>1. PICK n \in 1 .. Stream!Smaller(nRemainRecv[t], Len(socket[s0])) :
          LET tempBuff == SubSeq(socket[s0], 1, n)
              left == IF Contains(tempBuff, Stream!Null) THEN 0
                      ELSE Stream!LeftAfter(nRemainRecv[t], n)
          IN Step(n, tempBuff, left)
    BY <1>2, <1>3, SameOperators DEF Stream!Recv, Stream!Keep, Stream!Goes
  <2>2. n \in 0 .. Len(socket[s0]) /\ n \in Int
    BY <1>1, <1>4, <2>1 DEF Stream!Smaller
  <2>3. Stream!LeftAfter(nRemainRecv[t], n) \in Int
    BY <1>1, <2>2 DEF Stream!LeftAfter
  <2> HIDE DEF Step
  <2> QED
    BY <2>1, <2>2, <2>3
<1> DEFINE cs == SubSeq(socket[s0], 1, n)
           more == SubSeq(socket[s0], n + 1, Len(socket[s0]))
           a == SubSeq(cs, 1, Stream!UpToNull(cs))
           rest == IF Contains(cs, Stream!Null) THEN Stream!BehindNull(cs) ELSE <<>>
           x == IF Contains(cs, Stream!Null) THEN Append(a, Stream!Null) ELSE a
           r == record[t] \o a
<1>6. cs \in Seq(Char) /\ more \in Seq(Char) /\ socket[s0] = Cat(cs, more)
  BY <1>4, <1>5, Divided DEF Cat
<1>7. /\ socket' = [socket EXCEPT ![s0] = more] /\ record' = [record EXCEPT ![t] = r]
      /\ nRemainRecv' = [nRemainRecv EXCEPT ![t] = left]
      /\ IF Contains(cs, Stream!Null)
         THEN /\ staticBuf' = [staticBuf EXCEPT ![s0] = Stream!BehindNull(cs)]
              /\ receiver' = [receiver EXCEPT ![t] = "TRUE"]
         ELSE /\ staticBuf' = staticBuf
              /\ receiver' = receiver \/ receiver' = [receiver EXCEPT ![t] = "cut"]
  BY <1>4, <1>5
<1> HIDE DEF Step, cs, more
<1>8. a \in Seq(Char) /\ NullFree(a)
  BY <1>6, SplitAtNull
<1>9. x \in Seq(Char) /\ rest \in Seq(Char) /\ cs = Cat(x, rest)
  <2>2. Append(a, Stream!Null) \in Seq(Char)
    BY <1>8, TextIs
  <2>3. CASE Contains(cs, Stream!Null)
    <3>1. /\ Stream!BehindNull(cs) \in Seq(Char)
          /\ cs = Append(a, Stream!Null) \o Stream!BehindNull(cs)
      BY <1>6, <2>3, SplitAtNull
    <3> QED
      BY <2>2, <2>3, <3>1 DEF Cat
  <2>4. CASE ~Contains(cs, Stream!Null)
    <3>1. a = cs
      BY <1>6, <2>4, SplitAtNull
    <3>2. Cat(cs, <<>>) = cs /\ <<>> \in Seq(Char)
      BY <1>6, CatNone
    <3> QED
      BY <1>6, <2>4, <3>1, <3>2
  <2> QED
    BY <2>3, <2>4
<1>10. PICK comes \in {"TRUE", "recv", "cut"} :
         /\ receiver' = [receiver EXCEPT ![t] = comes]
         /\ staticBuf' = [staticBuf EXCEPT ![s0] = rest]
         /\ comes = "recv" => rest = <<>>
         /\ \/ comes = "TRUE" /\ x = Append(a, Stream!Null)
            \/ comes # "TRUE" /\ x = a
  <2>1. CASE Contains(cs, Stream!Null)
    BY <1>7, <2>1
  <2>2. CASE ~Contains(cs, Stream!Null)
    <3>1. rest = <<>> /\ x = a
      BY <2>2
    <3>2. staticBuf' = [staticBuf EXCEPT ![s0] = rest]
      BY <1>1, <1>2, <1>7, <2>2, <3>1 DEF StreamInv, StreamTypeOK
    <3>3. \/ receiver' = [receiver EXCEPT ![t] = "recv"]
          \/ receiver' = [receiver EXCEPT ![t] = "cut"]
      BY <1>1, <1>7, <2>2 DEF StreamInv, StreamTypeOK
    <3> HIDE DEF rest, x, a, r
    <3> QED
      BY <3>1, <3>2, <3>3
  <2> QED
    BY <2>1, <2>2
<1>11. /\ r \in Seq(Char) /\ NullFree(r)
       /\ Append(r, Stream!Null) = Cat(record[t], Append(a, Stream!Null)) /\ r = Cat(record[t], a)
  <2> DEFINE h == record[t]
  <2>1. h \in Seq(Char) /\ NullFree(h) /\ Len(h) \in Nat /\ Len(a) \in Nat
    BY <1>1, <1>8, LenProperties
  <2> HIDE DEF h, a
  <2>2. /\ h \o a \in Seq(Char) /\ Len(h \o a) = Len(h) + Len(a)
        /\ \A i \in 1 .. Len(h) + Len(a) : (h \o a)[i] = IF i <= Len(h) THEN h[i] ELSE a[i - Len(h)]
    BY <1>8, <2>1, ConcatProperties
  <2>3. NullFree(h \o a)
    <3> SUFFICES ASSUME NEW i \in 1 .. Len(h) + Len(a)
                 PROVE  (h \o a)[i] # Stream!Null
      BY <2>2 DEF NullFree
    <3>1. CASE i <= Len(h)
      <4>1. i \in 1 .. Len(h)
        BY <2>1, <3>1
      <4>2. h[i] # Stream!Null
        BY <2>1, <4>1 DEF NullFree
      <4> QED
        BY <2>2, <3>1, <4>2
    <3>2. CASE ~(i <= Len(h))
      <4>1. i - Len(h) \in 1 .. Len(a)
        BY <2>1, <3>2
      <4>2. a[i - Len(h)] # Stream!Null
        BY <1>8, <4>1 DEF NullFree
      <4> QED
        BY <2>2, <3>2, <4>2
    <3> QED
      BY <3>1, <3>2
  <2>4. Append(h \o a, Stream!Null) = h \o Append(a, Stream!Null)
    <3> DEFINE e == Stream!Null
    <3>1. e \in Char
      BY NullIsChar
    <3> HIDE DEF e
    <3>2. h \o Append(a, e) = Append(h \o a, e)
      BY <1>8, <2>1, <3>1, ConcatAppend
    <3> QED
      BY <3>2 DEF e
  <2> QED
    BY <2>2, <2>3, <2>4 DEF h, Cat
<1> HIDE DEF a, rest, x, r
<1>12. StreamTypeOK'
  <2>1. comes \in Receiving
    BY DEF Receiving
  <2> QED
    BY <1>1, <1>6, <1>7, <1>9, <1>10, <1>11, <2>1 DEF StreamInv, StreamTypeOK
<1>13. WholeTexts'
  BY <1>1 DEF StreamInv, WholeTexts
<1>14. CallsOwn'
  <2>0. SUFFICES ASSUME NEW v \in Sockets
                 PROVE  /\ receiver'[v] # "idle" => sd'[v] \in Sockets /\ ThreadOf(program, sd'[v]) = v
                        /\ receiver'[v] = "recv" => staticBuf'[sd'[v]] = <<>>
                        /\ NullFree(record'[v])
    BY DEF CallsOwn
  <2>1. ThreadOf(program, s0) = t
    BY <1>1, <1>2
  <2>2. CASE v = t
    <3>1. /\ sd'[v] = s0 /\ record'[v] = r /\ receiver'[v] = comes /\ staticBuf'[s0] = rest
      BY <1>1, <1>2, <1>7, <1>10, <2>2 DEF StreamInv, StreamTypeOK
    <3> QED
      BY <1>10, <1>11, <2>1, <2>2, <3>1
  <2>3. CASE v # t
    <3>1. /\ sd'[v] = sd[v] /\ record'[v] = record[v] /\ receiver'[v] = receiver[v]
      BY <1>1, <1>7, <1>10, <2>3 DEF StreamInv, StreamTypeOK
    <3>2. NullFree(record'[v])
      BY <3>1 DEF StreamInv, CallsOwn
    <3>3. CASE receiver[v] # "idle"
      <4>1. sd[v] \in Sockets /\ ThreadOf(program, sd[v]) = v
        BY <3>3 DEF StreamInv, CallsOwn
      <4>3. sd[v] # s0
        BY <2>1, <2>3, <4>1
      <4>4. staticBuf'[sd[v]] = staticBuf[sd[v]]
        BY <1>10, <4>1, <4>3 DEF StreamInv, StreamTypeOK
      <4> QED
        BY <3>1, <3>2, <4>1, <4>4 DEF StreamInv, CallsOwn
    <3> QED
      BY <3>1, <3>2, <3>3
  <2> QED
    BY <2>2, <2>3
<1>15. InOrder'
  <2>0. SUFFICES ASSUME NEW s \in Sockets
                 PROVE  Stream!InTransit(s)' = FlattenSeq(pending'[s])
    BY DEF InOrder
  <2>1. CASE s = s0
    <3>1. Stream!InTransit(s0) = Flow(Stream!Had(t, s0), staticBuf[s0], socket[s0], nRemainSend[s0])
      BY <1>3, Transit
    <3>2. Stream!InTransit(s0)' = Flow(Stream!Had(t, s0)', staticBuf'[s0], socket'[s0], nRemainSend'[s0])
      BY <1>3, TransitNext
    <3>3. Stream!Had(t, s0) = record[t]
      BY <1>1, <1>2 DEF Stream!Had
    <3>4. Stream!Had(t, s0)' = Cat(record[t], x) /\ staticBuf'[s0] = rest /\ socket'[s0] = more
      <4>1. /\ sd'[t] = s0 /\ record'[t] = r /\ receiver'[t] = comes /\ staticBuf'[s0] = rest
            /\ socket'[s0] = more
        BY <1>1, <1>2, <1>7, <1>10 DEF StreamInv, StreamTypeOK
      <4> QED
        BY <1>10, <1>11, <4>1 DEF Stream!Had
    <3>5. staticBuf[s0] = <<>> /\ socket[s0] = Cat(Cat(x, rest), more)
      BY <1>1, <1>2, <1>6, <1>9
    <3>6. Flow(record[t], <<>>, Cat(Cat(x, rest), more), nRemainSend[s0])
            = Flow(Cat(record[t], x), rest, more, nRemainSend[s0])
      BY <1>1, <1>6, <1>9, FlowReceives
    <3> QED
      BY <1>1, <2>1, <3>1, <3>2, <3>3, <3>4, <3>5, <3>6 DEF StreamInv, InOrder
  <2>2. CASE s # s0
    <3>1. /\ OnlyCall(t) /\ sd'[t] = s0 /\ staticBuf'[s] = staticBuf[s]
          /\ socket'[s] = socket[s]
      BY <1>1, <1>2, <1>7, <1>10, <2>2 DEF StreamInv, StreamTypeOK, OnlyCall
    <3> QED
      BY <1>1, <2>2, <3>1, Elsewhere DEF StreamInv
  <2> QED
    BY <2>1, <2>2
<1> QED
  BY <1>12, <1>13, <1>14, <1>15 DEF StreamInv

\* The peer has left.
LEMMA NothingStep ==
  ASSUME program \in StreamProgram, program' = program, Stream!StreamAssumption, StreamInv,
         NEW t \in Sockets, Stream!RecvNothing(t)
  PROVE  StreamInv'
<1>1. /\ receiver[t] = "recv" /\ receiver' = [receiver EXCEPT ![t] = "FALSE"]
      /\ UNCHANGED <<nRemainSend, nSends, socket, staticBuf, sd, record, nRemainRecv, pending>>
  BY DEF Stream!RecvNothing, Stream!Goes, Stream!sendVars
<1>2. StreamTypeOK' /\ WholeTexts'
  BY <1>1 DEF StreamInv, StreamTypeOK, WholeTexts, Receiving
<1>3. CallsOwn'
  <2> SUFFICES ASSUME NEW v \in Sockets
               PROVE  /\ receiver'[v] # "idle" => sd'[v] \in Sockets /\ ThreadOf(program, sd'[v]) = v
                      /\ receiver'[v] = "recv" => staticBuf'[sd'[v]] = <<>>
                      /\ NullFree(record'[v])
    BY DEF CallsOwn
  <2>1. receiver'[v] = receiver[v] \/ (receiver[v] = "recv" /\ receiver'[v] = "FALSE")
    BY <1>1 DEF StreamInv, StreamTypeOK
  <2>2. sd'[v] = sd[v] /\ staticBuf' = staticBuf /\ record'[v] = record[v]
    BY <1>1
  <2> QED
    BY <2>1, <2>2 DEF StreamInv, CallsOwn
<1>4. InOrder'
  <2> SUFFICES ASSUME NEW s \in Sockets
               PROVE  Stream!InTransit(s)' = FlattenSeq(pending'[s])
    BY DEF InOrder
  <2>1. PICK u \in Sockets : u = Stream!User(s)
    BY Transit
  <2>2. Stream!Had(u, s)' = Stream!Had(u, s)
    <3>1. receiver'[u] = receiver[u] \/ (receiver[u] = "recv" /\ receiver'[u] = "FALSE")
      BY <1>1 DEF StreamInv, StreamTypeOK
    <3> QED
      BY <1>1, <3>1 DEF Stream!Had
  <2>3. Stream!InTransit(s)' = Stream!InTransit(s)
    BY <1>1, <2>1, <2>2, Transit, TransitNext
  <2> QED
    BY <1>1, <2>3 DEF StreamInv, InOrder
<1> QED
  BY <1>2, <1>3, <1>4 DEF StreamInv

\* A call that has returned TRUE has the first text that was sent, and the
\* others are what comes behind it.
LEMMA HasFirst ==
  ASSUME program \in StreamProgram, Stream!StreamAssumption, StreamInv,
         NEW t \in Sockets, receiver[t] = "TRUE", NEW s \in Sockets, s = sd[t]
  PROVE  /\ pending[s] # <<>> /\ Append(record[t], Stream!Null) = Head(pending[s])
         /\ Tail(pending[s]) \in Seq(Seq(Char))
         /\ FlattenSeq(Tail(pending[s])) = Flow(<<>>, staticBuf[s], socket[s], nRemainSend[s])
<1> DEFINE h == Append(record[t], Stream!Null)
           rest == Flow(<<>>, staticBuf[s], socket[s], nRemainSend[s])
           ss == pending[s]
<1>1. record[t] \in Seq(Char) /\ NullFree(record[t]) /\ ss \in Seq(Seq(Char)) /\ Stream!User(s) = t
  BY DEF StreamInv, StreamTypeOK, CallsOwn, ThreadOf, Stream!User
<1>2. /\ h \in Seq(Char) /\ h # <<>>
      /\ staticBuf[s] \in Seq(Char) /\ socket[s] \in Seq(Char) /\ nRemainSend[s] \in Seq(Char)
      /\ <<>> \in Seq(Char)
  <2>1. h \in Seq(Char) /\ Len(h) = Len(record[t]) + 1
    BY <1>1, TextIs
  <2>2. Len(record[t]) \in Nat
    BY <1>1, LenProperties
  <2>3. Len(<<>>) = 0 /\ <<>> \in Seq(Char)
    BY EmptySeq
  <2> HIDE DEF h
  <2>4. h # <<>>
    BY <2>1, <2>2, <2>3
  <2>5. staticBuf[s] \in Seq(Char) /\ socket[s] \in Seq(Char) /\ nRemainSend[s] \in Seq(Char)
    BY DEF StreamInv, StreamTypeOK
  <2> QED
    BY <2>1, <2>3, <2>4, <2>5
<1>3. rest \in Seq(Char)
  BY <1>2, FlowGrows
<1>4. FlattenSeq(ss) = Cat(h, rest)
  <2>1. Stream!Had(t, s) = h
    BY DEF Stream!Had
  <2>2. Stream!InTransit(s) = Flow(h, staticBuf[s], socket[s], nRemainSend[s])
    BY <1>1, <2>1, Transit
  <2>3. Flow(h, staticBuf[s], socket[s], nRemainSend[s]) = Cat(h, rest)
    <3> HIDE DEF h
    <3> QED
      BY <1>2, FlowLeaves
  <2> QED
    BY <2>2, <2>3 DEF StreamInv, InOrder
<1> HIDE DEF rest, h
<1>5. Cat(h, rest) # <<>>
  <2>1. Cat(h, rest) = <<>> => h = <<>>
    BY <1>2, <1>3, ConcatSimplifications DEF Cat
  <2> QED
    BY <1>2, <2>1
<1>6. ss # <<>>
  <2>1. <<>> \in Seq(Seq(Char))
    OBVIOUS
  <2>2. FlattenSeq(<<>>) = <<>>
    BY <2>1, FlattenIsSeq
  <2> QED
    BY <1>4, <1>5, <2>2
<1> HIDE DEF ss
<1>7. /\ Head(ss) \in Seq(Char) /\ Tail(ss) \in Seq(Seq(Char))
      /\ ss = Cat(One(Head(ss)), Tail(ss))
  BY <1>1, <1>6, HeadAndTail
<1>8. Whole(Head(ss))
  <2>1. Len(ss) \in Nat /\ Len(ss) # 0 /\ Head(ss) = ss[1]
    BY <1>1, <1>6, EmptySeq, LenProperties
  <2>2. 1 \in 1 .. Len(ss)
    BY <2>1
  <2> QED
    BY <2>1, <2>2 DEF StreamInv, WholeTexts, ss
<1>9. PICK u \in Seq(Char) : NullFree(u) /\ Head(ss) = Append(u, Stream!Null)
  BY <1>8 DEF Whole
<1>10. FlattenSeq(ss) = Cat(Head(ss), FlattenSeq(Tail(ss))) /\ FlattenSeq(Tail(ss)) \in Seq(Char)
  <2> DEFINE b == Head(ss)
             tt == Tail(ss)
             bs == <<b>>
  <2>1. b \in Seq(Char) /\ tt \in Seq(Seq(Char)) /\ bs \in Seq(Seq(Char)) /\ ss = bs \o tt
    BY <1>7 DEF Cat, One
  <2>2. FlattenSeq(bs) = b
    <3> HIDE DEF b
    <3>1. <<>> \in Seq(Seq(Char))
      OBVIOUS
    <3> QED
      BY <2>1, <3>1, FlattenAppend
  <2> HIDE DEF b, tt, bs
  <2>3. FlattenSeq(bs \o tt) = FlattenSeq(bs) \o FlattenSeq(tt)
    BY <2>1, FlattenConcat
  <2>4. FlattenSeq(tt) \in Seq(Char)
    BY <2>1, FlattenIsSeq
  <2> QED
    BY <2>1, <2>2, <2>3, <2>4 DEF Cat, b, tt
<1>11. record[t] = u /\ rest = FlattenSeq(Tail(ss))
  <2> DEFINE w == record[t]
             z == FlattenSeq(Tail(ss))
  <2>1. TextThen(w, rest) = TextThen(u, z)
    BY <1>4, <1>9, <1>10 DEF Cat, h, TextThen
  <2>2. w \in Seq(Char) /\ z \in Seq(Char)
    BY <1>1, <1>10
  <2>4. NullFree(w)
    BY <1>1
  <2>5. NullFree(u)
    BY <1>9
  <2> HIDE DEF w, z
  <2>3. w = u /\ rest = z
    BY <1>3, <2>1, <2>2, <2>4, <2>5, FirstText
  <2> QED
    BY <2>3 DEF w, z
<1> QED
  BY <1>6, <1>7, <1>9, <1>11 DEF h, rest, ss

\* The caller has had the text.
LEMMA UseStep ==
  ASSUME program \in StreamProgram, program' = program, Stream!StreamAssumption, StreamInv,
         NEW t \in Sockets, Stream!Use(t)
  PROVE  StreamInv'
<1>1. /\ receiver[t] = "TRUE" /\ receiver' = [receiver EXCEPT ![t] = "idle"]
      /\ UNCHANGED <<nRemainSend, nSends, socket, staticBuf, sd, record, nRemainRecv>>
      /\ sd[t] \in Sockets /\ ThreadOf(program, sd[t]) = t
  BY DEF Stream!Use, Stream!Goes, Stream!sendVars, StreamInv, CallsOwn
<1>2. PICK s0 \in Sockets : s0 = sd[t]
  BY <1>1
<1>3. pending' = [pending EXCEPT ![s0] = Tail(pending[s0])]
  BY <1>2 DEF Stream!Use
<1>4. /\ pending[s0] # <<>> /\ pending[s0] \in Seq(Seq(Char))
      /\ Tail(pending[s0]) \in Seq(Seq(Char))
      /\ FlattenSeq(Tail(pending[s0])) = Flow(<<>>, staticBuf[s0], socket[s0], nRemainSend[s0])
  BY <1>1, <1>2, HasFirst DEF StreamInv, StreamTypeOK
<1>5. StreamTypeOK'
  BY <1>1, <1>3, <1>4 DEF StreamInv, StreamTypeOK, Receiving
<1>6. WholeTexts'
  <2> SUFFICES ASSUME NEW s \in Sockets, NEW i \in 1 .. Len(pending'[s])
               PROVE  Whole(pending'[s][i])
    BY DEF WholeTexts
  <2>1. CASE s = s0
    <3>1. pending'[s] = Tail(pending[s0])
      BY <1>3, <2>1 DEF StreamInv, StreamTypeOK
    <3>2. /\ Len(Tail(pending[s0])) = Len(pending[s0]) - 1 /\ Len(pending[s0]) \in Nat
          /\ \A k \in 1 .. Len(Tail(pending[s0])) : Tail(pending[s0])[k] = pending[s0][k + 1]
      BY <1>4, HeadTailProperties, LenProperties
    <3>3. i + 1 \in 1 .. Len(pending[s0]) /\ pending'[s][i] = pending[s0][i + 1]
      BY <3>1, <3>2
    <3> QED
      BY <3>3 DEF StreamInv, WholeTexts
  <2>2. CASE s # s0
    <3>1. pending'[s] = pending[s]
      BY <1>3, <2>2 DEF StreamInv, StreamTypeOK
    <3> QED
      BY <3>1 DEF StreamInv, WholeTexts
  <2> QED
    BY <2>1, <2>2
<1>7. CallsOwn'
  <2> SUFFICES ASSUME NEW v \in Sockets
               PROVE  /\ receiver'[v] # "idle" => sd'[v] \in Sockets /\ ThreadOf(program, sd'[v]) = v
                      /\ receiver'[v] = "recv" => staticBuf'[sd'[v]] = <<>>
                      /\ NullFree(record'[v])
    BY DEF CallsOwn
  <2>1. receiver'[v] = receiver[v] \/ receiver'[v] = "idle"
    BY <1>1 DEF StreamInv, StreamTypeOK
  <2>2. sd'[v] = sd[v] /\ staticBuf' = staticBuf /\ record'[v] = record[v]
    BY <1>1
  <2> QED
    BY <2>1, <2>2 DEF StreamInv, CallsOwn
<1>8. InOrder'
  <2>0. SUFFICES ASSUME NEW s \in Sockets
                 PROVE  Stream!InTransit(s)' = FlattenSeq(pending'[s])
    BY DEF InOrder
  <2>1. CASE s = s0
    <3>1. Stream!User(s0) = t
      BY <1>1, <1>2 DEF Stream!User, ThreadOf
    <3>2. Stream!InTransit(s0)' = Flow(Stream!Had(t, s0)', staticBuf'[s0], socket'[s0], nRemainSend'[s0])
      BY <3>1, TransitNext
    <3>3. Stream!Had(t, s0)' = <<>>
      <4>1. receiver'[t] = "idle"
        BY <1>1 DEF StreamInv, StreamTypeOK
      <4> QED
        BY <4>1 DEF Stream!Had
    <3>4. pending'[s0] = Tail(pending[s0])
      BY <1>3 DEF StreamInv, StreamTypeOK
    <3> QED
      BY <1>1, <1>4, <2>1, <3>2, <3>3, <3>4
  <2>2. CASE s # s0
    <3>1. OnlyCall(t) /\ sd'[t] = s0 /\ pending'[s] = pending[s]
      BY <1>1, <1>2, <1>3, <2>2 DEF StreamInv, StreamTypeOK, OnlyCall
    <3> QED
      BY <1>1, <2>2, <3>1, Elsewhere DEF StreamInv
  <2> QED
    BY <2>1, <2>2
<1> QED
  BY <1>5, <1>6, <1>7, <1>8 DEF StreamInv

StreamNext == \E s \in Sockets : Stream!Receiver(s) \/ Stream!Sender(s)

LEMMA StreamStep ==
  ASSUME program \in StreamProgram, program' = program, Stream!StreamAssumption, StreamInv,
         StreamNext
  PROVE  StreamInv'
BY SenderStep, ReceiveStep, RecvStep, NothingStep, UseStep DEF StreamNext, Stream!Receiver

LEMMA StreamFrozen ==
  ASSUME program' = program, UNCHANGED streamVars, StreamInv
  PROVE  StreamInv'
BY DEF streamVars, StreamInv, StreamTypeOK, WholeTexts, CallsOwn, InOrder, Stream!InTransit,
       Stream!Had, Stream!User, Stream!Buffer

\* What StreamInv says of the calls.
LEMMA StreamFramed ==
  ASSUME program \in StreamProgram, Stream!StreamAssumption, StreamInv
  PROVE  Stream!MessagesFramed
<1>1. ASSUME NEW t \in Stream!Users, receiver[t] = "TRUE"
      PROVE  pending[sd[t]] # <<>> /\ Append(record[t], Stream!Null) = Head(pending[sd[t]])
  <2>1. t \in Sockets
    BY Transit DEF Stream!Users
  <2>2. sd[t] \in Sockets
    BY <1>1, <2>1 DEF StreamInv, CallsOwn
  <2> QED
    BY <1>1, <2>1, <2>2, HasFirst
<1>2. \A s \in Sockets : Stream!InTransit(s) = Stream!FlattenSeq(pending[s])
  BY SameOperators DEF StreamInv, InOrder
<1> QED
  BY <1>1, <1>2 DEF Stream!MessagesFramed

-----------------------------------------------------------------------------
(***************************************************************************)
(* The programs side by side: a step of Programs is one of the program     *)
(* chosen, and leaves the variables of the others alone.  So every program *)
(* that was proved right keeps what it promises there.                     *)
(***************************************************************************)
ProvedPrograms == {"simplePC", "eventPC", "multiPCav", "testTHB", "serverSK", "09-Queue",
                   "Handshake", "JobShell"}

LEMMA ProgramNames ==
  /\ ProvedPrograms \cap (FileProgram \cup CrewProgram \cup StreamProgram) = {}
  /\ StreamProgram \cap (FileProgram \cup CrewProgram) = {}
BY DEF ProvedPrograms, FileProgram, CrewProgram, StreamProgram, File!Converter, File!OneThread,
       File!Striped

LEMMA EventPCAlone ==
  ASSUME [ProgramsNext]_programVars
  PROVE  program' = program /\ (program = "eventPC" => [EventNext]_eventVars)
<1> USE DEF messageVars
<1>1. program' = program
  BY DEF ProgramsNext, programVars
<1> SUFFICES ASSUME program = "eventPC", ProgramsNext PROVE EventNext
  BY <1>1 DEF programVars
<1> USE ProgramNames DEF ProvedPrograms, InSimple, InEvent, InMulti, EventNext
<1>2. CASE \E n \in Numbers : Thread(n)
  BY <1>2 DEF Thread
<1>3. CASE MainThread
  BY <1>3 DEF MainThread
<1>4. CASE Environment
  BY <1>4 DEF Environment
<1> QED
  BY <1>2, <1>3, <1>4 DEF ProgramsNext

LEMMA BarrierAlone ==
  ASSUME [ProgramsNext]_programVars
  PROVE  [TestNext]_testVars
<1> SUFFICES ASSUME program = "testTHB", ProgramsNext PROVE TestNext
  BY DEF ProgramsNext, Frozen, programVars
<1> USE ProgramNames DEF ProvedPrograms, InSimple, InEvent, InMulti, TestNext
<1>2. CASE \E n \in Numbers : Thread(n)
  BY <1>2 DEF Thread
<1>3. CASE MainThread
  BY <1>3 DEF MainThread
<1>4. CASE Environment
  BY <1>4 DEF Environment
<1> QED
  BY <1>2, <1>3, <1>4 DEF ProgramsNext

LEMMA SlotsAlone ==
  ASSUME [ProgramsNext]_programVars
  PROVE  [SKNext]_skVars
<1> SUFFICES ASSUME program = "serverSK", ProgramsNext PROVE SKNext
  BY DEF ProgramsNext, Frozen, programVars
<1> USE ProgramNames DEF ProvedPrograms, InSimple, InEvent, InMulti, SKNext, ServesItself
<1>2. CASE \E n \in Numbers : Thread(n)
  BY <1>2 DEF Thread
<1>3. CASE MainThread
  BY <1>3 DEF MainThread
<1>4. CASE Environment
  BY <1>4 DEF Environment
<1> QED
  BY <1>2, <1>3, <1>4 DEF ProgramsNext

LEMMA QueueAlone ==
  ASSUME [ProgramsNext]_programVars
  PROVE  [MSQNext]_msqVars
<1> SUFFICES ASSUME program = "09-Queue", ProgramsNext PROVE MSQNext
  BY DEF ProgramsNext, Frozen, programVars
<1> USE ProgramNames DEF ProvedPrograms, InSimple, InEvent, InMulti
<1>2. CASE \E n \in Numbers : Thread(n)
  BY <1>2 DEF Thread
<1>3. CASE MainThread
  BY <1>3 DEF MainThread
<1>4. CASE Environment
  BY <1>4 DEF Environment
<1> QED
  BY <1>2, <1>3, <1>4 DEF ProgramsNext

LEMMA HandshakeAlone ==
  ASSUME [ProgramsNext]_programVars
  PROVE  [HandNext]_handVars
<1> SUFFICES ASSUME program = "Handshake", ProgramsNext PROVE HandNext
  BY DEF ProgramsNext, Frozen, programVars
<1> USE ProgramNames DEF ProvedPrograms, InSimple, InEvent, InMulti
<1>2. CASE \E n \in Numbers : Thread(n)
  BY <1>2 DEF Thread
<1>3. CASE MainThread
  BY <1>3 DEF MainThread
<1>4. CASE Environment
  BY <1>4 DEF Environment
<1> QED
  BY <1>2, <1>3, <1>4 DEF ProgramsNext

LEMMA JobsAlone ==
  ASSUME [ProgramsNext]_programVars
  PROVE  [JobNext]_jobVars
<1> SUFFICES ASSUME program = "JobShell", ProgramsNext PROVE JobNext
  BY DEF ProgramsNext, Frozen, programVars
<1> USE ProgramNames DEF ProvedPrograms, InSimple, InEvent, InMulti
<1>2. CASE \E n \in Numbers : Thread(n)
  BY <1>2 DEF Thread
<1>3. CASE MainThread
  BY <1>3 DEF MainThread
<1>4. CASE Environment
  BY <1>4 DEF Environment
<1> QED
  BY <1>2, <1>3, <1>4 DEF ProgramsNext

LEMMA SimplePCAlone ==
  ASSUME ProgramsNext, program = "simplePC"
  PROVE  SimpleNext
<1> USE ProgramNames DEF ProvedPrograms, InSimple, InEvent, InMulti, SimpleNext
<1>2. CASE \E n \in Numbers : Thread(n)
  BY <1>2 DEF Thread
<1>3. CASE MainThread
  BY <1>3 DEF MainThread
<1>4. CASE Environment
  BY <1>4 DEF Environment
<1> QED
  BY <1>2, <1>3, <1>4 DEF ProgramsNext

LEMMA MultiPCAlone ==
  ASSUME ProgramsNext, program = "multiPCav"
  PROVE  MultiNext
<1> USE ProgramNames DEF ProvedPrograms, InSimple, InEvent, InMulti, MultiNext
<1>2. CASE \E n \in Numbers : Thread(n)
  BY <1>2 DEF Thread
<1>3. CASE MainThread
  BY <1>3 DEF MainThread
<1>4. CASE Environment
  BY <1>4 DEF Environment
<1> QED
  BY <1>2, <1>3, <1>4 DEF ProgramsNext

LEMMA StreamsAlone ==
  ASSUME ProgramsNext, program \in StreamProgram
  PROVE  StreamNext
<1> USE ProgramNames DEF ProvedPrograms, InSimple, InEvent, InMulti, StreamNext, StreamProgram
<1>2. CASE \E n \in Numbers : Thread(n)
  BY <1>2 DEF Thread
<1>3. CASE MainThread
  BY <1>3 DEF MainThread
<1>4. CASE Environment
  BY <1>4 DEF Environment
<1> QED
  BY <1>2, <1>3, <1>4 DEF ProgramsNext

EventChosen == program = "eventPC" => EventInv

LEMMA EventProgram == ProgramsSpec => []EventChosen
<1>1. ProgramsInit => EventChosen
  BY EventBegins DEF ProgramsInit, EventChosen
<1>2. EventChosen /\ [ProgramsNext]_programVars => EventChosen'
  BY EventPCAlone, EventStep DEF EventChosen
<1> QED
  BY <1>1, <1>2, PTL DEF ProgramsSpec

(***************************************************************************)
(* eventPC.c: the counts claim no more messages than were produced.        *)
(***************************************************************************)
THEOREM CountsInPrograms == ProgramsSpec => []CountsBoundedInEventPC
<1>1. EventChosen => CountsBoundedInEventPC
  BY EventFacts DEF EventChosen, CountsBoundedInEventPC
<1> QED
  BY <1>1, EventProgram, PTL

(***************************************************************************)
(* eventPC.c: a message that is ready is announced by its event.           *)
(***************************************************************************)
THEOREM ReadyInPrograms == ProgramsSpec => []ReadyIsAnnouncedInEventPC
<1>1. EventChosen => ReadyIsAnnouncedInEventPC
  BY EventFacts DEF EventChosen, ReadyIsAnnouncedInEventPC
<1> QED
  BY <1>1, EventProgram, PTL

(***************************************************************************)
(* testTHB.c over ThbObject.c: the barrier holds its threads back until    *)
(* the threshold is reached, no broadcast is lost, nobody who waits is     *)
(* left without the object, and it is freed under no worker.               *)
(***************************************************************************)
THEOREM BarrierInPrograms ==
  ProgramsSpec => [](BarrierHolds /\ NoLostBroadcast /\ BusyProtectsWaiters /\ NoUseAfterFree)
<1>1. ProgramsInit => IInv /\ JoinedFirst
  BY InitIInv, TestBegins DEF ProgramsInit, TestInit
<1>2. IInv /\ JoinedFirst /\ [ProgramsNext]_programVars => (IInv /\ JoinedFirst)'
  BY BarrierAlone, TestUsesBarrier, BarrierStep, TestStep
<1>3. IInv /\ JoinedFirst
        => BarrierHolds /\ NoLostBroadcast /\ BusyProtectsWaiters /\ NoUseAfterFree
  BY BarrierFacts DEF JoinedFirst
<1> QED
  BY <1>1, <1>2, <1>3, PTL DEF ProgramsSpec

(***************************************************************************)
(* serverSK.c: what main knows of the slots is true of their threads.      *)
(***************************************************************************)
THEOREM SlotsInPrograms == ProgramsSpec => []SlotsTellThreads
<1>1. ProgramsInit => SKInv
  BY SlotsBeginFree, ProgramsAssumption DEF ProgramsInit
<1>2. SKInv /\ [ProgramsNext]_programVars => SKInv'
  BY SlotsAlone, SlotsStep, ProgramsAssumption
<1> QED
  BY <1>1, <1>2, SlotsFact, PTL DEF ProgramsSpec

(***************************************************************************)
(* 09-Queue: whoever gets the mutex finds as many elements as the          *)
(* semaphore counts, in the order of their Appends.                        *)
(***************************************************************************)
THEOREM QueueInPrograms == ProgramsSpec => []CountedElementsStored
<1>1. ProgramsInit => MSQInv
  BY InitiallyEmpty, ProgramsAssumption DEF ProgramsInit
<1>2. MSQInv /\ [ProgramsNext]_programVars => MSQInv'
  BY QueueAlone, QueueStep, ProgramsAssumption
<1>3. MSQInv => CountedElementsStored
  BY StoredWhenFree, ProgramsAssumption
<1> QED
  BY <1>1, <1>2, <1>3, PTL DEF ProgramsSpec

(***************************************************************************)
(* 09-Handshake: the dialog shows the reversal of the text it submitted.   *)
(***************************************************************************)
THEOREM HandshakeInPrograms == ProgramsSpec => []ResultOfRequest
<1>1. ProgramsInit => HandInv
  BY InitialTurn DEF ProgramsInit
<1>2. HandInv /\ [ProgramsNext]_programVars => HandInv'
  BY HandshakeAlone, StepInTurn
<1> QED
  BY <1>1, <1>2, ReversedWhenOpen, PTL DEF ProgramsSpec

(***************************************************************************)
(* JobShell.c: a running job is found under its number.                    *)
(***************************************************************************)
THEOREM JobsInPrograms == ProgramsSpec => []JobsFound
<1>1. ProgramsInit => JobInv
  BY InitialJobs, ProgramsAssumption DEF ProgramsInit
<1>2. JobInv /\ [ProgramsNext]_programVars => JobInv'
  BY JobsAlone, JobStep, ProgramsAssumption
<1>3. JobInv => JobsFound
  BY DEF JobInv, Recorded, Started, JobsFound
<1> QED
  BY <1>1, <1>2, <1>3, PTL DEF ProgramsSpec
-----------------------------------------------------------------------------
(* The programs that hand messages over. *)

MessagesInv ==
  /\ program = "simplePC" => SimpleInv
  /\ program = "eventPC" => EventInv
  /\ program = "multiPCav" => MultiInv
  /\ program \in StreamProgram => StreamInv
  /\ program \notin MessageProgram => displayed = <<>>

LEMMA MessagesBegin == ProgramsInit => MessagesInv
<1> SUFFICES ASSUME ProgramsInit PROVE MessagesInv
  OBVIOUS
<1>1. program # "multiPCav" => EventInit
  BY DEF ProgramsInit
<1>2. program = "multiPCav" => MultiInv
  BY MultiBegins DEF ProgramsInit
<1>3. EventInit => EventInv /\ SimpleInv /\ displayed = <<>>
  <2>1. EventInit => EventInv
    BY EventBegins
  <2>2. EventInit => displayed = <<>>
    BY DEF EventInit, SimpleInit, BlockInit
  <2>3. EventInit => SimpleInv
    BY ThreadsDistinct, <2>1, <2>2
       DEF EventInit, SimpleInit, EventInv, EventTypeOK, SimpleInv
  <2> QED
    BY <2>1, <2>2, <2>3
<1>4. program \in StreamProgram => StreamInv
  BY StreamBegins, ProgramsAssumption DEF ProgramsInit
<1> QED
  BY <1>1, <1>2, <1>3, <1>4 DEF MessagesInv, MessageProgram

LEMMA MessagesFrozen ==
  ASSUME program' = program, UNCHANGED messageVars
  PROVE  /\ SimpleInv => SimpleInv'
         /\ MultiInv => MultiInv'
<1> USE DEF messageVars, eventVars, simpleVars, countVars, blockVars, multiOnly, BlockTypeOK
<1>1. SimpleInv => SimpleInv'
  BY DEF SimpleInv, EventGuardOwned, DataValid, PendingUndisplayed, MessagePending,
         DisplayedOnce
<1>2. MultiInv => MultiInv'
  BY DEF MultiInv, Multi!EachConsumedOnce
<1> QED
  BY <1>1, <1>2

LEMMA MessagesStep ==
  ASSUME MessagesInv, [ProgramsNext]_programVars
  PROVE  MessagesInv'
<1>1. program' = program /\ (program = "eventPC" => EventInv')
  BY EventPCAlone, EventStep DEF MessagesInv
<1>2. CASE UNCHANGED programVars
  <2>1. UNCHANGED messageVars /\ UNCHANGED streamVars
    BY <1>2 DEF programVars
  <2>2. displayed' = displayed
    BY <2>1 DEF messageVars, eventVars, simpleVars, countVars, blockVars
  <2>3. program = "simplePC" => SimpleInv'
    BY <1>1, <2>1, MessagesFrozen DEF MessagesInv
  <2>4. program = "multiPCav" => MultiInv'
    BY <1>1, <2>1, MessagesFrozen DEF MessagesInv
  <2>5. program \in StreamProgram => StreamInv'
    BY <1>1, <2>1, StreamFrozen DEF MessagesInv
  <2> QED
    BY <1>1, <2>2, <2>3, <2>4, <2>5 DEF MessagesInv
<1>3. CASE ProgramsNext
  <2>1. program \notin MessageProgram => displayed' = displayed
    BY <1>3 DEF ProgramsNext, Frozen, messageVars, eventVars, simpleVars, countVars, blockVars
  <2>2. program = "simplePC" => SimpleInv'
    BY <1>3, SimplePCAlone, SimpleStep DEF MessagesInv
  <2>3. program = "multiPCav" => MultiInv'
    BY <1>3, MultiPCAlone, MultiStep DEF MessagesInv
  <2>4. program \in StreamProgram => StreamInv'
    BY <1>1, <1>3, StreamsAlone, StreamStep, ProgramsAssumption DEF MessagesInv
  <2> QED
    BY <1>1, <2>1, <2>2, <2>3, <2>4 DEF MessagesInv
<1> QED
  BY <1>2, <1>3

(***************************************************************************)
(* simplePC.c, eventPC.c: nothing is displayed twice or half filled;       *)
(* multiPCav.c: every message is consumed, by one consumer; and the        *)
(* framing of SendReceiveSKST.c and SendReceiveSKHA.c: what a call returns *)
(* is the next text that was sent, and no character is lost or doubled     *)
(* between the caller's buffers and the sender's.                          *)
(***************************************************************************)
THEOREM MessagesInPrograms == ProgramsSpec => []MessagesOnce
<1>1. ProgramsInit => MessagesInv
  BY MessagesBegin
<1>2. MessagesInv /\ [ProgramsNext]_programVars => MessagesInv'
  BY MessagesStep
<1>3. MessagesInv => MessagesOnce
  <2> SUFFICES ASSUME MessagesInv PROVE MessagesOnce
    OBVIOUS
  <2>1. program = "multiPCav" => Multi!EachConsumedOnce
    BY DEF MessagesInv, MultiInv
  <2>2. program \in StreamProgram => Stream!MessagesFramed
    BY StreamFramed, ProgramsAssumption DEF MessagesInv
  <2>3. program = "simplePC" => DisplayedOnce
    BY DEF MessagesInv, SimpleInv, PendingUndisplayed
  <2>4. program = "eventPC" => DisplayedOnce
    BY EventFacts DEF MessagesInv
  <2>5. displayed = <<>> => DisplayedOnce
    BY DEF DisplayedOnce
  <2>6. program \notin StreamProgram /\ program # "multiPCav" => DisplayedOnce
    BY <2>3, <2>4, <2>5 DEF MessagesInv, MessageProgram
  <2> QED
    BY <2>1, <2>2, <2>6 DEF MessagesOnce, StreamProgram
<1> QED
  BY <1>1, <1>2, <1>3, PTL DEF ProgramsSpec
=============================================================================
