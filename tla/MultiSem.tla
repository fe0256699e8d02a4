------------------------------ MODULE MultiSem ------------------------------
(***************************************************************************)
(* CHAPTR10/MultiSem.c: a semaphore from which a thread takes several      *)
(* units at once, built from a mutex, an auto-reset event and a counter.   *)
(* With fFirstComeFirstServed a second mutex, hMutexa, is held during the  *)
(* whole of a wait.                                                        *)
(***************************************************************************)
EXTENDS Integers

CONSTANTS Waiters, Releasers,   \* threads
          Nobody,               \* owner of a free mutex
          MaxCount, InitialCount,
          Units,                \* unit counts asked for and released
          LongMax,              \* 2^31 - 1 in the code: the range of a LONG
          Finite                \* the waiters that pass a finite dwMilliseconds

ASSUME SemaphoreAssumption ==
  /\ Nobody \notin Waiters \cup Releasers
  /\ Waiters \cap Releasers = {}
  /\ LongMax \in Nat /\ MaxCount \in 0 .. LongMax
  /\ InitialCount \in 0 .. MaxCount   \* the test of CreateSemaphoreMW
  /\ Units \subseteq (-LongMax - 1) .. LongMax
  /\ Finite \subseteq Waiters

VARIABLES CurCount, hEvent, hMutex, hMutexa,
          fFirstComeFirstServed,   \* the parameter of CreateSemaphoreMW
          kept,      \* threads that own hMutexa although they have returned
          dropped,   \* history: the last signal went to a wait that timed out
          pc, result,
          cSemRequest   \* the units asked for, or to be released

Callers == Waiters \cup Releasers

\* A set of Units for TLC; it has the count that is refused.
AnyUnits == 0 .. MaxCount

eventVars == <<hEvent, dropped>>
turnVars == <<fFirstComeFirstServed, kept>>
semVars == <<CurCount, eventVars, hMutex, hMutexa, turnVars>>
vars == <<semVars, pc, cSemRequest, result>>

\* "fcfs" waiting for hMutexa; "enter" for hMutex; "in" its owner, at the
\* test of the loop; "wait" for the event; "again" awake, waiting for hMutex.
PCs == {"out", "fcfs", "enter", "in", "wait", "again"}

\* Between the acquisition of hMutexa and its release.
Served == {"enter", "in", "wait", "again"}

Results == {"ok", "pending", "timeout", "failed"}

\* The sum of two LONGs.
LongAdd(a, b) == ((a + b + LongMax + 1) % (2 * (LongMax + 1))) - (LongMax + 1)

CreateSemaphoreMW ==
  /\ CurCount = InitialCount
  /\ hEvent = (InitialCount > 0)
  /\ hMutex = Nobody /\ hMutexa = Nobody /\ kept = {}
  /\ fFirstComeFirstServed \in BOOLEAN
  /\ dropped = FALSE
  /\ pc = [t \in Callers |-> "out"]
  /\ cSemRequest = [t \in Callers |-> 0]
  /\ result = [t \in Callers |-> "ok"]

\* SetEvent (hEvent), if b.
SetEventIf(b) == hEvent' = (hEvent \/ b) /\ dropped' = (dropped /\ ~b)

Goto(w, l) == pc' = [pc EXCEPT ![w] = l]
Return(w, r) == Goto(w, "out") /\ result' = [result EXCEPT ![w] = r]

-----------------------------------------------------------------------------
(* ReleaseSemaphoreMW. *)

CallRelease(r, n) ==
  /\ pc[r] = "out"
  /\ hMutex = Nobody
  /\ hMutex' = r
  /\ Goto(r, "in")
  /\ cSemRequest' = [cSemRequest EXCEPT ![r] = n]
  /\ result' = [result EXCEPT ![r] = "pending"]
  /\ UNCHANGED <<CurCount, eventVars, hMutexa, turnVars>>

\* Fault: the maximum is not looked at.
ReleaseSemaphoreMW_NoMaximum(r) ==
  /\ pc[r] = "in"
  /\ IF cSemRequest[r] <= 0
     THEN /\ Return(r, "failed")
          /\ UNCHANGED <<CurCount, eventVars>>
     ELSE /\ CurCount' = LongAdd(CurCount, cSemRequest[r])
          /\ SetEventIf(TRUE)
          /\ Return(r, "ok")
  /\ hMutex' = Nobody
  /\ UNCHANGED <<hMutexa, turnVars, cSemRequest>>

ReleaseSemaphoreMW(r) ==
  /\ pc[r] = "in"
  /\ IF LongAdd(CurCount, cSemRequest[r]) > MaxCount \/ cSemRequest[r] <= 0
     THEN /\ Return(r, "failed")
          /\ UNCHANGED <<CurCount, eventVars>>
     ELSE /\ CurCount' = LongAdd(CurCount, cSemRequest[r])
          /\ SetEventIf(TRUE)
          /\ Return(r, "ok")
  /\ hMutex' = Nobody
  /\ UNCHANGED <<hMutexa, turnVars, cSemRequest>>

-----------------------------------------------------------------------------
(* WaitForSemaphoreMW. *)

Call(w, n) ==
  /\ pc[w] = "out"
  /\ IF n <= 0 \/ n > MaxCount
     THEN /\ result' = [result EXCEPT ![w] = "failed"]
          /\ UNCHANGED <<pc, cSemRequest>>
     ELSE /\ Goto(w, IF fFirstComeFirstServed THEN "fcfs" ELSE "enter")
          /\ cSemRequest' = [cSemRequest EXCEPT ![w] = n]
          /\ result' = [result EXCEPT ![w] = "pending"]
  /\ UNCHANGED semVars

\* Fault: the thread goes on when the wait for hMutexa has timed out.
TakeTurn_IgnoresTimeOut(w) ==
  /\ pc[w] = "fcfs"
  /\ hMutexa \in {Nobody, w} \/ w \in Finite
  /\ hMutexa' = IF hMutexa = Nobody THEN w ELSE hMutexa
  /\ Goto(w, "enter")
  /\ UNCHANGED <<CurCount, eventVars, hMutex, turnVars, cSemRequest, result>>

\* Mutexes are recursive: a thread that kept hMutexa gets it again.
TakeTurn(w) ==
  /\ pc[w] = "fcfs"
  /\ hMutexa \in {Nobody, w}
  /\ hMutexa' = w
  /\ Goto(w, "enter")
  /\ UNCHANGED <<CurCount, eventVars, hMutex, turnVars, cSemRequest, result>>

Enter(w) ==
  /\ pc[w] = "enter"
  /\ hMutex = Nobody
  /\ hMutex' = w
  /\ Goto(w, "in")
  /\ UNCHANGED <<CurCount, eventVars, hMutexa, turnVars, cSemRequest, result>>

\* SignalObjectAndWait (hMutex, hEvent, INFINITE, FALSE)
Wait(w) ==
  /\ pc[w] = "in" /\ CurCount < cSemRequest[w]
  /\ hMutex' = Nobody
  /\ Goto(w, "wait")
  /\ UNCHANGED <<CurCount, eventVars, hMutexa, turnVars, cSemRequest, result>>

Wake(w) ==
  /\ pc[w] = "wait" /\ hEvent
  /\ hEvent' = FALSE
  /\ Goto(w, "again")
  /\ UNCHANGED <<CurCount, dropped, hMutex, hMutexa, turnVars, cSemRequest, result>>

\* Fault: the event that woke the thread is not passed on.
Reacquire_KeepsSignal(w) ==
  /\ pc[w] = "again"
  /\ hMutex = Nobody
  /\ hMutex' = w
  /\ Goto(w, "in")
  /\ UNCHANGED <<CurCount, eventVars, hMutexa, turnVars, cSemRequest, result>>

Reacquire(w) ==
  /\ pc[w] = "again"
  /\ hMutex = Nobody
  /\ hMutex' = w
  /\ SetEventIf(CurCount > 0)
  /\ Goto(w, "in")
  /\ UNCHANGED <<CurCount, hMutexa, turnVars, cSemRequest, result>>

\* Past the loop: take the units, pass the signal on, leave.
Take(w) ==
  /\ pc[w] = "in" /\ CurCount >= cSemRequest[w]
  /\ CurCount' = CurCount - cSemRequest[w]
  /\ SetEventIf(CurCount' > 0)
  /\ hMutex' = Nobody
  /\ hMutexa' = IF w \in kept \/ hMutexa # w THEN hMutexa ELSE Nobody
  /\ Return(w, "ok")
  /\ UNCHANGED <<turnVars, cSemRequest>>

\* One of the three waits with dwMilliseconds (the wait for the event is
\* INFINITE) times out: somebody else owns the mutex.  The returns leave
\* hMutexa as it is; the signal consumed by a thread at "again" is gone.
TimeOut(w) ==
  /\ w \in Finite
  /\ \/ pc[w] = "fcfs" /\ hMutexa \notin {Nobody, w}
     \/ pc[w] \in {"enter", "again"} /\ hMutex # Nobody
  /\ kept' = IF fFirstComeFirstServed /\ pc[w] # "fcfs" THEN kept \cup {w} ELSE kept
  /\ dropped' = \/ dropped
                \/ ~hEvent /\ {v \in Waiters : pc[v] = "again"} = {w}
  /\ Return(w, "timeout")
  /\ UNCHANGED <<CurCount, hEvent, hMutex, hMutexa, fFirstComeFirstServed, cSemRequest>>

Proceed(w) == TakeTurn(w) \/ Enter(w) \/ Wait(w) \/ Wake(w) \/ Reacquire(w) \/ Take(w)

-----------------------------------------------------------------------------
Init == CreateSemaphoreMW

Next == \/ \E w \in Waiters : \/ \E n \in Units : Call(w, n)
                              \/ Proceed(w)
                              \/ TimeOut(w)
        \/ \E r \in Releasers : \/ \E n \in Units : CallRelease(r, n)
                                \/ ReleaseSemaphoreMW(r)

Spec == Init /\ [][Next]_vars

\* A thread inside a call goes on.  The kernel serves the threads that wait for
\* a mutex or an event in order, so nobody is passed over for ever.  Nothing
\* makes a thread start a call.
Fairness == /\ \A w \in Waiters : SF_vars(Proceed(w))
            /\ \A r \in Releasers : WF_vars(ReleaseSemaphoreMW(r))

FairSpec == Spec /\ Fairness

-----------------------------------------------------------------------------
(***************************************************************************)
(* The types; CurCount's is rule 3 of CreateSemaphoreMW, "the semaphore    *)
(* count is always >= 0 and <= the maximum count".                         *)
(***************************************************************************)
Rule3 == CurCount \in 0 .. MaxCount

TypeOK ==
  /\ hEvent \in BOOLEAN /\ dropped \in BOOLEAN
  /\ fFirstComeFirstServed \in BOOLEAN
  /\ hMutex \in Callers \cup {Nobody} /\ hMutexa \in Waiters \cup {Nobody}
  /\ kept \subseteq Finite
  /\ pc \in [Callers -> PCs]
  /\ cSemRequest \in [Callers -> Int]
  /\ \A w \in Waiters : cSemRequest[w] \in 0 .. MaxCount
  /\ result \in [Callers -> Results]
  /\ Rule3

(***************************************************************************)
(* No signal is lost: while there are units, the event is set, or somebody *)
(* is on the way to set it again, or the signal went to a thread whose     *)
(* wait for hMutex then timed out: that is the only way to lose one.       *)
(***************************************************************************)
NoLostSignal ==
  CurCount > 0 => \/ hEvent
                  \/ \E w \in Waiters : pc[w] = "again"
                  \/ dropped

(***************************************************************************)
(* "A thread with a satisfiable request will be released even if a thread  *)
(* ... has an outstanding request that is not currently satisfiable",      *)
(* unless a thread whose wait timed out took the signal with it.           *)
(***************************************************************************)
SatisfiableReleased ==
  \A w \in Waiters :
    (pc[w] = "wait" /\ CurCount >= cSemRequest[w])
      ~> (pc[w] = "out" \/ CurCount < cSemRequest[w] \/ dropped)

(***************************************************************************)
(* First come, first served: a thread that has its turn is not overtaken.  *)
(* No other thread takes units until it has returned.                      *)
(***************************************************************************)
FirstComeFirstServed ==
  [][fFirstComeFirstServed =>
       \A v \in Waiters : Take(v) =>
         \A w \in Waiters \ {v} : pc[w] \notin Served]_vars
=============================================================================
