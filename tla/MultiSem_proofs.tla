-------------------------- MODULE MultiSem_proofs --------------------------
(***************************************************************************)
(* Proofs about MultiSem: for any number of threads and any maximum count, *)
(* with the first-satisfiable or the first-come rule, and with any waits;  *)
(* and about the table of names, for any number of processes and slots.    *)
(***************************************************************************)
EXTENDS Semaphores, FoldTheorems, TLAPS

(***************************************************************************)
(* Whoever releases does not bring a LONG to overflow.  (The code does not *)
(* check it; LongAdd wraps otherwise, and the count leaves its range.)     *)
(***************************************************************************)
NoOverflow == \A n \in Units : n + MaxCount <= LongMax

(***************************************************************************)
(* The mutex has one owner, the thread at "in"; and a thread whose turn it *)
(* is owns hMutexa.                                                        *)
(***************************************************************************)
MutexOwned ==
  /\ \A t \in Callers : pc[t] = "in" <=> hMutex = t
  /\ \A r \in Releasers : pc[r] \in {"out", "in"}

TurnOwned ==
  fFirstComeFirstServed => \A w \in Waiters : pc[w] \in Served => hMutexa = w

(***************************************************************************)
(* Requests are within the ranges that their checks leave.                 *)
(***************************************************************************)
RequestsOK ==
  /\ \A w \in Waiters : pc[w] # "out" => cSemRequest[w] \in 1 .. MaxCount
  /\ \A r \in Releasers : pc[r] = "in" => cSemRequest[r] \in Units

IInv == TypeOK /\ MutexOwned /\ TurnOwned /\ RequestsOK

(***************************************************************************)
(* Below the largest LONG, the sum of LONGs is the sum.                    *)
(***************************************************************************)
LEMMA LongAddIsSum ==
  ASSUME NoOverflow, NEW a \in 0 .. MaxCount, NEW n \in Units
  PROVE  LongAdd(a, n) = a + n /\ LongAdd(a, n) \in Int
<1>1. /\ n \in Int /\ n >= -LongMax - 1 /\ a + n <= LongMax
      /\ a \in Int /\ a >= 0 /\ LongMax \in Nat
  BY SemaphoreAssumption DEF NoOverflow
<1> DEFINE x == a + n + LongMax + 1
           m == 2 * (LongMax + 1)
<1>2. x \in Nat /\ m \in Nat /\ x < m
  BY <1>1
<1>3. x % m = x
  <2> HIDE DEF x, m
  <2> QED BY <1>2
<1> QED
  BY <1>1, <1>3 DEF LongAdd

-----------------------------------------------------------------------------
LEMMA InitIInv == Init => IInv
<1> USE SemaphoreAssumption DEF Init, CreateSemaphoreMW, PCs, Results, Served, Callers, turnVars, eventVars
<1>1. Init => TypeOK
  <2>1. Init => dropped \in BOOLEAN /\ fFirstComeFirstServed \in BOOLEAN
    OBVIOUS
  <2>5. Init => hEvent \in BOOLEAN
    BY SMT
  <2>2. Init => pc \in [Callers -> PCs] /\ result \in [Callers -> Results]
    OBVIOUS
  <2>3. Init => hMutex \in Callers \cup {Nobody} /\ hMutexa \in Waiters \cup {Nobody}
                /\ kept \subseteq Finite
    OBVIOUS
  <2>4. Init => /\ cSemRequest \in [Callers -> Int] /\ Rule3
                /\ \A w \in Waiters : cSemRequest[w] \in 0 .. MaxCount
    BY DEF Rule3
  <2> QED BY <2>1, <2>2, <2>3, <2>4, <2>5 DEF TypeOK
<1>2. Init => MutexOwned /\ TurnOwned /\ RequestsOK
  BY DEF MutexOwned, TurnOwned, RequestsOK
<1> QED BY <1>1, <1>2 DEF IInv

(***************************************************************************)
(* A release keeps the inductive invariant.                                *)
(***************************************************************************)
LEMMA ReleaserStep ==
  ASSUME NoOverflow, IInv, NEW r \in Releasers,
         (\E n \in Units : CallRelease(r, n)) \/ ReleaseSemaphoreMW(r)
  PROVE  IInv'
<1> USE SemaphoreAssumption
    DEF Goto, Return, SetEventIf, eventVars, turnVars, PCs, Results, Served, Callers
<1>1. ASSUME NEW n \in Units, CallRelease(r, n)
      PROVE  IInv'
  <2>1. n \in Int
    OBVIOUS
  <2>2. TypeOK'
    BY <1>1, <2>1 DEF IInv, TypeOK, Rule3, CallRelease
  <2>3. MutexOwned' /\ TurnOwned' /\ RequestsOK'
    BY <1>1 DEF IInv, TypeOK, MutexOwned, TurnOwned, RequestsOK, CallRelease
  <2> QED BY <2>2, <2>3 DEF IInv
<1>2. CASE ReleaseSemaphoreMW(r)
  <2>1. /\ LongAdd(CurCount, cSemRequest[r]) = CurCount + cSemRequest[r]
        /\ CurCount \in Int /\ cSemRequest[r] \in Int /\ MaxCount \in Int
        /\ CurCount >= 0 /\ CurCount <= MaxCount
    BY <1>2, LongAddIsSum DEF IInv, RequestsOK, TypeOK, Rule3, ReleaseSemaphoreMW
  <2>2. CurCount' \in 0 .. MaxCount
    BY <1>2, <2>1 DEF ReleaseSemaphoreMW
  <2>3. TypeOK'
    BY <1>2, <2>2 DEF IInv, TypeOK, Rule3, ReleaseSemaphoreMW
  <2>4. MutexOwned' /\ TurnOwned' /\ RequestsOK'
    BY <1>2 DEF IInv, TypeOK, MutexOwned, TurnOwned, RequestsOK, ReleaseSemaphoreMW
  <2> QED BY <2>3, <2>4 DEF IInv
<1> QED BY <1>1, <1>2

(***************************************************************************)
(* So does a step of a wait.                                               *)
(***************************************************************************)
LEMMA WaiterStep ==
  ASSUME IInv, NEW w \in Waiters,
         (\E n \in Units : Call(w, n)) \/ Proceed(w) \/ TimeOut(w)
  PROVE  IInv'
<1> USE SemaphoreAssumption
    DEF Goto, Return, SetEventIf, eventVars, turnVars, PCs, Results, Served, Callers
<1>1. ASSUME NEW n \in Units, Call(w, n)
      PROVE  IInv'
  <2>1. n \in Int /\ MaxCount \in Int
    OBVIOUS
  <2>2. TypeOK'
    BY <1>1, <2>1 DEF IInv, TypeOK, Rule3, Call, semVars
  <2>3. MutexOwned' /\ TurnOwned' /\ RequestsOK'
    BY <1>1, <2>1 DEF IInv, TypeOK, MutexOwned, TurnOwned, RequestsOK, Call, semVars
  <2> QED BY <2>2, <2>3 DEF IInv
<1>2. CASE TakeTurn(w) \/ Enter(w) \/ Wait(w) \/ Wake(w) \/ Reacquire(w)
  <2>1. TypeOK'
    BY <1>2 DEF IInv, TypeOK, Rule3, TakeTurn, Enter, Wait, Wake, Reacquire
  <2>2. MutexOwned'
    BY <1>2 DEF IInv, TypeOK, MutexOwned, TakeTurn, Enter, Wait, Wake, Reacquire
  <2>3. TurnOwned' /\ RequestsOK'
    BY <1>2 DEF IInv, TypeOK, TurnOwned, RequestsOK, TakeTurn, Enter, Wait, Wake, Reacquire
  <2> QED BY <2>1, <2>2, <2>3 DEF IInv
<1>3. CASE Take(w)
  <2>1. CurCount' \in 0 .. MaxCount
    BY <1>3 DEF IInv, TypeOK, Rule3, RequestsOK, Take
  <2>2. TypeOK'
    BY <1>3, <2>1 DEF IInv, TypeOK, Rule3, Take
  <2>3. MutexOwned' /\ RequestsOK'
    BY <1>3 DEF IInv, TypeOK, MutexOwned, RequestsOK, Take
  <2>4. TurnOwned'
    BY <1>3 DEF IInv, TypeOK, TurnOwned, Take
  <2> QED BY <2>2, <2>3, <2>4 DEF IInv
<1>4. CASE TimeOut(w)
  <2>1. TypeOK'
    BY <1>4 DEF IInv, TypeOK, Rule3, TimeOut
  <2>2. MutexOwned' /\ TurnOwned' /\ RequestsOK'
    BY <1>4 DEF IInv, TypeOK, MutexOwned, TurnOwned, RequestsOK, TimeOut
  <2> QED BY <2>1, <2>2 DEF IInv
<1> QED BY <1>1, <1>2, <1>3, <1>4 DEF Proceed

LEMMA NextIInv == NoOverflow /\ IInv /\ [Next]_vars => IInv'
<1> SUFFICES ASSUME NoOverflow, IInv, [Next]_vars PROVE IInv'
  OBVIOUS
<1>1. CASE UNCHANGED vars
  BY <1>1 DEF vars, semVars, eventVars, turnVars, IInv, TypeOK, Rule3, MutexOwned, TurnOwned, RequestsOK
<1> QED
  BY <1>1, ReleaserStep, WaiterStep DEF Next

(***************************************************************************)
(* IInv is an invariant when no release can overflow a LONG.               *)
(***************************************************************************)
THEOREM Invariance == NoOverflow => (Spec => []IInv)
<1> SUFFICES ASSUME NoOverflow PROVE Spec => []IInv
  OBVIOUS
<1> QED
  BY InitIInv, NextIInv, PTL DEF Spec

(***************************************************************************)
(* Rule 3 and the types: the count stays between 0 and the maximum.        *)
(***************************************************************************)
THEOREM CountInRange == NoOverflow => (Spec => []TypeOK)
<1> SUFFICES ASSUME NoOverflow PROVE Spec => []TypeOK
  OBVIOUS
<1>1. IInv => TypeOK
  BY DEF IInv
<1> QED
  BY <1>1, Invariance, PTL

(***************************************************************************)
(* A signal is lost only with a thread whose wait for hMutex times out.    *)
(***************************************************************************)
THEOREM SignalsNeverLost == NoOverflow => (Spec => []NoLostSignal)
<1> SUFFICES ASSUME NoOverflow PROVE Spec => []NoLostSignal
  OBVIOUS
<1>1. Init => NoLostSignal
  BY SemaphoreAssumption DEF Init, CreateSemaphoreMW, NoLostSignal
<1>2. IInv /\ NoLostSignal /\ [Next]_vars => NoLostSignal'
  <2> SUFFICES ASSUME IInv, NoLostSignal, [Next]_vars PROVE NoLostSignal'
    OBVIOUS
  <2> USE DEF NoLostSignal, Goto, Return, SetEventIf, eventVars, turnVars
  <2>1. pc \in [Callers -> PCs] /\ Waiters \subseteq Callers
    BY DEF IInv, TypeOK, Callers
  <2>2. CASE UNCHANGED vars
    BY <2>2 DEF vars, semVars
  <2>3. ASSUME NEW r \in Releasers,
               (\E n \in Units : CallRelease(r, n)) \/ ReleaseSemaphoreMW(r)
        PROVE  NoLostSignal'
    <3>1. r \notin Waiters
      BY SemaphoreAssumption
    <3> QED BY <2>1, <2>3, <3>1 DEF CallRelease, ReleaseSemaphoreMW
  <2>4. ASSUME NEW w \in Waiters, (\E n \in Units : Call(w, n)) \/ Proceed(w) \/ TimeOut(w)
        PROVE  NoLostSignal'
    <3>1. CASE \E n \in Units : Call(w, n)
      BY <2>1, <3>1 DEF Call, semVars
    <3>2. CASE Proceed(w)
      BY <2>1, <3>2 DEF Proceed, TakeTurn, Enter, Wait, Wake, Reacquire, Take
    <3>3. CASE TimeOut(w)
      BY <3>3 DEF TimeOut
    <3> QED BY <2>4, <3>1, <3>2, <3>3
  <2> QED BY <2>2, <2>3, <2>4 DEF Next
<1> QED
  BY <1>1, <1>2, Invariance, PTL DEF Spec

(***************************************************************************)
(* With the first-come rule nobody is overtaken, whoever times out.        *)
(***************************************************************************)
THEOREM TurnsAreKept == NoOverflow => (Spec => FirstComeFirstServed)
<1> SUFFICES ASSUME NoOverflow PROVE Spec => FirstComeFirstServed
  OBVIOUS
<1> DEFINE Step == fFirstComeFirstServed =>
                     \A v \in Waiters : Take(v) =>
                       \A w \in Waiters \ {v} : pc[w] \notin Served
<1>1. IInv => [Step]_vars
  <2> SUFFICES ASSUME IInv, fFirstComeFirstServed, NEW v \in Waiters, Take(v),
                      NEW w \in Waiters \ {v}
               PROVE  pc[w] \notin Served
    OBVIOUS
  <2> QED BY DEF IInv, TurnOwned, Take, Served
<1> QED
  BY <1>1, Invariance, PTL DEF FirstComeFirstServed

-----------------------------------------------------------------------------
(* The named semaphores *)

NamedSpec == NamedInit /\ [][NamedNext]_namedVars

OpenerPlaces == {"closed", "found", "open", "counted", "empty", "ended"}

NamedTypes ==
  /\ hSynchDB \in Openers \cup {NoOpener}
  /\ slotName \in [Slots -> SemNames \cup {NoName}]
  /\ RefCount \in [Slots -> Int]
  /\ opener \in [Openers -> OpenerPlaces]
  /\ hShared \in [Openers -> Slots \cup {0}]
  /\ hName \in [Openers -> SemNames \cup {NoName}]

\* The slots of two names are two.
OneSlotPerName ==
  \A s, r \in Slots : slotName[s] = slotName[r] /\ slotName[s] # NoName => s = r

\* Who has found a slot and not counted it has the mutex, so that nobody can
\* take the slot, which is not counted, for free.
FoundUnderLock == \A t \in Openers : opener[t] = "found" => hSynchDB = t

\* A slot that is used has the name it was opened by.
UsedByName ==
  \A t \in Openers : opener[t] \in {"found", "open"} =>
    /\ hName[t] \in SemNames
    /\ hShared[t] # 0 => slotName[hShared[t]] = hName[t]

Users(s) == {t \in Openers : opener[t] = "open" /\ hShared[t] = s}
UsersCounted == \A s \in Slots : Cardinality(Users(s)) <= RefCount[s]

NamedInv ==
  wipedInUse \/ (NamedTypes /\ OneSlotPerName /\ FoundUnderLock /\ UsedByName /\ UsersCounted)

(***************************************************************************)
(* First finds one of the slots it is given.                               *)
(***************************************************************************)
LEMMA FirstIsOne == ASSUME NEW S \in SUBSET Slots, S # {} PROVE First(S) \in S
<1>1. S \subseteq Nat
  BY NamedAssumption DEF Slots
<1>2. PICK s \in S : \A o \in S : s <= o
  BY <1>1, LeastElement
<1> QED
  BY <1>2 DEF First

(***************************************************************************)
(* How many use a slot: as many as before, or one more or less.            *)
(***************************************************************************)
LEMMA UsersFinite == \A s \in Slots : IsFiniteSet(Users(s)) /\ Cardinality(Users(s)) \in Nat
<1> SUFFICES ASSUME NEW s \in Slots PROVE IsFiniteSet(Users(s)) /\ Cardinality(Users(s)) \in Nat
  OBVIOUS
<1>1. Users(s) \subseteq Openers
  BY DEF Users
<1> QED
  BY <1>1, NamedAssumption, FS_Subset, FS_CardinalityType

(***************************************************************************)
(* The search under the mutex takes no slot that is in use, for one that   *)
(* is found and not counted is somebody's who has the mutex.               *)
(***************************************************************************)
LEMMA SearchStep ==
  ASSUME NamedInv, ~wipedInUse, NEW t \in Openers, AllocSynchHandle(t)
  PROVE  NamedInv'
<1> USE DEF NamedInv, NamedTypes, OpenerPlaces
<1>1. PICK n \in SemNames :
        /\ opener[t] = "closed" /\ opener' = [opener EXCEPT ![t] = "found"]
        /\ hSynchDB = NoOpener /\ hSynchDB' = t
        /\ hShared' = [hShared EXCEPT ![t] = FindSlotOf(n)]
        /\ hName' = [hName EXCEPT ![t] = n]
        /\ slotName' = IF FindSlotOf(n) = 0 THEN slotName
                                            ELSE [slotName EXCEPT ![FindSlotOf(n)] = n]
        /\ UNCHANGED <<RefCount, wipedInUse>>
  BY DEF AllocSynchHandle, Search, OpenerGoes
<1> DEFINE s == FindSlotOf(n)
<1>2. /\ s \in Slots \cup {0}
      /\ s # 0 => \/ slotName[s] = n
                  \/ RefCount[s] <= 0 /\ \A r \in Slots : slotName[r] # n
  <2>1. CASE Named(n) # {}
    BY <2>1, FirstIsOne DEF Named, FindSlotOf
  <2>2. CASE Named(n) = {} /\ Empty # {}
    BY <2>2, FirstIsOne DEF Named, Empty, FindSlotOf
  <2>3. CASE Named(n) = {} /\ Empty = {}
    BY <2>3 DEF FindSlotOf
  <2> QED
    BY <2>1, <2>2, <2>3
<1> HIDE DEF s
<1>3. /\ hShared' = [hShared EXCEPT ![t] = s]
      /\ slotName' = IF s = 0 THEN slotName ELSE [slotName EXCEPT ![s] = n]
  BY <1>1 DEF s
<1>4. \A u \in Openers : opener[u] # "found"
  BY <1>1, NamedAssumption DEF FoundUnderLock
<1>5. \A u \in Openers : opener[u] = "open" /\ hShared[u] # 0 /\ hShared[u] = s => slotName[s] = n
  <2> SUFFICES ASSUME NEW u \in Openers, opener[u] = "open", hShared[u] # 0, hShared[u] = s
               PROVE  ~(RefCount[s] <= 0)
    BY <1>2
  <2>1. s \in Slots /\ u \in Users(s)
    BY <1>2 DEF Users
  <2>2. Cardinality(Users(s)) # 0
    BY <2>1, UsersFinite, FS_EmptySet
  <2> QED
    BY <2>1, <2>2, UsersFinite DEF UsersCounted
<1>6. NamedTypes'
  BY <1>1, <1>2, <1>3, NamedAssumption
<1>7. OneSlotPerName'
  BY <1>2, <1>3, NamedAssumption DEF OneSlotPerName
<1>8. FoundUnderLock'
  BY <1>1, <1>4 DEF FoundUnderLock
<1>9. UsedByName'
  <2> SUFFICES ASSUME NEW u \in Openers, opener'[u] \in {"found", "open"}
               PROVE  hName'[u] \in SemNames /\ (hShared'[u] # 0 => slotName'[hShared'[u]] = hName'[u])
    BY DEF UsedByName
  <2>1. CASE u = t
    BY <2>1, <1>1, <1>2, <1>3
  <2>2. CASE u # t
    BY <2>2, <1>1, <1>2, <1>3, <1>5, <1>4 DEF UsedByName
  <2> QED
    BY <2>1, <2>2
<1>10. UsersCounted'
  <2>1. \A r \in Slots : Users(r)' = Users(r)
    BY <1>1, <1>3 DEF Users
  <2> QED
    BY <2>1, <1>1 DEF UsersCounted
<1> QED
  BY <1>6, <1>7, <1>8, <1>9, <1>10

(***************************************************************************)
(* A handle is counted before the mutex is given back.                     *)
(***************************************************************************)
LEMMA AddStep ==
  ASSUME NamedInv, ~wipedInUse, NEW t \in Openers, AddReference(t)
  PROVE  NamedInv'
<1> USE DEF NamedInv, NamedTypes, OpenerPlaces
<1> DEFINE s == hShared[t]
<1>1. /\ opener[t] = "found" /\ opener' = [opener EXCEPT ![t] = "open"]
      /\ RefCount' = IF s = 0 THEN RefCount ELSE [RefCount EXCEPT ![s] = RefCount[s] + 1]
      /\ hSynchDB = t /\ hSynchDB' = NoOpener
      /\ UNCHANGED <<slotName, hShared, hName, wipedInUse>>
  BY DEF AddReference, OpenerGoes, Count, Unlock, FoundUnderLock
<1>2. s \in Slots \cup {0}
  OBVIOUS
<1> HIDE DEF s
<1>3. NamedTypes'
  BY <1>1, <1>2
<1>4. OneSlotPerName'
  BY <1>1 DEF OneSlotPerName
<1>5. FoundUnderLock'
  BY <1>1 DEF FoundUnderLock
<1>6. UsedByName'
  BY <1>1 DEF UsedByName
<1>7. UsersCounted'
  <2> SUFFICES ASSUME NEW r \in Slots PROVE Cardinality(Users(r)') <= RefCount'[r]
    BY DEF UsersCounted
  <2>1. CASE r = s
    <3>1. Users(r)' = Users(r) \cup {t} /\ t \notin Users(r)
      BY <2>1, <1>1 DEF Users, s
    <3>2. RefCount'[r] = RefCount[r] + 1
      BY <2>1, <1>1, <1>2, NamedAssumption DEF Slots
    <3>3. Cardinality(Users(r)') = Cardinality(Users(r)) + 1
      BY <3>1, UsersFinite, FS_AddElement
    <3>4. Cardinality(Users(r)) <= RefCount[r] /\ RefCount[r] \in Int
      BY DEF UsersCounted
    <3> QED
      BY <3>2, <3>3, <3>4, UsersFinite
  <2>2. CASE r # s
    <3>1. Users(r)' = Users(r)
      BY <2>2, <1>1 DEF Users, s
    <3>2. RefCount'[r] = RefCount[r]
      BY <2>2, <1>1, <1>2
    <3> QED
      BY <3>1, <3>2 DEF UsersCounted
  <2> QED
    BY <2>1, <2>2
<1> QED
  BY <1>3, <1>4, <1>5, <1>6, <1>7

(***************************************************************************)
(* Without the mutex: one handle less is one reference less, and a slot    *)
(* loses its name when nobody uses it, or wipedInUse says otherwise.       *)
(***************************************************************************)
LEMMA CloseStep ==
  ASSUME NamedInv, ~wipedInUse, NEW t \in Openers,
         RemoveReference(t) \/ TestReferences(t) \/ EmptySlot(t) \/ ProcessEnds(t),
         ~wipedInUse'
  PROVE  NamedInv'
<1> USE DEF NamedInv, NamedTypes, OpenerPlaces
<1> DEFINE s == hShared[t]
<1>1. /\ \A u \in Openers \ {t} : /\ opener'[u] = opener[u] /\ hShared'[u] = hShared[u]
                                  /\ hName'[u] = hName[u]
      /\ opener'[t] \notin {"found", "open"}
      /\ opener' \in [Openers -> OpenerPlaces]
      /\ hShared' \in [Openers -> Slots \cup {0}]
      /\ hName' \in [Openers -> SemNames \cup {NoName}]
  <2>1. CASE RemoveReference(t)
    BY <2>1 DEF RemoveReference, OpenerGoes, FreeHandle
  <2>2. CASE TestReferences(t)
    BY <2>2 DEF TestReferences, OpenerGoes, FreeHandle
  <2>3. CASE EmptySlot(t) \/ ProcessEnds(t)
    BY <2>3 DEF EmptySlot, ProcessEnds, FreeHandle
  <2> QED
    BY <2>1, <2>2, <2>3
<1>2. hSynchDB' = hSynchDB \/ (hSynchDB = t /\ hSynchDB' = NoOpener)
  BY DEF RemoveReference, TestReferences, EmptySlot, ProcessEnds, Unlock
<1>3. s \in Slots \cup {0}
  OBVIOUS
<1>4. \/ UNCHANGED <<slotName, RefCount>>
      \/ /\ opener[t] = "open" /\ s # 0 /\ UNCHANGED slotName
         /\ RefCount' = [RefCount EXCEPT ![s] = RefCount[s] - 1]
      \/ /\ slotName' = [slotName EXCEPT ![s] = NoName] /\ RefCount' = [RefCount EXCEPT ![s] = 0]
         /\ opener[t] = "empty"
         /\ \A u \in Openers : opener[u] \in {"found", "open"} => hShared[u] # s
  <2>1. CASE RemoveReference(t)
    BY <2>1 DEF RemoveReference, Count, OpenerGoes
  <2>2. CASE TestReferences(t) \/ ProcessEnds(t)
    BY <2>2 DEF TestReferences, ProcessEnds
  <2>3. CASE EmptySlot(t)
    BY <2>3 DEF EmptySlot, InUse
  <2> QED
    BY <2>1, <2>2, <2>3
<1> HIDE DEF s
<1>5. NamedTypes'
  BY <1>1, <1>2, <1>3, <1>4
<1>6. OneSlotPerName'
  BY <1>3, <1>4 DEF OneSlotPerName
<1>7. FoundUnderLock'
  BY <1>1, <1>2 DEF FoundUnderLock
<1>8. UsedByName'
  <2> SUFFICES ASSUME NEW u \in Openers \ {t}, opener[u] \in {"found", "open"}, hShared[u] # 0
               PROVE  slotName'[hShared[u]] = slotName[hShared[u]]
    BY <1>1 DEF UsedByName
  <2> QED
    BY <1>3, <1>4
<1>9. UsersCounted'
  <2> SUFFICES ASSUME NEW r \in Slots PROVE Cardinality(Users(r)') <= RefCount'[r]
    BY DEF UsersCounted
  <2>1. Users(r)' = Users(r) \ {t}
    BY <1>1 DEF Users
  <2>2. Cardinality(Users(r)') = IF t \in Users(r) THEN Cardinality(Users(r)) - 1
                                                   ELSE Cardinality(Users(r))
    BY <2>1, UsersFinite, FS_RemoveElement
  <2>3. CASE r # s \/ RefCount' = RefCount
    <3>1. RefCount'[r] = RefCount[r]
      BY <2>3, <1>3, <1>4
    <3> QED
      BY <3>1, <2>2, UsersFinite DEF UsersCounted
  <2>4. CASE r = s /\ opener[t] = "open" /\ RefCount' = [RefCount EXCEPT ![s] = RefCount[s] - 1]
    <3>1. t \in Users(r)
      BY <2>4 DEF Users, s
    <3>2. RefCount'[r] = RefCount[r] - 1
      BY <2>4
    <3> QED
      BY <3>1, <3>2, <2>2, UsersFinite DEF UsersCounted
  <2>5. CASE /\ r = s /\ RefCount' = [RefCount EXCEPT ![s] = 0]
             /\ \A u \in Openers : opener[u] \in {"found", "open"} => hShared[u] # s
    <3>1. Users(r) = {}
      BY <2>5 DEF Users
    <3> QED
      BY <2>5, <3>1, <2>1, FS_EmptySet
  <2> QED
    BY <1>4, <2>3, <2>4, <2>5
<1> QED
  BY <1>5, <1>6, <1>7, <1>8, <1>9

(***************************************************************************)
(* One name has one slot, two names have two, and a slot counts at least   *)
(* its handles, for any processes that open, close and end at any time, in *)
(* a table of any size; until a slot is emptied in use.                    *)
(***************************************************************************)
THEOREM NamesKeepTheirSlots == NamedSpec => []NamesInOneSlot
<1>1. NamedInit => NamedInv
  <2> SUFFICES ASSUME NamedInit PROVE NamedInv
    OBVIOUS
  <2>1. \A s \in Slots : Users(s) = {} /\ Cardinality(Users(s)) = 0
    BY FS_EmptySet DEF Users, NamedInit
  <2> QED
    BY <2>1 DEF NamedInit, NamedInv, NamedTypes, OpenerPlaces, OneSlotPerName, FoundUnderLock,
       UsedByName, UsersCounted
<1>2. NamedInv /\ [NamedNext]_namedVars => NamedInv'
  <2> SUFFICES ASSUME NamedInv, [NamedNext]_namedVars PROVE NamedInv'
    OBVIOUS
  <2>1. CASE NamedNext
    <3>1. CASE wipedInUse'
      BY <3>1 DEF NamedInv
    <3>2. CASE ~wipedInUse'
      BY <2>1, <3>2, SearchStep, AddStep, CloseStep DEF NamedNext
    <3> QED
      BY <3>1, <3>2
  <2>2. CASE UNCHANGED namedVars
    BY <2>2 DEF namedVars, NamedInv, NamedTypes, OneSlotPerName, FoundUnderLock, UsedByName,
       UsersCounted, Users
  <2> QED
    BY <2>1, <2>2
<1>3. NamedInv => NamesInOneSlot
  <2> SUFFICES ASSUME NamedInv, ~wipedInUse PROVE NamesInOneSlot
    BY DEF NamesInOneSlot
  <2>1. \A t, u \in {r \in Openers : Refers(r)} :
          /\ slotName[hShared[t]] = hName[t]
          /\ hName[t] = hName[u] <=> hShared[t] = hShared[u]
    BY NamedAssumption DEF NamedInv, NamedTypes, OneSlotPerName, UsedByName, Refers
  <2>2. \A s \in Slots : {t \in Openers : Refers(t) /\ hShared[t] = s} = Users(s)
    BY NamedAssumption DEF Users, Refers, Slots
  <2> QED
    BY <2>1, <2>2 DEF NamesInOneSlot, NamedInv, UsersCounted
<1> QED
  BY <1>1, <1>2, <1>3, PTL DEF NamedSpec

-----------------------------------------------------------------------------
(* TestMultiSem.c: what its threads count. *)

(***************************************************************************)
(* A thread counts what it has moved before it calls again, and the        *)
(* handler releases one unit at a time.                                    *)
(***************************************************************************)
TestTypes ==
  /\ NumProduced \in Int /\ NumConsumed \in Int /\ given \in Int
  /\ uncounted \in [Callers -> Int]
  /\ place \in [Loopers -> {"test", "body", "done"}]

CountedFirst ==
  /\ \A t \in Callers : pc[t] # "out" => uncounted[t] = 0
  /\ \A t \in Loopers : place[t] = "body" => pc[t] = "out" /\ uncounted[t] = 0
  /\ pc[Handler] = "in" => cSemRequest[Handler] = 1
  /\ uncounted[Handler] = 0

TestInv == IInv /\ TestTypes /\ CountedFirst /\ UnitsConserved

\* The threads are finitely many, and the handler's one unit is a request
\* like others.
TestAssumption == NoOverflow /\ IsFiniteSet(Callers) /\ 1 \in Units

LEMMA UncountedSums ==
  ASSUME NEW S
  PROVE  /\ Uncounted(S) = SumOf(uncounted, S)
         /\ Uncounted(S)' = SumOf(uncounted', S)
BY DEF Uncounted, SumOf, FoldSet, MapThenFoldSet

(***************************************************************************)
(* When only t counts, the sum of its side changes by as much.             *)
(***************************************************************************)
LEMMA UncountedChanges ==
  ASSUME TestAssumption, TestTypes, TestTypes', NEW t \in Callers,
         \A u \in Callers \ {t} : uncounted'[u] = uncounted[u],
         NEW S \in SUBSET Callers
  PROVE  /\ Uncounted(S)' = Uncounted(S) + (IF t \in S THEN uncounted'[t] - uncounted[t] ELSE 0)
         /\ Uncounted(S) \in Int
<1>1. IsFiniteSet(S)
  BY FS_Subset DEF TestAssumption
<1>2. /\ \A u \in S : uncounted[u] \in Int /\ uncounted'[u] \in Int
      /\ \A u \in S \ {t} : uncounted'[u] = uncounted[u]
  BY DEF TestTypes
<1>3. /\ SumOf(uncounted', S) = SumOf(uncounted, S)
                                  + (IF t \in S THEN uncounted'[t] - uncounted[t] ELSE 0)
      /\ SumOf(uncounted, S) \in Int
  BY <1>1, <1>2, SumChanges
<1> QED
  BY <1>3, UncountedSums

LEMMA TestBegins == TestAssumption /\ TestInit => TestInv
<1> SUFFICES ASSUME TestAssumption, TestInit PROVE TestInv
  OBVIOUS
<1>1. IInv
  BY InitIInv DEF TestInit
<1>2. TestTypes /\ CountedFirst
  BY SemaphoreAssumption, HandlerAssumption
     DEF TestInit, TestTypes, CountedFirst, Loopers, Producers, Callers, Init, CreateSemaphoreMW
<1>3. \A S \in SUBSET Callers : Uncounted(S) = 0
  <2> SUFFICES ASSUME NEW S \in SUBSET Callers PROVE Uncounted(S) = 0
    OBVIOUS
  <2>1. IsFiniteSet(S) /\ \A u \in S : uncounted[u] = 0
    BY FS_Subset DEF TestAssumption, TestInit
  <2> QED
    BY <2>1, SumOfZeros, UncountedSums
<1>4. UnitsConserved
  BY <1>3, SemaphoreAssumption
     DEF UnitsConserved, TestInit, Producers, Callers, Init, CreateSemaphoreMW
<1> QED
  BY <1>1, <1>2, <1>4 DEF TestInv

(***************************************************************************)
(* What a step of one thread does to the two sides of the balance.         *)
(***************************************************************************)
Balanced(t) ==
  LET change == uncounted'[t] - uncounted[t] IN
  /\ \A u \in Callers \ {t} : uncounted'[u] = uncounted[u]
  /\ CurCount' \in Int
  /\ (NumProduced' + given') - (NumProduced + given) + (IF t \in Producers THEN change ELSE 0)
       = (NumConsumed' + CurCount') - (NumConsumed + CurCount)
           + (IF t \in Waiters THEN change ELSE 0)

LEMMA BothSidesChange ==
  ASSUME NEW r \in Int, NEW r2 \in Int, NEW p \in Int, NEW p2 \in Int,
         NEW u \in Int, NEW v \in Int, NEW m \in Int, NEW n \in Int,
         r2 - r + m = p2 - p + n, r + u = p + v
  PROVE  r2 + (u + m) = p2 + (v + n)
OBVIOUS

LEMMA BalanceKept ==
  ASSUME TestAssumption, TestInv, TestTypes', NEW t \in Callers, Balanced(t)
  PROVE  UnitsConserved'
<1>1. Producers \in SUBSET Callers /\ Waiters \in SUBSET Callers
  BY DEF Producers, Callers
<1> DEFINE change == uncounted'[t] - uncounted[t]
           made == IF t \in Producers THEN change ELSE 0
           taken == IF t \in Waiters THEN change ELSE 0
<1>2. /\ Uncounted(Producers)' = Uncounted(Producers) + made
      /\ Uncounted(Waiters)' = Uncounted(Waiters) + taken
      /\ Uncounted(Producers) \in Int /\ Uncounted(Waiters) \in Int
  BY <1>1, UncountedChanges DEF TestInv, Balanced
<1>3. made \in Int /\ taken \in Int
  BY DEF TestInv, TestTypes
<1>4. /\ NumProduced \in Int /\ NumConsumed \in Int /\ given \in Int /\ CurCount \in Int
      /\ NumProduced' \in Int /\ NumConsumed' \in Int /\ given' \in Int /\ CurCount' \in Int
  BY DEF TestInv, TestTypes, IInv, TypeOK, Rule3, Balanced
<1> DEFINE released == NumProduced + given
           released2 == NumProduced' + given'
           present == NumConsumed + CurCount
           present2 == NumConsumed' + CurCount'
<1>5. released2 - released + made = present2 - present + taken
  BY DEF Balanced
<1>6. released + Uncounted(Producers) = present + Uncounted(Waiters)
  BY <1>2, <1>4 DEF TestInv, UnitsConserved
<1>7. released \in Int /\ released2 \in Int /\ present \in Int /\ present2 \in Int
  BY <1>4
<1>8. released2 + (Uncounted(Producers) + made) = present2 + (Uncounted(Waiters) + taken)
  <2> DEFINE u == Uncounted(Producers)
             v == Uncounted(Waiters)
  <2>1. /\ u \in Int /\ v \in Int /\ made \in Int /\ taken \in Int
        /\ released + u = present + v
    BY <1>2, <1>3, <1>6
  <2> HIDE DEF u, v, made, taken, released, released2, present, present2
  <2>2. released2 + (u + made) = present2 + (v + taken)
    BY <1>5, <1>7, <2>1, BothSidesChange
  <2> QED
    BY <2>2 DEF u, v
<1>9. released2 + Uncounted(Producers)' = present2 + Uncounted(Waiters)'
  BY <1>2, <1>8
<1>10. Uncounted(Producers)' \in Int /\ Uncounted(Waiters)' \in Int
  <2> HIDE DEF made, taken
  <2> QED
    BY <1>2, <1>3
<1> QED
  BY <1>4, <1>9, <1>10 DEF UnitsConserved

\* A step in the semaphore of thread t, while nobody counts.
LEMMA ConsumerTurn ==
  ASSUME TestAssumption, TestInv, NEW w \in Waiters, ConsumerTh(w)
  PROVE  TestInv'
<1> USE SemaphoreAssumption, HandlerAssumption DEF Goto, Return, Producers, Loopers, Callers
<1>0. NoOverflow /\ IInv /\ TestTypes /\ CountedFirst /\ w \in Callers /\ w \in Loopers
      /\ w # Handler /\ w \notin Producers
  BY DEF TestInv, TestAssumption
<1>1. CASE Loop(w)
  <2>1. IInv'
    BY <1>0, <1>1 DEF Loop, IInv, TypeOK, Rule3, MutexOwned, TurnOwned, RequestsOK, eventVars, turnVars,
       Served, PCs
  <2>2. TestTypes' /\ CountedFirst'
    BY <1>0, <1>1 DEF Loop, TestTypes, CountedFirst, countVars, exitVars
  <2>3. Balanced(w)
    BY <1>0, <1>1 DEF Loop, Balanced, countVars, exitVars, TestTypes, IInv, TypeOK, Rule3
  <2> QED
    BY <1>0, <2>1, <2>2, <2>3, BalanceKept DEF TestInv
<1>2. ASSUME NEW n \in Units, ConsumerCall(w, n)
      PROVE  TestInv'
  <2>1. IInv'
    BY <1>0, <1>2, WaiterStep DEF ConsumerCall
  <2>2. pc \in [Callers -> PCs] /\ cSemRequest \in [Callers -> Int] /\ w # Handler
    BY <1>0 DEF IInv, TypeOK
  <2>3. TestTypes' /\ CountedFirst'
    BY <1>0, <1>2, <2>2 DEF ConsumerCall, Call, EnterCall, TestTypes, CountedFirst, countVars,
       exitVars, semVars
  <2>4. Balanced(w)
    BY <1>0, <1>2 DEF ConsumerCall, Call, EnterCall, Balanced, countVars, exitVars, semVars,
       TestTypes, IInv, TypeOK, Rule3
  <2> QED
    BY <1>0, <2>1, <2>3, <2>4, BalanceKept DEF TestInv
<1>3. CASE ConsumerStep(w)
  <2>1. IInv'
    BY <1>0, <1>3, WaiterStep DEF ConsumerStep
  <2>2. /\ pc \in [Callers -> PCs] /\ pc' \in [Callers -> PCs] /\ result \in [Callers -> Results]
        /\ cSemRequest \in [Callers -> Int] /\ CurCount \in Int /\ CurCount' \in Int
    BY <1>0, <2>1 DEF IInv, TypeOK, Rule3
  <2>3. /\ pc[w] # "out" /\ cSemRequest' = cSemRequest
        /\ \A u \in Callers \ {w} : pc'[u] = pc[u]
        /\ CurCount' = CurCount
             - (IF pc'[w] = "out" /\ result'[w] = "ok" THEN cSemRequest[w] ELSE 0)
    <3>1. CASE TakeTurn(w) \/ Enter(w) \/ Wait(w) \/ Wake(w) \/ Reacquire(w)
      BY <2>2, <3>1 DEF TakeTurn, Enter, Wait, Wake, Reacquire
    <3>2. CASE Take(w)
      BY <2>2, <3>2 DEF Take
    <3>3. CASE TimeOut(w)
      BY <2>2, <3>3 DEF TimeOut
    <3> QED
      BY <1>3, <3>1, <3>2, <3>3 DEF ConsumerStep, Proceed
  <2>4. uncounted[w] = 0
    BY <1>0, <2>3 DEF CountedFirst
  <2>5. TestTypes'
    BY <1>0, <1>3, <2>2 DEF ConsumerStep, TestTypes, exitVars
  <2>6. CountedFirst'
    BY <1>0, <1>3, <2>2, <2>3 DEF ConsumerStep, CountedFirst, TestTypes, exitVars
  <2>7. Balanced(w)
    BY <1>0, <1>3, <2>2, <2>3, <2>4 DEF ConsumerStep, Balanced, TestTypes, exitVars
  <2> QED
    BY <1>0, <2>1, <2>5, <2>6, <2>7, BalanceKept DEF TestInv
<1>4. CASE ConsumerCount(w)
  <2>1. IInv'
    BY <1>0, <1>4, NextIInv DEF ConsumerCount
  <2>2. TestTypes' /\ CountedFirst'
    BY <1>0, <1>4 DEF ConsumerCount, TestTypes, CountedFirst, exitVars, vars
  <2>3. Balanced(w)
    BY <1>0, <1>4 DEF ConsumerCount, Balanced, TestTypes, exitVars, vars, semVars, IInv, TypeOK, Rule3
  <2> QED
    BY <1>0, <2>1, <2>2, <2>3, BalanceKept DEF TestInv
<1> QED
  BY <1>1, <1>2, <1>3, <1>4 DEF ConsumerTh

(***************************************************************************)
(* A release that succeeds adds the units asked for to the count, another  *)
(* none.                                                                   *)
(***************************************************************************)
Released(r) ==
  /\ pc[r] = "in" /\ pc \in [Callers -> PCs] /\ pc' = [pc EXCEPT ![r] = "out"]
  /\ cSemRequest' = cSemRequest /\ cSemRequest[r] \in Int
  /\ CurCount \in Int /\ CurCount' \in Int
  /\ CurCount' = CurCount + (IF result'[r] = "ok" THEN cSemRequest[r] ELSE 0)

LEMMA ReleaseAdds ==
  ASSUME NoOverflow, IInv, NEW r \in Releasers, ReleaseSemaphoreMW(r)
  PROVE  Released(r)
<1>1. /\ pc \in [Callers -> PCs] /\ result \in [Callers -> Results] /\ r \in Callers
      /\ CurCount \in 0 .. MaxCount /\ cSemRequest[r] \in Int
  BY SemaphoreAssumption DEF IInv, TypeOK, Rule3, Callers
<1>2. pc[r] = "in" /\ pc' = [pc EXCEPT ![r] = "out"] /\ cSemRequest' = cSemRequest
  BY DEF ReleaseSemaphoreMW, Return, Goto
<1>3. LongAdd(CurCount, cSemRequest[r]) = CurCount + cSemRequest[r]
  BY <1>1, <1>2, LongAddIsSum DEF IInv, RequestsOK
<1>4. CurCount \in Int /\ CurCount + cSemRequest[r] \in Int
  BY <1>1, SemaphoreAssumption
<1>5. \/ result'[r] = "failed" /\ CurCount' = CurCount
      \/ result'[r] = "ok" /\ CurCount' = LongAdd(CurCount, cSemRequest[r])
  BY <1>1 DEF ReleaseSemaphoreMW, Return, Goto
<1>6. CurCount' = CurCount + (IF result'[r] = "ok" THEN cSemRequest[r] ELSE 0)
  BY <1>3, <1>4, <1>5
<1> QED
  BY <1>1, <1>2, <1>4, <1>5, <1>6 DEF Released

LEMMA ProducerTurn ==
  ASSUME TestAssumption, TestInv, NEW r \in Producers, ProducerTh(r)
  PROVE  TestInv'
<1> USE SemaphoreAssumption, HandlerAssumption DEF Goto, Return, Loopers, Callers
<1>0. NoOverflow /\ IInv /\ TestTypes /\ CountedFirst /\ r \in Callers /\ r \in Loopers
      /\ r # Handler /\ r \notin Waiters /\ r \in Releasers
  BY DEF TestInv, TestAssumption, Producers
<1>1. CASE Loop(r)
  <2>1. IInv'
    BY <1>0, <1>1 DEF Loop, IInv, TypeOK, Rule3, MutexOwned, TurnOwned, RequestsOK, eventVars, turnVars,
       Served, PCs
  <2>2. TestTypes' /\ CountedFirst'
    BY <1>0, <1>1 DEF Loop, TestTypes, CountedFirst, countVars, exitVars
  <2>3. Balanced(r)
    BY <1>0, <1>1 DEF Loop, Balanced, countVars, exitVars, TestTypes, IInv, TypeOK, Rule3
  <2> QED
    BY <1>0, <2>1, <2>2, <2>3, BalanceKept DEF TestInv
<1>2. ASSUME NEW n \in Units, ProducerCall(r, n)
      PROVE  TestInv'
  <2>1. IInv'
    BY <1>0, <1>2, ReleaserStep DEF ProducerCall
  <2>2. pc \in [Callers -> PCs] /\ cSemRequest \in [Callers -> Int]
    BY <1>0 DEF IInv, TypeOK
  <2>3. TestTypes' /\ CountedFirst'
    BY <1>0, <1>2, <2>2 DEF ProducerCall, CallRelease, EnterCall, TestTypes, CountedFirst, countVars,
       exitVars
  <2>4. Balanced(r)
    BY <1>0, <1>2 DEF ProducerCall, CallRelease, EnterCall, Balanced, countVars, exitVars,
       TestTypes, IInv, TypeOK, Rule3
  <2> QED
    BY <1>0, <2>1, <2>3, <2>4, BalanceKept DEF TestInv
<1>3. CASE ProducerRelease(r)
  <2>1. IInv'
    BY <1>0, <1>3, ReleaserStep DEF ProducerRelease
  <2>2. Released(r)
    BY <1>0, <1>3, ReleaseAdds DEF ProducerRelease
  <2>3. uncounted[r] = 0
    BY <1>0, <2>2 DEF CountedFirst, Released
  <2>4. TestTypes' /\ CountedFirst'
    BY <1>0, <1>3, <2>2 DEF ProducerRelease, Released, TestTypes, CountedFirst, exitVars
  <2>5. Balanced(r)
    BY <1>0, <1>3, <2>2, <2>3 DEF ProducerRelease, Released, Balanced, TestTypes, exitVars
  <2> QED
    BY <1>0, <2>1, <2>4, <2>5, BalanceKept DEF TestInv
<1>4. CASE ProducerCount(r)
  <2>1. IInv'
    BY <1>0, <1>4, NextIInv DEF ProducerCount
  <2>2. TestTypes' /\ CountedFirst'
    BY <1>0, <1>4 DEF ProducerCount, TestTypes, CountedFirst, exitVars, vars
  <2>3. Balanced(r)
    BY <1>0, <1>4 DEF ProducerCount, Balanced, TestTypes, exitVars, vars, semVars, IInv, TypeOK, Rule3
  <2> QED
    BY <1>0, <2>1, <2>2, <2>3, BalanceKept DEF TestInv
<1> QED
  BY <1>1, <1>2, <1>3, <1>4 DEF ProducerTh

LEMMA HandlerTurn ==
  ASSUME TestAssumption, TestInv, CtrlcHandler
  PROVE  TestInv'
<1> USE SemaphoreAssumption, HandlerAssumption DEF Goto, Return, Loopers, Callers, Producers
<1>0. NoOverflow /\ IInv /\ TestTypes /\ CountedFirst /\ Handler \in Callers /\ Handler \in Releasers
      /\ Handler \notin Loopers /\ Handler \notin Waiters /\ Handler \notin Producers /\ 1 \in Units
  BY DEF TestInv, TestAssumption
<1>1. CASE CtrlC
  <2>1. IInv' /\ TestTypes' /\ CountedFirst'
    BY <1>0, <1>1, NextIInv DEF CtrlC, TestTypes, CountedFirst, countVars, vars
  <2>2. Balanced(Handler)
    BY <1>0, <1>1 DEF CtrlC, Balanced, TestTypes, countVars, vars, semVars, IInv, TypeOK, Rule3
  <2> QED
    BY <1>0, <2>1, <2>2, BalanceKept DEF TestInv
<1>2. CASE HandlerCall
  <2>1. IInv'
    BY <1>0, <1>2, ReleaserStep DEF HandlerCall
  <2>2. pc \in [Callers -> PCs] /\ cSemRequest \in [Callers -> Int]
    BY <1>0 DEF IInv, TypeOK
  <2>3. TestTypes' /\ CountedFirst'
      BY <1>0, <1>2, <2>2 DEF HandlerCall, CallRelease, TestTypes, CountedFirst, countVars, exitVars
  <2>4. Balanced(Handler)
    BY <1>0, <1>2 DEF HandlerCall, CallRelease, Balanced, countVars, exitVars, TestTypes, IInv, TypeOK, Rule3
  <2> QED
    BY <1>0, <2>1, <2>3, <2>4, BalanceKept DEF TestInv
<1>3. CASE HandlerRelease
  <2>1. IInv'
    BY <1>0, <1>3, ReleaserStep DEF HandlerRelease
  <2>2. Released(Handler)
    BY <1>0, <1>3, ReleaseAdds DEF HandlerRelease
  <2>3. TestTypes' /\ CountedFirst'
    BY <1>0, <1>3, <2>2 DEF HandlerRelease, Released, TestTypes, CountedFirst, countVars
  <2>4. Balanced(Handler)
    BY <1>0, <1>3, <2>2 DEF HandlerRelease, Released, Balanced, TestTypes, CountedFirst, countVars
  <2> QED
    BY <1>0, <2>1, <2>3, <2>4, BalanceKept DEF TestInv
<1> QED
  BY <1>1, <1>2, <1>3 DEF CtrlcHandler

(***************************************************************************)
(* TestMultiSem.c: no unit is made or lost, whoever waits, times out or is *)
(* interrupted; for any number of threads and units, in the two uses of    *)
(* the semaphore that the run chooses between.                             *)
(***************************************************************************)
THEOREM UnitsStay == TestAssumption => (SemaphoresSpec => []UnitsConserved)
<1> SUFFICES ASSUME TestAssumption PROVE SemaphoresSpec => []UnitsConserved
  OBVIOUS
<1>1. SemaphoresInit => TestInv
  BY TestBegins DEF SemaphoresInit
<1>2. TestInv /\ [SemaphoresNext]_<<use, testVars, namedVars>> => TestInv'
  <2> SUFFICES ASSUME TestInv, [SemaphoresNext]_<<use, testVars, namedVars>> PROVE TestInv'
    OBVIOUS
  <2>1. CASE UNCHANGED testVars
    <3>1. IInv' /\ TestTypes' /\ CountedFirst'
      BY <2>1, NextIInv DEF testVars, vars, countVars, exitVars, TestInv, TestTypes, CountedFirst, TestAssumption
    <3>2. Balanced(Handler) /\ Handler \in Callers
      BY <2>1, HandlerAssumption DEF testVars, vars, semVars, countVars, exitVars, Balanced, TestInv, TestTypes,
         IInv, TypeOK, Rule3, Callers
    <3> QED
      BY <3>1, <3>2, BalanceKept DEF TestInv
  <2>2. CASE TestNext
    BY <2>2, ConsumerTurn, ProducerTurn, HandlerTurn DEF TestNext
  <2> QED
    BY <2>1, <2>2 DEF SemaphoresNext
<1>3. TestInv => UnitsConserved
  BY DEF TestInv
<1> QED
  BY <1>1, <1>2, <1>3, PTL DEF SemaphoresSpec
=============================================================================
