----------------------------- MODULE Semaphores -----------------------------
(***************************************************************************)
(* CHAPTR10/MultiSem.c, the named semaphores: a table in shared memory     *)
(* with a slot for every name, which counts the handles that refer to it.  *)
(* And the two uses of the file side by side: TestMultiSem.c with the one  *)
(* semaphore of its process, or processes that open and close semaphores   *)
(* by name.                                                                *)
(*                                                                         *)
(* AllocSynchHandle works on the table under the mutex that everybody      *)
(* knows by its name.  It keeps the handle in a local variable which hides *)
(* the static hSynchDB, so that CloseSynchHandle waits for a mutex that is *)
(* NULL, which fails at once: it counts down, tests and empties the slot   *)
(* in three steps, among which others may find the slot by its name.       *)
(***************************************************************************)
EXTENDS TestMultiSem

CONSTANTS Openers,             \* threads, of one process each
          SemNames,
          SYNCH_MAX_NUMBER,    \* the slots of the table; the first is not used
          NoOpener, NoName

ASSUME NamedAssumption ==
  /\ IsFiniteSet(Openers) /\ NoOpener \notin Openers
  /\ NoName \notin SemNames
  /\ SYNCH_MAX_NUMBER \in Nat

VARIABLES hSynchDB,     \* who owns the mutex
          slotName, RefCount,
          opener,       \* where each thread is
          hShared,      \* the slot that its handle refers to, or 0
          hName,        \* the name it was opened by
          wipedInUse    \* history: a slot was emptied under somebody's handle

namedVars == <<hSynchDB, slotName, RefCount, opener, hShared, hName, wipedInUse>>

Slots == 1 .. SYNCH_MAX_NUMBER - 1

NamedInit ==
  /\ hSynchDB = NoOpener
  /\ slotName = [s \in Slots |-> NoName] /\ RefCount = [s \in Slots |-> 0]
  /\ opener = [t \in Openers |-> "closed"]
  /\ hShared = [t \in Openers |-> 0] /\ hName = [t \in Openers |-> NoName]
  /\ wipedInUse = FALSE

OpenerGoes(t, from, to) == opener[t] = from /\ opener' = [opener EXCEPT ![t] = to]

\* A handle that is freed refers to nothing.
FreeHandle(t, to) == /\ opener' = [opener EXCEPT ![t] = to]
                     /\ hShared' = [hShared EXCEPT ![t] = 0]
                     /\ hName' = [hName EXCEPT ![t] = NoName]

First(ss) == CHOOSE s \in ss : \A o \in ss : s <= o

Named(n) == {s \in Slots : slotName[s] = n}
Empty == {s \in Slots : RefCount[s] <= 0}

\* The slot of that name, whatever its count is; or one that nobody refers to;
\* or none, and the object is then the process's own.
FindSlotOf(n) == IF Named(n) # {} THEN First(Named(n))
                 ELSE IF Empty # {} THEN First(Empty) ELSE 0

Search(t) ==
  /\ OpenerGoes(t, "closed", "found")
  /\ \E n \in SemNames :
       LET s == FindSlotOf(n) IN
       /\ hShared' = [hShared EXCEPT ![t] = s]
       /\ hName' = [hName EXCEPT ![t] = n]
       /\ slotName' = IF s = 0 THEN slotName ELSE [slotName EXCEPT ![s] = n]
  /\ UNCHANGED <<RefCount, wipedInUse>>

\* Fault: the table is not locked.
AllocSynchHandle_NoLock(t) == Search(t) /\ UNCHANGED hSynchDB

AllocSynchHandle(t) == hSynchDB = NoOpener /\ hSynchDB' = t /\ Search(t)

Count(t, d) == RefCount' = IF hShared[t] = 0 THEN RefCount
                           ELSE [RefCount EXCEPT ![hShared[t]] = @ + d]

Unlock(t) == hSynchDB' = IF hSynchDB = t THEN NoOpener ELSE hSynchDB

AddReference(t) ==
  /\ OpenerGoes(t, "found", "open")
  /\ Count(t, 1) /\ Unlock(t)
  /\ UNCHANGED <<slotName, hShared, hName, wipedInUse>>

-----------------------------------------------------------------------------
(* CloseSynchHandle, without the lock *)

RemoveReference(t) ==
  /\ Count(t, -1)
  /\ IF hShared[t] = 0
     THEN opener[t] = "open" /\ FreeHandle(t, "closed")
     ELSE OpenerGoes(t, "open", "counted") /\ UNCHANGED <<hShared, hName>>
  /\ UNCHANGED <<hSynchDB, slotName, wipedInUse>>

TestReferences(t) ==
  /\ opener[t] = "counted"
  /\ IF RefCount[hShared[t]] = 0
     THEN OpenerGoes(t, "counted", "empty") /\ UNCHANGED <<hShared, hName>>
     ELSE FreeHandle(t, "closed")
  /\ UNCHANGED <<hSynchDB, slotName, RefCount, wipedInUse>>

InUse(s) == \E t \in Openers : hShared[t] = s /\ opener[t] \in {"found", "open"}

EmptySlot(t) ==
  LET s == hShared[t] IN
  /\ opener[t] = "empty" /\ FreeHandle(t, "closed")
  /\ slotName' = [slotName EXCEPT ![s] = NoName]
  /\ RefCount' = [RefCount EXCEPT ![s] = 0]
  /\ wipedInUse' = (wipedInUse \/ InUse(s))
  /\ UNCHANGED hSynchDB

\* A process ends anywhere.  Its mutex is abandoned, which the next owner takes
\* for free; its reference stays in the table.
ProcessEnds(t) ==
  /\ opener[t] \notin {"closed", "ended"} /\ FreeHandle(t, "ended")
  /\ Unlock(t)
  /\ UNCHANGED <<slotName, RefCount, wipedInUse>>

\* Once a slot has been emptied in use anything may follow.
NamedNext ==
  /\ ~wipedInUse
  /\ \E t \in Openers :
       \/ AllocSynchHandle(t) \/ AddReference(t)
       \/ RemoveReference(t) \/ TestReferences(t) \/ EmptySlot(t)
       \/ ProcessEnds(t)
-----------------------------------------------------------------------------
Refers(t) == opener[t] = "open" /\ hShared[t] # 0

(***************************************************************************)
(* Two handles refer to one slot just when they were opened by one name,   *)
(* the slot has that name, and it counts at least the handles that refer   *)
(* to it; until a slot is emptied in use.                                  *)
(***************************************************************************)
NamesInOneSlot ==
  ~wipedInUse =>
    /\ \A t, u \in {r \in Openers : Refers(r)} :
         /\ slotName[hShared[t]] = hName[t]
         /\ hName[t] = hName[u] <=> hShared[t] = hShared[u]
    /\ \A s \in Slots : Cardinality({t \in Openers : Refers(t) /\ hShared[t] = s}) <= RefCount[s]
-----------------------------------------------------------------------------
\* The use that is chosen in the initial state.
VARIABLE use

SemaphoresInit == use \in {"unnamed", "named"} /\ TestInit /\ NamedInit

SemaphoresNext ==
  /\ \/ use = "unnamed" /\ TestNext /\ UNCHANGED namedVars
     \/ use = "named" /\ NamedNext /\ UNCHANGED testVars
  /\ UNCHANGED use

SemaphoresSpec == SemaphoresInit /\ [][SemaphoresNext]_<<use, testVars, namedVars>>
=============================================================================
