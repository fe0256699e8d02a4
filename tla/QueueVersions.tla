---------------------------- MODULE QueueVersions ----------------------------
(***************************************************************************)
(* The versions of the queue side by side.  A program is linked with one   *)
(* of them, chosen by its project file (under Projects2008): the choice is *)
(* made in the initial state, and from there on only the steps of that     *)
(* version are taken.  What all versions promise is stated once, here.     *)
(***************************************************************************)
EXTENDS AutoResetEvents, TLC

CONSTANTS Versions,      \* the versions to choose from
          Finite,        \* the callers whose MaxWait is not INFINITE
          MaxWait,       \* their MaxWait
          CV_TIMEOUT     \* the longest single wait of the polling versions

VARIABLES version,                          \* the version linked
          late,                             \* of QueueObjCS_Sig, QueueObjPthreads
          TotalWaitTime,                    \* of QueueObjPoll
          shutDownGet, ShutDownPut, apc,    \* of QueueObjCancel
          moved                             \* its history variable

AllVersions == {"QueueObj", "QueueObj_Sig", "QueueObjCS_Sig", "QueueObjSig_noSOAW",
                "QueueObjPoll", "QueueObjCV", "QueueObjPthreads", "QueueObjCancel"}

ASSUME VersionsAssumption ==
  /\ Versions \subseteq AllVersions
  /\ Finite \subseteq Callers
  /\ MaxWait \in Nat /\ CV_TIMEOUT \in Nat \ {0}

cancelVars == <<shutDownGet, ShutDownPut, apc, moved>>
vars == <<queueVars, signalled, version, late, TotalWaitTime, cancelVars>>

\* For TLC: no version tells one thread of a kind from another.
Sym == Permutations(Producers) \cup Permutations(Consumers) \cup Permutations(Msg)

Broadcast == INSTANCE QueueObj
Sig == INSTANCE QueueObj_Sig
CSSig == INSTANCE QueueObjCS_Sig
\* Its waits are finite whatever the caller asks for.
ShortWaits == INSTANCE QueueObjCS_Sig WITH Finite <- Callers
Poll == INSTANCE QueueObjPoll
CV == INSTANCE QueueObjCV
Pthreads == INSTANCE QueueObjPthreads
Cancel == INSTANCE QueueObjCancel

Init == /\ version \in Versions
        /\ QueueInitialize
        /\ signalled = [e \in Events |-> FALSE]
        /\ late = {}
        /\ TotalWaitTime = [t \in Callers |-> 0]
        /\ shutDownGet = FALSE /\ ShutDownPut = FALSE
        /\ apc = [t \in Callers |-> 0]
        /\ moved = {}

VersionNext ==
  \/ /\ version = "QueueObj" /\ Broadcast!Next
     /\ UNCHANGED <<signalled, late, TotalWaitTime, cancelVars>>
  \/ /\ version = "QueueObj_Sig" /\ Sig!Next
     /\ UNCHANGED <<late, TotalWaitTime, cancelVars>>
  \/ /\ version = "QueueObjCS_Sig" /\ CSSig!Next
     /\ UNCHANGED <<TotalWaitTime, cancelVars>>
  \/ /\ version = "QueueObjSig_noSOAW" /\ ShortWaits!TimedNext
     /\ UNCHANGED <<TotalWaitTime, cancelVars>>
  \/ /\ version = "QueueObjPoll" /\ Poll!Next
     /\ UNCHANGED <<signalled, late, cancelVars>>
  \/ /\ version = "QueueObjCV" /\ CV!Next
     /\ UNCHANGED <<signalled, late, TotalWaitTime, cancelVars>>
  \/ /\ version = "QueueObjPthreads" /\ Pthreads!Next
     /\ UNCHANGED <<signalled, TotalWaitTime, cancelVars>>
  \/ /\ version = "QueueObjCancel" /\ Cancel!Next
     /\ UNCHANGED <<late, TotalWaitTime>>

Next == VersionNext /\ UNCHANGED version

Spec == Init /\ [][Next]_vars

-----------------------------------------------------------------------------
(***************************************************************************)
(* Fairness.  Threads run; a caller that waits for the guard gets it       *)
(* sooner or later although others take it too; the polling waits end.     *)
(* Nothing makes a thread start a call, wakes a thread that sleeps on a    *)
(* condition variable without a reason, or ends an INFINITE wait.          *)
(***************************************************************************)
Moves(t, places) == pc[t] \in places /\ Next /\ pc'[t] # pc[t]

Fairness ==
  \A t \in Callers :
    /\ WF_vars(Moves(t, {"in", "sleep", "gap", "act", "ret"}))
    /\ SF_vars(Moves(t, {"enter", "again"}))
    /\ WF_vars(version = "QueueObjPoll" /\ Moves(t, {"wait"}))

FairSpec == Spec /\ Fairness

-----------------------------------------------------------------------------
(***************************************************************************)
(* The types of all the variables; in QueueObjPoll also that a call gives  *)
(* up at the first wait that takes it over MaxWait, and never when MaxWait *)
(* is INFINITE.                                                            *)
(***************************************************************************)
TypeOK ==
  /\ version \in Versions
  /\ MonitorTypeOK
  /\ EventsTypeOK
  /\ late \subseteq Callers
  /\ Poll!WaitTimeOK
  /\ Cancel!CancelTypeOK

\* The callers whose time is up.
OutOfTime == late \cup {t \in Callers : Poll!TimedOut(t)}

(***************************************************************************)
(* What the loop of QueueGet or QueuePut found out about the ring still    *)
(* holds when the thread moves its message or goes to sleep, in every      *)
(* version and for every caller that has not timed out.                    *)
(***************************************************************************)
TimelyDecisionsHold ==
  DecisionsHoldFor(Consumers \ OutOfTime, Producers \ OutOfTime)

(***************************************************************************)
(* Versions that release the guard and go to sleep in one step, by         *)
(* SignalObjectAndWait or SleepConditionVariableSRW, lose no wake-up with  *)
(* one thread woken per change; QueueObjCancel, until a cancellation takes *)
(* effect.                                                                 *)
(***************************************************************************)
NoSignalLost ==
  (version \in {"QueueObj_Sig", "QueueObjCV", "QueueObjCancel"}
     /\ ~shutDownGet /\ ~ShutDownPut)
  => NoLostSignal

(***************************************************************************)
(* The versions that wake everyone on the other side lose no wake-up at    *)
(* all: a pulse or a broadcast reaches every thread that waits, and nobody *)
(* can start to wait between another thread's change and the broadcast, so *)
(* a consumer asleep means an empty queue and a producer asleep a full one.*)
(***************************************************************************)
NoLostWakeup ==
  version \in {"QueueObj", "QueueObjPthreads"} => Broadcast!NoLostWakeup

Promise == INSTANCE BoundedFIFO
  WITH buffer <- Contents, Capacity <- QSize - 1,
       Failures <- {"destroyed", "timeout"}, Late <- "timeout",
       status <- [t \in Callers |-> IF t \in moved THEN "ok" ELSE status[t]]

(***************************************************************************)
(* Every version implements the bounded first-in first-out buffer: a call  *)
(* that returns 0 has moved one message, one that fails has moved none.    *)
(* Two versions promise less.  In QueueObjSig_noSOAW a call that returns   *)
(* WAIT_TIMEOUT may have moved a message.  In QueueObjCancel the status    *)
(* need not tell: there the promise is about what the call has done.       *)
(***************************************************************************)
ImplementsFIFO ==
  /\ Promise!Init
  /\ [][IF version = "QueueObjSig_noSOAW" THEN Promise!TimedNext
        ELSE Promise!Next]_(Promise!vars)
=============================================================================
