-------------------------- MODULE AutoResetEvents --------------------------
(***************************************************************************)
(* The signal model of QueueObj_Sig.c, QueueObjCS_Sig.c and                *)
(* QueueObjCancel.c: qNe and qNf are auto-reset events.  SetEvent releases *)
(* one thread that waits, or, if none does, leaves the event signalled for *)
(* the next one; setting an event that is signalled changes nothing.       *)
(***************************************************************************)
EXTENDS QueueMonitor

VARIABLE signalled    \* signalled[e]: the state of event e

Events == {"qNe", "qNf"}

\* Consumers wait for "not empty", producers for "not full".
EventOf(t) == IF t \in Consumers THEN "qNe" ELSE "qNf"
WaitersFor(e) == {t \in Waiting(Callers) : EventOf(t) = e}

\* self sets event e and goes to l.
SetEvent(self, e, l) ==
  \/ /\ WaitersFor(e) = {}
     /\ signalled' = [signalled EXCEPT ![e] = TRUE]
     /\ Goto(self, l)
  \/ \E w \in WaitersFor(e) :
       /\ pc' = [pc EXCEPT ![w] = "again", ![self] = l]
       /\ UNCHANGED signalled

\* t starts to wait for its event: it is released at once, and the event
\* reset, if the event is signalled.
WaitForEvent(t) ==
  IF signalled[EventOf(t)]
  THEN /\ signalled' = [signalled EXCEPT ![EventOf(t)] = FALSE]
       /\ Goto(t, "again")
  ELSE /\ Goto(t, "wait")
       /\ UNCHANGED signalled

EventsTypeOK == signalled \in [Events -> BOOLEAN]
=============================================================================
