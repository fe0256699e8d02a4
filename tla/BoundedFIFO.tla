---------------------------- MODULE BoundedFIFO ----------------------------
(***************************************************************************)
(* What a QUEUE_OBJECT promises its callers: a first-in first-out buffer   *)
(* of at most Capacity messages, where every call of QueuePut or QueueGet  *)
(* takes effect at one instant between its call and its return.  A call    *)
(* that returns 0 has moved exactly one message; one that returns a        *)
(* nonzero status (1 for a destroyed queue, WAIT_TIMEOUT) has moved none.  *)
(*                                                                         *)
(* TimedSpec is the weaker promise of a queue whose calls may report a     *)
(* time-out although they have moved a message: a call that returns 0 has  *)
(* still moved exactly one message, and no call moves two.                 *)
(***************************************************************************)
EXTENDS Naturals, Sequences

CONSTANTS Producers,   \* threads that call QueuePut
          Consumers,   \* threads that call QueueGet
          Msg,         \* what a message can be
          NoMsg,       \* the content of a caller's buffer before its first call
          Capacity,    \* the largest number of messages held at once
          Failures,    \* the nonzero statuses a call may return
          Late         \* the status reported by a late call

VARIABLES buffer,      \* the messages held, oldest first
          rcvd,        \* rcvd[c]: the message buffer that c passes to QueueGet
          status       \* status[t]: result of t's last call, "pending" during one

vars == <<buffer, rcvd, status>>

Callers == Producers \cup Consumers

Init == /\ buffer = <<>>
        /\ rcvd = [c \in Consumers |-> NoMsg]
        /\ status = [t \in Callers |-> "ok"]

Call(t) == /\ status[t] # "pending"
           /\ status' = [status EXCEPT ![t] = "pending"]
           /\ UNCHANGED <<buffer, rcvd>>

Put(p, m) == /\ status[p] = "pending"
             /\ Len(buffer) < Capacity
             /\ buffer' = Append(buffer, m)
             /\ status' = [status EXCEPT ![p] = "ok"]
             /\ UNCHANGED rcvd

Get(c) == /\ status[c] = "pending"
          /\ buffer # <<>>
          /\ rcvd' = [rcvd EXCEPT ![c] = Head(buffer)]
          /\ buffer' = Tail(buffer)
          /\ status' = [status EXCEPT ![c] = "ok"]

Fail(t) == /\ status[t] = "pending"
           /\ \E f \in Failures : status' = [status EXCEPT ![t] = f]
           /\ UNCHANGED <<buffer, rcvd>>

Next == \/ \E t \in Callers : Call(t) \/ Fail(t)
        \/ \E p \in Producers, m \in Msg : Put(p, m)
        \/ \E c \in Consumers : Get(c)

Spec == Init /\ [][Next]_vars
-----------------------------------------------------------------------------
(* With late calls. *)

PutLate(p, m) == /\ status[p] = "pending"
                 /\ Len(buffer) < Capacity
                 /\ buffer' = Append(buffer, m)
                 /\ status' = [status EXCEPT ![p] = Late]
                 /\ UNCHANGED rcvd

GetLate(c) == /\ status[c] = "pending"
              /\ buffer # <<>>
              /\ rcvd' = [rcvd EXCEPT ![c] = Head(buffer)]
              /\ buffer' = Tail(buffer)
              /\ status' = [status EXCEPT ![c] = Late]

TimedNext == \/ Next
             \/ \E p \in Producers, m \in Msg : PutLate(p, m)
             \/ \E c \in Consumers : GetLate(c)

TimedSpec == Init /\ [][TimedNext]_vars
=============================================================================
