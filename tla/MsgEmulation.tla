---------------------------- MODULE MsgEmulation ----------------------------
(***************************************************************************)
(* Miscellaneous/msg_emulation/msg_emulation.c: UNIX message queues on a   *)
(* table in one process.  Every function holds the mutex q_guard from its  *)
(* start to its return or wait, so a step is what a thread does between    *)
(* two releases.                                                           *)
(*                                                                         *)
(* In the Windows build (thread_emulation.h) pthread_cond_wait releases    *)
(* the mutex, waits for a pulse or CV_TIMEOUT, whichever is first, and     *)
(* takes the mutex again: a waiting thread tests again and again, and the  *)
(* pulses only say how soon.  They have no state.                          *)
(*                                                                         *)
(* All threads have the same user and group, as no program sets them, and  *)
(* the mode of a queue lets its user read and write.                       *)
(***************************************************************************)
EXTENDS Integers, Sequences, SequencesExt, FiniteSetsExt

CONSTANTS Senders, Receivers, Removers,   \* threads, by the calls they make
          NoThread,
          q_max, b_max,                   \* slots; bytes in the system
          MQ_MAX_MESSAGE_SIZE, MQ_MAX_BYTES_IN_QUEUE,
          LONG,                           \* sizeof(long)
          Types, Sizes,                   \* of the messages sent
          MsgTypes, Buffers,              \* types and lengths a receiver asks for
          Keys,
          MaxBytes                        \* bound on b_current

MsgAssumption ==
  /\ q_max \in Nat /\ b_max \in Nat /\ LONG \in Nat /\ MQ_MAX_BYTES_IN_QUEUE \in Nat
  /\ Sizes \subseteq Nat /\ Buffers \subseteq Nat /\ Keys \subseteq Nat

VARIABLES msg_key, msg_busy, msg_cbytes, msg_qnum, msg_qbytes,
          msg_list,                       \* msg_first .. msg_last
          q_current, b_current,
          q_guard,                        \* the thread that has kept the mutex
          pc, arg                         \* each thread's call, and its arguments

Caller == Senders \cup Receivers \cup Removers
Id == 1 .. q_max

countVars == <<msg_cbytes, msg_qnum, b_current>>
slotVars == <<msg_key, msg_qbytes, q_current>>
tableVars == <<msg_busy, msg_list, countVars, slotVars>>
threadVars == <<q_guard, pc, arg>>
vars == <<tableVars, threadVars>>

NoArg == [msqid |-> 1]

Init ==
  /\ msg_key = [q \in Id |-> 0] /\ msg_busy = [q \in Id |-> 0]
  /\ msg_cbytes = [q \in Id |-> 0] /\ msg_qnum = [q \in Id |-> 0]
  /\ msg_qbytes = [q \in Id |-> 0] /\ msg_list = [q \in Id |-> <<>>]
  /\ q_current = 0 /\ b_current = 0
  /\ q_guard = NoThread
  /\ pc = [t \in Caller |-> "out"] /\ arg = [t \in Caller |-> NoArg]

-----------------------------------------------------------------------------
(* The helpers. *)

msgq_valid(q) == msg_key[q] > 0

not_full(msgsz, q, hysteresis) ==
  LET h == IF hysteresis >= msg_qbytes[q] \div 4 THEN msg_qbytes[q] \div 4
           ELSE hysteresis
  IN /\ msgsz + h + LONG + b_current < b_max
     /\ msgsz + h + LONG + msg_cbytes[q] < msg_qbytes[q]

\* Fault: a single message is none.
message_exists_Two(q) == msg_qnum[q] > 1

message_exists(q) == msg_qnum[q] > 0

\* Fault: the type field of a received message is given back twice.
update_status_TwiceLong(msgsz, q) ==
  LET bytes == IF msgsz < 0 THEN msgsz - LONG - LONG ELSE msgsz + LONG IN
  /\ msg_cbytes' = [msg_cbytes EXCEPT ![q] = @ + bytes]
  /\ b_current' = b_current + bytes
  /\ msg_qnum' = [msg_qnum EXCEPT ![q] =
                    IF msgsz > 0 THEN @ + 1 ELSE IF msgsz < 0 THEN @ - 1 ELSE @]

\* msgsz is positive for a message sent and negative for one received; a
\* message of no length is counted in bytes only.
update_status(msgsz, q) ==
  LET bytes == IF msgsz < 0 THEN msgsz - LONG ELSE msgsz + LONG IN
  /\ msg_cbytes' = [msg_cbytes EXCEPT ![q] = @ + bytes]
  /\ b_current' = b_current + bytes
  /\ msg_qnum' = [msg_qnum EXCEPT ![q] =
                    IF msgsz > 0 THEN @ + 1 ELSE IF msgsz < 0 THEN @ - 1 ELSE @]

\* The places of the messages that msgtyp asks for; only the first is taken.
\* A negative msgtyp finds nothing.
Wanted(q, msgtyp) ==
  {i \in DOMAIN msg_list[q] : msgtyp = 0 \/ msg_list[q][i].mtype = msgtyp}

\* A call begins or goes on with the mutex, which is recursive.
Locks(t) == q_guard \in {NoThread, t} /\ UNCHANGED q_guard

\* t is in no call.
Calls(t) == pc[t] = "out" /\ Locks(t)

\* The call of t on q ends, and q is not busy any more, whoever else is in a
\* call on it.
Return(t, q) ==
  /\ pc' = [pc EXCEPT ![t] = "out"]
  /\ arg' = [arg EXCEPT ![t] = NoArg]
  /\ msg_busy' = [msg_busy EXCEPT ![q] = 0]

\* t waits on a condition variable in its call, with q marked busy.
Waits(t, call, a) ==
  /\ pc' = [pc EXCEPT ![t] = call]
  /\ arg' = [arg EXCEPT ![t] = a]
  /\ msg_busy' = [msg_busy EXCEPT ![a.msqid] = 1]

-----------------------------------------------------------------------------
(* msgsnd: the queue is tested for being valid once, and for room each     *)
(* time the wait ends.                                                     *)

PlaceMessageInQueue(q, msg) ==
  /\ msg_list' = [msg_list EXCEPT ![q] = Append(@, msg)]
  /\ update_status(msg.mlength, q)

SendFails(q, msg, nowait) ==
  \/ ~msgq_valid(q)
  \/ msg.mtype < 1 \/ msg.mlength > MQ_MAX_MESSAGE_SIZE
  \/ nowait /\ ~not_full(msg.mlength, q, 0)

MsgSnd(t, q, msg, nowait) ==
  /\ Calls(t) /\ UNCHANGED slotVars
  /\ \/ /\ SendFails(q, msg, nowait)
        /\ Return(t, q)
        /\ UNCHANGED <<countVars, msg_list>>
     \/ /\ ~SendFails(q, msg, nowait) /\ not_full(msg.mlength, q, 0)
        /\ PlaceMessageInQueue(q, msg)
        /\ Return(t, q)
     \/ /\ ~SendFails(q, msg, nowait) /\ ~not_full(msg.mlength, q, 0)
        /\ Waits(t, "msgsnd", [msqid |-> q, msg |-> msg])
        /\ UNCHANGED <<countVars, msg_list>>

MsgSndGoesOn(t) ==
  LET q == arg[t].msqid msg == arg[t].msg IN
  /\ pc[t] = "msgsnd" /\ Locks(t) /\ UNCHANGED slotVars
  /\ not_full(msg.mlength, q, 0)
  /\ PlaceMessageInQueue(q, msg)
  /\ Return(t, q)

-----------------------------------------------------------------------------
(* msgrcv: GetMessageFromQueue takes the first message wanted and cuts it  *)
(* to the buffer; when nothing is left of it the loop goes on as if there  *)
(* had been none.                                                          *)

ReceiveFails(q, nowait) ==
  \/ ~msgq_valid(q)
  \/ nowait /\ ~message_exists(q)

\* With IPC_NOWAIT the loop ends after one round, and the length of nothing
\* is counted as for a message sent.
LoopEnds(t, q, nowait, a) ==
  \/ /\ nowait
     /\ IF msgq_valid(q) THEN update_status(0, q) ELSE UNCHANGED countVars
     /\ Return(t, q)
  \/ ~nowait /\ Waits(t, "msgrcv", a) /\ UNCHANGED countVars

\* One round of the loop of t.
ReceiveLoop(t, a, nowait) ==
  LET q == a.msqid
      wanted == IF message_exists(q) /\ msgq_valid(q) THEN Wanted(q, a.msgtyp) ELSE {}
      first == Min(wanted)
      xfer == Min({msg_list[q][first].mlength, a.msgsz})
  IN \/ wanted = {} /\ LoopEnds(t, q, nowait, a) /\ UNCHANGED msg_list
     \/ /\ wanted # {}
        /\ msg_list' = [msg_list EXCEPT ![q] = RemoveAt(@, first)]
        /\ \/ xfer > 0 /\ update_status(-xfer, q) /\ Return(t, q)
           \/ xfer = 0 /\ LoopEnds(t, q, nowait, a)

MsgRcv(t, q, msgsz, msgtyp, nowait) ==
  /\ Calls(t) /\ UNCHANGED slotVars
  /\ \/ /\ ReceiveFails(q, nowait)
        /\ Return(t, q)
        /\ UNCHANGED <<countVars, msg_list>>
     \/ /\ ~ReceiveFails(q, nowait)
        /\ ReceiveLoop(t, [msqid |-> q, msgsz |-> msgsz, msgtyp |-> msgtyp], nowait)

\* A wait that ends with nothing to take is followed by another.
MsgRcvGoesOn(t) ==
  /\ pc[t] = "msgrcv" /\ Locks(t) /\ UNCHANGED slotVars
  /\ ReceiveLoop(t, arg[t], FALSE)

-----------------------------------------------------------------------------
(* msgget and msgctl. *)

IPC_PRIVATE == 32768

\* The test for the create flag has the precedence of & and == wrong, and a
\* missing queue is always created.  Otherwise msgget changes nothing.
msgq_add(q, key) ==
  /\ q_current <= q_max
  /\ q \in Id /\ msg_key[q] = 0 /\ \A i \in 1 .. q - 1 : msg_key[i] # 0
  /\ msg_key' = [msg_key EXCEPT ![q] = key]
  /\ msg_busy' = [msg_busy EXCEPT ![q] = 0]
  /\ msg_qnum' = [msg_qnum EXCEPT ![q] = 0]
  /\ msg_qbytes' = [msg_qbytes EXCEPT ![q] = MQ_MAX_BYTES_IN_QUEUE]
  /\ q_current' = q_current + 1
  /\ UNCHANGED <<msg_list, msg_cbytes, b_current>>

msgq_lookup(key) == {i \in Id : msg_key[i] = key}

MsgGet(t, q, key) ==
  /\ Calls(t) /\ UNCHANGED <<pc, arg>>
  /\ key = IPC_PRIVATE \/ msgq_lookup(key) = {}
  /\ msgq_add(q, key)

msgq_remove(q) ==
  /\ msg_key' = [msg_key EXCEPT ![q] = 0]
  /\ msg_cbytes' = [msg_cbytes EXCEPT ![q] = 0]
  /\ msg_qnum' = [msg_qnum EXCEPT ![q] = 0]
  /\ msg_qbytes' = [msg_qbytes EXCEPT ![q] = 0]
  /\ msg_list' = [msg_list EXCEPT ![q] = <<>>]
  /\ UNCHANGED <<q_current, b_current>>

\* A call for a queue that is not valid returns with the mutex.
MsgCtl_Invalid(t, q) ==
  /\ pc[t] = "out" /\ q_guard \in {NoThread, t} /\ ~msgq_valid(q)
  /\ q_guard' = t
  /\ UNCHANGED <<tableVars, pc, arg>>

\* The super-user may raise msg_qbytes, too, and every thread is one.
MsgCtl_SET(t, q, bytes) ==
  /\ Calls(t) /\ msgq_valid(q)
  /\ msg_qbytes' = [msg_qbytes EXCEPT ![q] = bytes]
  /\ UNCHANGED <<msg_busy, msg_list, countVars, msg_key, q_current, pc, arg>>

MsgCtl_RMID(t, q) ==
  /\ Calls(t) /\ msgq_valid(q)
  /\ \/ msg_busy[q] = 0 /\ msgq_remove(q) /\ UNCHANGED <<msg_busy, pc, arg>>
     \/ /\ msg_busy[q] # 0
        /\ Waits(t, "msgctl", [msqid |-> q])
        /\ UNCHANGED <<msg_list, countVars, slotVars>>

MsgCtlGoesOn(t) ==
  LET q == arg[t].msqid IN
  /\ pc[t] = "msgctl" /\ Locks(t) /\ msg_busy[q] = 0
  /\ msgq_remove(q)
  /\ Return(t, q)

-----------------------------------------------------------------------------
\* A call that waits, when it is given the mutex.
GoesOn(t) == MsgSndGoesOn(t) \/ MsgRcvGoesOn(t) \/ MsgCtlGoesOn(t)

Sends(t) ==
  \E q \in Id, l \in Sizes, m \in Types, nowait \in BOOLEAN :
    MsgSnd(t, q, [mlength |-> l, mtype |-> m], nowait)

Receives(t) ==
  \E q \in Id, l \in Buffers, m \in MsgTypes, nowait \in BOOLEAN :
    b_current <= MaxBytes - LONG /\ MsgRcv(t, q, l, m, nowait)

Removes(t) ==
  \E q \in Id : \/ MsgCtl_RMID(t, q) \/ MsgCtl_Invalid(t, q)
               \/ \E key \in Keys : MsgGet(t, q, key)
               \/ MsgCtl_SET(t, q, MQ_MAX_BYTES_IN_QUEUE - LONG)

Calling == \/ \E t \in Senders : Sends(t)
           \/ \E t \in Receivers : Receives(t)
           \/ \E t \in Removers : Removes(t)

Next == Calling \/ \E t \in Caller : GoesOn(t)

Spec == Init /\ [][Next]_vars
-----------------------------------------------------------------------------
Bytes(q) == LET sizes == [i \in DOMAIN msg_list[q] |-> msg_list[q][i].mlength + LONG]
            IN FoldLeft(LAMBDA m, n : m + n, 0, sizes)

(***************************************************************************)
(* The counts that msgsnd and msgrcv decide by are never below what is     *)
(* there: the bytes and the messages with a text in each queue, the bytes  *)
(* in the system, the queues.                                              *)
(***************************************************************************)
StatusCoversMessages ==
  /\ \A q \in Id :
       /\ msg_cbytes[q] >= Bytes(q)
       /\ msg_qnum[q] >= Cardinality({i \in DOMAIN msg_list[q] : msg_list[q][i].mlength > 0})
  /\ b_current >= FoldSet(LAMBDA q, n : n + msg_cbytes[q], 0, Id)
  /\ q_current >= Cardinality({q \in Id : msg_key[q] # 0})

(***************************************************************************)
(* A receiver that waits while a message it wants, with a text, is in the  *)
(* queue does not wait for ever, unless another thread receives it, the    *)
(* queue is removed or a thread has kept the mutex.                        *)
(***************************************************************************)
TextFor(t) ==
  LET q == arg[t].msqid IN
  /\ pc[t] = "msgrcv" /\ msgq_valid(q)
  /\ \E i \in Wanted(q, arg[t].msgtyp) : msg_list[q][i].mlength > 0

SomeText == \E t \in Receivers : TextFor(t)
TextsReceived == \A t \in Receivers : ~TextFor(t) \/ q_guard \notin {NoThread, t}

(***************************************************************************)
(* "Mark this message Q busy (it can't be removed)": nobody waits in       *)
(* msgsnd or msgrcv for a queue that has been removed.                     *)
(***************************************************************************)
NobodyWaitsOnRemoved ==
  \A t \in Caller : pc[t] \in {"msgsnd", "msgrcv"} => msgq_valid(arg[t].msqid)
=============================================================================
