---------------------------- MODULE MessageStream ----------------------------
(***************************************************************************)
(* CHAPTR12/SendReceiveSKST.c and SendReceiveSKHA.c: messages that end     *)
(* with a null character, over sockets that keep the order of characters   *)
(* and nothing else: send and recv move any number of them.  What recv     *)
(* brought behind the null waits in a static buffer for the next call: one *)
(* of the thread (SKST), or one of the socket's handle (SKHA), so that one *)
(* thread can use several sockets.                                         *)
(*                                                                         *)
(* A caller receives until the result is FALSE, which the comments of      *)
(* SendReceiveSKST.c define as error or disconnect.                        *)
(***************************************************************************)
EXTENDS Integers, Sequences, SequencesExt

CONSTANTS Sockets,             \* connections, numbered from 1
          Lengths,             \* how many characters a message has
          MAX_MESSAGE_LEN,     \* the size of a record, and of a static buffer
          MaxSends             \* bound on the messages of all connections

StreamAssumption ==
  /\ Sockets \subseteq Nat \ {0} /\ (Sockets # {} => 1 \in Sockets)
  /\ MAX_MESSAGE_LEN \in Nat \ {0} /\ Lengths \subseteq 0 .. MAX_MESSAGE_LEN - 1
  /\ MaxSends \in Nat

VARIABLES library,         \* "SendReceiveSKST" or "SendReceiveSKHA"; never changed
          nRemainSend,     \* the characters that SendCSMessage has still to send
          nSends, socket,  \* how many messages there were; the characters under way
          disconnected,    \* the peer has closed the connection
          staticBuf,       \* what is left of the last recv
          sd,              \* the socket of a thread's call
          receiver,        \* where each thread is, or what its call returned
          record,          \* the message it has, or as far as it has come
          nRemainRecv,
          pending          \* history: what was sent and no caller has had

sendVars == <<nRemainSend, nSends, disconnected>>
receiveVars == <<staticBuf, sd, receiver, record, nRemainRecv>>
streamVars == <<sendVars, socket, receiveVars, pending>>

\* A character is known by its connection and message; one is the null.
Null == <<0, 0>>
Text(s, i, n) == Append([j \in 1 .. n |-> <<s, i>>], Null)

\* One thread for each socket, or one for all.
User(s) == IF library = "SendReceiveSKST" THEN s ELSE 1
Users == {User(s) : s \in Sockets}

\* Fault: the buffer is the thread's, also where it uses several sockets.
Buffer_OfThread(t, s) == t

\* The buffer of thread t for socket s.
Buffer(t, s) == IF library = "SendReceiveSKST" THEN t ELSE s

StreamInit ==
  /\ nRemainSend = [s \in Sockets |-> <<>>] /\ nSends = 0
  /\ socket = [s \in Sockets |-> <<>>] /\ disconnected = [s \in Sockets |-> FALSE]
  /\ staticBuf = [b \in Sockets |-> <<>>]
  /\ sd = [t \in Sockets |-> 0] /\ receiver = [t \in Sockets |-> "idle"]
  /\ record = [t \in Sockets |-> <<>>] /\ nRemainRecv = [t \in Sockets |-> 0]
  /\ pending = [s \in Sockets |-> <<>>]

Smaller(m, n) == IF m <= n THEN m ELSE n

SendCSMessage(s) ==
  /\ nRemainSend[s] = <<>> /\ ~disconnected[s] /\ nSends < MaxSends
  /\ \E n \in Lengths :
       LET text == Text(s, nSends + 1, n) IN
       /\ nRemainSend' = [nRemainSend EXCEPT ![s] =
                            SubSeq(text, 1, Smaller(Len(text), MAX_MESSAGE_LEN))]
       /\ pending' = [pending EXCEPT ![s] = Append(@, text)]
  /\ nSends' = nSends + 1
  /\ UNCHANGED <<socket, disconnected, receiveVars>>

Send(s) ==
  /\ ~disconnected[s]
  /\ \E n \in 1 .. Len(nRemainSend[s]) :
       /\ socket' = [socket EXCEPT ![s] = @ \o SubSeq(nRemainSend[s], 1, n)]
       /\ nRemainSend' = [nRemainSend EXCEPT ![s] = SubSeq(@, n + 1, Len(@))]
  /\ UNCHANGED <<nSends, disconnected, receiveVars, pending>>

\* The peer ends, also in the middle of a message; what it sent still arrives.
Disconnect(s) ==
  /\ ~disconnected[s] /\ disconnected' = [disconnected EXCEPT ![s] = TRUE]
  /\ UNCHANGED <<nRemainSend, nSends, socket, receiveVars, pending>>

-----------------------------------------------------------------------------
(* ReceiveCSMessage *)

\* How many characters come before the null, or before the end.
UpToNull(cs) ==
  IF Contains(cs, Null) THEN SelectInSeq(cs, LAMBDA c : c = Null) - 1 ELSE Len(cs)

\* Fault: the null itself is kept with what follows it.
BehindNull_WithNull(cs) == SubSeq(cs, UpToNull(cs) + 1, Len(cs))

BehindNull(cs) == SubSeq(cs, UpToNull(cs) + 2, Len(cs))

Goes(t, place) == receiver' = [receiver EXCEPT ![t] = place]
Keep(t, s, cs) == staticBuf' = [staticBuf EXCEPT ![Buffer(t, s)] = cs]

\* A message is in the static buffer, or the beginning of one.
ReceiveCSMessage(t, s) ==
  LET cs == staticBuf[Buffer(t, s)] IN
  /\ receiver[t] = "idle" /\ User(s) = t /\ sd' = [sd EXCEPT ![t] = s]
  /\ record' = [record EXCEPT ![t] = SubSeq(cs, 1, UpToNull(cs))]
  /\ IF Contains(cs, Null)
     THEN Keep(t, s, BehindNull(cs)) /\ Goes(t, "TRUE") /\ UNCHANGED nRemainRecv
     ELSE /\ Keep(t, s, <<>>) /\ Goes(t, "recv")
          /\ nRemainRecv' = [nRemainRecv EXCEPT ![t] = MAX_MESSAGE_LEN - Len(cs)]
  /\ UNCHANGED <<sendVars, socket, pending>>

\* What is left of the length of a record after n characters without a null.
\* SKST subtracts n once for each character, SKHA before and after them.
LeftAfter(left, n) == IF library = "SendReceiveSKST" THEN left - n * n ELSE left - 2 * n

\* "cut": the count is used up, and the call returns TRUE without a null.
Recv(t) ==
  LET s == sd[t] IN
  /\ receiver[t] = "recv" /\ nRemainRecv[t] > 0
  /\ \E n \in 1 .. Smaller(nRemainRecv[t], Len(socket[s])) :
       LET tempBuff == SubSeq(socket[s], 1, n)
           left == IF Contains(tempBuff, Null) THEN 0 ELSE LeftAfter(nRemainRecv[t], n)
       IN /\ socket' = [socket EXCEPT ![s] = SubSeq(@, n + 1, Len(@))]
          /\ record' = [record EXCEPT ![t] = @ \o SubSeq(tempBuff, 1, UpToNull(tempBuff))]
          /\ nRemainRecv' = [nRemainRecv EXCEPT ![t] = left]
          /\ IF Contains(tempBuff, Null)
             THEN Keep(t, s, BehindNull(tempBuff)) /\ Goes(t, "TRUE")
             ELSE /\ UNCHANGED staticBuf
                  /\ IF left > 0 THEN UNCHANGED receiver ELSE Goes(t, "cut")
  /\ UNCHANGED <<sendVars, sd, pending>>

RecvNothing(t) ==
  /\ receiver[t] = "recv" /\ socket[sd[t]] = <<>> /\ disconnected[sd[t]]
  /\ Goes(t, "FALSE")
  /\ UNCHANGED <<sendVars, socket, staticBuf, sd, record, nRemainRecv, pending>>

\* The caller uses the message.
Use(t) ==
  /\ receiver[t] = "TRUE" /\ Goes(t, "idle")
  /\ pending' = [pending EXCEPT ![sd[t]] = Tail(@)]
  /\ UNCHANGED <<sendVars, socket, staticBuf, sd, record, nRemainRecv>>

Receiver(t) ==
  \/ \E s \in Sockets : ReceiveCSMessage(t, s)
  \/ Recv(t) \/ RecvNothing(t) \/ Use(t)

Sender(s) == SendCSMessage(s) \/ Send(s) \/ Disconnect(s)

-----------------------------------------------------------------------------
\* What a thread's call has of socket s.
Had(t, s) ==
  IF sd[t] # s THEN <<>>
  ELSE CASE receiver[t] \in {"recv", "FALSE", "cut"} -> record[t]
         [] receiver[t] = "TRUE" -> Append(record[t], Null)
         [] OTHER -> <<>>

InTransit(s) == Had(User(s), s) \o staticBuf[Buffer(User(s), s)] \o socket[s] \o nRemainSend[s]

(***************************************************************************)
(* ReceiveCSMessage returns the next message, whole, however send and recv *)
(* divide the characters, unless it runs out of its count before the null  *)
(* has come; and no character is lost, doubled or taken for another        *)
(* socket's in any case.                                                   *)
(***************************************************************************)
MessagesFramed ==
  /\ \A t \in Users : receiver[t] = "TRUE" =>
       pending[sd[t]] # <<>> /\ Append(record[t], Null) = Head(pending[sd[t]])
  /\ \A s \in Sockets : InTransit(s) = FlattenSeq(pending[s])

AllDisconnected == \A s \in Sockets : disconnected[s]
ReceiversEnded == \A t \in Users : receiver[t] \in {"FALSE", "cut"}
=============================================================================
