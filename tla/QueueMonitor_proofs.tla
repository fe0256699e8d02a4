------------------------ MODULE QueueMonitor_proofs ------------------------
(***************************************************************************)
(* Lemmas about the ring buffer of QueueMonitor, for every size of the     *)
(* queue.  The proofs about the versions of the queue rest on them.        *)
(***************************************************************************)
EXTENDS QueueMonitor, Integers, SequenceTheorems, TLAPS

-----------------------------------------------------------------------------
(* The ring. *)

(***************************************************************************)
(* The successor of a slot is a slot: the next one, or the first after the *)
(* last.                                                                   *)
(***************************************************************************)
LEMMA NextSlotIsSlot ==
  ASSUME NEW i \in Slots
  PROVE  /\ NextSlot(i) \in Slots
         /\ NextSlot(i) = IF i = QSize - 1 THEN 0 ELSE i + 1
BY SizeAssumption DEF NextSlot, Slots

(***************************************************************************)
(* QueueFull says that the successor of qLast is qFirst: the wrap-around   *)
(* of the DWORD subtraction never gives 1 by accident.                     *)
(***************************************************************************)
LEMMA FullIsNextSlotTaken ==
  ASSUME NEW f \in Slots, NEW l \in Slots
  PROVE  (DWordMinus(f, l) = 1 \/ (l = QSize - 1 /\ f = 0)) <=> NextSlot(l) = f
<1>1. NextSlot(l) = IF l = QSize - 1 THEN 0 ELSE l + 1
  BY NextSlotIsSlot
<1>2. f \in Int /\ l \in Int /\ f < QSize /\ l < QSize /\ 0 <= f /\ 0 <= l
  BY SizeAssumption DEF Slots
<1>3. DWordMinus(f, l) = 1 <=> f = l + 1
  BY <1>2, SizeAssumption DEF DWordMinus
<1> QED
  BY <1>1, <1>2, <1>3, SizeAssumption

(***************************************************************************)
(* Removing from a queue that is not empty leaves it not full; inserting   *)
(* into one that is not full leaves it not empty.                          *)
(***************************************************************************)
LEMMA RemoveMakesRoom ==
  ASSUME MonitorTypeOK, NEW c \in Consumers, ~QueueEmpty, QueueRemove(c)
  PROVE  /\ qFirst' \in Slots /\ rcvd' \in [Consumers -> Msg \cup {NoMsg}]
         /\ UNCHANGED <<qLast, msgArray>>
         /\ ~QueueFull'
<1>1. /\ qFirst' = NextSlot(qFirst)
      /\ rcvd' = [rcvd EXCEPT ![c] = msgArray[qFirst]]
      /\ qLast' = qLast /\ msgArray' = msgArray
  BY DEF QueueRemove
<1>2. qFirst \in Slots /\ qLast \in Slots /\ qFirst # qLast
  BY DEF MonitorTypeOK, QueueEmpty
<1>3. qFirst' \in Slots /\ NextSlot(qLast) # qFirst'
  BY <1>1, <1>2, NextSlotIsSlot, SizeAssumption DEF Slots
<1>4. ~QueueFull'
  BY <1>1, <1>2, <1>3, FullIsNextSlotTaken DEF QueueFull
<1>5. rcvd' \in [Consumers -> Msg \cup {NoMsg}]
  BY <1>1, <1>2 DEF MonitorTypeOK
<1> QED
  BY <1>1, <1>3, <1>4, <1>5

LEMMA InsertMakesMessage ==
  ASSUME MonitorTypeOK, NEW m \in Msg, ~QueueFull, QueueInsert(m)
  PROVE  /\ qLast' \in Slots /\ msgArray' \in [Slots -> Msg \cup {NoMsg}]
         /\ UNCHANGED <<qFirst, rcvd>>
         /\ ~QueueEmpty'
<1>1. /\ qLast' = NextSlot(qLast)
      /\ msgArray' = [msgArray EXCEPT ![qLast] = m]
      /\ qFirst' = qFirst /\ rcvd' = rcvd
  BY DEF QueueInsert
<1>2. qFirst \in Slots /\ qLast \in Slots
  BY DEF MonitorTypeOK
<1>3. qLast' \in Slots /\ qLast' # qFirst
  BY <1>1, <1>2, NextSlotIsSlot, FullIsNextSlotTaken DEF QueueFull
<1>4. msgArray' \in [Slots -> Msg \cup {NoMsg}]
  BY <1>1, <1>2 DEF MonitorTypeOK
<1> QED
  BY <1>1, <1>3, <1>4 DEF QueueEmpty

-----------------------------------------------------------------------------
(* The messages held, as a sequence. *)

(***************************************************************************)
(* The ring holds between 0 and QSize - 1 messages, fewer when it is not   *)
(* full, and none just when it is empty.                                   *)
(***************************************************************************)
LEMMA CountBounds ==
  ASSUME MonitorTypeOK
  PROVE  /\ Count \in 0 .. QSize - 1
         /\ QueueEmpty <=> Count = 0
         /\ QueueFull <=> Count = QSize - 1
<1>1. /\ qFirst \in Int /\ qLast \in Int /\ QSize \in Int
      /\ 0 <= qFirst /\ qFirst < QSize /\ 0 <= qLast /\ qLast < QSize
      /\ qFirst \in Slots /\ qLast \in Slots
  BY SizeAssumption DEF MonitorTypeOK, Slots
<1>2. QueueFull <=> NextSlot(qLast) = qFirst
  BY <1>1, FullIsNextSlotTaken DEF QueueFull
<1>3. NextSlot(qLast) = IF qLast = QSize - 1 THEN 0 ELSE qLast + 1
  BY <1>1, NextSlotIsSlot
<1> QED
  BY <1>1, <1>2, <1>3 DEF Count, QueueEmpty

(***************************************************************************)
(* An insertion adds one to the messages held, a removal takes one away.   *)
(***************************************************************************)
LEMMA InsertCounts ==
  ASSUME MonitorTypeOK, NEW m \in Msg, ~QueueFull, QueueInsert(m)
  PROVE  Count' = Count + 1
<1>1. /\ qFirst \in Int /\ qLast \in Int /\ QSize \in Int
      /\ 0 <= qFirst /\ qFirst < QSize /\ 0 <= qLast /\ qLast < QSize
      /\ qFirst \in Slots /\ qLast \in Slots
  BY SizeAssumption DEF MonitorTypeOK, Slots
<1>2. /\ qFirst' = qFirst
      /\ qLast' = IF qLast = QSize - 1 THEN 0 ELSE qLast + 1
  BY <1>1, NextSlotIsSlot DEF QueueInsert
<1>3. Count \in 0 .. QSize - 1 /\ Count # QSize - 1
  BY CountBounds
<1>4. qLast' # qFirst
  BY InsertMakesMessage, <1>2 DEF QueueEmpty
<1> QED
  BY <1>1, <1>2, <1>3, <1>4 DEF Count

LEMMA RemoveCounts ==
  ASSUME MonitorTypeOK, NEW c \in Consumers, ~QueueEmpty, QueueRemove(c)
  PROVE  Count' = Count - 1
<1>1. /\ qFirst \in Int /\ qLast \in Int /\ QSize \in Int
      /\ 0 <= qFirst /\ qFirst < QSize /\ 0 <= qLast /\ qLast < QSize
      /\ qFirst \in Slots /\ qLast \in Slots
  BY SizeAssumption DEF MonitorTypeOK, Slots
<1>2. qFirst' = (IF qFirst = QSize - 1 THEN 0 ELSE qFirst + 1) /\ qLast' = qLast
  BY <1>1, NextSlotIsSlot DEF QueueRemove
<1>3. Count \in 1 .. QSize - 1
  BY CountBounds
<1> QED
  BY <1>1, <1>2, <1>3 DEF Count, QueueEmpty

(***************************************************************************)
(* The slot that lies k slots after slot i.                                *)
(***************************************************************************)
LEMMA SlotAfter ==
  ASSUME NEW i \in Slots, NEW k \in 0 .. QSize - 1
  PROVE  /\ (i + k) % QSize \in Slots
         /\ (i + k) % QSize = IF i + k < QSize THEN i + k ELSE i + k - QSize
<1>1. QSize \in Nat \ {0} /\ i \in 0 .. QSize - 1
  BY SizeAssumption DEF Slots
<1>2. CASE i + k < QSize
  BY <1>1, <1>2 DEF Slots
<1>3. CASE i + k >= QSize
  BY <1>1, <1>3 DEF Slots
<1> QED
  BY <1>1, <1>2, <1>3

(***************************************************************************)
(* The messages held, as a sequence.                                       *)
(***************************************************************************)
LEMMA ContentsIsSeq ==
  ASSUME MonitorTypeOK
  PROVE  /\ Contents \in Seq(Msg \cup {NoMsg})
         /\ Len(Contents) = Count
         /\ \A i \in 1 .. Count : Contents[i] = msgArray[(qFirst + i - 1) % QSize]
<1>1. Count \in Nat /\ Count <= QSize - 1 /\ QSize \in Nat /\ qFirst \in Slots
      /\ qFirst \in Int
  BY CountBounds, SizeAssumption DEF MonitorTypeOK, Slots
<1>2. ASSUME NEW i \in 1 .. Count
      PROVE  msgArray[(qFirst + i - 1) % QSize] \in Msg \cup {NoMsg}
  <2>1. i - 1 \in 0 .. QSize - 1 /\ qFirst + i - 1 = qFirst + (i - 1)
    BY <1>1
  <2>2. (qFirst + i - 1) % QSize \in Slots
    BY <1>1, <2>1, SlotAfter
  <2> QED
    BY <2>2 DEF MonitorTypeOK
<1>3. Contents \in [1 .. Count -> Msg \cup {NoMsg}]
  BY <1>2 DEF Contents
<1> QED
  BY <1>1, <1>3 DEF Contents

(***************************************************************************)
(* Inserting appends to the contents.                                      *)
(***************************************************************************)
LEMMA InsertAppends ==
  ASSUME MonitorTypeOK, MonitorTypeOK', NEW m \in Msg, ~QueueFull, QueueInsert(m)
  PROVE  /\ Len(Contents) < QSize - 1
         /\ Contents' = Append(Contents, m)
<1>1. /\ qFirst \in Int /\ qLast \in Int /\ QSize \in Int
      /\ 0 <= qFirst /\ qFirst < QSize /\ 0 <= qLast /\ qLast < QSize
      /\ qFirst \in Slots /\ qLast \in Slots
  BY SizeAssumption DEF MonitorTypeOK, Slots
<1>2. /\ qFirst' = qFirst
      /\ qLast' = IF qLast = QSize - 1 THEN 0 ELSE qLast + 1
      /\ msgArray' = [msgArray EXCEPT ![qLast] = m]
  BY <1>1, NextSlotIsSlot DEF QueueInsert
<1>3. Count \in 0 .. QSize - 1 /\ Count # QSize - 1
  BY CountBounds
<1>4. Count' = Count + 1
  BY InsertCounts
<1>5. \A i \in 1 .. Count' :
        msgArray'[(qFirst' + i - 1) % QSize]
          = IF i = Count + 1 THEN m ELSE msgArray[(qFirst + i - 1) % QSize]
  <2> SUFFICES ASSUME NEW i \in 1 .. Count + 1
               PROVE  msgArray'[(qFirst + i - 1) % QSize]
                        = IF i = Count + 1 THEN m
                          ELSE msgArray[(qFirst + i - 1) % QSize]
    BY <1>2, <1>4
  <2>1. i - 1 \in 0 .. QSize - 1 /\ qFirst + i - 1 = qFirst + (i - 1) /\ i \in Int
    BY <1>1, <1>3
  <2>2. /\ (qFirst + i - 1) % QSize \in Slots
        /\ (qFirst + i - 1) % QSize
             = IF qFirst + i - 1 < QSize THEN qFirst + i - 1
               ELSE qFirst + i - 1 - QSize
    BY <1>1, <2>1, SlotAfter
  <2>3. (qFirst + i - 1) % QSize = qLast <=> i = Count + 1
    BY <1>1, <1>3, <2>1, <2>2 DEF Count
  <2> QED
    BY <1>2, <2>2, <2>3 DEF MonitorTypeOK
<1>6. Contents' = [i \in 1 .. Count + 1 |->
                     IF i = Count + 1 THEN m ELSE Contents[i]]
  BY <1>3, <1>4, <1>5, <1>2 DEF Contents
<1>7. Contents \in Seq(Msg \cup {NoMsg}) /\ Len(Contents) = Count
  BY ContentsIsSeq
<1>8. Contents' \in Seq(Msg \cup {NoMsg}) /\ Len(Contents') = Count + 1
  <2>1. Contents' \in [1 .. Count + 1 -> Msg \cup {NoMsg}]
    BY <1>3, <1>6, <1>7
  <2> QED
    BY <1>3, <2>1
<1>9. Contents' = Append(Contents, m)
  <2>1. /\ Append(Contents, m) \in Seq(Msg \cup {NoMsg})
        /\ Len(Append(Contents, m)) = Count + 1
        /\ \A i \in 1 .. Count : Append(Contents, m)[i] = Contents[i]
        /\ Append(Contents, m)[Count + 1] = m
    BY <1>7, AppendProperties
  <2>2. \A i \in 1 .. Count + 1 : Contents'[i] = Append(Contents, m)[i]
    BY <1>3, <1>6, <2>1
  <2> QED
    BY <1>8, <2>1, <2>2, SeqEqual
<1> QED
  BY <1>1, <1>3, <1>7, <1>9

(***************************************************************************)
(* Removing delivers the head of the contents and leaves the tail.         *)
(***************************************************************************)
LEMMA RemoveTakesHead ==
  ASSUME MonitorTypeOK, MonitorTypeOK', NEW c \in Consumers, ~QueueEmpty, QueueRemove(c)
  PROVE  /\ Contents # <<>>
         /\ rcvd' = [rcvd EXCEPT ![c] = Head(Contents)]
         /\ Contents' = Tail(Contents)
<1>1. /\ qFirst \in Int /\ qLast \in Int /\ QSize \in Int
      /\ 0 <= qFirst /\ qFirst < QSize /\ 0 <= qLast /\ qLast < QSize
      /\ qFirst \in Slots /\ qLast \in Slots
  BY SizeAssumption DEF MonitorTypeOK, Slots
<1>2. /\ qFirst' = IF qFirst = QSize - 1 THEN 0 ELSE qFirst + 1
      /\ qLast' = qLast /\ msgArray' = msgArray
      /\ rcvd' = [rcvd EXCEPT ![c] = msgArray[qFirst]]
  BY <1>1, NextSlotIsSlot DEF QueueRemove
<1>3. Count \in 1 .. QSize - 1
  BY CountBounds
<1>4. Count' = Count - 1
  BY RemoveCounts
<1>5. Contents[1] = msgArray[qFirst]
  <2>1. (qFirst + 0) % QSize = qFirst
    BY <1>1, <1>3, SlotAfter
  <2>2. Contents[1] = msgArray[(qFirst + 1 - 1) % QSize]
    BY <1>3, ContentsIsSeq
  <2> QED
    BY <1>1, <2>1, <2>2
<1>6. \A i \in 1 .. Count - 1 :
        msgArray'[(qFirst' + i - 1) % QSize] = Contents[i + 1]
  <2> SUFFICES ASSUME NEW i \in 1 .. Count - 1
               PROVE  msgArray[(qFirst' + i - 1) % QSize] = Contents[i + 1]
    BY <1>2
  <2>1. /\ i - 1 \in 0 .. QSize - 1 /\ i \in 0 .. QSize - 1 /\ i \in Int
        /\ i + 1 \in 1 .. Count
    BY <1>1, <1>3
  <2>2. qFirst' \in Slots /\ qFirst' \in Int
    BY <1>1, <1>2 DEF MonitorTypeOK
  <2>3. (qFirst' + (i - 1)) % QSize = (qFirst + i) % QSize
    <3>1. (qFirst' + (i - 1)) % QSize = IF qFirst' + (i - 1) < QSize
                                        THEN qFirst' + (i - 1)
                                        ELSE qFirst' + (i - 1) - QSize
      BY <2>1, <2>2, SlotAfter
    <3>2. (qFirst + i) % QSize = IF qFirst + i < QSize
                                 THEN qFirst + i ELSE qFirst + i - QSize
      BY <1>1, <2>1, SlotAfter
    <3> QED
      BY <1>1, <1>2, <1>3, <2>1, <3>1, <3>2
  <2>4. Contents[i + 1] = msgArray[(qFirst + (i + 1) - 1) % QSize]
    BY <2>1, ContentsIsSeq
  <2>5. qFirst + (i + 1) - 1 = qFirst + i /\ qFirst' + i - 1 = qFirst' + (i - 1)
    BY <1>1, <2>1, <2>2
  <2> QED
    BY <2>3, <2>4, <2>5
<1>7. Contents' = [i \in 1 .. Count - 1 |-> Contents[i + 1]]
  BY <1>2, <1>4, <1>6 DEF Contents
<1>8. Contents \in Seq(Msg \cup {NoMsg}) /\ Len(Contents) = Count
  BY ContentsIsSeq
<1>9. Contents # <<>> /\ Head(Contents) = Contents[1]
  BY <1>3, <1>8
<1>10. Contents' \in Seq(Msg \cup {NoMsg}) /\ Len(Contents') = Count - 1
  <2>1. Contents' \in [1 .. Count - 1 -> Msg \cup {NoMsg}]
    BY <1>3, <1>7, <1>8
  <2> QED
    BY <1>3, <2>1
<1>11. Contents' = Tail(Contents)
  BY <1>3, <1>7, <1>8, <1>9, <1>10, HeadTailProperties, SeqEqual
<1> QED
  BY <1>2, <1>5, <1>9, <1>11

(***************************************************************************)
(* The contents depend on the ring only.                                   *)
(***************************************************************************)
LEMMA ContentsFramed ==
  ASSUME UNCHANGED <<qFirst, qLast, msgArray>> PROVE Contents' = Contents
BY DEF Contents, Count
=============================================================================
