------------------------- MODULE Pipelines_proofs -------------------------
(***************************************************************************)
(* What is promised of the three-stage programs, for any number of pairs   *)
(* and messages and any sizes of blocks and queues.                        *)
(*                                                                         *)
(* The invariant, IInv, speaks of the line of each producer: its messages  *)
(* in all queues and blocks, in their order.  A step of any of the four    *)
(* programs does one of a few things to the lines: a message is made and   *)
(* put at the end, moves on within the line, is handed to its consumer,    *)
(* is consumed, or (over QueueObjSig_noSOAW.c only) is lost.  The lemmas   *)
(* named Flows... are about these, and the lemmas named ...Keeps, one per  *)
(* action, show which of them the action does.                             *)
(***************************************************************************)
EXTENDS Pipelines, FoldTheorems, FiniteSetTheorems, TLAPS

\* Nothing is lost: the calls wait as long as they are asked to.
Lossless == program # "ThreeStageSig_noSOAW"

\* What the two stages have between them, and all that has not reached the
\* queues of the consumers.
Held == rBlock \o FlattenSeq(t2rq) \o tBlock
Upstream == Held \o p2tq

Finished(p) == <<"producer", p>> \notin running

\* The final message of p is in s.
FinalIn(p, s) == \E i \in DOMAIN To(p, s) : IsLast(To(p, s)[i])

\* The producers whose final message is not made, or is in s.
Awaited(s) == {p \in Pair : ~Finished(p) \/ FinalIn(p, s)}

(***************************************************************************)
(* The types, but for the lower bound of the two counts.                   *)
(***************************************************************************)
Types ==
  /\ program \in Programs /\ PipelineTypeOK
  /\ r2cq \in [Pair -> Seq(Message)]
  /\ running \subseteq {"producer", "consumer"} \X Pair
  /\ tLeft \in Int /\ tLeft <= npc /\ rLeft \in Int /\ rLeft <= npc
  /\ late \subseteq Timed!Thread
  /\ apc \subseteq {"transmitter", "receiver"}
  /\ shutDownGet \in BOOLEAN /\ ShutDownPut \in BOOLEAN /\ AllProduced \in BOOLEAN
  /\ Retries \in [Pthreads!Getter -> 0 .. MAX_RETRY]

(***************************************************************************)
(* A block is empty before it is filled and after it has been handed out,  *)
(* and is not full while it is filled; nobody calls QueueGet who gave up.  *)
(***************************************************************************)
Places ==
  /\ tpc = "loop" => tBlock = <<>>
  /\ rpc \in {"loop", "get", "getting"} => rBlock = <<>>
  /\ tpc = "pack" /\ program # "ThreeStagePthreads" => Len(tBlock) < TBLOCK_SIZE
  /\ tpc = "getting" => Len(tBlock) < TBLOCK_SIZE
  /\ program = "ThreeStagePthreads" =>
       /\ tpc = "getting" => Retries[Pthreads!theTransmitter] < MAX_RETRY
       /\ rpc = "get" => Retries[Pthreads!theReceiver] < MAX_RETRY
  /\ rpc = "distribute" => \/ rBlock # <<>>
                           \/ ~Lossless /\ Timed!theReceiver \notin late
  /\ program = "ThreeStage" =>
       /\ tpc = "send" => tBlock # <<>>
       /\ \A i \in DOMAIN t2rq : t2rq[i] # <<>>

(***************************************************************************)
(* Only ThreeStage has final messages, and what follows from an end.       *)
(***************************************************************************)
Ends ==
  /\ program \in {"ThreeStageCancel", "ThreeStagePthreads"} =>
       /\ running = {"producer", "consumer"} \X Pair
       /\ tLeft = npc /\ rLeft = npc
  /\ \A p \in Pair : Finished(p) => produced[p] = Goal
  /\ program = "ThreeStage" =>
       /\ \A c \in Pair : <<"consumer", c>> \notin running => consumed[c] = Goal
       /\ ShutDown => \A c \in Pair : <<"consumer", c>> \notin running
       /\ tpc = "done" => ShutDown \/ tLeft = 0
       /\ rpc = "done" => ShutDown \/ rLeft = 0
  /\ program = "ThreeStageCancel" =>
       /\ ShutDown => \A c \in Pair : consumed[c] = Goal
       /\ boss \in {"cancel", "cancelReceiver"} \/ apc # {} \/ shutDownGet \/ ShutDownPut => ShutDown

(***************************************************************************)
(* Of the messages of one producer: they are in order, none later than the *)
(* last one produced, and the final one only when it is finished.  Where   *)
(* nothing is lost they are exactly those that were not consumed.          *)
(***************************************************************************)
GoodLine(line, made, taken, finished, lossless) ==
  /\ Ordered(line)
  /\ \A i \in DOMAIN line :
       IF IsLast(line[i]) THEN finished ELSE line[i].sequence < made
  /\ lossless =>
       /\ taken <= made
       /\ Len(line) = made - taken + (IF finished THEN 1 ELSE 0)
       /\ \A i \in 1 .. made - taken : line[i].sequence = taken + i - 1
       /\ finished => line[made - taken + 1].sequence = -1

Lines ==
  \A c \in Pair :
    /\ GoodLine(InFlight(c), produced[c], consumed[c], Finished(c), Lossless)
    /\ \A i \in DOMAIN r2cq[c] : r2cq[c][i].destination = c

(***************************************************************************)
(* The stages count the final messages that they have not seen.  Of those  *)
(* lost between the threads they count too many.                           *)
(***************************************************************************)
Counts ==
  /\ Cardinality(Awaited(p2tq)) <= tLeft
  /\ Cardinality(Awaited(Upstream)) <= rLeft
  /\ Lossless => /\ tLeft = Cardinality(Awaited(p2tq))
               /\ rLeft = Cardinality(Awaited(Upstream))

IInv == Types /\ Places /\ Ends /\ Lines /\ Counts

-----------------------------------------------------------------------------
(* The messages for one consumer, by the algebra of sequences.             *)

\* u is s and then t.
Joint(s, t, u) ==
  /\ Len(u) = Len(s) + Len(t)
  /\ \A i \in 1 .. Len(s) : u[i] = s[i]
  /\ \A i \in 1 .. Len(t) : u[Len(s) + i] = t[i]

LEMMA CatIsSeq ==
  \A M : \A s, t \in Seq(M) : Cat(s, t) \in Seq(M) /\ Joint(s, t, Cat(s, t))
<1> SUFFICES ASSUME NEW M, NEW s \in Seq(M), NEW t \in Seq(M)
             PROVE  /\ s \o t \in Seq(M) /\ Len(s \o t) = Len(s) + Len(t)
                    /\ \A i \in 1 .. Len(s) : (s \o t)[i] = s[i]
                    /\ \A i \in 1 .. Len(t) : (s \o t)[Len(s) + i] = t[i]
  BY DEF Cat, Joint
<1>1. Len(s) \in Nat /\ Len(t) \in Nat
  BY LenProperties
<1> QED
  BY <1>1, ConcatProperties

LEMMA ToJoins ==
  \A M, c : \A s, t \in Seq(M) :
    To(c, s) \in Seq(M) /\ To(c, Cat(s, t)) = Cat(To(c, s), To(c, t))
<1> SUFFICES ASSUME NEW M, NEW c, NEW s \in Seq(M), NEW t \in Seq(M)
             PROVE  To(c, s) \in Seq(M) /\ To(c, s \o t) = To(c, s) \o To(c, t)
  BY DEF Cat
<1> DEFINE pick(u) == [i \in DOMAIN u |-> IF u[i].destination = c THEN <<u[i]>> ELSE <<>>]
<1>1. ASSUME NEW u \in Seq(M)
      PROVE  /\ pick(u) \in Seq(Seq(M)) /\ Len(pick(u)) = Len(u)
             /\ \A i \in 1 .. Len(u) :
                  pick(u)[i] = IF u[i].destination = c THEN <<u[i]>> ELSE <<>>
  <2>1. DOMAIN u = 1 .. Len(u) /\ Len(u) \in Nat
    BY LenProperties
  <2>2. \A i \in 1 .. Len(u) : u[i] \in M
    BY ElementOfSeq
  <2>3. pick(u) \in [1 .. Len(u) -> Seq(M)]
    <3> SUFFICES ASSUME NEW i \in 1 .. Len(u)
                 PROVE  (IF u[i].destination = c THEN <<u[i]>> ELSE <<>>) \in Seq(M)
      BY <2>1
    <3> QED
      BY <2>2
  <2>4. pick(u) \in Seq(Seq(M))
    BY <2>1, <2>3, SeqDef
  <2>5. Len(pick(u)) = Len(u)
    BY <2>1, <2>3, <2>4, LenProperties
  <2> QED
    BY <2>1, <2>4, <2>5
<1>2. s \o t \in Seq(M) /\ Len(s \o t) = Len(s) + Len(t)
      /\ \A i \in 1 .. Len(s) + Len(t) : (s \o t)[i] = IF i <= Len(s) THEN s[i] ELSE t[i - Len(s)]
  BY ConcatProperties
<1>3. pick(s \o t) = pick(s) \o pick(t)
  <2>1. /\ pick(s) \in Seq(Seq(M)) /\ pick(t) \in Seq(Seq(M)) /\ pick(s \o t) \in Seq(Seq(M))
        /\ Len(pick(s)) = Len(s) /\ Len(pick(t)) = Len(t) /\ Len(pick(s \o t)) = Len(s) + Len(t)
        /\ Len(s) \in Nat /\ Len(t) \in Nat
    BY <1>1, <1>2, LenProperties
  <2>2. /\ pick(s) \o pick(t) \in Seq(Seq(M))
        /\ Len(pick(s) \o pick(t)) = Len(s) + Len(t)
        /\ \A i \in 1 .. Len(s) + Len(t) :
             (pick(s) \o pick(t))[i] = IF i <= Len(s) THEN pick(s)[i] ELSE pick(t)[i - Len(s)]
    <3> DEFINE a == pick(s)
               b == pick(t)
    <3>1. a \in Seq(Seq(M)) /\ b \in Seq(Seq(M)) /\ Len(a) = Len(s) /\ Len(b) = Len(t)
      BY <2>1
    <3> HIDE DEF a, b
    <3>2. /\ a \o b \in Seq(Seq(M))
          /\ Len(a \o b) = Len(a) + Len(b)
          /\ \A i \in 1 .. Len(a) + Len(b) : (a \o b)[i] = IF i <= Len(a) THEN a[i] ELSE b[i - Len(a)]
      BY <3>1, ConcatProperties
    <3>3. /\ a \o b \in Seq(Seq(M))
          /\ Len(a \o b) = Len(s) + Len(t)
          /\ \A i \in 1 .. Len(s) + Len(t) : (a \o b)[i] = IF i <= Len(s) THEN a[i] ELSE b[i - Len(s)]
      BY <3>1, <3>2
    <3> QED
      BY <3>3 DEF a, b
  <2>3. ASSUME NEW i \in 1 .. Len(s) + Len(t)
        PROVE  pick(s \o t)[i] = (pick(s) \o pick(t))[i]
    <3>1. pick(s \o t)[i] = IF (s \o t)[i].destination = c THEN <<(s \o t)[i]>> ELSE <<>>
      BY <1>1, <1>2
    <3>2. CASE i <= Len(s)
      <4>1. i \in 1 .. Len(s)
        BY <2>1, <3>2
      <4>2. (s \o t)[i] = s[i] /\ (pick(s) \o pick(t))[i] = pick(s)[i]
        BY <1>2, <2>2, <3>2
      <4>3. pick(s)[i] = IF s[i].destination = c THEN <<s[i]>> ELSE <<>>
        BY <1>1, <4>1
      <4> HIDE DEF pick
      <4> QED
        BY <3>1, <4>2, <4>3
    <3>3. CASE ~(i <= Len(s))
      <4>1. i - Len(s) \in 1 .. Len(t)
        BY <2>1, <3>3
      <4>2. /\ (s \o t)[i] = t[i - Len(s)]
            /\ (pick(s) \o pick(t))[i] = pick(t)[i - Len(s)]
        BY <1>2, <2>2, <3>3
      <4>3. pick(t)[i - Len(s)]
              = IF t[i - Len(s)].destination = c THEN <<t[i - Len(s)]>> ELSE <<>>
        BY <1>1, <4>1
      <4> HIDE DEF pick
      <4> QED
        BY <3>1, <4>2, <4>3
    <3> QED
      BY <3>2, <3>3
  <2> HIDE DEF pick
  <2> QED
    BY <2>1, <2>2, <2>3, SeqEqual
<1>4. /\ pick(s) \in Seq(Seq(M)) /\ pick(t) \in Seq(Seq(M))
      /\ To(c, s) = FlattenSeq(pick(s)) /\ To(c, t) = FlattenSeq(pick(t))
      /\ To(c, s \o t) = FlattenSeq(pick(s \o t))
  BY <1>1 DEF To
<1> DEFINE a == pick(s)
           b == pick(t)
<1>5. /\ a \in Seq(Seq(M)) /\ b \in Seq(Seq(M))
      /\ To(c, s) = FlattenSeq(a) /\ To(c, t) = FlattenSeq(b)
      /\ To(c, s \o t) = FlattenSeq(a \o b)
  BY <1>3, <1>4
<1> HIDE DEF a, b
<1>6. FlattenSeq(a \o b) = FlattenSeq(a) \o FlattenSeq(b) /\ FlattenSeq(a) \in Seq(M)
  BY <1>5, FlattenConcat, FlattenIsSeq
<1> QED
  BY <1>5, <1>6

LEMMA ToNone == \A c : To(c, <<>>) = <<>>
<1> SUFFICES ASSUME NEW c PROVE To(c, <<>>) = <<>>
  OBVIOUS
<1>1. [i \in DOMAIN <<>> |-> IF <<>>[i].destination = c THEN <<<<>>[i]>> ELSE <<>>] = <<>>
  OBVIOUS
<1> QED
  BY <1>1, FlattenIsSeq, EmptySeq DEF To

LEMMA ToOne == \A c, m : To(c, One(m)) = IF m.destination = c THEN One(m) ELSE <<>>
<1> SUFFICES ASSUME NEW c, NEW m
             PROVE  To(c, <<m>>) = IF m.destination = c THEN <<m>> ELSE <<>>
  BY DEF One
<1> DEFINE b == IF m.destination = c THEN <<m>> ELSE <<>>
<1>1. [i \in DOMAIN <<m>> |-> IF <<m>>[i].destination = c THEN <<<<m>>[i]>> ELSE <<>>] = <<b>>
  OBVIOUS
<1>2. b \in Seq({m})
  <2>1. <<m>> \in Seq({m}) /\ <<>> \in Seq({m})
    OBVIOUS
  <2> QED
    BY <2>1
<1> HIDE DEF b
<1>3. FlattenSeq(<<b>>) = b
  BY <1>2, FlattenAppend, EmptySeq
<1> QED
  BY <1>1, <1>3 DEF To, b

(***************************************************************************)
(* Every message of a sequence is among those for its destination.         *)
(***************************************************************************)
LEMMA ToFinds ==
  ASSUME NEW M, NEW s \in Seq(M), NEW i \in 1 .. Len(s)
  PROVE  \E j \in DOMAIN To(s[i].destination, s) : To(s[i].destination, s)[j] = s[i]
<1> DEFINE c == s[i].destination
           m == s[i]
           x == SubSeq(s, 1, i - 1)
           z == SubSeq(s, i + 1, Len(s))
<1>1. Len(s) \in Nat /\ \A j \in 1 .. Len(s) : s[j] \in M
  BY LenProperties, ElementOfSeq
<1>2. m \in M /\ x \in Seq(M) /\ z \in Seq(M)
  <2>1. \A j \in 1 .. i - 1 : s[j] \in M
    BY <1>1
  <2>2. \A j \in i + 1 .. Len(s) : s[j] \in M
    BY <1>1
  <2> QED
    BY <1>1, <2>1, <2>2, SubSeqProperties
<1>3. s = Cat(Cat(x, One(m)), z)
  <2>1. SubSeq(s, 1, i) = SubSeq(s, 1, i - 1) \o <<s[i]>>
    BY <1>1, SubSeqRecursiveSecond
  <2>2. SubSeq(s, 1, i) \o SubSeq(s, i + 1, Len(s)) = SubSeq(s, 1, Len(s))
    BY <1>1, ConcatAdjacentSubSeq
  <2>3. SubSeq(s, 1, Len(s)) = s
    BY SubSeqFull
  <2> QED
    BY <2>1, <2>2, <2>3 DEF Cat, One
<1>4. c = m.destination
  OBVIOUS
<1> HIDE DEF x, z, m, c
<1> DEFINE y == To(c, x)
           w == To(c, z)
           v == Cat(y, One(m))
<1>5. /\ One(m) \in Seq(M) /\ Cat(x, One(m)) \in Seq(M) /\ y \in Seq(M) /\ w \in Seq(M)
      /\ To(c, One(m)) = One(m)
  BY <1>2, <1>4, OneIsSeq, CatIsSeq, ToJoins, ToOne
<1>6. To(c, s) = Cat(v, w)
  BY <1>2, <1>3, <1>5, ToJoins
<1> HIDE DEF y, w
<1>7. /\ v \in Seq(M) /\ Len(v) = Len(y) + 1 /\ v[Len(y) + 1] = m
      /\ Len(y) \in Nat /\ Len(w) \in Nat
  <2>1. /\ v \in Seq(M) /\ Len(v) = Len(y) + Len(One(m)) /\ Len(One(m)) = 1 /\ One(m)[1] = m
        /\ \A k \in 1 .. Len(One(m)) : v[Len(y) + k] = One(m)[k]
    <3>1. v \in Seq(M) /\ Joint(y, One(m), v)
      BY <1>5, CatIsSeq
    <3> QED
      BY <1>2, <3>1, OneIsSeq DEF Joint
  <2>2. Len(y) \in Nat /\ Len(w) \in Nat
    BY <1>5, LenProperties
  <2> QED
    BY <2>1, <2>2
<1> HIDE DEF v
<1> DEFINE j == Len(y) + 1
<1>8. j \in 1 .. Len(v) /\ v[j] = m
  BY <1>7
<1>9. /\ Cat(v, w) \in Seq(M) /\ Len(Cat(v, w)) = Len(v) + Len(w) /\ Cat(v, w)[j] = m
      /\ DOMAIN Cat(v, w) = 1 .. Len(Cat(v, w))
  <2>1. Cat(v, w) \in Seq(M) /\ Joint(v, w, Cat(v, w))
    BY <1>5, <1>7, CatIsSeq
  <2> QED
    BY <1>8, <2>1, LenProperties DEF Joint
<1>10. j \in DOMAIN To(c, s) /\ To(c, s)[j] = m
  BY <1>6, <1>7, <1>8, <1>9
<1> QED
  BY <1>10 DEF c, m

-----------------------------------------------------------------------------
(* What a producer's line of messages is, and how it changes. *)

Sequenced(M) == \A m \in M : m.sequence \in Int

LEMMA LastIs == \A m : IsLast(m) <=> m.sequence < 0
BY DEF IsLast, Plain!IsLast

LEMMA LineBegins ==
  \A lossless \in BOOLEAN : GoodLine(<<>>, 0, 0, FALSE, lossless)
BY DEF GoodLine, Ordered

(***************************************************************************)
(* A message is made.                                                      *)
(***************************************************************************)
LEMMA LineGrows ==
  ASSUME NEW M, Sequenced(M), NEW line \in Seq(M), NEW m \in M,
         NEW made \in Nat, NEW taken \in Nat, NEW lossless \in BOOLEAN,
         GoodLine(line, made, taken, FALSE, lossless)
  PROVE  /\ m.sequence = made =>
              GoodLine(Cat(line, One(m)), made + 1, taken, FALSE, lossless)
         /\ m.sequence = -1 =>
              GoodLine(Cat(line, One(m)), made, taken, TRUE, lossless)
<1> DEFINE n == Len(line)
           t == Cat(line, One(m))
<1>1. /\ n \in Nat /\ DOMAIN line = 1 .. n
      /\ t \in Seq(M) /\ Len(t) = n + 1 /\ DOMAIN t = 1 .. n + 1
      /\ \A i \in 1 .. n : t[i] = line[i]
      /\ t[n + 1] = m
  <2>1. /\ One(m) \in Seq(M) /\ Len(One(m)) = 1 /\ One(m)[1] = m
        /\ n \in Nat /\ DOMAIN line = 1 .. n
    BY OneIsSeq, LenProperties
  <2>2. /\ t \in Seq(M) /\ Len(t) = n + Len(One(m))
        /\ \A i \in 1 .. n : t[i] = line[i]
        /\ \A i \in 1 .. Len(One(m)) : t[n + i] = One(m)[i]
    <3>1. t \in Seq(M) /\ Joint(line, One(m), t)
      BY <2>1, CatIsSeq
    <3> QED
      BY <3>1 DEF Joint
  <2>3. DOMAIN t = 1 .. Len(t)
    BY <2>2, LenProperties
  <2> HIDE DEF t, n
  <2> QED
    BY <2>1, <2>2, <2>3
<1>2. \A i \in 1 .. n : line[i].sequence \in Int
  BY <1>1, ElementOfSeq DEF Sequenced
<1>3. /\ \A i, j \in 1 .. n : i < j => ~(line[i].sequence < 0)
                                    /\ (line[j].sequence < 0 \/ line[i].sequence < line[j].sequence)
      /\ \A i \in 1 .. n : ~(line[i].sequence < 0) /\ line[i].sequence < made
      /\ lossless => /\ taken <= made /\ n = made - taken
                     /\ \A i \in 1 .. n : line[i].sequence = taken + i - 1
  <2>1. lossless => n = made - taken
    BY <1>1 DEF GoodLine
  <2>2. lossless => taken <= made /\ \A i \in 1 .. made - taken : line[i].sequence = taken + i - 1
    BY DEF GoodLine
  <2>3. \A i \in 1 .. n : ~IsLast(line[i]) /\ line[i].sequence < made
    BY <1>1 DEF GoodLine
  <2>4. \A i, j \in 1 .. n : i < j => ~IsLast(line[i])
                                    /\ (IsLast(line[j]) \/ line[i].sequence < line[j].sequence)
    BY <1>1 DEF GoodLine, Ordered
  <2> HIDE DEF n
  <2> QED
    BY <2>1, <2>2, <2>3, <2>4, LastIs
<1> HIDE DEF n, t
<1>4. ASSUME m.sequence = made
      PROVE  GoodLine(t, made + 1, taken, FALSE, lossless)
  <2>1. Ordered(t)
    <3> SUFFICES ASSUME NEW i \in 1 .. n + 1, NEW j \in 1 .. n + 1, i < j
                 PROVE  ~(t[i].sequence < 0) /\ (t[j].sequence < 0 \/ t[i].sequence < t[j].sequence)
      BY <1>1, LastIs DEF Ordered
    <3> QED
      BY <1>1, <1>2, <1>3, <1>4
  <2>2. \A i \in 1 .. n + 1 : ~(t[i].sequence < 0) /\ t[i].sequence < made + 1
    BY <1>1, <1>2, <1>3, <1>4, SMTT(30)
  <2>3. lossless => /\ taken <= made + 1 /\ Len(t) = (made + 1) - taken + 0
                    /\ \A i \in 1 .. (made + 1) - taken : t[i].sequence = taken + i - 1
    BY <1>1, <1>3, <1>4
  <2> QED
    BY <1>1, <2>1, <2>2, <2>3, LastIs DEF GoodLine
<1>5. ASSUME m.sequence = -1
      PROVE  GoodLine(t, made, taken, TRUE, lossless)
  <2>1. Ordered(t)
    <3> SUFFICES ASSUME NEW i \in 1 .. n + 1, NEW j \in 1 .. n + 1, i < j
                 PROVE  ~(t[i].sequence < 0) /\ (t[j].sequence < 0 \/ t[i].sequence < t[j].sequence)
      BY <1>1, LastIs DEF Ordered
    <3> QED
      BY <1>1, <1>2, <1>3, <1>5
  <2>2. \A i \in 1 .. n + 1 : t[i].sequence < 0 \/ t[i].sequence < made
    BY <1>1, <1>2, <1>3, <1>5
  <2>3. lossless => /\ taken <= made /\ Len(t) = made - taken + 1
                    /\ \A i \in 1 .. made - taken : t[i].sequence = taken + i - 1
                    /\ t[made - taken + 1].sequence = -1
    BY <1>1, <1>3, <1>5
  <2> QED
    BY <1>1, <2>1, <2>2, <2>3, LastIs DEF GoodLine
<1> QED
  BY <1>4, <1>5 DEF t

(***************************************************************************)
(* The first message is consumed.                                          *)
(***************************************************************************)
LEMMA LineMoves ==
  ASSUME NEW M, Sequenced(M), NEW rest \in Seq(M), NEW h \in M,
         NEW made \in Nat, NEW taken \in Nat, NEW finished \in BOOLEAN, NEW lossless \in BOOLEAN,
         GoodLine(Cat(One(h), rest), made, taken, finished, lossless), ~IsLast(h)
  PROVE  GoodLine(rest, made, taken + 1, finished, lossless)
<1> DEFINE n == Len(rest)
           t == Cat(One(h), rest)
<1>1. /\ n \in Nat /\ DOMAIN rest = 1 .. n
      /\ t \in Seq(M) /\ Len(t) = n + 1 /\ DOMAIN t = 1 .. n + 1
      /\ \A i \in 1 .. n : t[i + 1] = rest[i]
      /\ t[1] = h
  <2>1. /\ One(h) \in Seq(M) /\ Len(One(h)) = 1 /\ One(h)[1] = h
        /\ n \in Nat /\ DOMAIN rest = 1 .. n
    BY OneIsSeq, LenProperties
  <2>2. /\ t \in Seq(M) /\ Len(t) = Len(One(h)) + n
        /\ \A i \in 1 .. Len(One(h)) : t[i] = One(h)[i]
        /\ \A i \in 1 .. n : t[Len(One(h)) + i] = rest[i]
    <3>1. t \in Seq(M) /\ Joint(One(h), rest, t)
      BY <2>1, CatIsSeq
    <3> QED
      BY <3>1 DEF Joint
  <2>3. DOMAIN t = 1 .. Len(t)
    BY <2>2, LenProperties
  <2> HIDE DEF t, n
  <2> QED
    BY <2>1, <2>2, <2>3
<1>2. \A i \in 1 .. n + 1 : t[i].sequence \in Int
  BY <1>1, ElementOfSeq DEF Sequenced
<1> DEFINE one == IF finished THEN 1 ELSE 0
<1>3. /\ \A i, j \in 1 .. n + 1 : i < j => ~IsLast(t[i])
                                    /\ (IsLast(t[j]) \/ t[i].sequence < t[j].sequence)
      /\ \A i \in 1 .. n + 1 : IF IsLast(t[i]) THEN finished ELSE t[i].sequence < made
      /\ lossless => /\ taken <= made /\ n + 1 = made - taken + one
                     /\ \A i \in 1 .. made - taken : t[i].sequence = taken + i - 1
                     /\ finished => t[made - taken + 1].sequence = -1
  BY <1>1 DEF GoodLine, Ordered
<1> HIDE DEF t, n
<1>4. lossless => taken < made
  <2> SUFFICES ASSUME lossless, taken >= made PROVE FALSE
    OBVIOUS
  <2>1. taken = made
    BY <1>3
  <2>2. ~(t[1].sequence < 0)
    BY <1>1, LastIs
  <2> QED
    BY <1>1, <1>3, <2>1, <2>2
<1>5. Ordered(rest)
  <2> SUFFICES ASSUME NEW i \in 1 .. n, NEW j \in 1 .. n, i < j
               PROVE  ~IsLast(rest[i]) /\ (IsLast(rest[j]) \/ rest[i].sequence < rest[j].sequence)
    BY <1>1 DEF Ordered
  <2>1. /\ i + 1 \in 1 .. n + 1 /\ j + 1 \in 1 .. n + 1 /\ i + 1 < j + 1
        /\ t[i + 1] = rest[i] /\ t[j + 1] = rest[j]
    BY <1>1
  <2> QED
    BY <1>3, <2>1
<1>6. \A i \in 1 .. n : IF IsLast(rest[i]) THEN finished ELSE rest[i].sequence < made
  <2> SUFFICES ASSUME NEW i \in 1 .. n
               PROVE  IF IsLast(rest[i]) THEN finished ELSE rest[i].sequence < made
    OBVIOUS
  <2>1. i + 1 \in 1 .. n + 1 /\ t[i + 1] = rest[i]
    BY <1>1
  <2> QED
    BY <1>3, <2>1
<1>7. ASSUME lossless
      PROVE  /\ taken + 1 <= made /\ n = made - (taken + 1) + one
             /\ \A i \in 1 .. made - (taken + 1) : rest[i].sequence = (taken + 1) + i - 1
             /\ finished => rest[made - (taken + 1) + 1].sequence = -1
  <2>1. taken + 1 <= made /\ n = made - (taken + 1) + one /\ one \in {0, 1}
    BY <1>1, <1>3, <1>4, <1>7
  <2>2. ASSUME NEW i \in 1 .. made - (taken + 1)
        PROVE  rest[i].sequence = (taken + 1) + i - 1
    <3>1. i \in 1 .. n /\ i + 1 \in 1 .. made - taken
      BY <1>1, <2>1
    <3>2. t[i + 1] = rest[i] /\ t[i + 1].sequence = taken + (i + 1) - 1
      BY <1>1, <1>3, <1>7, <3>1
    <3> QED
      BY <3>2
  <2>3. ASSUME finished
        PROVE  rest[made - (taken + 1) + 1].sequence = -1
    <3>1. made - taken \in 1 .. n /\ made - (taken + 1) + 1 = made - taken
      BY <1>1, <2>1, <2>3
    <3> QED
      BY <1>1, <1>3, <1>7, <2>3, <3>1
  <2> QED
    BY <2>1, <2>2, <2>3
<1> QED
  BY <1>1, <1>5, <1>6, <1>7 DEF GoodLine

(***************************************************************************)
(* Where messages may be lost, a line stays good when some are.            *)
(***************************************************************************)
LEMMA LineLoses ==
  ASSUME NEW M, NEW x \in Seq(M), NEW y \in Seq(M), NEW z \in Seq(M),
         NEW made, NEW taken, NEW finished,
         GoodLine(Cat(x, Cat(y, z)), made, taken, finished, FALSE)
  PROVE  GoodLine(Cat(x, z), made, taken, finished, FALSE)
<1> DEFINE s == Cat(x, Cat(y, z))
           t == Cat(x, z)
           f(i) == IF i <= Len(x) THEN i ELSE i + Len(y)
<1>1. /\ Len(x) \in Nat /\ Len(y) \in Nat /\ Len(z) \in Nat
      /\ DOMAIN s = 1 .. Len(x) + Len(y) + Len(z)
      /\ \A i \in 1 .. Len(x) : s[i] = x[i]
      /\ \A i \in 1 .. Len(z) : s[Len(x) + Len(y) + i] = z[i]
  <2>1. /\ Len(x) \in Nat /\ Len(y) \in Nat /\ Len(z) \in Nat
        /\ Cat(y, z) \in Seq(M) /\ Len(Cat(y, z)) = Len(y) + Len(z)
        /\ \A i \in 1 .. Len(z) : Cat(y, z)[Len(y) + i] = z[i]
    <3>1. Cat(y, z) \in Seq(M) /\ Joint(y, z, Cat(y, z))
      BY CatIsSeq
    <3> QED
      BY <3>1, LenProperties DEF Joint
  <2>2. /\ s \in Seq(M) /\ Len(s) = Len(x) + Len(Cat(y, z))
        /\ \A i \in 1 .. Len(x) : s[i] = x[i]
        /\ \A i \in 1 .. Len(Cat(y, z)) : s[Len(x) + i] = Cat(y, z)[i]
    <3>1. s \in Seq(M) /\ Joint(x, Cat(y, z), s)
      BY <2>1, CatIsSeq
    <3> QED
      BY <3>1 DEF Joint
  <2>3. DOMAIN s = 1 .. Len(s)
    BY <2>2, LenProperties
  <2> HIDE DEF s
  <2>4. ASSUME NEW i \in 1 .. Len(z)
        PROVE  s[Len(x) + Len(y) + i] = z[i]
    <3>1. Len(y) + i \in 1 .. Len(Cat(y, z)) /\ Len(x) + Len(y) + i = Len(x) + (Len(y) + i)
      BY <2>1
    <3>2. s[Len(x) + (Len(y) + i)] = Cat(y, z)[Len(y) + i]
      BY <2>2, <3>1
    <3> QED
      BY <2>1, <3>1, <3>2
  <2> QED
    BY <2>1, <2>2, <2>3, <2>4
<1>2. /\ DOMAIN t = 1 .. Len(x) + Len(z)
      /\ \A i \in 1 .. Len(x) : t[i] = x[i]
      /\ \A i \in 1 .. Len(z) : t[Len(x) + i] = z[i]
  <2>1. /\ t \in Seq(M) /\ Len(t) = Len(x) + Len(z)
        /\ \A i \in 1 .. Len(x) : t[i] = x[i]
        /\ \A i \in 1 .. Len(z) : t[Len(x) + i] = z[i]
    <3>1. t \in Seq(M) /\ Joint(x, z, t)
      BY CatIsSeq
    <3> QED
      BY <3>1 DEF Joint
  <2> QED
    BY <2>1, LenProperties
<1>3. GoodLine(s, made, taken, finished, FALSE)
  OBVIOUS
<1> HIDE DEF s, t
<1>4. ASSUME NEW i \in DOMAIN t
      PROVE  f(i) \in DOMAIN s /\ t[i] = s[f(i)]
  <2>1. CASE i <= Len(x)
    BY <1>1, <1>2, <2>1
  <2>2. CASE ~(i <= Len(x))
    <3>1. /\ i - Len(x) \in 1 .. Len(z) /\ f(i) = Len(x) + Len(y) + (i - Len(x))
          /\ i = Len(x) + (i - Len(x))
      BY <1>1, <1>2, <2>2
    <3>2. t[Len(x) + (i - Len(x))] = z[i - Len(x)]
      BY <1>2, <3>1
    <3>3. s[Len(x) + Len(y) + (i - Len(x))] = z[i - Len(x)]
      BY <1>1, <3>1
    <3>4. f(i) \in DOMAIN s
      BY <1>1, <1>2, <2>2
    <3> QED
      BY <3>1, <3>2, <3>3, <3>4
  <2> QED
    BY <2>1, <2>2
<1>5. \A i, j \in DOMAIN t : i < j => f(i) < f(j)
  BY <1>1, <1>2
<1> HIDE DEF f
<1>6. Ordered(t)
  BY <1>3, <1>4, <1>5 DEF GoodLine, Ordered
<1>7. \A i \in DOMAIN t : IF IsLast(t[i]) THEN finished ELSE t[i].sequence < made
  BY <1>3, <1>4 DEF GoodLine
<1> QED
  BY <1>6, <1>7 DEF GoodLine, t

LEMMA LineWeaker ==
  ASSUME NEW M, Sequenced(M), NEW line \in Seq(M), NEW made \in Nat, NEW made2 \in Nat,
         NEW taken, NEW taken2, NEW finished \in BOOLEAN, NEW finished2 \in BOOLEAN,
         GoodLine(line, made, taken, finished, FALSE), made <= made2, finished => finished2
  PROVE  GoodLine(line, made2, taken2, finished2, FALSE)
<1>1. \A i \in DOMAIN line : line[i].sequence \in Int
  BY ElementOfSeq, LenProperties DEF Sequenced
<1>2. \A i \in DOMAIN line : IF IsLast(line[i]) THEN finished2 ELSE line[i].sequence < made2
  BY <1>1 DEF GoodLine
<1>3. Ordered(line)
  BY DEF GoodLine
<1> QED
  BY <1>2, <1>3 DEF GoodLine

(***************************************************************************)
(* Nothing comes after the final message.                                  *)
(***************************************************************************)
LEMMA LineEnds ==
  ASSUME NEW M, NEW x \in Seq(M), NEW m \in M, NEW z \in Seq(M),
         NEW made, NEW taken, NEW finished \in BOOLEAN, NEW lossless,
         GoodLine(Cat(x, Cat(One(m), z)), made, taken, finished, lossless), IsLast(m)
  PROVE  finished /\ z = <<>>
<1> DEFINE s == Cat(x, Cat(One(m), z))
           k == Len(x) + 1
<1>1. /\ Len(x) \in Nat /\ Len(z) \in Nat /\ DOMAIN s = 1 .. k + Len(z)
      /\ s[k] = m
  <2>1. /\ Len(x) \in Nat /\ Len(z) \in Nat
        /\ One(m) \in Seq(M) /\ Len(One(m)) = 1 /\ One(m)[1] = m
    BY OneIsSeq, LenProperties
  <2>2. /\ Cat(One(m), z) \in Seq(M) /\ Len(Cat(One(m), z)) = 1 + Len(z)
        /\ Cat(One(m), z)[1] = m
    <3>1. Cat(One(m), z) \in Seq(M) /\ Joint(One(m), z, Cat(One(m), z))
      BY <2>1, CatIsSeq
    <3> QED
      BY <2>1, <3>1 DEF Joint
  <2>3. /\ s \in Seq(M) /\ Len(s) = Len(x) + Len(Cat(One(m), z))
        /\ \A i \in 1 .. Len(Cat(One(m), z)) : s[Len(x) + i] = Cat(One(m), z)[i]
    <3>1. s \in Seq(M) /\ Joint(x, Cat(One(m), z), s)
      BY <2>2, CatIsSeq
    <3> QED
      BY <3>1 DEF Joint
  <2>4. DOMAIN s = 1 .. Len(s)
    BY <2>3, LenProperties
  <2> HIDE DEF s
  <2> QED
    BY <2>1, <2>2, <2>3, <2>4
<1>2. GoodLine(s, made, taken, finished, lossless)
  OBVIOUS
<1> HIDE DEF s
<1>3. finished
  <2>1. k \in DOMAIN s
    BY <1>1
  <2> QED
    BY <1>1, <1>2, <2>1 DEF GoodLine
<1>4. Len(z) = 0
  <2> SUFFICES ASSUME Len(z) # 0 PROVE FALSE
    OBVIOUS
  <2>1. k \in DOMAIN s /\ k + 1 \in DOMAIN s /\ k < k + 1
    BY <1>1
  <2> QED
    BY <1>1, <1>2, <2>1 DEF GoodLine, Ordered
<1> QED
  BY <1>3, <1>4, EmptySeq

(***************************************************************************)
(* Where nothing is lost, its length says what a line holds.               *)
(***************************************************************************)
LEMMA LineHolds ==
  ASSUME NEW M, NEW line \in Seq(M), NEW made \in Nat, NEW taken \in Nat,
         NEW finished \in BOOLEAN, GoodLine(line, made, taken, finished, TRUE)
  PROVE  /\ taken <= made
         /\ taken = made /\ ~finished => line = <<>>
         /\ taken = made /\ finished => Len(line) = 1 /\ IsLast(line[1])
         /\ taken < made => line # <<>> /\ ~IsLast(line[1])
<1> DEFINE one == IF finished THEN 1 ELSE 0
<1>1. /\ taken <= made /\ Len(line) = made - taken + one /\ Len(line) \in Nat /\ one \in {0, 1}
      /\ \A i \in 1 .. made - taken : line[i].sequence = taken + i - 1
      /\ finished => line[made - taken + 1].sequence = -1
  BY LenProperties DEF GoodLine
<1>2. taken = made /\ ~finished => line = <<>>
  <2> SUFFICES ASSUME taken = made, ~finished PROVE line = <<>>
    OBVIOUS
  <2>1. Len(line) = 0
    BY <1>1
  <2> QED
    BY <2>1, EmptySeq
<1>3. taken = made /\ finished => Len(line) = 1 /\ IsLast(line[1])
  BY <1>1, LastIs
<1>4. taken < made => line # <<>> /\ ~IsLast(line[1])
  <2> SUFFICES ASSUME taken < made PROVE line # <<>> /\ ~IsLast(line[1])
    OBVIOUS
  <2>1. 1 \in 1 .. made - taken /\ Len(line) # 0
    BY <1>1
  <2>2. line[1].sequence = taken + 1 - 1
    BY <1>1, <2>1
  <2> QED
    BY <2>1, <2>2, LastIs, EmptySeq
<1> QED
  BY <1>1, <1>2, <1>3, <1>4

-----------------------------------------------------------------------------
(* The parts of the pipeline, and the final messages in them. *)

Parted ==
  /\ Sequenced(Message)
  /\ Held \in Seq(Message) /\ p2tq \in Seq(Message) /\ Upstream \in Seq(Message)
  /\ Upstream = Cat(Held, p2tq)
  /\ Held = Cat(Cat(rBlock, FlattenSeq(t2rq)), tBlock)
  /\ rBlock \in Seq(Message) /\ tBlock \in Seq(Message)
  /\ t2rq \in Seq(Seq(Message)) /\ FlattenSeq(t2rq) \in Seq(Message)
  /\ \A c \in Pair :
       /\ r2cq[c] \in Seq(Message) /\ To(c, r2cq[c]) \in Seq(Message)
       /\ To(c, Upstream) \in Seq(Message) /\ InFlight(c) \in Seq(Message)
       /\ InFlight(c) = Cat(To(c, r2cq[c]), To(c, Upstream))

LEMMA Parts == Types => Parted
<1> SUFFICES ASSUME Types
             PROVE  Parted
  OBVIOUS
<1> DEFINE F == FlattenSeq(t2rq)
<1>1. /\ rBlock \in Seq(Message) /\ tBlock \in Seq(Message) /\ p2tq \in Seq(Message)
      /\ t2rq \in Seq(Seq(Message)) /\ \A c \in Pair : r2cq[c] \in Seq(Message)
  BY DEF Types, PipelineTypeOK
<1>2. F \in Seq(Message)
  BY <1>1, FlattenIsSeq
<1>3. Sequenced(Message)
  BY DEF Sequenced, Message
<1>4. /\ Held = Cat(Cat(rBlock, F), tBlock)
      /\ Upstream = Cat(Held, p2tq)
  BY DEF Held, Upstream, Cat
<1>5. \A c : InFlight(c) = To(c, Cat(Cat(Cat(Cat(r2cq[c], rBlock), F), tBlock), p2tq))
  BY DEF InFlight, Cat
<1> HIDE DEF F
<1>6. Cat(rBlock, F) \in Seq(Message) /\ Held \in Seq(Message) /\ Upstream \in Seq(Message)
  BY <1>1, <1>2, <1>4, CatIsSeq
<1>7. ASSUME NEW c \in Pair
      PROVE  /\ To(c, r2cq[c]) \in Seq(Message)
             /\ To(c, Upstream) \in Seq(Message) /\ InFlight(c) \in Seq(Message)
             /\ InFlight(c) = Cat(To(c, r2cq[c]), To(c, Upstream))
  <2> DEFINE q == r2cq[c]
  <2>1. q \in Seq(Message)
    BY <1>1
  <2>2. InFlight(c) = To(c, Cat(Cat(Cat(Cat(q, rBlock), F), tBlock), p2tq))
    BY <1>5
  <2> HIDE DEF q
  <2>3. Cat(Cat(q, rBlock), F) = Cat(q, Cat(rBlock, F))
    BY <1>1, <1>2, <2>1, CatAssoc
  <2>4. Cat(Cat(q, Cat(rBlock, F)), tBlock) = Cat(q, Held)
    BY <1>1, <1>4, <1>6, <2>1, CatAssoc
  <2>5. Cat(Cat(q, Held), p2tq) = Cat(q, Upstream)
    BY <1>1, <1>4, <1>6, <2>1, CatAssoc
  <2>6. InFlight(c) = To(c, Cat(q, Upstream))
    BY <2>2, <2>3, <2>4, <2>5
  <2>7. /\ To(c, Cat(q, Upstream)) = Cat(To(c, q), To(c, Upstream))
        /\ To(c, q) \in Seq(Message) /\ To(c, Upstream) \in Seq(Message)
    BY <1>6, <2>1, ToJoins
  <2> QED
    BY <2>6, <2>7, CatIsSeq DEF q
<1> QED
  BY <1>1, <1>2, <1>3, <1>4, <1>6, <1>7 DEF F, Parted

LEMMA FinalInCat ==
  \A M, c : \A s, t \in Seq(M) : FinalIn(c, Cat(s, t)) <=> FinalIn(c, s) \/ FinalIn(c, t)
<1> SUFFICES ASSUME NEW M, NEW c, NEW s \in Seq(M), NEW t \in Seq(M)
             PROVE  FinalIn(c, Cat(s, t)) <=> FinalIn(c, s) \/ FinalIn(c, t)
  OBVIOUS
<1> DEFINE x == To(c, s)
           y == To(c, t)
           z == To(c, Cat(s, t))
<1>1. x \in Seq(M) /\ y \in Seq(M) /\ z = Cat(x, y)
  BY ToJoins
<1>2. /\ FinalIn(c, Cat(s, t)) <=> \E i \in DOMAIN z : IsLast(z[i])
      /\ FinalIn(c, s) <=> \E i \in DOMAIN x : IsLast(x[i])
      /\ FinalIn(c, t) <=> \E i \in DOMAIN y : IsLast(y[i])
  BY DEF FinalIn
<1> HIDE DEF x, y, z
<1>3. /\ z \in Seq(M) /\ Len(z) = Len(x) + Len(y)
      /\ \A i \in 1 .. Len(x) : z[i] = x[i]
      /\ \A i \in 1 .. Len(y) : z[Len(x) + i] = y[i]
  <2>1. z \in Seq(M) /\ Joint(x, y, z)
    BY <1>1, CatIsSeq
  <2> QED
    BY <2>1 DEF Joint
<1>4. /\ DOMAIN z = 1 .. Len(x) + Len(y) /\ DOMAIN x = 1 .. Len(x) /\ DOMAIN y = 1 .. Len(y)
      /\ Len(x) \in Nat /\ Len(y) \in Nat
  BY <1>1, <1>3, LenProperties
<1>5. ASSUME NEW i \in DOMAIN z, IsLast(z[i])
      PROVE  (\E j \in DOMAIN x : IsLast(x[j])) \/ (\E j \in DOMAIN y : IsLast(y[j]))
  <2>1. CASE i <= Len(x)
    BY <1>3, <1>4, <1>5, <2>1
  <2>2. CASE ~(i <= Len(x))
    <3>1. i - Len(x) \in DOMAIN y /\ Len(x) + (i - Len(x)) = i
      BY <1>4, <2>2
    <3>2. z[Len(x) + (i - Len(x))] = y[i - Len(x)]
      BY <1>3, <1>4, <3>1
    <3>3. IsLast(y[i - Len(x)])
      BY <1>5, <3>1, <3>2
    <3> QED
      BY <3>1, <3>3
  <2> QED
    BY <2>1, <2>2
<1>6. ASSUME NEW j \in DOMAIN x, IsLast(x[j])
      PROVE  \E i \in DOMAIN z : IsLast(z[i])
  BY <1>3, <1>4, <1>6
<1>7. ASSUME NEW j \in DOMAIN y, IsLast(y[j])
      PROVE  \E i \in DOMAIN z : IsLast(z[i])
  <2>1. Len(x) + j \in DOMAIN z /\ IsLast(z[Len(x) + j])
    BY <1>3, <1>4, <1>7
  <2> QED
    BY <2>1
<1> QED
  BY <1>2, <1>5, <1>6, <1>7

LEMMA FinalInOne ==
  \A c, m : FinalIn(c, One(m)) <=> m.destination = c /\ IsLast(m)
<1> SUFFICES ASSUME NEW c, NEW m
             PROVE  FinalIn(c, One(m)) <=> m.destination = c /\ IsLast(m)
  OBVIOUS
<1>1. To(c, One(m)) = IF m.destination = c THEN One(m) ELSE <<>>
  BY ToOne
<1>2. DOMAIN One(m) = {1} /\ One(m)[1] = m
  BY DEF One
<1> QED
  BY <1>1, <1>2 DEF FinalIn

LEMMA CountOf ==
  ASSUME NEW n \in Nat, NEW S, NEW T, S \subseteq T, T \subseteq 1 .. n
  PROVE  /\ Cardinality(S) \in Nat /\ Cardinality(T) \in Nat /\ Cardinality(S) <= Cardinality(T)
         /\ \A p \in S : Cardinality(S \ {p}) = Cardinality(S) - 1
<1>1. IsFiniteSet(T) /\ IsFiniteSet(S)
  <2>1. IsFiniteSet(1 .. n)
    BY FS_Interval
  <2>2. IsFiniteSet(T)
    BY <2>1, FS_Subset
  <2> QED
    BY <2>2, FS_Subset
<1> QED
  BY <1>1, FS_Subset, FS_CardinalityType, FS_RemoveElement

LEMMA PartsNext == Types' => Parted'
BY Parts, PTL

-----------------------------------------------------------------------------
(* What the steps of the programs do to the lines and the counts. *)

Flows == Lines /\ Counts

\* A step between typed states that changes neither the program nor npc.
Steps == Types /\ Types' /\ npc' = npc /\ program' = program

LEMMA Stepping ==
  ASSUME Steps
  PROVE  /\ npc \in Nat /\ Pair' = Pair /\ Message' = Message /\ Lossless' = Lossless
         /\ Parted /\ Parted'
         /\ produced \in [Pair -> 0 .. Goal] /\ produced' \in [Pair -> 0 .. Goal]
         /\ consumed \in [Pair -> 0 .. Goal] /\ consumed' \in [Pair -> 0 .. Goal]
         /\ r2cq \in [Pair -> Seq(Message)] /\ r2cq' \in [Pair -> Seq(Message)]
         /\ tLeft \in Int /\ rLeft \in Int /\ Goal \in Nat
         /\ Lossless \in BOOLEAN
<1>1. Pair' = Pair /\ Message' = Message /\ Lossless' = Lossless /\ Lossless \in BOOLEAN
  BY DEF Steps, Pair, Message, Lossless
<1>2. Parted /\ Parted'
  BY Parts, PartsNext DEF Steps
<1>3. npc \in Nat /\ Goal \in Nat
  <2>1. Types
    BY DEF Steps
  <2>2. npc \in 1 .. MaxPairs
    BY <2>1 DEF Types, PipelineTypeOK
  <2> QED
    BY <2>2, PipelineAssumption
<1>4. /\ produced \in [Pair -> 0 .. Goal] /\ consumed \in [Pair -> 0 .. Goal]
      /\ r2cq \in [Pair -> Seq(Message)] /\ tLeft \in Int /\ rLeft \in Int
  <2>1. Types
    BY DEF Steps
  <2> QED
    BY <2>1 DEF Types, PipelineTypeOK
<1>5. /\ produced' \in [Pair' -> 0 .. Goal] /\ consumed' \in [Pair' -> 0 .. Goal]
      /\ r2cq' \in [Pair' -> Seq(Message')]
  <2>1. Types'
    BY DEF Steps
  <2> QED
    BY <2>1 DEF Types, PipelineTypeOK
<1> QED
  BY <1>1, <1>2, <1>3, <1>4, <1>5

(***************************************************************************)
(* Messages move between two parts of the same line, or not at all.        *)
(***************************************************************************)
LEMMA FlowsOn ==
  ASSUME Steps, Flows, Upstream' = Upstream, p2tq' = p2tq,
         UNCHANGED <<r2cq, produced, consumed, tLeft, rLeft>>,
         \A p \in Pair : Finished(p)' = Finished(p)
  PROVE  Flows'
<1>1. /\ Pair' = Pair /\ Lossless' = Lossless
      /\ \A c \in Pair : InFlight(c) = Cat(To(c, r2cq[c]), To(c, Upstream))
      /\ \A c \in Pair : InFlight(c)' = Cat(To(c, r2cq[c]), To(c, Upstream))
  BY Stepping DEF Parted
<1>2. \A c \in Pair : InFlight(c)' = InFlight(c)
  BY <1>1
<1>3. Lines'
  BY <1>1, <1>2 DEF Flows, Lines
<1>4. Awaited(p2tq)' = Awaited(p2tq) /\ Awaited(Upstream)' = Awaited(Upstream)
  BY <1>1 DEF Awaited
<1> QED
  BY <1>1, <1>3, <1>4 DEF Flows, Counts

(***************************************************************************)
(* Producer p makes the next message, or its final one.                    *)
(***************************************************************************)
LEMMA FlowsIn ==
  ASSUME Steps, Flows, NEW p \in Pair, NEW m \in Message, m.destination = p,
         ~Finished(p), p2tq' = Append(p2tq, m), Held' = Held,
         UNCHANGED <<r2cq, consumed, tLeft, rLeft>>,
         \/ /\ m.sequence = produced[p] /\ produced' = [produced EXCEPT ![p] = @ + 1]
            /\ running' = running
         \/ /\ m.sequence = -1 /\ produced' = produced
            /\ running' = running \ {<<"producer", p>>}
  PROVE  Flows'
<1>1. /\ Pair' = Pair /\ Lossless' = Lossless /\ Lossless \in BOOLEAN
      /\ produced \in [Pair -> 0 .. Goal] /\ consumed \in [Pair -> 0 .. Goal]
      /\ Sequenced(Message) /\ p2tq \in Seq(Message) /\ Held \in Seq(Message)
      /\ Upstream \in Seq(Message)
      /\ Upstream = Cat(Held, p2tq) /\ Upstream' = Cat(Held, p2tq')
  BY Stepping DEF Parted
<1>2. \A c \in Pair : /\ To(c, r2cq[c]) \in Seq(Message) /\ To(c, Upstream) \in Seq(Message)
                      /\ InFlight(c) \in Seq(Message)
                      /\ InFlight(c) = Cat(To(c, r2cq[c]), To(c, Upstream))
                      /\ InFlight(c)' = Cat(To(c, r2cq[c]), To(c, Upstream'))
  BY Stepping DEF Parted
<1>3. p2tq' = Cat(p2tq, One(m)) /\ Upstream' = Cat(Upstream, One(m)) /\ One(m) \in Seq(Message)
  <2>1. p2tq' = Cat(p2tq, One(m)) /\ One(m) \in Seq(Message)
    BY <1>1, AppendIsCat, OneIsSeq
  <2>2. Cat(Cat(Held, p2tq), One(m)) = Cat(Held, Cat(p2tq, One(m)))
    BY <1>1, <2>1, CatAssoc
  <2> QED
    BY <1>1, <2>1, <2>2
<1>4. \A c \in Pair : InFlight(c)' = IF c = p THEN Cat(InFlight(c), One(m)) ELSE InFlight(c)
  <2> SUFFICES ASSUME NEW c \in Pair
               PROVE  InFlight(c)' = IF c = p THEN Cat(InFlight(c), One(m)) ELSE InFlight(c)
    OBVIOUS
  <2>1. To(c, Upstream') = Cat(To(c, Upstream), To(c, One(m)))
    BY <1>1, <1>3, ToJoins
  <2>2. To(c, One(m)) = IF c = p THEN One(m) ELSE <<>>
    BY ToOne
  <2>3. CASE c = p
    BY <1>2, <1>3, <2>1, <2>2, <2>3, CatAssoc
  <2>4. CASE c # p
    BY <1>2, <2>1, <2>2, <2>4, CatNone
  <2> QED
    BY <2>3, <2>4
<1>5. \A c \in Pair : c # p => produced'[c] = produced[c] /\ Finished(c)' = Finished(c)
  BY <1>1 DEF Finished
<1>6. Lines'
  <2> SUFFICES ASSUME NEW c \in Pair
               PROVE  /\ GoodLine(InFlight(c)', produced'[c], consumed[c], Finished(c)', Lossless)
                      /\ \A i \in DOMAIN r2cq[c] : r2cq[c][i].destination = c
    BY <1>1 DEF Lines
  <2>1. /\ GoodLine(InFlight(c), produced[c], consumed[c], Finished(c), Lossless)
        /\ \A i \in DOMAIN r2cq[c] : r2cq[c][i].destination = c
    BY DEF Flows, Lines
  <2>2. CASE c # p
    BY <1>1, <1>4, <1>5, <2>1, <2>2
  <2>3. CASE c = p
    <3>1. GoodLine(InFlight(p), produced[p], consumed[p], FALSE, Lossless)
      BY <2>1, <2>3 DEF Finished
    <3>2. /\ produced[p] \in Nat /\ consumed[p] \in Nat /\ Lossless \in BOOLEAN
          /\ InFlight(p) \in Seq(Message)
      BY <1>1, <1>2
    <3>3. /\ m.sequence = produced[p] =>
               GoodLine(Cat(InFlight(p), One(m)), produced[p] + 1, consumed[p], FALSE, Lossless)
          /\ m.sequence = -1 =>
               GoodLine(Cat(InFlight(p), One(m)), produced[p], consumed[p], TRUE, Lossless)
      <4> DEFINE line == InFlight(p)
                 made == produced[p]
                 taken == consumed[p]
      <4>1. /\ GoodLine(line, made, taken, FALSE, Lossless) /\ Sequenced(Message)
            /\ made \in Nat /\ taken \in Nat /\ line \in Seq(Message) /\ Lossless \in BOOLEAN
        BY <1>1, <3>1, <3>2
      <4> HIDE DEF line, made, taken
      <4>2. /\ m.sequence = made => GoodLine(Cat(line, One(m)), made + 1, taken, FALSE, Lossless)
            /\ m.sequence = -1 => GoodLine(Cat(line, One(m)), made, taken, TRUE, Lossless)
        BY <4>1, LineGrows, Zenon
      <4> QED
        BY <4>2 DEF line, made, taken
    <3>4. \/ m.sequence = produced[p] /\ produced'[p] = produced[p] + 1 /\ Finished(p)' = FALSE
          \/ m.sequence = -1 /\ produced'[p] = produced[p] /\ Finished(p)' = TRUE
      BY <1>1 DEF Finished
    <3> QED
      BY <1>4, <2>1, <2>3, <3>3, <3>4
  <2> QED
    BY <2>2, <2>3
<1>7. ASSUME NEW s \in Seq(Message)
      PROVE  {q \in Pair : ~Finished(q)' \/ FinalIn(q, Cat(s, One(m)))}
               = {q \in Pair : ~Finished(q) \/ FinalIn(q, s)}
  <2> SUFFICES ASSUME NEW q \in Pair
               PROVE  ~Finished(q)' \/ FinalIn(q, Cat(s, One(m))) <=> ~Finished(q) \/ FinalIn(q, s)
    OBVIOUS
  <2>1. FinalIn(q, Cat(s, One(m))) <=> FinalIn(q, s) \/ (m.destination = q /\ IsLast(m))
    BY <1>3, FinalInCat, FinalInOne
  <2>2. CASE q # p
    BY <1>5, <2>1, <2>2
  <2>3. CASE q = p
    <3>1. \/ Finished(p)' = FALSE
          \/ Finished(p)' = TRUE /\ m.sequence = -1
      BY DEF Finished
    <3> QED
      BY <2>1, <2>3, <3>1, LastIs
  <2> QED
    BY <2>2, <2>3
<1>8. Awaited(p2tq)' = Awaited(p2tq) /\ Awaited(Upstream)' = Awaited(Upstream)
  BY <1>1, <1>3, <1>7 DEF Awaited
<1> QED
  BY <1>1, <1>6, <1>8 DEF Flows, Counts

(***************************************************************************)
(* A final message leaves s, a part of the line that nothing follows: its  *)
(* producer is awaited no longer.                                          *)
(***************************************************************************)
LEMMA OneLessAwaited ==
  ASSUME Types, Lines, NEW w \in Seq(Message), NEW m \in Message, NEW rest \in Seq(Message),
         Upstream = Cat(w, Cat(One(m), rest))
  PROVE  Cardinality(Awaited(Cat(One(m), rest)))
           = Cardinality(Awaited(rest)) + (IF IsLast(m) THEN 1 ELSE 0)
<1> DEFINE p == m.destination
           s == Cat(One(m), rest)
<1>1. Parted /\ npc \in Nat /\ p \in Pair /\ One(m) \in Seq(Message)
  <2>1. p \in Pair
    BY DEF Message
  <2>2. npc \in 1 .. MaxPairs
    BY DEF Types, PipelineTypeOK
  <2>3. npc \in Nat
    BY <2>2, PipelineAssumption
  <2> QED
    BY <2>1, <2>3, Parts, OneIsSeq
<1>2. \A q \in Pair : FinalIn(q, s) <=> (p = q /\ IsLast(m)) \/ FinalIn(q, rest)
  BY <1>1, FinalInCat, FinalInOne
<1>3. CASE ~IsLast(m)
  <2>1. Awaited(s) = Awaited(rest)
    BY <1>2, <1>3 DEF Awaited
  <2>2. Cardinality(Awaited(rest)) \in Nat
    BY <1>1, CountOf DEF Awaited, Pair
  <2> QED
    BY <1>3, <2>1, <2>2
<1>4. CASE IsLast(m)
  <2> DEFINE x == Cat(To(p, r2cq[p]), To(p, w))
             z == To(p, rest)
  <2>1. To(p, Upstream) = Cat(To(p, w), Cat(One(m), z)) /\ z \in Seq(Message) /\ To(p, w) \in Seq(Message)
    <3>1. /\ To(p, Upstream) = Cat(To(p, w), To(p, s)) /\ To(p, s) = Cat(To(p, One(m)), z)
          /\ To(p, w) \in Seq(Message) /\ z \in Seq(Message)
      <4>1. s \in Seq(Message)
        BY <1>1, CatIsSeq
      <4> QED
        BY <1>1, <4>1, ToJoins
    <3>2. To(p, One(m)) = One(m)
      BY ToOne
    <3> QED
      BY <3>1, <3>2
  <2>2. InFlight(p) = Cat(x, Cat(One(m), z)) /\ x \in Seq(Message)
    <3>1. /\ InFlight(p) = Cat(To(p, r2cq[p]), To(p, Upstream)) /\ To(p, r2cq[p]) \in Seq(Message)
      BY <1>1 DEF Parted
    <3>2. Cat(One(m), z) \in Seq(Message)
      BY <1>1, <2>1, CatIsSeq
    <3> HIDE DEF z, p
    <3> QED
      BY <2>1, <3>1, <3>2, CatAssoc, CatIsSeq
  <2>3. GoodLine(InFlight(p), produced[p], consumed[p], Finished(p), Lossless)
    BY <1>1 DEF Lines
  <2>4. Finished(p) \in BOOLEAN
    BY DEF Finished
  <2> HIDE DEF x, z, p
  <2>5. Finished(p) /\ z = <<>>
    BY <1>4, <2>1, <2>2, <2>3, <2>4, LineEnds
  <2>6. ~FinalIn(p, rest)
    BY <2>5 DEF FinalIn, z
  <2>7. Awaited(rest) = Awaited(s) \ {p} /\ p \in Awaited(s)
    BY <1>1, <1>2, <1>4, <2>5, <2>6 DEF Awaited
  <2>8. /\ Cardinality(Awaited(s)) \in Nat
        /\ Cardinality(Awaited(s) \ {p}) = Cardinality(Awaited(s)) - 1
    <3>1. Awaited(s) \subseteq 1 .. npc
      BY DEF Awaited, Pair
    <3> HIDE DEF s
    <3> QED
      BY <1>1, <2>7, <3>1, CountOf
  <2> QED
    BY <1>4, <2>7, <2>8
<1> QED
  BY <1>3, <1>4


LEMMA LinesOn ==
  ASSUME Steps, Flows, Upstream' = Upstream, UNCHANGED <<r2cq, produced, consumed>>,
         \A p \in Pair : Finished(p)' = Finished(p)
  PROVE  Lines'
<1>1. /\ Pair' = Pair /\ Lossless' = Lossless
      /\ \A c \in Pair : InFlight(c) = Cat(To(c, r2cq[c]), To(c, Upstream))
      /\ \A c \in Pair : InFlight(c)' = Cat(To(c, r2cq[c]), To(c, Upstream))
  BY Stepping DEF Parted
<1>2. \A c \in Pair : InFlight(c)' = InFlight(c)
  BY <1>1
<1> QED
  BY <1>1, <1>2 DEF Flows, Lines

(***************************************************************************)
(* The transmitter takes a message out of p2tq, and counts it if it is a   *)
(* final one.                                                              *)
(***************************************************************************)
LEMMA FlowsToTransmitter ==
  ASSUME Steps, Flows, p2tq # <<>>, p2tq' = Tail(p2tq), Upstream' = Upstream,
         UNCHANGED <<r2cq, produced, consumed, rLeft>>,
         \A p \in Pair : Finished(p)' = Finished(p),
         tLeft' = IF IsLast(Head(p2tq)) THEN tLeft - 1 ELSE tLeft
  PROVE  Flows'
<1>1. /\ Pair' = Pair /\ Lossless' = Lossless /\ Parted /\ tLeft \in Int /\ npc \in Nat
  BY Stepping
<1>2. Lines'
  BY LinesOn
<1> DEFINE h == Head(p2tq)
           t == Tail(p2tq)
<1>3. h \in Message /\ t \in Seq(Message) /\ p2tq = Cat(One(h), t) /\ Held \in Seq(Message)
  BY <1>1, HeadAndTail DEF Parted
<1>4. Upstream = Cat(Held, Cat(One(h), t))
  BY <1>1, <1>3 DEF Parted
<1>5. Awaited(p2tq)' = Awaited(t) /\ Awaited(Upstream)' = Awaited(Upstream)
  BY <1>1 DEF Awaited
<1>6. tLeft' = IF IsLast(h) THEN tLeft - 1 ELSE tLeft
  OBVIOUS
<1> HIDE DEF h, t
<1>7. Cardinality(Awaited(Cat(One(h), t))) = Cardinality(Awaited(t)) + (IF IsLast(h) THEN 1 ELSE 0)
  BY <1>3, <1>4, OneLessAwaited DEF Steps, Flows
<1>8. Cardinality(Awaited(t)) \in Nat
  BY <1>1, CountOf DEF Awaited, Pair
<1>9. /\ Cardinality(Awaited(t)) <= tLeft'
      /\ Lossless => tLeft' = Cardinality(Awaited(t))
  BY <1>1, <1>3, <1>6, <1>7, <1>8 DEF Flows, Counts
<1>10. Counts'
  BY <1>1, <1>5, <1>9 DEF Flows, Counts
<1> QED
  BY <1>2, <1>10 DEF Flows

(***************************************************************************)
(* The receiver hands the first message to its consumer's queue, and       *)
(* counts it if it is a final one.                                         *)
(***************************************************************************)
LEMMA FlowsToConsumer ==
  ASSUME Steps, Flows, NEW m \in Message, Upstream = Cat(One(m), Upstream'), p2tq' = p2tq,
         UNCHANGED <<produced, consumed, tLeft>>,
         \A p \in Pair : Finished(p)' = Finished(p),
         r2cq' = [r2cq EXCEPT ![m.destination] = Append(@, m)],
         rLeft' = IF IsLast(m) THEN rLeft - 1 ELSE rLeft
  PROVE  Flows'
<1> DEFINE d == m.destination
<1>1. /\ Pair' = Pair /\ Lossless' = Lossless /\ Parted /\ rLeft \in Int /\ npc \in Nat
      /\ Upstream' \in Seq(Message) /\ r2cq \in [Pair -> Seq(Message)]
      /\ \A c \in Pair : /\ InFlight(c) = Cat(To(c, r2cq[c]), To(c, Upstream))
                         /\ InFlight(c)' = Cat(To(c, r2cq'[c]), To(c, Upstream'))
  BY Stepping DEF Parted
<1>2. d \in Pair /\ One(m) \in Seq(Message)
  <2>1. d \in Pair
    BY DEF Message
  <2> QED
    BY <2>1, OneIsSeq
<1>3. ASSUME NEW c \in Pair
      PROVE  /\ InFlight(c)' = InFlight(c)
             /\ \A i \in DOMAIN r2cq'[c] : r2cq'[c][i].destination = c
  <2> DEFINE q == r2cq[c]
             u == Upstream'
  <2>1. q \in Seq(Message) /\ u \in Seq(Message) /\ \A i \in DOMAIN q : q[i].destination = c
    BY <1>1 DEF Flows, Lines
  <2>2. InFlight(c) = Cat(To(c, q), Cat(To(c, One(m)), To(c, u))) /\ To(c, q) \in Seq(Message)
        /\ To(c, u) \in Seq(Message)
    <3>1. InFlight(c) = Cat(To(c, q), To(c, Cat(One(m), u)))
      BY <1>1
    <3> HIDE DEF q, u
    <3> QED
      BY <1>2, <2>1, <3>1, ToJoins
  <2>3. To(c, One(m)) = IF d = c THEN One(m) ELSE <<>>
    BY ToOne
  <2>4. CASE d # c
    <3>1. r2cq'[c] = q
      BY <1>1, <1>2, <2>4
    <3>2. InFlight(c)' = Cat(To(c, q), To(c, u))
      BY <1>1, <3>1
    <3> HIDE DEF q, u
    <3>3. Cat(<<>>, To(c, u)) = To(c, u)
      BY <2>2, CatNone
    <3> QED
      BY <2>1, <2>2, <2>3, <2>4, <3>1, <3>2, <3>3
  <2>5. CASE d = c
    <3>1. r2cq'[c] = Append(q, m)
      BY <1>1, <1>2, <2>5
    <3>2. InFlight(c)' = Cat(To(c, Append(q, m)), To(c, u))
      BY <1>1, <3>1
    <3> HIDE DEF q, u
    <3>3. To(c, Append(q, m)) = Cat(To(c, q), One(m))
      <4>1. Append(q, m) = Cat(q, One(m))
        BY <2>1, AppendIsCat
      <4>2. To(c, Cat(q, One(m))) = Cat(To(c, q), To(c, One(m)))
        BY <1>2, <2>1, ToJoins
      <4> QED
        BY <2>3, <2>5, <4>1, <4>2
    <3>4. Cat(Cat(To(c, q), One(m)), To(c, u)) = Cat(To(c, q), Cat(One(m), To(c, u)))
      BY <1>2, <2>2, CatAssoc
    <3>5. InFlight(c)' = InFlight(c)
      BY <2>2, <2>3, <2>5, <3>2, <3>3, <3>4
    <3>6. \A i \in DOMAIN Append(q, m) : Append(q, m)[i].destination = c
      BY <2>1, <2>5
    <3> QED
      BY <3>1, <3>5, <3>6
  <2> QED
    BY <2>4, <2>5
<1>4. Lines'
  BY <1>1, <1>3 DEF Flows, Lines
<1>5. Awaited(p2tq)' = Awaited(p2tq) /\ Awaited(Upstream)' = Awaited(Upstream')
  BY <1>1 DEF Awaited
<1> DEFINE u == Upstream'
<1>6. Awaited(Upstream)' = Awaited(u) /\ Upstream = Cat(One(m), u) /\ u \in Seq(Message)
  BY <1>1, <1>5
<1> HIDE DEF u
<1>7. Cardinality(Awaited(Upstream)) = Cardinality(Awaited(u)) + (IF IsLast(m) THEN 1 ELSE 0)
  <2>1. Cat(One(m), u) = Cat(<<>>, Cat(One(m), u)) /\ <<>> \in Seq(Message)
    BY <1>2, <1>6, CatIsSeq, CatNone, EmptySeq
  <2>2. Cardinality(Awaited(Cat(One(m), u))) = Cardinality(Awaited(u)) + (IF IsLast(m) THEN 1 ELSE 0)
    BY <1>6, <2>1, OneLessAwaited DEF Steps, Flows
  <2> QED
    BY <1>6, <2>2
<1>8. Cardinality(Awaited(u)) \in Nat
  BY <1>1, CountOf DEF Awaited, Pair
<1>9. /\ Cardinality(Awaited(u)) <= rLeft'
      /\ Lossless => rLeft' = Cardinality(Awaited(u))
  BY <1>1, <1>7, <1>8 DEF Flows, Counts
<1>10. Counts'
  BY <1>1, <1>5, <1>6, <1>9 DEF Flows, Counts
<1> QED
  BY <1>4, <1>10 DEF Flows

(***************************************************************************)
(* Consumer c gets a message that is not a final one.                      *)
(***************************************************************************)
LEMMA FlowsOut ==
  ASSUME Steps, Flows, NEW c \in Pair, r2cq[c] # <<>>, ~IsLast(Head(r2cq[c])),
         r2cq' = [r2cq EXCEPT ![c] = Tail(@)], consumed' = [consumed EXCEPT ![c] = @ + 1],
         Upstream' = Upstream, p2tq' = p2tq, UNCHANGED <<produced, tLeft, rLeft>>,
         \A p \in Pair : Finished(p)' = Finished(p)
  PROVE  Flows'
<1>1. /\ Pair' = Pair /\ Lossless' = Lossless /\ Lossless \in BOOLEAN /\ Sequenced(Message)
      /\ produced \in [Pair -> 0 .. Goal] /\ consumed \in [Pair -> 0 .. Goal] /\ Goal \in Nat
      /\ r2cq \in [Pair -> Seq(Message)]
      /\ \A b \in Pair : /\ To(b, Upstream) \in Seq(Message)
                         /\ InFlight(b) = Cat(To(b, r2cq[b]), To(b, Upstream))
                         /\ InFlight(b)' = Cat(To(b, r2cq'[b]), To(b, Upstream))
  BY Stepping DEF Parted
<1>2. ASSUME NEW b \in Pair, b # c
      PROVE  /\ GoodLine(InFlight(b)', produced[b], consumed'[b], Finished(b), Lossless)
             /\ \A i \in DOMAIN r2cq'[b] : r2cq'[b][i].destination = b
  <2>1. r2cq'[b] = r2cq[b] /\ consumed'[b] = consumed[b]
    BY <1>1, <1>2
  <2>2. InFlight(b)' = InFlight(b)
    BY <1>1, <2>1
  <2> QED
    BY <2>1, <2>2 DEF Flows, Lines
<1>3. /\ GoodLine(InFlight(c)', produced[c], consumed'[c], Finished(c), Lossless)
      /\ \A i \in DOMAIN r2cq'[c] : r2cq'[c][i].destination = c
  <2> DEFINE q == r2cq[c]
             h == Head(q)
             t == Tail(q)
             made == produced[c]
             taken == consumed[c]
             finished == Finished(c)
  <2>1. /\ q \in Seq(Message) /\ h \in Message /\ t \in Seq(Message) /\ q = Cat(One(h), t)
        /\ r2cq'[c] = t /\ ~IsLast(h)
    BY <1>1, HeadAndTail
  <2>2. \A i \in DOMAIN q : q[i].destination = c
    BY DEF Flows, Lines
  <2>3. h.destination = c /\ \A i \in DOMAIN t : t[i].destination = c
    BY <2>1, <2>2
  <2>4. /\ made \in Nat /\ taken \in Nat /\ finished \in BOOLEAN /\ consumed'[c] = taken + 1
        /\ GoodLine(InFlight(c), made, taken, finished, Lossless)
    BY <1>1 DEF Flows, Lines, Finished
  <2> DEFINE rest == Cat(To(c, t), To(c, Upstream))
  <2>5. InFlight(c)' = rest /\ InFlight(c) = Cat(To(c, q), To(c, Upstream))
    BY <1>1, <2>1
  <2> HIDE DEF q, h, t, made, taken, finished
  <2>6. /\ To(c, q) = Cat(One(h), To(c, t)) /\ To(c, t) \in Seq(Message) /\ One(h) \in Seq(Message)
    BY <2>1, <2>3, ToJoins, ToOne, OneIsSeq, SMTT(30)
  <2>7. InFlight(c) = Cat(One(h), rest) /\ rest \in Seq(Message)
    BY <1>1, <2>5, <2>6, CatAssoc, CatIsSeq
  <2> HIDE DEF rest
  <2>8. GoodLine(rest, made, taken + 1, finished, Lossless)
    <3>1. GoodLine(Cat(One(h), rest), made, taken, finished, Lossless)
      BY <2>4, <2>7
    <3>2. /\ Sequenced(Message) /\ Lossless \in BOOLEAN /\ finished \in BOOLEAN
          /\ rest \in Seq(Message) /\ h \in Message /\ made \in Nat /\ taken \in Nat
          /\ ~IsLast(h)
      BY <1>1, <2>1, <2>4, <2>7
    <3> QED
      BY <3>1, <3>2, LineMoves, Zenon
  <2> QED
    BY <2>1, <2>3, <2>4, <2>5, <2>8 DEF made, finished
<1>4. Lines'
  BY <1>1, <1>2, <1>3, SMTT(30) DEF Lines
<1>5. Awaited(p2tq)' = Awaited(p2tq) /\ Awaited(Upstream)' = Awaited(Upstream)
  BY <1>1 DEF Awaited
<1> QED
  BY <1>1, <1>4, <1>5 DEF Flows, Counts


(***************************************************************************)
(* Where messages may be lost, some are, and no new ones are made.         *)
(***************************************************************************)
Loses(s, t) == \E x, y, z \in Seq(Message) : s = Cat(x, Cat(y, z)) /\ t = Cat(x, z)

LEMMA LosesNothing == \A s \in Seq(Message) : Loses(s, s)
<1> SUFFICES ASSUME NEW s \in Seq(Message)
             PROVE  \E x, y, z \in Seq(Message) : s = Cat(x, Cat(y, z)) /\ s = Cat(x, z)
  BY DEF Loses
<1>1. <<>> \in Seq(Message) /\ Cat(<<>>, s) = s
  BY EmptySeq, CatNone
<1>2. s = Cat(<<>>, Cat(<<>>, s)) /\ s = Cat(<<>>, s)
  BY <1>1
<1> QED
  BY <1>1, <1>2

LEMMA LosesFirst ==
  ASSUME NEW s \in Seq(Message), s # <<>>
  PROVE  Loses(s, Tail(s)) /\ Tail(s) \in Seq(Message)
<1> DEFINE h == One(Head(s))
           t == Tail(s)
<1>1. h \in Seq(Message) /\ t \in Seq(Message) /\ s = Cat(h, t)
  BY HeadAndTail, OneIsSeq
<1> HIDE DEF h, t
<1>2. <<>> \in Seq(Message) /\ Cat(<<>>, t) = t /\ Cat(h, t) = Cat(<<>>, Cat(h, t))
  BY <1>1, EmptySeq, CatNone, CatIsSeq
<1>3. Loses(s, t)
  BY <1>1, <1>2 DEF Loses
<1> QED
  BY <1>1, <1>3 DEF t

\* What is lost in a part is lost in the whole.
LEMMA LosesIn ==
  ASSUME NEW v \in Seq(Message), NEW s \in Seq(Message), NEW t \in Seq(Message),
         NEW w \in Seq(Message), Loses(s, t)
  PROVE  Loses(Cat(v, s), Cat(v, t)) /\ Loses(Cat(s, w), Cat(t, w))
<1>1. PICK x \in Seq(Message), y \in Seq(Message), z \in Seq(Message) :
        s = Cat(x, Cat(y, z)) /\ t = Cat(x, z)
  BY DEF Loses
<1>2. Cat(y, z) \in Seq(Message) /\ Cat(x, z) \in Seq(Message)
  BY CatIsSeq
<1>3. Loses(Cat(v, s), Cat(v, t))
  <2>1. /\ Cat(v, s) = Cat(Cat(v, x), Cat(y, z)) /\ Cat(v, t) = Cat(Cat(v, x), z)
        /\ Cat(v, x) \in Seq(Message)
    BY <1>1, <1>2, CatAssoc, CatIsSeq
  <2> QED
    BY <2>1 DEF Loses
<1>4. Loses(Cat(s, w), Cat(t, w))
  <2>1. Cat(z, w) \in Seq(Message)
    BY CatIsSeq
  <2>2. Cat(t, w) = Cat(x, Cat(z, w))
    BY <1>1, CatAssoc
  <2>3. Cat(s, w) = Cat(x, Cat(Cat(y, z), w))
    BY <1>1, <1>2, CatAssoc
  <2>4. Cat(Cat(y, z), w) = Cat(y, Cat(z, w))
    BY CatAssoc
  <2> QED
    BY <2>1, <2>2, <2>3, <2>4 DEF Loses
<1> QED
  BY <1>3, <1>4

LEMMA LosesTo ==
  ASSUME NEW c, NEW s \in Seq(Message), NEW t \in Seq(Message), Loses(s, t)
  PROVE  Loses(To(c, s), To(c, t)) /\ (FinalIn(c, t) => FinalIn(c, s))
<1>1. PICK x \in Seq(Message), y \in Seq(Message), z \in Seq(Message) :
        s = Cat(x, Cat(y, z)) /\ t = Cat(x, z)
  BY DEF Loses
<1>2. Cat(y, z) \in Seq(Message)
  BY CatIsSeq
<1>3. /\ To(c, s) = Cat(To(c, x), Cat(To(c, y), To(c, z))) /\ To(c, t) = Cat(To(c, x), To(c, z))
      /\ To(c, x) \in Seq(Message) /\ To(c, y) \in Seq(Message) /\ To(c, z) \in Seq(Message)
  BY <1>1, <1>2, ToJoins
<1>4. /\ FinalIn(c, s) <=> FinalIn(c, x) \/ FinalIn(c, y) \/ FinalIn(c, z)
      /\ FinalIn(c, t) <=> FinalIn(c, x) \/ FinalIn(c, z)
  BY <1>1, <1>2, FinalInCat
<1> QED
  BY <1>3, <1>4 DEF Loses

LEMMA FlowsLess ==
  ASSUME Steps, Flows, ~Lossless,
         \A c \in Pair : Loses(InFlight(c), InFlight(c)'),
         \A c \in Pair : \A i \in DOMAIN r2cq'[c] : r2cq'[c][i].destination = c,
         \A c \in Pair : produced[c] <= produced'[c] /\ (Finished(c) => Finished(c)'),
         \A c \in Pair : FinalIn(c, p2tq') => FinalIn(c, p2tq),
         \A c \in Pair : FinalIn(c, Upstream') => FinalIn(c, Upstream),
         UNCHANGED <<tLeft, rLeft>>
  PROVE  Flows'
<1>1. /\ Pair' = Pair /\ Lossless' = Lossless /\ Lossless = FALSE /\ Sequenced(Message)
      /\ produced \in [Pair -> 0 .. Goal] /\ produced' \in [Pair -> 0 .. Goal] /\ Goal \in Nat
      /\ npc \in Nat /\ tLeft \in Int /\ rLeft \in Int
  <2>1. Lossless = FALSE
    BY DEF Lossless
  <2> QED
    BY <2>1, Stepping DEF Parted
<1>2. ASSUME NEW c \in Pair
      PROVE  GoodLine(InFlight(c)', produced'[c], consumed'[c], Finished(c)', FALSE)
  <2>1. GoodLine(InFlight(c), produced[c], consumed[c], Finished(c), FALSE)
    BY <1>1 DEF Flows, Lines
  <2>2. PICK x \in Seq(Message), y \in Seq(Message), z \in Seq(Message) :
          InFlight(c) = Cat(x, Cat(y, z)) /\ InFlight(c)' = Cat(x, z)
    BY DEF Loses
  <2> DEFINE line == Cat(x, z)
             made == produced[c]
             made2 == produced'[c]
             taken == consumed[c]
             taken2 == consumed'[c]
             finished == Finished(c)
             finished2 == Finished(c)'
  <2>3. /\ GoodLine(Cat(x, Cat(y, z)), made, taken, finished, FALSE)
        /\ finished \in BOOLEAN /\ finished2 \in BOOLEAN /\ (finished => finished2)
        /\ made \in Nat /\ made2 \in Nat /\ made <= made2
    <3>1. finished \in BOOLEAN /\ finished2 \in BOOLEAN
      BY DEF Finished
    <3>2. GoodLine(Cat(x, Cat(y, z)), made, taken, finished, FALSE)
      BY <2>1, <2>2
    <3>3. made \in Nat /\ made2 \in Nat /\ made <= made2 /\ (finished => finished2)
      BY <1>1
    <3> QED
      BY <3>1, <3>2, <3>3
  <2>4. line \in Seq(Message)
    BY CatIsSeq
  <2>5. GoodLine(InFlight(c)', made2, taken2, finished2, FALSE) <=> GoodLine(line, made2, taken2, finished2, FALSE)
    BY <2>2
  <2> HIDE DEF made, made2, taken, taken2, finished, finished2
  <2>6. GoodLine(Cat(x, z), made, taken, finished, FALSE)
    BY <2>3, LineLoses, Zenon
  <2> HIDE DEF line
  <2>7. GoodLine(line, made, taken, finished, FALSE) /\ Sequenced(Message)
    BY <1>1, <2>6 DEF line
  <2>8. GoodLine(line, made2, taken2, finished2, FALSE)
    BY <2>3, <2>4, <2>7, LineWeaker, Zenon
  <2> QED
    BY <2>5, <2>8 DEF made2, taken2, finished2
<1>3. Lines'
  BY <1>1, <1>2 DEF Lines
<1>4. Awaited(p2tq)' \subseteq Awaited(p2tq) /\ Awaited(Upstream)' \subseteq Awaited(Upstream)
  BY <1>1 DEF Awaited
<1>5. ASSUME NEW S, NEW T, S \subseteq T, T \subseteq Pair
      PROVE  Cardinality(S) \in Nat /\ Cardinality(T) \in Nat /\ Cardinality(S) <= Cardinality(T)
  BY <1>1, <1>5, CountOf DEF Pair
<1> DEFINE a == Awaited(p2tq)
           a2 == Awaited(p2tq)'
           b == Awaited(Upstream)
           b2 == Awaited(Upstream)'
<1>6. /\ a2 \subseteq a /\ b2 \subseteq b /\ a \subseteq Pair /\ b \subseteq Pair
      /\ Cardinality(a) <= tLeft /\ Cardinality(b) <= rLeft
  BY <1>4 DEF Flows, Counts, Awaited
<1> HIDE DEF a, a2, b, b2
<1>7. Cardinality(a2) <= tLeft /\ Cardinality(b2) <= rLeft
  <2>1. Cardinality(a2) <= Cardinality(a) /\ Cardinality(a) \in Nat /\ Cardinality(a2) \in Nat
    BY <1>5, <1>6
  <2>2. Cardinality(b2) <= Cardinality(b) /\ Cardinality(b) \in Nat /\ Cardinality(b2) \in Nat
    BY <1>5, <1>6
  <2> QED
    BY <1>1, <1>6, <2>1, <2>2
<1>8. Counts'
  BY <1>1, <1>7 DEF Counts, a2, b2
<1> QED
  BY <1>3, <1>8 DEF Flows

\* Some are lost before they reach the consumers' queues.
LEMMA FlowsLessUpstream ==
  ASSUME Steps, Flows, ~Lossless, Loses(Upstream, Upstream'), Loses(p2tq, p2tq'),
         \A c \in Pair : produced[c] <= produced'[c] /\ (Finished(c) => Finished(c)'),
         UNCHANGED <<r2cq, tLeft, rLeft>>
  PROVE  Flows'
<1>1. /\ Upstream \in Seq(Message) /\ Upstream' \in Seq(Message)
      /\ p2tq \in Seq(Message) /\ p2tq' \in Seq(Message)
      /\ \A c \in Pair : /\ To(c, r2cq[c]) \in Seq(Message)
                         /\ To(c, Upstream) \in Seq(Message) /\ To(c, Upstream') \in Seq(Message)
                         /\ InFlight(c) = Cat(To(c, r2cq[c]), To(c, Upstream))
                         /\ InFlight(c)' = Cat(To(c, r2cq[c]), To(c, Upstream'))
  BY Stepping DEF Parted
<1> DEFINE u == Upstream
           v == Upstream'
           q == p2tq
           r == p2tq'
<1>2. ASSUME NEW c \in Pair
      PROVE  /\ FinalIn(c, r) => FinalIn(c, q)
             /\ FinalIn(c, v) => FinalIn(c, u)
             /\ Loses(To(c, u), To(c, v))
  <2>1. /\ u \in Seq(Message) /\ v \in Seq(Message) /\ Loses(u, v)
        /\ q \in Seq(Message) /\ r \in Seq(Message) /\ Loses(q, r)
    BY <1>1
  <2> HIDE DEF u, v, q, r
  <2> QED
    BY <2>1, LosesTo
<1>3. ASSUME NEW c \in Pair
      PROVE  Loses(InFlight(c), InFlight(c)')
  <2> DEFINE x == To(c, r2cq[c])
             y == To(c, Upstream)
             z == To(c, Upstream')
  <2>1. /\ x \in Seq(Message) /\ y \in Seq(Message) /\ z \in Seq(Message) /\ Loses(y, z)
        /\ InFlight(c) = Cat(x, y) /\ InFlight(c)' = Cat(x, z)
    BY <1>1, <1>2
  <2> HIDE DEF x, y, z
  <2> QED
    BY <2>1, LosesIn
<1>4. \A c \in Pair : \A i \in DOMAIN r2cq'[c] : r2cq'[c][i].destination = c
  BY DEF Flows, Lines
<1> QED
  BY <1>2, <1>3, <1>4, FlowsLess

\* Consumer c takes one that it does not count, or none.
LEMMA FlowsLessDownstream ==
  ASSUME Steps, Flows, ~Lossless, NEW c \in Pair,
         r2cq' = [r2cq EXCEPT ![c] = IF @ = <<>> THEN @ ELSE Tail(@)],
         Upstream' = Upstream, p2tq' = p2tq, UNCHANGED <<produced, tLeft, rLeft>>,
         \A p \in Pair : Finished(p)' = Finished(p)
  PROVE  Flows'
<1>1. /\ r2cq \in [Pair -> Seq(Message)] /\ produced \in [Pair -> 0 .. Goal] /\ Goal \in Nat
      /\ Pair' = Pair
      /\ \A b \in Pair : /\ To(b, r2cq[b]) \in Seq(Message) /\ To(b, Upstream) \in Seq(Message)
                         /\ InFlight(b) \in Seq(Message)
                         /\ InFlight(b) = Cat(To(b, r2cq[b]), To(b, Upstream))
                         /\ InFlight(b)' = Cat(To(b, r2cq'[b]), To(b, Upstream))
  BY Stepping DEF Parted
<1>2. ASSUME NEW b \in Pair
      PROVE  /\ \A i \in DOMAIN r2cq'[b] : r2cq'[b][i].destination = b
             /\ Loses(InFlight(b), InFlight(b)')
  <2>1. \A i \in DOMAIN r2cq[b] : r2cq[b][i].destination = b
    BY DEF Flows, Lines
  <2>2. CASE r2cq'[b] = r2cq[b]
    BY <1>1, <2>1, <2>2, LosesNothing
  <2>3. CASE r2cq'[b] = Tail(r2cq[b]) /\ r2cq[b] # <<>>
    <3> DEFINE q == r2cq[b]
    <3>1. q \in Seq(Message) /\ q # <<>> /\ r2cq'[b] = Tail(q)
      BY <1>1, <2>3
    <3>2. \A i \in DOMAIN Tail(q) : Tail(q)[i].destination = b
      BY <2>1, <3>1
    <3> DEFINE u == To(b, Upstream)
    <3>3. u \in Seq(Message) /\ InFlight(b) = Cat(To(b, q), u) /\ InFlight(b)' = Cat(To(b, Tail(q)), u)
      BY <1>1, <3>1
    <3> HIDE DEF q, u
    <3>4. Tail(q) \in Seq(Message) /\ Loses(q, Tail(q))
      BY <3>1, LosesFirst
    <3> DEFINE t == Tail(q)
    <3>5. t \in Seq(Message) /\ Loses(q, t) /\ InFlight(b)' = Cat(To(b, t), u)
      BY <3>3, <3>4
    <3> HIDE DEF t
    <3>6. Loses(To(b, q), To(b, t)) /\ To(b, q) \in Seq(Message) /\ To(b, t) \in Seq(Message)
      BY <3>1, <3>5, LosesTo, ToJoins
    <3>7. Loses(Cat(To(b, q), u), Cat(To(b, t), u))
      BY <3>3, <3>6, LosesIn
    <3> QED
      BY <3>1, <3>2, <3>3, <3>5, <3>7
  <2> QED
    BY <1>1, <2>2, <2>3
<1>3. \A b \in Pair : produced[b] <= produced'[b] /\ (Finished(b) => Finished(b)')
  BY <1>1
<1> QED
  BY <1>2, <1>3, FlowsLess

-----------------------------------------------------------------------------
(* What the calls of the two stages do to Held and Upstream. *)

LEMMA HeldNow ==
  ASSUME Steps
  PROVE  /\ rBlock \in Seq(Message) /\ tBlock \in Seq(Message) /\ p2tq \in Seq(Message)
         /\ t2rq \in Seq(Seq(Message)) /\ FlattenSeq(t2rq) \in Seq(Message)
         /\ Held = Cat(Cat(rBlock, FlattenSeq(t2rq)), tBlock)
         /\ Upstream = Cat(Held, p2tq) /\ Held \in Seq(Message)
         /\ rBlock' \in Seq(Message) /\ tBlock' \in Seq(Message) /\ p2tq' \in Seq(Message)
         /\ t2rq' \in Seq(Seq(Message)) /\ FlattenSeq(t2rq') \in Seq(Message)
         /\ Held' = Cat(Cat(rBlock', FlattenSeq(t2rq')), tBlock')
         /\ Upstream' = Cat(Held', p2tq') /\ Held' \in Seq(Message)
BY Stepping DEF Parted

LEMMA StageWaits ==
  ASSUME Steps, UNCHANGED <<rBlock, t2rq, tBlock, p2tq>>
  PROVE  Held' = Held /\ Upstream' = Upstream
BY HeldNow

LEMMA TransmitterTakes ==
  ASSUME Steps, p2tq # <<>>, p2tq' = Tail(p2tq), tBlock' = Append(tBlock, Head(p2tq)),
         UNCHANGED <<rBlock, t2rq>>
  PROVE  Upstream' = Upstream
<1> DEFINE h == Head(p2tq)
           t == Tail(p2tq)
           a == Cat(rBlock, FlattenSeq(t2rq))
           k == tBlock
<1>1. /\ p2tq \in Seq(Message) /\ p2tq = Cat(One(h), t) /\ One(h) \in Seq(Message)
      /\ h \in Message /\ t \in Seq(Message) /\ k \in Seq(Message)
  BY HeldNow, HeadAndTail, OneIsSeq
<1>2. /\ a \in Seq(Message)
      /\ Upstream = Cat(Cat(a, k), p2tq) /\ Upstream' = Cat(Cat(a, Append(k, h)), t)
  BY HeldNow, CatIsSeq
<1> HIDE DEF a, h, t, k
<1>3. Append(k, h) = Cat(k, One(h)) /\ Cat(k, One(h)) \in Seq(Message)
  BY <1>1, AppendIsCat, CatIsSeq
<1>4. Cat(a, Cat(k, One(h))) = Cat(Cat(a, k), One(h)) /\ Cat(a, k) \in Seq(Message)
  BY <1>1, <1>2, CatAssoc, CatIsSeq
<1>5. Cat(Cat(Cat(a, k), One(h)), t) = Cat(Cat(a, k), Cat(One(h), t))
  BY <1>1, <1>4, CatAssoc
<1> QED
  BY <1>1, <1>2, <1>3, <1>4, <1>5

LEMMA TransmitterSends ==
  ASSUME Steps, t2rq' = Append(t2rq, tBlock), tBlock' = <<>>, UNCHANGED <<rBlock, p2tq>>
  PROVE  Upstream' = Upstream
<1> DEFINE b == rBlock
           f == FlattenSeq(t2rq)
           g == FlattenSeq(t2rq')
           k == tBlock
<1>1. /\ b \in Seq(Message) /\ f \in Seq(Message) /\ k \in Seq(Message) /\ g \in Seq(Message)
      /\ Held = Cat(Cat(b, f), k) /\ Held' = Cat(Cat(b, g), <<>>)
      /\ Upstream = Cat(Held, p2tq) /\ Upstream' = Cat(Held', p2tq)
  BY HeldNow
<1>2. g = Cat(f, k)
  BY HeldNow, FlattenAppend DEF Cat
<1> HIDE DEF b, f, g, k
<1>3. Cat(b, g) \in Seq(Message) /\ Cat(Cat(b, f), k) = Cat(b, g)
  BY <1>1, <1>2, CatIsSeq, CatAssoc
<1>4. Cat(Cat(b, g), <<>>) = Cat(b, g)
  BY <1>3, CatNone
<1> QED
  BY <1>1, <1>3, <1>4

LEMMA FlattenHead ==
  ASSUME NEW M, NEW ss \in Seq(Seq(M)), ss # <<>>
  PROVE  /\ Head(ss) \in Seq(M) /\ Tail(ss) \in Seq(Seq(M))
         /\ FlattenSeq(ss) = Cat(Head(ss), FlattenSeq(Tail(ss))) /\ FlattenSeq(Tail(ss)) \in Seq(M)
<1> DEFINE b == Head(ss)
           tt == Tail(ss)
           bb == <<b>>
<1>1. b \in Seq(M) /\ tt \in Seq(Seq(M)) /\ ss = bb \o tt
  BY HeadAndTail DEF Cat, One
<1> HIDE DEF tt, b
<1>2. FlattenSeq(bb) = b
  BY <1>1, FlattenAppend, EmptySeq
<1>3. bb \in Seq(Seq(M))
  BY <1>1
<1> HIDE DEF bb
<1>4. FlattenSeq(ss) = FlattenSeq(bb) \o FlattenSeq(tt) /\ FlattenSeq(tt) \in Seq(M)
  BY <1>1, <1>3, FlattenConcat, FlattenIsSeq
<1> QED
  BY <1>1, <1>2, <1>4 DEF tt, b, Cat

LEMMA ReceiverTakes ==
  ASSUME Steps, t2rq # <<>>, rBlock = <<>>, t2rq' = Tail(t2rq), UNCHANGED <<tBlock, p2tq>>
  PROVE  /\ rBlock' = Head(t2rq) => Upstream' = Upstream
         /\ rBlock' = <<>> => Loses(Upstream, Upstream')
<1> DEFINE b == Head(t2rq)
           f == FlattenSeq(t2rq)
           g == FlattenSeq(t2rq')
           k == tBlock
           p == p2tq
<1>1. /\ f \in Seq(Message) /\ k \in Seq(Message) /\ g \in Seq(Message)
      /\ b \in Seq(Message) /\ p \in Seq(Message)
      /\ Upstream = Cat(Cat(Cat(<<>>, f), k), p)
      /\ Upstream' = Cat(Cat(Cat(rBlock', g), k), p)
      /\ f = Cat(b, g)
  BY HeldNow, FlattenHead
<1> HIDE DEF b, f, g, k, p
<1>2. Cat(<<>>, f) = f /\ Cat(<<>>, g) = g
  BY <1>1, CatNone
<1>3. Cat(g, k) \in Seq(Message) /\ Cat(Cat(g, k), p) \in Seq(Message)
  BY <1>1, CatIsSeq
<1>4. Upstream = Cat(b, Cat(Cat(g, k), p))
  <2>1. Cat(Cat(b, g), k) = Cat(b, Cat(g, k))
    BY <1>1, CatAssoc
  <2>2. Cat(Cat(b, Cat(g, k)), p) = Cat(b, Cat(Cat(g, k), p))
    BY <1>1, <1>3, CatAssoc
  <2> QED
    BY <1>1, <1>2, <2>1, <2>2
<1>5. ASSUME rBlock' = <<>>
      PROVE  Loses(Upstream, Upstream')
  <2> DEFINE z == Cat(Cat(g, k), p)
  <2>1. Upstream' = z /\ Upstream = Cat(b, z) /\ z \in Seq(Message)
    BY <1>1, <1>2, <1>3, <1>4, <1>5
  <2> HIDE DEF z
  <2>2. <<>> \in Seq(Message) /\ Cat(<<>>, z) = z /\ Cat(<<>>, Cat(b, z)) = Cat(b, z)
    BY <1>1, <2>1, EmptySeq, CatNone, CatIsSeq
  <2> QED
    BY <1>1, <2>1, <2>2 DEF Loses
<1>6. ASSUME rBlock' = b
      PROVE  Upstream' = Upstream
  BY <1>1, <1>2, <1>6
<1> QED
  BY <1>5, <1>6 DEF b

\* What is behind the receiver's block.
Behind == Cat(Cat(FlattenSeq(t2rq), tBlock), p2tq)

LEMMA BlockAndBehind ==
  ASSUME Steps, UNCHANGED <<t2rq, tBlock, p2tq>>
  PROVE  /\ Behind \in Seq(Message) /\ rBlock \in Seq(Message) /\ rBlock' \in Seq(Message)
         /\ Upstream = Cat(rBlock, Behind) /\ Upstream' = Cat(rBlock', Behind)
<1> DEFINE b == rBlock
           c == rBlock'
           f == FlattenSeq(t2rq)
           k == tBlock
           p == p2tq
<1>1. /\ f \in Seq(Message) /\ k \in Seq(Message) /\ b \in Seq(Message) /\ c \in Seq(Message)
      /\ p \in Seq(Message)
      /\ Upstream = Cat(Cat(Cat(b, f), k), p) /\ Upstream' = Cat(Cat(Cat(c, f), k), p)
      /\ Behind = Cat(Cat(f, k), p)
  BY HeldNow DEF Behind
<1> HIDE DEF b, c, f, k, p
<1>2. Cat(f, k) \in Seq(Message) /\ Behind \in Seq(Message)
  BY <1>1, CatIsSeq
<1>3. ASSUME NEW s \in Seq(Message)
      PROVE  Cat(Cat(Cat(s, f), k), p) = Cat(s, Behind)
  <2>1. Cat(Cat(s, f), k) = Cat(s, Cat(f, k))
    BY <1>1, CatAssoc
  <2>2. Cat(Cat(s, Cat(f, k)), p) = Cat(s, Cat(Cat(f, k), p))
    BY <1>1, <1>2, CatAssoc
  <2> QED
    BY <1>1, <2>1, <2>2
<1> QED
  BY <1>1, <1>2, <1>3 DEF b, c

LEMMA ReceiverHands ==
  ASSUME Steps, rBlock # <<>>, rBlock' = Tail(rBlock), UNCHANGED <<t2rq, tBlock, p2tq>>
  PROVE  Upstream = Cat(One(Head(rBlock)), Upstream') /\ Head(rBlock) \in Message
<1> DEFINE h == Head(rBlock)
           t == Tail(rBlock)
           r == Behind
<1>1. /\ r \in Seq(Message) /\ Upstream = Cat(rBlock, r) /\ Upstream' = Cat(t, r)
      /\ rBlock = Cat(One(h), t) /\ h \in Message /\ t \in Seq(Message) /\ One(h) \in Seq(Message)
  BY BlockAndBehind, HeadAndTail, OneIsSeq
<1> HIDE DEF h, t, r
<1>2. Cat(Cat(One(h), t), r) = Cat(One(h), Cat(t, r))
  BY <1>1, CatAssoc
<1> QED
  BY <1>1, <1>2 DEF h

-----------------------------------------------------------------------------
(* The steps of ThreeStage.c, also where its queues time out. *)

Shapes == Types /\ Places /\ Ends

LEMMA Framed ==
  ASSUME npc' = npc, program' = program
  PROVE  /\ Pair' = Pair /\ Message' = Message /\ Lossless' = Lossless
         /\ Timed!Thread' = Timed!Thread /\ Pthreads!Getter' = Pthreads!Getter
BY DEF Pair, Message, Lossless, Timed!Thread, Timed!Pair, Timed!theTransmitter, Timed!theReceiver,
       Pthreads!Getter, Pthreads!Pair, Pthreads!theTransmitter, Pthreads!theReceiver

\* The steps that both programs take when no thread is late.
InThreeStage ==
  /\ program \in {"ThreeStage", "ThreeStageSig_noSOAW"}
  /\ UNCHANGED <<program, npc, late, cancelVars, retryVars>>

LEMMA InThreeStageFrame ==
  ASSUME InThreeStage
  PROVE  /\ npc' = npc /\ program' = program /\ program \in {"ThreeStage", "ThreeStageSig_noSOAW"}
         /\ late' = late /\ apc' = apc /\ shutDownGet' = shutDownGet /\ ShutDownPut' = ShutDownPut
         /\ AllProduced' = AllProduced /\ Retries' = Retries
         /\ Pair' = Pair /\ Message' = Message /\ Lossless' = Lossless
         /\ Timed!Thread' = Timed!Thread /\ Pthreads!Getter' = Pthreads!Getter
BY Framed DEF InThreeStage, cancelVars, retryVars

LEMMA ProducerShapes ==
  \A p \in Pair : Types /\ Places /\ Ends /\ InThreeStage /\ Plain!Producer(p) => Shapes'
<1>0. SUFFICES ASSUME NEW p \in Pair, Types, Places, Ends, InThreeStage, Plain!Producer(p)
               PROVE  Shapes'
  OBVIOUS
<1>1. /\ npc' = npc /\ program' = program /\ program \in {"ThreeStage", "ThreeStageSig_noSOAW"}
      /\ late' = late /\ apc' = apc /\ shutDownGet' = shutDownGet /\ ShutDownPut' = ShutDownPut
      /\ AllProduced' = AllProduced /\ Retries' = Retries
      /\ Pair' = Pair /\ Message' = Message /\ Lossless' = Lossless
      /\ Timed!Thread' = Timed!Thread /\ Pthreads!Getter' = Pthreads!Getter
  BY <1>0, InThreeStageFrame
<1>2. /\ <<"producer", p>> \in running /\ Len(p2tq) < P2T_QLEN - 1
      /\ \/ /\ produced[p] < Goal
            /\ p2tq' = Append(p2tq, [destination |-> p, sequence |-> produced[p]])
            /\ produced' = [produced EXCEPT ![p] = @ + 1]
            /\ running' = running
         \/ /\ ~(produced[p] < Goal)
            /\ p2tq' = Append(p2tq, [destination |-> p, sequence |-> -1])
            /\ running' = running \ {<<"producer", p>>}
            /\ produced' = produced
      /\ UNCHANGED <<t2rq, r2cq, consumed, tpc, tBlock, tLeft, rpc, rBlock, rLeft, boss, ShutDown>>
  BY <1>0 DEF Plain!Producer, Plain!pairVars, Plain!tVars, Plain!rVars, Plain!bossVars, Plain!Room
<1>3. /\ produced \in [Pair -> 0 .. Goal] /\ p2tq \in Seq(Message) /\ Goal \in Nat /\ P2T_QLEN \in Nat
      /\ produced[p] \in Int
  <2>1. produced \in [Pair -> 0 .. Goal] /\ p2tq \in Seq(Message)
    BY <1>0 DEF Types, PipelineTypeOK
  <2> QED
    BY <1>0, <2>1, PipelineAssumption
<1>4. Types'
  <2>1. PICK m \in Message : p2tq' = Append(p2tq, m)
    <3>1. \A k \in Int : [destination |-> p, sequence |-> k] \in Message
      BY <1>0 DEF Message
    <3> QED
      BY <1>2, <1>3, <3>1
  <2>2. p2tq' \in Seq(Message) /\ Len(p2tq') < P2T_QLEN
    BY <1>2, <1>3, <2>1
  <2>3. produced' \in [Pair -> 0 .. Goal]
    <3>1. produced[p] < Goal => [produced EXCEPT ![p] = @ + 1] \in [Pair -> 0 .. Goal]
      BY <1>0, <1>3
    <3> QED
      BY <1>2, <1>3, <3>1
  <2>4. running' \subseteq running
    BY <1>2
  <2> QED
    BY <1>0, <1>1, <1>2, <2>2, <2>3, <2>4, SMTT(60) DEF Types, PipelineTypeOK
<1>5. Places'
  BY <1>0, <1>1, <1>2 DEF Places, Timed!theReceiver, Pthreads!theReceiver, Pthreads!theTransmitter
<1>6. Ends'
  <2>1. /\ \A c \in Pair : <<"consumer", c>> \in running' <=> <<"consumer", c>> \in running
        /\ \A q \in Pair : <<"producer", q>> \notin running' => produced'[q] = Goal
    <3>1. \A q \in Pair : <<"producer", q>> \notin running => produced[q] = Goal
      BY <1>0 DEF Ends, Finished
    <3>2. ~(produced[p] < Goal) => produced[p] = Goal
      BY <1>0, <1>3
    <3> QED
      BY <1>0, <1>2, <1>3, <3>1, <3>2
  <2> QED
    BY <1>0, <1>1, <1>2, <2>1 DEF Ends, Finished
<1> QED
  BY <1>4, <1>5, <1>6 DEF Shapes

LEMMA ProducerKeeps ==
  \A p \in Pair : IInv /\ InThreeStage /\ Plain!Producer(p) => IInv'
<1>0. SUFFICES ASSUME NEW p \in Pair, IInv, InThreeStage, Plain!Producer(p)
               PROVE  IInv'
  OBVIOUS
<1>1. Types /\ Places /\ Ends /\ Flows
  BY <1>0 DEF IInv, Flows
<1>2. Shapes' /\ npc' = npc /\ program' = program
  BY <1>0, <1>1, ProducerShapes, InThreeStageFrame
<1>3. Steps
  BY <1>1, <1>2 DEF Steps, Shapes
<1>4. /\ ~Finished(p) /\ UNCHANGED <<rBlock, t2rq, tBlock, r2cq, consumed, tLeft, rLeft>>
      /\ \/ /\ p2tq' = Append(p2tq, [destination |-> p, sequence |-> produced[p]])
            /\ produced' = [produced EXCEPT ![p] = @ + 1]
            /\ running' = running
         \/ /\ p2tq' = Append(p2tq, [destination |-> p, sequence |-> -1])
            /\ running' = running \ {<<"producer", p>>}
            /\ produced' = produced
  BY <1>0 DEF Plain!Producer, Plain!tVars, Plain!rVars, Finished
<1>5. Held' = Held
  BY <1>4 DEF Held
<1>6. produced[p] \in Int
  BY <1>3, Stepping
<1>7. PICK m \in Message :
        /\ m.destination = p /\ p2tq' = Append(p2tq, m)
        /\ \/ /\ m.sequence = produced[p] /\ produced' = [produced EXCEPT ![p] = @ + 1]
              /\ running' = running
           \/ /\ m.sequence = -1 /\ produced' = produced
              /\ running' = running \ {<<"producer", p>>}
  <2>1. \A k \in Int : /\ [destination |-> p, sequence |-> k] \in Message
                       /\ [destination |-> p, sequence |-> k].destination = p
                       /\ [destination |-> p, sequence |-> k].sequence = k
    BY <1>0 DEF Message
  <2> QED
    BY <1>4, <1>6, <2>1
<1>8. Flows'
  BY <1>1, <1>3, <1>4, <1>5, <1>7, FlowsIn
<1> QED
  BY <1>2, <1>8 DEF IInv, Shapes, Flows

\* A consumer of a line without losses that has not had its messages does not
\* find the final one.
LEMMA FirstIsOrdinary ==
  ASSUME Types, Lines, Lossless, NEW c \in Pair, r2cq[c] # <<>>,
         consumed[c] < Goal, Finished(c) => produced[c] = Goal
  PROVE  ~IsLast(Head(r2cq[c])) /\ consumed[c] < produced[c]
<1> DEFINE q == r2cq[c]
           h == Head(q)
           t == Tail(q)
           u == To(c, Upstream)
           line == InFlight(c)
           made == produced[c]
           taken == consumed[c]
           finished == Finished(c)
<1>1. /\ q \in Seq(Message) /\ u \in Seq(Message) /\ line \in Seq(Message)
      /\ line = Cat(To(c, q), u)
  BY Parts DEF Parted
<1>2. made \in Nat /\ taken \in Nat /\ finished \in BOOLEAN
  <2>1. produced \in [Pair -> 0 .. Goal] /\ consumed \in [Pair -> 0 .. Goal] /\ Goal \in Nat
    BY PipelineAssumption DEF Types, PipelineTypeOK
  <2> QED
    BY <2>1 DEF Finished
<1>3. GoodLine(line, made, taken, finished, TRUE) /\ \A i \in DOMAIN q : q[i].destination = c
  <2>1. Lossless = TRUE
    BY DEF Lossless
  <2> QED
    BY <2>1 DEF Lines
<1>4. h \in Message /\ t \in Seq(Message) /\ q = Cat(One(h), t) /\ h.destination = c
  <2>1. h \in Message /\ t \in Seq(Message) /\ q = Cat(One(h), t)
    BY <1>1, HeadAndTail
  <2>2. 1 \in DOMAIN q /\ h = q[1]
    BY <1>1
  <2> QED
    BY <1>3, <2>1, <2>2
<1> HIDE DEF q, h, t, u, line, made, taken, finished
<1>5. To(c, q) = Cat(One(h), To(c, t)) /\ To(c, t) \in Seq(Message) /\ One(h) \in Seq(Message)
  BY <1>4, ToJoins, ToOne, OneIsSeq
<1>6. line = Cat(One(h), Cat(To(c, t), u)) /\ Cat(To(c, t), u) \in Seq(Message)
  BY <1>1, <1>5, CatAssoc, CatIsSeq
<1>7. line # <<>> /\ line[1] = h
  <2>1. Len(line) >= 1 /\ line[1] = One(h)[1] /\ One(h)[1] = h
    <3> DEFINE r == Cat(To(c, t), u)
    <3>1. r \in Seq(Message) /\ line = Cat(One(h), r)
      BY <1>6
    <3> HIDE DEF r
    <3>2. Joint(One(h), r, line) /\ Len(One(h)) = 1 /\ One(h)[1] = h /\ Len(r) \in Nat
      BY <1>4, <1>5, <3>1, CatIsSeq, OneIsSeq
    <3> QED
      BY <3>2 DEF Joint
  <2> QED
    BY <1>1, <2>1
<1>8. /\ taken <= made /\ (taken = made /\ ~finished => line = <<>>)
      /\ (taken < made => ~IsLast(line[1]))
  BY <1>1, <1>2, <1>3, LineHolds
<1>9. taken < made
  <2>1. finished => taken < made
    BY DEF finished, made, taken
  <2> QED
    BY <1>2, <1>7, <1>8, <2>1
<1> QED
  BY <1>7, <1>8, <1>9 DEF h, q, made, taken

LEMMA ConsumerGetKeeps ==
  \A c \in Pair : IInv /\ InThreeStage /\ Plain!ConsumerGet(c) => IInv'
<1>0. SUFFICES ASSUME NEW c \in Pair, IInv, InThreeStage, Plain!ConsumerGet(c)
               PROVE  IInv'
  OBVIOUS
<1>1. Types /\ Places /\ Ends /\ Lines /\ Flows
  BY <1>0 DEF IInv, Flows
<1>2. /\ npc' = npc /\ program' = program /\ program \in {"ThreeStage", "ThreeStageSig_noSOAW"}
      /\ late' = late /\ apc' = apc /\ shutDownGet' = shutDownGet /\ ShutDownPut' = ShutDownPut
      /\ AllProduced' = AllProduced /\ Retries' = Retries
      /\ Pair' = Pair /\ Message' = Message /\ Lossless' = Lossless
      /\ Timed!Thread' = Timed!Thread /\ Pthreads!Getter' = Pthreads!Getter
  BY <1>0, InThreeStageFrame
<1>3. /\ <<"consumer", c>> \in running /\ consumed[c] < Goal /\ r2cq[c] # <<>>
      /\ r2cq' = [r2cq EXCEPT ![c] = Tail(@)]
      /\ IF IsLast(Head(r2cq[c]))
         THEN running' = running \ {<<"consumer", c>>} /\ consumed' = consumed
         ELSE consumed' = [consumed EXCEPT ![c] = @ + 1] /\ running' = running
      /\ UNCHANGED <<p2tq, t2rq, produced, tpc, tBlock, tLeft, rpc, rBlock, rLeft, boss, ShutDown>>
  BY <1>0 DEF Plain!ConsumerGet, Plain!tVars, Plain!rVars, Plain!bossVars, IsLast
<1>4. /\ r2cq \in [Pair -> Seq(Message)] /\ consumed \in [Pair -> 0 .. Goal] /\ Goal \in Nat
      /\ running \subseteq {"producer", "consumer"} \X Pair
      /\ \A d \in Pair : Len(r2cq[d]) < R2C_QLEN
  BY <1>1, PipelineAssumption DEF Types, PipelineTypeOK
<1>5. Types'
  <2>1. /\ r2cq' \in [Pair -> Seq(Message)]
        /\ \A d \in Pair : r2cq'[d] \in Seq(Message) /\ Len(r2cq'[d]) < R2C_QLEN
    <3>1. Tail(r2cq[c]) \in Seq(Message) /\ Len(Tail(r2cq[c])) < R2C_QLEN
      BY <1>0, <1>3, <1>4, PipelineAssumption
    <3> QED
      BY <1>0, <1>3, <1>4, <3>1
  <2>2. consumed' \in [Pair -> 0 .. Goal]
    BY <1>0, <1>3, <1>4, SMTT(30)
  <2>3. running' \subseteq {"producer", "consumer"} \X Pair
    BY <1>3, <1>4
  <2> QED
    BY <1>1, <1>2, <1>3, <2>1, <2>2, <2>3, SMTT(60) DEF Types, PipelineTypeOK
<1>6. Places'
  BY <1>1, <1>2, <1>3 DEF Places, Timed!theReceiver, Pthreads!theReceiver, Pthreads!theTransmitter
<1>7. Steps /\ \A p \in Pair : Finished(p)' = Finished(p)
  <2>1. \A p \in Pair : <<"producer", p>> \in running' <=> <<"producer", p>> \in running
    BY <1>3
  <2>2. \A p \in Pair : Finished(p)' = Finished(p)
    BY <2>1 DEF Finished
  <2> QED
    BY <1>1, <1>2, <1>5, <2>2 DEF Steps
<1>8. program = "ThreeStage" => ~IsLast(Head(r2cq[c]))
  <2>1. program = "ThreeStage" => Lossless
    BY DEF Lossless
  <2>2. Finished(c) => produced[c] = Goal
    BY <1>0, <1>1 DEF Ends
  <2> QED
    BY <1>0, <1>1, <1>3, <2>1, <2>2, FirstIsOrdinary
<1>9. Ends'
  <2>1. \A p \in Pair : Finished(p)' => produced'[p] = Goal
    BY <1>1, <1>3, <1>7 DEF Ends
  <2>2. program = "ThreeStage" =>
          /\ running' = running
          /\ \A d \in Pair : <<"consumer", d>> \notin running => consumed'[d] = Goal
    BY <1>0, <1>1, <1>3, <1>4, <1>8 DEF Ends
  <2> QED
    BY <1>1, <1>2, <1>3, <2>1, <2>2 DEF Ends
<1>10. Held' = Held /\ Upstream' = Upstream
  BY <1>3 DEF Held, Upstream
<1>11. Flows'
  <2>1. CASE IsLast(Head(r2cq[c]))
    <3>1. ~Lossless
      BY <1>2, <1>8, <2>1 DEF Lossless
    <3>2. r2cq' = [r2cq EXCEPT ![c] = IF @ = <<>> THEN @ ELSE Tail(@)]
      BY <1>0, <1>3, <1>4
    <3> QED
      BY <1>0, <1>1, <1>3, <1>7, <1>10, <3>1, <3>2, FlowsLessDownstream
  <2>2. CASE ~IsLast(Head(r2cq[c]))
    BY <1>0, <1>1, <1>3, <1>7, <1>10, <2>2, FlowsOut
  <2> QED
    BY <2>1, <2>2
<1> QED
  BY <1>1, <1>5, <1>6, <1>9, <1>11 DEF IInv, Flows

LEMMA ConsumerReturnKeeps ==
  \A c \in Pair : IInv /\ InThreeStage /\ Plain!ConsumerReturn(c) => IInv'
<1>0. SUFFICES ASSUME NEW c \in Pair, IInv, InThreeStage, Plain!ConsumerReturn(c)
               PROVE  IInv'
  OBVIOUS
<1>1. Types /\ Places /\ Ends /\ Lines /\ Flows
  BY <1>0 DEF IInv, Flows
<1>2. /\ npc' = npc /\ program' = program /\ program \in {"ThreeStage", "ThreeStageSig_noSOAW"}
      /\ late' = late /\ apc' = apc /\ shutDownGet' = shutDownGet /\ ShutDownPut' = ShutDownPut
      /\ AllProduced' = AllProduced /\ Retries' = Retries
      /\ Pair' = Pair /\ Message' = Message /\ Lossless' = Lossless
      /\ Timed!Thread' = Timed!Thread /\ Pthreads!Getter' = Pthreads!Getter
  BY <1>0, InThreeStageFrame
<1>3. /\ consumed[c] >= Goal
      /\ running' = running \ {<<"consumer", c>>}
      /\ UNCHANGED <<p2tq, t2rq, r2cq, produced, consumed, tpc, tBlock, tLeft, rpc, rBlock, rLeft,
                     boss, ShutDown>>
  BY <1>0 DEF Plain!ConsumerReturn, Plain!tVars, Plain!rVars, Plain!bossVars
<1>4. consumed \in [Pair -> 0 .. Goal] /\ Goal \in Nat
  BY <1>1, PipelineAssumption DEF Types, PipelineTypeOK
<1>5. Types'
  <2>1. running' \subseteq running
    BY <1>3
  <2> QED
    BY <1>1, <1>2, <1>3, <2>1, SMTT(60) DEF Types, PipelineTypeOK
<1>6. Places'
  BY <1>1, <1>2, <1>3 DEF Places, Timed!theReceiver, Pthreads!theReceiver, Pthreads!theTransmitter
<1>7. Steps /\ \A p \in Pair : Finished(p)' = Finished(p)
  <2>1. \A p \in Pair : <<"producer", p>> \in running' <=> <<"producer", p>> \in running
    BY <1>3
  <2>2. \A p \in Pair : Finished(p)' = Finished(p)
    BY <2>1 DEF Finished
  <2> QED
    BY <1>1, <1>2, <1>5, <2>2 DEF Steps
<1>8. Ends'
  <2>1. \A p \in Pair : Finished(p)' => produced'[p] = Goal
    BY <1>1, <1>3, <1>7 DEF Ends
  <2>2. program = "ThreeStage" =>
          /\ \A d \in Pair : <<"consumer", d>> \notin running' => consumed[d] = Goal
          /\ \A d \in Pair : <<"consumer", d>> \notin running => <<"consumer", d>> \notin running'
    BY <1>0, <1>1, <1>3, <1>4 DEF Ends
  <2> QED
    BY <1>1, <1>2, <1>3, <2>1, <2>2 DEF Ends
<1>9. Upstream' = Upstream
  BY <1>3 DEF Held, Upstream
<1>10. Flows'
  BY <1>1, <1>3, <1>7, <1>9, FlowsOn
<1> QED
  BY <1>1, <1>5, <1>6, <1>8, <1>10 DEF IInv, Flows

LEMMA TransmitterLoopKeeps == IInv /\ InThreeStage /\ Plain!TransmitterLoop => IInv'
<1>0. SUFFICES ASSUME IInv, InThreeStage, Plain!TransmitterLoop
               PROVE  IInv'
  OBVIOUS
<1>1. Types /\ Places /\ Ends /\ Flows
  BY <1>0 DEF IInv, Flows
<1>2. /\ npc' = npc /\ program' = program /\ program \in {"ThreeStage", "ThreeStageSig_noSOAW"}
      /\ late' = late /\ apc' = apc /\ shutDownGet' = shutDownGet /\ ShutDownPut' = ShutDownPut
      /\ AllProduced' = AllProduced /\ Retries' = Retries
      /\ Pair' = Pair /\ Message' = Message /\ Lossless' = Lossless
      /\ Timed!Thread' = Timed!Thread /\ Pthreads!Getter' = Pthreads!Getter
  BY <1>0, InThreeStageFrame
<1>3. /\ tpc = "loop" /\ tpc' = (IF ShutDown THEN "done" ELSE "pack") /\ tBlock' = <<>>
      /\ UNCHANGED <<p2tq, t2rq, r2cq, produced, consumed, running, tLeft, rpc, rBlock, rLeft,
                     boss, ShutDown>>
  BY <1>0 DEF Plain!TransmitterLoop, Plain!pairVars, Plain!workVars, Plain!rVars, Plain!bossVars
<1>4. tBlock = <<>> /\ Len(tBlock) < TBLOCK_SIZE
  BY <1>1, <1>3, PipelineAssumption DEF Places
<1>5. Types'
  BY <1>1, <1>2, <1>3, <1>4, SMTT(60) DEF Types, PipelineTypeOK
<1>6. Places'
  BY <1>1, <1>2, <1>3, <1>4
     DEF Places, Timed!theReceiver, Pthreads!theReceiver, Pthreads!theTransmitter
<1>7. Steps /\ \A p \in Pair : Finished(p)' = Finished(p)
  BY <1>1, <1>2, <1>3, <1>5 DEF Steps, Finished
<1>8. Ends'
  BY <1>1, <1>2, <1>3, <1>7 DEF Ends
<1>9. Flows'
  BY <1>1, <1>3, <1>4, <1>7, StageWaits, FlowsOn
<1> QED
  BY <1>1, <1>5, <1>6, <1>8, <1>9 DEF IInv, Flows

LEMMA TransmitterPackKeeps == IInv /\ InThreeStage /\ Plain!TransmitterPack => IInv'
<1>0. SUFFICES ASSUME IInv, InThreeStage, Plain!TransmitterPack
               PROVE  IInv'
  OBVIOUS
<1>1. Types /\ Places /\ Ends /\ Flows
  BY <1>0 DEF IInv, Flows
<1>2. /\ npc' = npc /\ program' = program /\ program \in {"ThreeStage", "ThreeStageSig_noSOAW"}
      /\ late' = late /\ apc' = apc /\ shutDownGet' = shutDownGet /\ ShutDownPut' = ShutDownPut
      /\ AllProduced' = AllProduced /\ Retries' = Retries
      /\ Pair' = Pair /\ Message' = Message /\ Lossless' = Lossless
      /\ Timed!Thread' = Timed!Thread /\ Pthreads!Getter' = Pthreads!Getter
  BY <1>0, InThreeStageFrame
<1>3. /\ tpc = "pack" /\ p2tq # <<>> /\ p2tq' = Tail(p2tq) /\ tBlock' = Append(tBlock, Head(p2tq))
      /\ tLeft' = (IF IsLast(Head(p2tq)) THEN tLeft - 1 ELSE tLeft)
      /\ \/ tpc' = "send"
         \/ tpc' = "pack" /\ Len(tBlock') # TBLOCK_SIZE
      /\ UNCHANGED <<t2rq, r2cq, produced, consumed, running, rpc, rBlock, rLeft, boss, ShutDown>>
  BY <1>0 DEF Plain!TransmitterPack, Plain!pairVars, Plain!workVars, Plain!rVars, Plain!bossVars,
              IsLast
<1>4. /\ p2tq \in Seq(Message) /\ tBlock \in Seq(Message) /\ Len(p2tq) < P2T_QLEN
      /\ Len(tBlock) < TBLOCK_SIZE /\ TBLOCK_SIZE \in Nat /\ P2T_QLEN \in Nat
      /\ tLeft \in Int /\ tLeft <= npc /\ npc \in Int
  BY <1>1, <1>2, <1>3, PipelineAssumption DEF Types, PipelineTypeOK, Places
<1>5. /\ Head(p2tq) \in Message /\ p2tq' \in Seq(Message) /\ Len(p2tq') < P2T_QLEN
      /\ tBlock' \in Seq(Message) /\ Len(tBlock') <= TBLOCK_SIZE /\ tBlock' # <<>>
      /\ Len(tBlock') \in Int /\ tLeft' \in Int /\ tLeft' <= npc
      /\ tpc' = "pack" => Len(tBlock') < TBLOCK_SIZE
  <2>1. Head(p2tq) \in Message /\ p2tq' \in Seq(Message) /\ Len(p2tq') = Len(p2tq) - 1
    BY <1>3, <1>4
  <2>2. tBlock' \in Seq(Message) /\ Len(tBlock') = Len(tBlock) + 1
    BY <1>3, <1>4, <2>1
  <2> QED
    BY <1>3, <1>4, <2>1, <2>2
<1>6. Types'
  BY <1>1, <1>2, <1>3, <1>5, SMTT(60) DEF Types, PipelineTypeOK
<1>7. Places'
  BY <1>1, <1>2, <1>3, <1>5
     DEF Places, Timed!theReceiver, Pthreads!theReceiver, Pthreads!theTransmitter
<1>8. Steps /\ \A p \in Pair : Finished(p)' = Finished(p)
  BY <1>1, <1>2, <1>3, <1>6 DEF Steps, Finished
<1>9. Ends'
  BY <1>1, <1>2, <1>3, <1>8 DEF Ends
<1>10. Upstream' = Upstream
  BY <1>3, <1>8, TransmitterTakes
<1>11. Flows'
  BY <1>1, <1>3, <1>8, <1>10, FlowsToTransmitter
<1> QED
  BY <1>1, <1>6, <1>7, <1>9, <1>11 DEF IInv, Flows

LEMMA TransmitterSendKeeps == IInv /\ InThreeStage /\ Plain!TransmitterSend => IInv'
<1>0. SUFFICES ASSUME IInv, InThreeStage, Plain!TransmitterSend
               PROVE  IInv'
  OBVIOUS
<1>1. Types /\ Places /\ Ends /\ Flows
  BY <1>0 DEF IInv, Flows
<1>2. /\ npc' = npc /\ program' = program /\ program \in {"ThreeStage", "ThreeStageSig_noSOAW"}
      /\ late' = late /\ apc' = apc /\ shutDownGet' = shutDownGet /\ ShutDownPut' = ShutDownPut
      /\ AllProduced' = AllProduced /\ Retries' = Retries
      /\ Pair' = Pair /\ Message' = Message /\ Lossless' = Lossless
      /\ Timed!Thread' = Timed!Thread /\ Pthreads!Getter' = Pthreads!Getter
  BY <1>0, InThreeStageFrame
<1>3. /\ tpc = "send" /\ Len(t2rq) < T2R_QLEN - 1 /\ t2rq' = Append(t2rq, tBlock) /\ tBlock' = <<>>
      /\ tpc' = (IF tLeft = 0 THEN "done" ELSE "loop")
      /\ UNCHANGED <<p2tq, r2cq, produced, consumed, running, tLeft, rpc, rBlock, rLeft,
                     boss, ShutDown>>
  BY <1>0 DEF Plain!TransmitterSend, Plain!pairVars, Plain!workVars, Plain!rVars, Plain!bossVars,
              Plain!Room
<1>4. t2rq \in Seq(Seq(Message)) /\ tBlock \in Seq(Message) /\ T2R_QLEN \in Nat /\ TBLOCK_SIZE \in Nat
  BY <1>1, PipelineAssumption DEF Types, PipelineTypeOK
<1>5. /\ t2rq' \in Seq(Seq(Message)) /\ Len(t2rq') < T2R_QLEN
      /\ program = "ThreeStage" => \A i \in DOMAIN t2rq' : t2rq'[i] # <<>>
      /\ tBlock' \in Seq(Message) /\ Len(tBlock') <= TBLOCK_SIZE
  <2>1. program = "ThreeStage" => tBlock # <<>> /\ \A i \in DOMAIN t2rq : t2rq[i] # <<>>
    BY <1>1, <1>3 DEF Places
  <2>2. /\ t2rq' \in Seq(Seq(Message)) /\ Len(t2rq') = Len(t2rq) + 1 /\ Len(t2rq) \in Nat
        /\ DOMAIN t2rq' = 1 .. Len(t2rq) + 1
        /\ \A i \in 1 .. Len(t2rq) : t2rq'[i] = t2rq[i]
        /\ t2rq'[Len(t2rq) + 1] = tBlock
    BY <1>3, <1>4
  <2>3. program = "ThreeStage" => \A i \in DOMAIN t2rq' : t2rq'[i] # <<>>
    BY <2>1, <2>2, SMTT(30)
  <2> QED
    BY <1>3, <1>4, <2>2, <2>3
<1>6. Types'
  BY <1>1, <1>2, <1>3, <1>5, SMTT(60) DEF Types, PipelineTypeOK
<1>7. Places'
  BY <1>1, <1>2, <1>3, <1>5
     DEF Places, Timed!theReceiver, Pthreads!theReceiver, Pthreads!theTransmitter
<1>8. Steps /\ \A p \in Pair : Finished(p)' = Finished(p)
  BY <1>1, <1>2, <1>3, <1>6 DEF Steps, Finished
<1>9. Ends'
  BY <1>1, <1>2, <1>3, <1>8 DEF Ends
<1>10. Upstream' = Upstream
  BY <1>3, <1>8, TransmitterSends
<1>11. Flows'
  BY <1>1, <1>3, <1>8, <1>10, FlowsOn
<1> QED
  BY <1>1, <1>6, <1>7, <1>9, <1>11 DEF IInv, Flows

LEMMA ReceiverLoopKeeps == IInv /\ InThreeStage /\ Plain!ReceiverLoop => IInv'
<1>0. SUFFICES ASSUME IInv, InThreeStage, Plain!ReceiverLoop
               PROVE  IInv'
  OBVIOUS
<1>1. Types /\ Places /\ Ends /\ Flows
  BY <1>0 DEF IInv, Flows
<1>2. /\ npc' = npc /\ program' = program /\ program \in {"ThreeStage", "ThreeStageSig_noSOAW"}
      /\ late' = late /\ apc' = apc /\ shutDownGet' = shutDownGet /\ ShutDownPut' = ShutDownPut
      /\ AllProduced' = AllProduced /\ Retries' = Retries
      /\ Pair' = Pair /\ Message' = Message /\ Lossless' = Lossless
      /\ Timed!Thread' = Timed!Thread /\ Pthreads!Getter' = Pthreads!Getter
  BY <1>0, InThreeStageFrame
<1>3. /\ rpc = "loop" /\ rpc' = (IF ShutDown THEN "done" ELSE "get")
      /\ UNCHANGED <<p2tq, t2rq, r2cq, produced, consumed, running, tpc, tBlock, tLeft, rBlock, rLeft,
                     boss, ShutDown>>
  BY <1>0 DEF Plain!ReceiverLoop, Plain!pairVars, Plain!workVars, Plain!tVars, Plain!bossVars
<1>4. rBlock = <<>>
  BY <1>1, <1>3 DEF Places
<1>5. Types'
  BY <1>1, <1>2, <1>3, SMTT(60) DEF Types, PipelineTypeOK
<1>6. Places'
  BY <1>1, <1>2, <1>3, <1>4
     DEF Places, Timed!theReceiver, Pthreads!theReceiver, Pthreads!theTransmitter
<1>7. Steps /\ \A p \in Pair : Finished(p)' = Finished(p)
  BY <1>1, <1>2, <1>3, <1>5 DEF Steps, Finished
<1>8. Ends'
  BY <1>1, <1>2, <1>3, <1>7 DEF Ends
<1>9. Flows'
  BY <1>1, <1>3, <1>7, StageWaits, FlowsOn
<1> QED
  BY <1>1, <1>5, <1>6, <1>8, <1>9 DEF IInv, Flows

LEMMA ReceiverGetKeeps ==
  /\ IInv /\ InThreeStage /\ Plain!ReceiverGet
  /\ ~Lossless => Timed!theReceiver \notin late
  => IInv'
<1>0. SUFFICES ASSUME IInv, InThreeStage, ~Lossless => Timed!theReceiver \notin late,
                      Plain!ReceiverGet
               PROVE  IInv'
  OBVIOUS
<1>1. Types /\ Places /\ Ends /\ Flows
  BY <1>0 DEF IInv, Flows
<1>2. /\ npc' = npc /\ program' = program /\ program \in {"ThreeStage", "ThreeStageSig_noSOAW"}
      /\ late' = late /\ apc' = apc /\ shutDownGet' = shutDownGet /\ ShutDownPut' = ShutDownPut
      /\ AllProduced' = AllProduced /\ Retries' = Retries
      /\ Pair' = Pair /\ Message' = Message /\ Lossless' = Lossless
      /\ Timed!Thread' = Timed!Thread /\ Pthreads!Getter' = Pthreads!Getter
  BY <1>0, InThreeStageFrame
<1>3. /\ rpc = "get" /\ t2rq # <<>> /\ rBlock' = Head(t2rq) /\ t2rq' = Tail(t2rq)
      /\ rpc' = "distribute"
      /\ UNCHANGED <<p2tq, r2cq, produced, consumed, running, tpc, tBlock, tLeft, rLeft,
                     boss, ShutDown>>
  BY <1>0 DEF Plain!ReceiverGet, Plain!pairVars, Plain!workVars, Plain!tVars, Plain!bossVars
<1>4. t2rq \in Seq(Seq(Message)) /\ Len(t2rq) < T2R_QLEN /\ T2R_QLEN \in Nat /\ rBlock = <<>>
  BY <1>1, <1>3, PipelineAssumption DEF Types, PipelineTypeOK, Places
<1>5. /\ rBlock' \in Seq(Message) /\ t2rq' \in Seq(Seq(Message)) /\ Len(t2rq') < T2R_QLEN
      /\ program = "ThreeStage" => rBlock' # <<>> /\ \A i \in DOMAIN t2rq' : t2rq'[i] # <<>>
      /\ program = "ThreeStageSig_noSOAW" => ~Lossless /\ Timed!theReceiver \notin late
  <2>1. /\ t2rq[1] \in Seq(Message) /\ rBlock' = t2rq[1] /\ 1 \in DOMAIN t2rq
        /\ t2rq' \in Seq(Seq(Message)) /\ Len(t2rq') < T2R_QLEN
        /\ \A i \in DOMAIN t2rq' : i + 1 \in DOMAIN t2rq /\ t2rq'[i] = t2rq[i + 1]
    BY <1>3, <1>4
  <2>2. program = "ThreeStage" => \A i \in DOMAIN t2rq : t2rq[i] # <<>>
    BY <1>1 DEF Places
  <2>3. program = "ThreeStageSig_noSOAW" => Timed!theReceiver \notin late
    BY <1>0 DEF Lossless
  <2> QED
    BY <2>1, <2>2, <2>3 DEF Lossless
<1>6. Types'
  BY <1>1, <1>2, <1>3, <1>5, SMTT(60) DEF Types, PipelineTypeOK
<1>7. Places'
  BY <1>1, <1>2, <1>3, <1>5
     DEF Places, Timed!theReceiver, Pthreads!theReceiver, Pthreads!theTransmitter
<1>8. Steps /\ \A p \in Pair : Finished(p)' = Finished(p)
  BY <1>1, <1>2, <1>3, <1>6 DEF Steps, Finished
<1>9. Ends'
  BY <1>1, <1>2, <1>3, <1>8 DEF Ends
<1>10. Upstream' = Upstream
  BY <1>3, <1>4, <1>8, ReceiverTakes
<1>11. Flows'
  BY <1>1, <1>3, <1>8, <1>10, FlowsOn
<1> QED
  BY <1>1, <1>6, <1>7, <1>9, <1>11 DEF IInv, Flows

LEMMA ReceiverPutKeeps == IInv /\ InThreeStage /\ rBlock # <<>> /\ Plain!ReceiverPut => IInv'
<1>0. SUFFICES ASSUME IInv, InThreeStage, rBlock # <<>>, Plain!ReceiverPut
               PROVE  IInv'
  OBVIOUS
<1>1. Types /\ Places /\ Ends /\ Flows
  BY <1>0 DEF IInv, Flows
<1>2. /\ npc' = npc /\ program' = program /\ program \in {"ThreeStage", "ThreeStageSig_noSOAW"}
      /\ late' = late /\ apc' = apc /\ shutDownGet' = shutDownGet /\ ShutDownPut' = ShutDownPut
      /\ AllProduced' = AllProduced /\ Retries' = Retries
      /\ Pair' = Pair /\ Message' = Message /\ Lossless' = Lossless
      /\ Timed!Thread' = Timed!Thread /\ Pthreads!Getter' = Pthreads!Getter
  BY <1>0, InThreeStageFrame
<1>3. \E m : /\ rpc = "distribute" /\ m = Head(rBlock) /\ Len(r2cq[m.destination]) < R2C_QLEN - 1
             /\ r2cq' = [r2cq EXCEPT ![m.destination] = Append(@, m)]
             /\ rLeft' = (IF IsLast(m) THEN rLeft - 1 ELSE rLeft)
             /\ rBlock' = Tail(rBlock)
             /\ rpc' \in {"done", "loop", "distribute"} /\ (rpc' = "done" => rLeft' = 0)
             /\ (rpc' = "loop" => rBlock' = <<>>) /\ (rpc' = "distribute" => rBlock' # <<>>)
             /\ UNCHANGED <<p2tq, t2rq, produced, consumed, running, tpc, tBlock, tLeft,
                            boss, ShutDown>>
  BY <1>0 DEF Plain!ReceiverPut, Plain!pairVars, Plain!workVars, Plain!tVars, Plain!bossVars,
              Plain!Room, IsLast
<1>4. PICK m : /\ rpc = "distribute" /\ m = Head(rBlock)
               /\ Len(r2cq[m.destination]) < R2C_QLEN - 1
               /\ r2cq' = [r2cq EXCEPT ![m.destination] = Append(@, m)]
               /\ rLeft' = (IF IsLast(m) THEN rLeft - 1 ELSE rLeft)
               /\ rBlock' = Tail(rBlock)
               /\ rpc' \in {"done", "loop", "distribute"} /\ (rpc' = "done" => rLeft' = 0)
               /\ (rpc' = "loop" => rBlock' = <<>>) /\ (rpc' = "distribute" => rBlock' # <<>>)
               /\ UNCHANGED <<p2tq, t2rq, produced, consumed, running, tpc, tBlock, tLeft,
                              boss, ShutDown>>
  BY <1>3
<1>5. /\ rBlock \in Seq(Message) /\ r2cq \in [Pair -> Seq(Message)] /\ R2C_QLEN \in Nat
      /\ \A c \in Pair : Len(r2cq[c]) < R2C_QLEN
      /\ rLeft \in Int /\ rLeft <= npc /\ npc \in Int
  BY <1>1, PipelineAssumption DEF Types, PipelineTypeOK
<1>6. m \in Message /\ m.destination \in Pair /\ rBlock' \in Seq(Message)
  <2>1. m \in Message /\ rBlock' \in Seq(Message)
    BY <1>0, <1>4, <1>5, HeadAndTail
  <2> QED
    BY <2>1 DEF Message
<1>7. /\ r2cq' \in [Pair -> Seq(Message)]
      /\ \A c \in Pair : r2cq'[c] \in Seq(Message) /\ Len(r2cq'[c]) < R2C_QLEN
      /\ rLeft' \in Int /\ rLeft' <= npc
  <2>1. /\ Append(r2cq[m.destination], m) \in Seq(Message)
        /\ Len(Append(r2cq[m.destination], m)) < R2C_QLEN
    BY <1>4, <1>5, <1>6
  <2> QED
    BY <1>4, <1>5, <1>6, <2>1
<1>8. Types'
  BY <1>1, <1>2, <1>4, <1>6, <1>7, SMTT(60) DEF Types, PipelineTypeOK
<1>9. Places'
  BY <1>1, <1>2, <1>4
     DEF Places, Timed!theReceiver, Pthreads!theReceiver, Pthreads!theTransmitter
<1>10. Steps /\ \A p \in Pair : Finished(p)' = Finished(p)
  BY <1>1, <1>2, <1>4, <1>8 DEF Steps, Finished
<1>11. Ends'
  BY <1>1, <1>2, <1>4, <1>10 DEF Ends
<1>12. Upstream = Cat(One(m), Upstream')
  BY <1>0, <1>4, <1>10, ReceiverHands
<1>13. Flows'
  BY <1>1, <1>4, <1>6, <1>10, <1>12, FlowsToConsumer
<1> QED
  BY <1>1, <1>8, <1>9, <1>11, <1>13 DEF IInv, Flows

LEMMA BossKeeps == IInv /\ InThreeStage /\ Plain!Boss => IInv'
<1>0. SUFFICES ASSUME IInv, InThreeStage, Plain!Boss
               PROVE  IInv'
  OBVIOUS
<1>1. Types /\ Places /\ Ends /\ Flows
  BY <1>0 DEF IInv, Flows
<1>2. /\ npc' = npc /\ program' = program /\ program \in {"ThreeStage", "ThreeStageSig_noSOAW"}
      /\ late' = late /\ apc' = apc /\ shutDownGet' = shutDownGet /\ ShutDownPut' = ShutDownPut
      /\ AllProduced' = AllProduced /\ Retries' = Retries
      /\ Pair' = Pair /\ Message' = Message /\ Lossless' = Lossless
      /\ Timed!Thread' = Timed!Thread /\ Pthreads!Getter' = Pthreads!Getter
  BY <1>0, InThreeStageFrame
<1>3. /\ UNCHANGED <<p2tq, t2rq, r2cq, produced, consumed, running, tpc, tBlock, tLeft,
                     rpc, rBlock, rLeft>>
      /\ boss' \in {"consumers", "stages", "done"}
      /\ \/ ShutDown' = ShutDown
         \/ ShutDown' = TRUE /\ \A c \in Pair : <<"consumer", c>> \notin running
  BY <1>0 DEF Plain!Boss, Plain!BossProducers, Plain!BossConsumers, Plain!BossStages, Plain!pairVars,
              Plain!workVars, Plain!tVars, Plain!rVars, Plain!Pair, Pair
<1>4. Types'
  <2>1. ShutDown' \in BOOLEAN
    BY <1>1, <1>3 DEF Types, PipelineTypeOK
  <2>2. /\ UNCHANGED <<p2tq, t2rq, r2cq, produced, consumed, running, tpc, tBlock, tLeft,
                       rpc, rBlock, rLeft>>
        /\ boss' \in {"consumers", "stages", "done"}
    BY <1>3
  <2> QED
    BY <1>1, <1>2, <2>1, <2>2, SMTT(60) DEF Types, PipelineTypeOK
<1>5. Places'
  BY <1>1, <1>2, <1>3
     DEF Places, Timed!theReceiver, Pthreads!theReceiver, Pthreads!theTransmitter
<1>6. Steps /\ \A p \in Pair : Finished(p)' = Finished(p)
  BY <1>1, <1>2, <1>3, <1>4 DEF Steps, Finished
<1>7. Ends'
  BY <1>1, <1>2, <1>3, <1>6 DEF Ends
<1>8. Flows'
  BY <1>1, <1>3, <1>6, StageWaits, FlowsOn
<1> QED
  BY <1>1, <1>4, <1>5, <1>7, <1>8 DEF IInv, Flows

-----------------------------------------------------------------------------
(* The calls that time out. *)

InShortWaits ==
  /\ program = "ThreeStageSig_noSOAW"
  /\ UNCHANGED <<program, npc, cancelVars, retryVars>>

LEMMA InShortWaitsFrame ==
  ASSUME InShortWaits
  PROVE  /\ npc' = npc /\ program' = program /\ program = "ThreeStageSig_noSOAW" /\ ~Lossless
         /\ apc' = apc /\ shutDownGet' = shutDownGet /\ ShutDownPut' = ShutDownPut
         /\ AllProduced' = AllProduced /\ Retries' = Retries
         /\ Pair' = Pair /\ Message' = Message /\ Lossless' = Lossless
         /\ Timed!Thread' = Timed!Thread /\ Pthreads!Getter' = Pthreads!Getter
BY Framed DEF InShortWaits, cancelVars, retryVars, Lossless

LEMMA TimeOutKeeps ==
  \A mustWait : \A t \in Timed!Thread :
    /\ IInv /\ InShortWaits /\ Timed!TimeOut(t, mustWait)
    /\ t = Timed!theReceiver /\ rpc = "distribute" => rBlock # <<>>
    => IInv'
<1>0. SUFFICES ASSUME NEW t \in Timed!Thread, NEW mustWait, IInv, InShortWaits,
                      Timed!TimeOut(t, mustWait),
                      t = Timed!theReceiver /\ rpc = "distribute" => rBlock # <<>>
               PROVE  IInv'
  OBVIOUS
<1>1. Types /\ Places /\ Ends /\ Flows
  BY <1>0 DEF IInv, Flows
<1>2. /\ npc' = npc /\ program' = program /\ program = "ThreeStageSig_noSOAW" /\ ~Lossless
      /\ apc' = apc /\ shutDownGet' = shutDownGet /\ ShutDownPut' = ShutDownPut
      /\ AllProduced' = AllProduced /\ Retries' = Retries
      /\ Pair' = Pair /\ Message' = Message /\ Lossless' = Lossless
      /\ Timed!Thread' = Timed!Thread /\ Pthreads!Getter' = Pthreads!Getter
  BY <1>0, InShortWaitsFrame
<1>3. /\ late' = late \cup {t}
      /\ UNCHANGED <<p2tq, t2rq, r2cq, produced, consumed, running, tpc, tBlock, tLeft,
                     rpc, rBlock, rLeft, boss, ShutDown>>
  BY <1>0 DEF Timed!TimeOut, Timed!vars, Timed!pipelineVars, Timed!queues, Timed!workVars,
              Timed!bossVars
<1>4. Types'
  BY <1>0, <1>1, <1>2, <1>3, SMTT(60) DEF Types, PipelineTypeOK
<1>5. Places'
  BY <1>0, <1>1, <1>2, <1>3
     DEF Places, Pthreads!theReceiver, Pthreads!theTransmitter
<1>6. Steps /\ \A p \in Pair : Finished(p)' = Finished(p)
  BY <1>1, <1>2, <1>3, <1>4 DEF Steps, Finished
<1>7. Ends'
  BY <1>1, <1>2, <1>3, <1>6 DEF Ends
<1>8. Flows'
  BY <1>1, <1>3, <1>6, StageWaits, FlowsOn
<1> QED
  BY <1>1, <1>4, <1>5, <1>7, <1>8 DEF IInv, Flows

LEMMA ProducerLateKeeps ==
  \A p \in Pair : IInv /\ InShortWaits /\ Timed!ProducerLate(p) => IInv'
<1>0. SUFFICES ASSUME NEW p \in Pair, IInv, InShortWaits, Timed!ProducerLate(p)
               PROVE  IInv'
  OBVIOUS
<1>1. Types /\ Places /\ Ends /\ Flows
  BY <1>0 DEF IInv, Flows
<1>2. /\ npc' = npc /\ program' = program /\ program = "ThreeStageSig_noSOAW" /\ ~Lossless
      /\ apc' = apc /\ shutDownGet' = shutDownGet /\ ShutDownPut' = ShutDownPut
      /\ AllProduced' = AllProduced /\ Retries' = Retries
      /\ Pair' = Pair /\ Message' = Message /\ Lossless' = Lossless
      /\ Timed!Thread' = Timed!Thread /\ Pthreads!Getter' = Pthreads!Getter
  BY <1>0, InShortWaitsFrame
<1> DEFINE m == [destination |-> p, sequence |-> IF produced[p] < Goal THEN produced[p] ELSE -1]
<1>3. /\ <<"producer", p>> \in running /\ late' = late \ {<<"producer", p>>}
      /\ \/ p2tq' = Append(p2tq, m) /\ Len(p2tq) < P2T_QLEN - 1
         \/ p2tq' = p2tq
      /\ \/ /\ produced[p] < Goal
            /\ produced' = [produced EXCEPT ![p] = @ + 1]
            /\ running' = running
         \/ /\ ~(produced[p] < Goal)
            /\ running' = running \ {<<"producer", p>>}
            /\ produced' = produced
      /\ UNCHANGED <<t2rq, r2cq, consumed, tpc, tBlock, tLeft, rpc, rBlock, rLeft, boss, ShutDown>>
  BY <1>0 DEF Timed!ProducerLate, Timed!NextMessage, Timed!tVars, Timed!rVars, Timed!bossVars,
              Timed!Room
<1>4. /\ produced \in [Pair -> 0 .. Goal] /\ p2tq \in Seq(Message) /\ Goal \in Nat /\ P2T_QLEN \in Nat
      /\ produced[p] \in Int
  <2>1. produced \in [Pair -> 0 .. Goal] /\ p2tq \in Seq(Message)
    BY <1>1 DEF Types, PipelineTypeOK
  <2> QED
    BY <1>0, <2>1, PipelineAssumption
<1>5. /\ m \in Message /\ m.destination = p
      /\ produced[p] < Goal => m.sequence = produced[p]
      /\ ~(produced[p] < Goal) => m.sequence = -1
  BY <1>0, <1>4 DEF Message
<1> HIDE DEF m
<1>6. Types'
  <2>1. p2tq' \in Seq(Message) /\ Len(p2tq') < P2T_QLEN
    <3>1. Len(p2tq) < P2T_QLEN /\ Len(p2tq) \in Nat
      BY <1>1, <1>4 DEF Types, PipelineTypeOK
    <3>2. Append(p2tq, m) \in Seq(Message) /\ Len(Append(p2tq, m)) = Len(p2tq) + 1
      BY <1>4, <1>5
    <3>3. p2tq' = p2tq \/ (p2tq' = Append(p2tq, m) /\ Len(p2tq) < P2T_QLEN - 1)
      BY <1>3
    <3> QED
      BY <1>4, <3>1, <3>2, <3>3
  <2>2. produced' \in [Pair -> 0 .. Goal]
    <3>1. produced[p] < Goal => [produced EXCEPT ![p] = @ + 1] \in [Pair -> 0 .. Goal]
      BY <1>0, <1>4
    <3> QED
      BY <1>3, <1>4, <3>1
  <2>3. running' \subseteq running /\ late' \subseteq late
    BY <1>3
  <2>4. UNCHANGED <<t2rq, r2cq, consumed, tpc, tBlock, tLeft, rpc, rBlock, rLeft, boss, ShutDown>>
    BY <1>3
  <2> QED
    BY <1>1, <1>2, <2>1, <2>2, <2>3, <2>4, SMTT(60) DEF Types, PipelineTypeOK
<1>7. Places'
  BY <1>1, <1>2, <1>3 DEF Places, Timed!theReceiver, Pthreads!theReceiver, Pthreads!theTransmitter
<1>8. Steps
  BY <1>1, <1>2, <1>6 DEF Steps
<1>9. Ends'
  <2>1. \A q \in Pair : <<"producer", q>> \notin running' => produced'[q] = Goal
    <3>1. \A q \in Pair : <<"producer", q>> \notin running => produced[q] = Goal
      BY <1>1 DEF Ends, Finished
    <3>2. ~(produced[p] < Goal) => produced[p] = Goal
      BY <1>0, <1>4
    <3> QED
      BY <1>0, <1>3, <1>4, <3>1, <3>2
  <2> QED
    BY <1>2, <2>1 DEF Ends, Finished
<1>10. Held' = Held
  BY <1>3 DEF Held
<1>11. Flows'
  <2>1. CASE p2tq' = Append(p2tq, m)
    BY <1>0, <1>1, <1>3, <1>5, <1>8, <1>10, <2>1, FlowsIn DEF Finished
  <2>2. CASE p2tq' = p2tq
    <3>1. Upstream' = Upstream /\ Upstream \in Seq(Message)
      BY <1>8, <1>10, <2>2, HeldNow, Stepping DEF Parted
    <3>2. Loses(Upstream, Upstream') /\ Loses(p2tq, p2tq')
      BY <1>4, <2>2, <3>1, LosesNothing
    <3>3. \A c \in Pair : produced[c] <= produced'[c] /\ (Finished(c) => Finished(c)')
      BY <1>0, <1>3, <1>4 DEF Finished
    <3> QED
      BY <1>1, <1>2, <1>3, <1>8, <3>2, <3>3, FlowsLessUpstream
  <2> QED
    BY <1>3, <2>1, <2>2
<1> QED
  BY <1>1, <1>6, <1>7, <1>9, <1>11 DEF IInv, Flows

LEMMA ConsumerLateKeeps ==
  \A c \in Pair : IInv /\ InShortWaits /\ Timed!ConsumerLate(c) => IInv'
<1>0. SUFFICES ASSUME NEW c \in Pair, IInv, InShortWaits, Timed!ConsumerLate(c)
               PROVE  IInv'
  OBVIOUS
<1>1. Types /\ Places /\ Ends /\ Flows
  BY <1>0 DEF IInv, Flows
<1>2. /\ npc' = npc /\ program' = program /\ program = "ThreeStageSig_noSOAW" /\ ~Lossless
      /\ apc' = apc /\ shutDownGet' = shutDownGet /\ ShutDownPut' = ShutDownPut
      /\ AllProduced' = AllProduced /\ Retries' = Retries
      /\ Pair' = Pair /\ Message' = Message /\ Lossless' = Lossless
      /\ Timed!Thread' = Timed!Thread /\ Pthreads!Getter' = Pthreads!Getter
  BY <1>0, InShortWaitsFrame
<1>3. /\ r2cq' = [r2cq EXCEPT ![c] = IF @ = <<>> THEN @ ELSE Tail(@)]
      /\ running' = running \ {<<"consumer", c>>} /\ late' = late \ {<<"consumer", c>>}
      /\ UNCHANGED <<p2tq, t2rq, produced, consumed, tpc, tBlock, tLeft, rpc, rBlock, rLeft,
                     boss, ShutDown>>
  BY <1>0 DEF Timed!ConsumerLate, Timed!tVars, Timed!rVars, Timed!bossVars
<1>4. /\ r2cq \in [Pair -> Seq(Message)] /\ R2C_QLEN \in Nat
      /\ \A d \in Pair : Len(r2cq[d]) < R2C_QLEN
  BY <1>1, PipelineAssumption DEF Types, PipelineTypeOK
<1>5. Types'
  <2>1. /\ r2cq' \in [Pair -> Seq(Message)]
        /\ \A d \in Pair : r2cq'[d] \in Seq(Message) /\ Len(r2cq'[d]) < R2C_QLEN
    <3>1. r2cq[c] # <<>> => Tail(r2cq[c]) \in Seq(Message) /\ Len(Tail(r2cq[c])) < R2C_QLEN
      BY <1>0, <1>4
    <3> QED
      BY <1>0, <1>3, <1>4, <3>1
  <2>2. running' \subseteq running /\ late' \subseteq late
    BY <1>3
  <2>3. UNCHANGED <<p2tq, t2rq, produced, consumed, tpc, tBlock, tLeft, rpc, rBlock, rLeft,
                    boss, ShutDown>>
    BY <1>3
  <2> QED
    BY <1>1, <1>2, <2>1, <2>2, <2>3, SMTT(60) DEF Types, PipelineTypeOK
<1>6. Places'
  BY <1>1, <1>2, <1>3 DEF Places, Timed!theReceiver, Pthreads!theReceiver, Pthreads!theTransmitter
<1>7. Steps /\ \A p \in Pair : Finished(p)' = Finished(p)
  <2>1. \A p \in Pair : <<"producer", p>> \in running' <=> <<"producer", p>> \in running
    BY <1>3
  <2>2. \A p \in Pair : Finished(p)' = Finished(p)
    BY <2>1 DEF Finished
  <2> QED
    BY <1>1, <1>2, <1>5, <2>2 DEF Steps
<1>8. Ends'
  <2>1. \A p \in Pair : Finished(p)' => produced'[p] = Goal
    BY <1>1, <1>3, <1>7 DEF Ends
  <2> QED
    BY <1>2, <2>1 DEF Ends
<1>9. Upstream' = Upstream
  BY <1>3 DEF Held, Upstream
<1>10. Flows'
  BY <1>0, <1>1, <1>2, <1>3, <1>7, <1>9, FlowsLessDownstream
<1> QED
  BY <1>1, <1>5, <1>6, <1>8, <1>10 DEF IInv, Flows

\* All of a sequence, or nothing of it, may be lost.
LEMMA LosesAll == \A s \in Seq(Message) : Loses(s, <<>>)
<1> SUFFICES ASSUME NEW s \in Seq(Message)
             PROVE  Loses(s, <<>>)
  OBVIOUS
<1>1. <<>> \in Seq(Message)
  BY EmptySeq
<1>2. s = Cat(<<>>, Cat(s, <<>>)) /\ <<>> = Cat(<<>>, <<>>)
  BY <1>1, CatNone
<1> QED
  BY <1>1, <1>2 DEF Loses

LEMMA TransmitterPackLateKeeps == IInv /\ InShortWaits /\ Timed!TransmitterPackLate => IInv'
<1>0. SUFFICES ASSUME IInv, InShortWaits, Timed!TransmitterPackLate
               PROVE  IInv'
  OBVIOUS
<1>1. Types /\ Places /\ Ends /\ Flows
  BY <1>0 DEF IInv, Flows
<1>2. /\ npc' = npc /\ program' = program /\ program = "ThreeStageSig_noSOAW" /\ ~Lossless
      /\ apc' = apc /\ shutDownGet' = shutDownGet /\ ShutDownPut' = ShutDownPut
      /\ AllProduced' = AllProduced /\ Retries' = Retries
      /\ Pair' = Pair /\ Message' = Message /\ Lossless' = Lossless
      /\ Timed!Thread' = Timed!Thread /\ Pthreads!Getter' = Pthreads!Getter
  BY <1>0, InShortWaitsFrame
<1>3. /\ \/ p2tq # <<>> /\ p2tq' = Tail(p2tq)
         \/ p2tq' = p2tq
      /\ tpc' = "send" /\ late' \subseteq late
      /\ UNCHANGED <<t2rq, r2cq, produced, consumed, running, tBlock, tLeft, rpc, rBlock, rLeft,
                     boss, ShutDown>>
  BY <1>0 DEF Timed!TransmitterPackLate, Timed!pairVars, Timed!workVars, Timed!rVars, Timed!bossVars
<1>4. /\ p2tq \in Seq(Message) /\ Len(p2tq) < P2T_QLEN /\ P2T_QLEN \in Nat
      /\ p2tq' \in Seq(Message) /\ Len(p2tq') < P2T_QLEN
  <2>1. p2tq \in Seq(Message) /\ Len(p2tq) < P2T_QLEN /\ P2T_QLEN \in Nat
    BY <1>1, PipelineAssumption DEF Types, PipelineTypeOK
  <2>2. p2tq # <<>> => Tail(p2tq) \in Seq(Message) /\ Len(Tail(p2tq)) < P2T_QLEN
    BY <2>1
  <2> QED
    BY <1>3, <2>1, <2>2
<1>5. Types'
  BY <1>1, <1>2, <1>3, <1>4, SMTT(60) DEF Types, PipelineTypeOK
<1>6. Places'
  BY <1>1, <1>2, <1>3
     DEF Places, Timed!theReceiver, Pthreads!theReceiver, Pthreads!theTransmitter
<1>7. Steps /\ \A p \in Pair : Finished(p)' = Finished(p)
  BY <1>1, <1>2, <1>3, <1>5 DEF Steps, Finished
<1>8. Ends'
  BY <1>1, <1>2, <1>3, <1>7 DEF Ends
<1>9. Flows'
  <2>1. Loses(p2tq, p2tq')
    BY <1>3, <1>4, LosesFirst, LosesNothing
  <2>2. Loses(Upstream, Upstream')
    <3>1. Held' = Held
      BY <1>3 DEF Held
    <3>2. Upstream = Cat(Held, p2tq) /\ Upstream' = Cat(Held, p2tq') /\ Held \in Seq(Message)
      BY <1>7, <3>1, HeldNow
    <3> QED
      BY <1>4, <2>1, <3>2, LosesIn
  <2>9. \A c \in Pair : produced[c] <= produced'[c] /\ (Finished(c) => Finished(c)')
    BY <1>3, <1>7, Stepping
  <2> QED
    BY <1>1, <1>2, <1>3, <1>7, <2>1, <2>2, <2>9, FlowsLessUpstream
<1> QED
  BY <1>1, <1>5, <1>6, <1>8, <1>9 DEF IInv, Flows

LEMMA TransmitterSendLateKeeps == IInv /\ InShortWaits /\ Timed!TransmitterSendLate => IInv'
<1>0. SUFFICES ASSUME IInv, InShortWaits, Timed!TransmitterSendLate
               PROVE  IInv'
  OBVIOUS
<1>1. Types /\ Places /\ Ends /\ Flows
  BY <1>0 DEF IInv, Flows
<1>2. /\ npc' = npc /\ program' = program /\ program = "ThreeStageSig_noSOAW" /\ ~Lossless
      /\ apc' = apc /\ shutDownGet' = shutDownGet /\ ShutDownPut' = ShutDownPut
      /\ AllProduced' = AllProduced /\ Retries' = Retries
      /\ Pair' = Pair /\ Message' = Message /\ Lossless' = Lossless
      /\ Timed!Thread' = Timed!Thread /\ Pthreads!Getter' = Pthreads!Getter
  BY <1>0, InShortWaitsFrame
<1>3. /\ \/ Len(t2rq) < T2R_QLEN - 1 /\ t2rq' = Append(t2rq, tBlock)
         \/ t2rq' = t2rq
      /\ tBlock' = <<>> /\ tpc' = "done" /\ late' \subseteq late
      /\ UNCHANGED <<p2tq, r2cq, produced, consumed, running, tLeft, rpc, rBlock, rLeft,
                     boss, ShutDown>>
  BY <1>0 DEF Timed!TransmitterSendLate, Timed!pairVars, Timed!workVars, Timed!rVars,
              Timed!bossVars, Timed!Room
<1>4. /\ t2rq' \in Seq(Seq(Message)) /\ Len(t2rq') < T2R_QLEN
      /\ tBlock' \in Seq(Message) /\ Len(tBlock') <= TBLOCK_SIZE
  <2>1. /\ t2rq \in Seq(Seq(Message)) /\ tBlock \in Seq(Message) /\ Len(t2rq) < T2R_QLEN
        /\ T2R_QLEN \in Nat /\ TBLOCK_SIZE \in Nat
    BY <1>1, PipelineAssumption DEF Types, PipelineTypeOK
  <2>2. Append(t2rq, tBlock) \in Seq(Seq(Message)) /\ Len(Append(t2rq, tBlock)) = Len(t2rq) + 1
    BY <2>1
  <2>3. <<>> \in Seq(Message) /\ Len(<<>>) <= TBLOCK_SIZE /\ Len(t2rq) \in Nat
    BY <2>1
  <2>4. t2rq' = t2rq \/ (t2rq' = Append(t2rq, tBlock) /\ Len(t2rq) < T2R_QLEN - 1)
    BY <1>3
  <2>5. t2rq' \in Seq(Seq(Message)) /\ Len(t2rq') < T2R_QLEN
    <3> DEFINE n == Len(t2rq)
               k == Len(t2rq')
    <3>1. n \in Nat /\ (t2rq' = t2rq => k = n) /\ (t2rq' = Append(t2rq, tBlock) => k = n + 1)
      BY <2>1, <2>2
    <3>2. t2rq' = t2rq \/ (t2rq' = Append(t2rq, tBlock) /\ n < T2R_QLEN - 1)
      BY <2>4
    <3>3. n < T2R_QLEN /\ T2R_QLEN \in Nat
      BY <2>1
    <3> HIDE DEF n, k
    <3>4. k < T2R_QLEN
      BY <3>1, <3>2, <3>3
    <3>5. t2rq' \in Seq(Seq(Message))
      BY <2>1, <2>2, <2>4, Zenon
    <3> QED
      BY <3>4, <3>5 DEF k
  <2> QED
    BY <1>3, <2>3, <2>5
<1>5. Types'
  BY <1>1, <1>2, <1>3, <1>4, SMTT(60) DEF Types, PipelineTypeOK
<1>6. Places'
  BY <1>1, <1>2, <1>3
     DEF Places, Timed!theReceiver, Pthreads!theReceiver, Pthreads!theTransmitter
<1>7. Steps /\ \A p \in Pair : Finished(p)' = Finished(p)
  BY <1>1, <1>2, <1>3, <1>5 DEF Steps, Finished
<1>8. Ends'
  BY <1>1, <1>2, <1>3, <1>7 DEF Ends
<1>9. Flows'
  <2>1. Loses(Upstream, Upstream')
    <3>1. CASE t2rq' = Append(t2rq, tBlock)
      BY <1>3, <1>7, <3>1, TransmitterSends, HeldNow, Stepping, LosesNothing DEF Parted
    <3>2. CASE t2rq' = t2rq
      <4> DEFINE a == Cat(rBlock, FlattenSeq(t2rq))
                 k == tBlock
      <4>1. /\ a \in Seq(Message) /\ k \in Seq(Message) /\ <<>> \in Seq(Message)
            /\ p2tq \in Seq(Message)
            /\ Held = Cat(a, k) /\ Held' = Cat(a, <<>>)
            /\ Held \in Seq(Message) /\ Held' \in Seq(Message)
            /\ Upstream = Cat(Held, p2tq) /\ Upstream' = Cat(Held', p2tq)
        BY <1>3, <1>7, <3>2, HeldNow, CatIsSeq, EmptySeq
      <4> HIDE DEF a, k
      <4>2. Loses(k, <<>>)
        BY <4>1, LosesAll
      <4>3. Loses(Held, Held')
        BY <4>1, <4>2, LosesIn
      <4> QED
        BY <4>1, <4>3, LosesIn
    <3> QED
      BY <1>3, <3>1, <3>2
  <2>2. Loses(p2tq, p2tq')
    BY <1>3, <1>7, HeldNow, LosesNothing
  <2>9. \A c \in Pair : produced[c] <= produced'[c] /\ (Finished(c) => Finished(c)')
    BY <1>3, <1>7, Stepping
  <2> QED
    BY <1>1, <1>2, <1>3, <1>7, <2>1, <2>2, <2>9, FlowsLessUpstream
<1> QED
  BY <1>1, <1>5, <1>6, <1>8, <1>9 DEF IInv, Flows

LEMMA ReceiverGetLateKeeps == IInv /\ InShortWaits /\ Timed!ReceiverGetLate => IInv'
<1>0. SUFFICES ASSUME IInv, InShortWaits, Timed!ReceiverGetLate
               PROVE  IInv'
  OBVIOUS
<1>1. Types /\ Places /\ Ends /\ Flows
  BY <1>0 DEF IInv, Flows
<1>2. /\ npc' = npc /\ program' = program /\ program = "ThreeStageSig_noSOAW" /\ ~Lossless
      /\ apc' = apc /\ shutDownGet' = shutDownGet /\ ShutDownPut' = ShutDownPut
      /\ AllProduced' = AllProduced /\ Retries' = Retries
      /\ Pair' = Pair /\ Message' = Message /\ Lossless' = Lossless
      /\ Timed!Thread' = Timed!Thread /\ Pthreads!Getter' = Pthreads!Getter
  BY <1>0, InShortWaitsFrame
<1>3. /\ \/ t2rq # <<>> /\ t2rq' = Tail(t2rq)
         \/ t2rq' = t2rq
      /\ rpc = "get" /\ rpc' = "done" /\ late' \subseteq late
      /\ UNCHANGED <<p2tq, r2cq, produced, consumed, running, tpc, tBlock, tLeft, rBlock, rLeft,
                     boss, ShutDown>>
  BY <1>0 DEF Timed!ReceiverGetLate, Timed!pairVars, Timed!workVars, Timed!tVars, Timed!bossVars
<1>4. t2rq' \in Seq(Seq(Message)) /\ Len(t2rq') < T2R_QLEN
  <2>1. t2rq \in Seq(Seq(Message)) /\ Len(t2rq) < T2R_QLEN /\ T2R_QLEN \in Nat
    BY <1>1, PipelineAssumption DEF Types, PipelineTypeOK
  <2>2. t2rq # <<>> => Tail(t2rq) \in Seq(Seq(Message)) /\ Len(Tail(t2rq)) < T2R_QLEN
    BY <2>1
  <2> QED
    BY <1>3, <2>1, <2>2
<1>5. Types'
  BY <1>1, <1>2, <1>3, <1>4, SMTT(60) DEF Types, PipelineTypeOK
<1>6. Places'
  BY <1>1, <1>2, <1>3
     DEF Places, Timed!theReceiver, Pthreads!theReceiver, Pthreads!theTransmitter
<1>7. Steps /\ \A p \in Pair : Finished(p)' = Finished(p)
  BY <1>1, <1>2, <1>3, <1>5 DEF Steps, Finished
<1>8. Ends'
  BY <1>1, <1>2, <1>3, <1>7 DEF Ends
<1>9. Flows'
  <2>1. rBlock = <<>> /\ rBlock' = <<>>
    BY <1>1, <1>3 DEF Places
  <2>2. Loses(Upstream, Upstream')
    <3>1. CASE t2rq # <<>> /\ t2rq' = Tail(t2rq)
      BY <1>3, <1>7, <2>1, <3>1, ReceiverTakes
    <3>2. CASE t2rq' = t2rq
      BY <1>3, <1>7, <3>2, StageWaits, Stepping, LosesNothing DEF Parted
    <3> QED
      BY <1>3, <3>1, <3>2
  <2>3. Loses(p2tq, p2tq')
    BY <1>3, <1>7, HeldNow, LosesNothing
  <2>9. \A c \in Pair : produced[c] <= produced'[c] /\ (Finished(c) => Finished(c)')
    BY <1>3, <1>7, Stepping
  <2> QED
    BY <1>1, <1>2, <1>3, <1>7, <2>2, <2>3, <2>9, FlowsLessUpstream
<1> QED
  BY <1>1, <1>5, <1>6, <1>8, <1>9 DEF IInv, Flows

LEMMA ReceiverEmptyBlockKeeps == IInv /\ InShortWaits /\ Timed!ReceiverEmptyBlock => IInv'
<1>0. SUFFICES ASSUME IInv, InShortWaits, Timed!ReceiverEmptyBlock
               PROVE  IInv'
  OBVIOUS
<1>1. Types /\ Places /\ Ends /\ Flows
  BY <1>0 DEF IInv, Flows
<1>2. /\ npc' = npc /\ program' = program /\ program = "ThreeStageSig_noSOAW" /\ ~Lossless
      /\ apc' = apc /\ shutDownGet' = shutDownGet /\ ShutDownPut' = ShutDownPut
      /\ AllProduced' = AllProduced /\ Retries' = Retries
      /\ Pair' = Pair /\ Message' = Message /\ Lossless' = Lossless
      /\ Timed!Thread' = Timed!Thread /\ Pthreads!Getter' = Pthreads!Getter
  BY <1>0, InShortWaitsFrame
<1>3. /\ rBlock = <<>> /\ rpc' = "loop"
      /\ UNCHANGED <<p2tq, t2rq, r2cq, produced, consumed, running, tpc, tBlock, tLeft, rBlock, rLeft,
                     boss, ShutDown, late>>
  BY <1>0 DEF Timed!ReceiverEmptyBlock, Timed!pairVars, Timed!workVars, Timed!tVars, Timed!bossVars
<1>5. Types'
  BY <1>1, <1>2, <1>3, SMTT(60) DEF Types, PipelineTypeOK
<1>6. Places'
  BY <1>1, <1>2, <1>3
     DEF Places, Timed!theReceiver, Pthreads!theReceiver, Pthreads!theTransmitter
<1>7. Steps /\ \A p \in Pair : Finished(p)' = Finished(p)
  BY <1>1, <1>2, <1>3, <1>5 DEF Steps, Finished
<1>8. Ends'
  BY <1>1, <1>2, <1>3, <1>7 DEF Ends
<1>9. Flows'
  BY <1>1, <1>3, <1>7, StageWaits, FlowsOn
<1> QED
  BY <1>1, <1>5, <1>6, <1>8, <1>9 DEF IInv, Flows

\* Of the line of c the rest of the block is lost, and its first message perhaps too.
LEMMA BlockLost ==
  ASSUME NEW c, NEW m \in Message, NEW q \in Seq(Message), NEW t \in Seq(Message),
         NEW b \in Seq(Message)
  PROVE  LET line == Cat(To(c, q), To(c, Cat(Cat(One(m), t), b))) IN
         /\ Loses(line, Cat(To(c, q), To(c, b)))
         /\ m.destination = c => Loses(line, Cat(To(c, Append(q, m)), To(c, b)))
<1> DEFINE o == One(m)
           x == To(c, q)
           y == To(c, t)
           z == To(c, b)
           u == Cat(o, t)
           w == To(c, u)
           line == Cat(To(c, q), To(c, Cat(Cat(One(m), t), b)))
<1>1. o \in Seq(Message) /\ u \in Seq(Message)
  BY OneIsSeq, CatIsSeq
<1>2. /\ x \in Seq(Message) /\ y \in Seq(Message) /\ z \in Seq(Message) /\ w \in Seq(Message)
      /\ line = Cat(x, Cat(w, z)) /\ w = Cat(To(c, o), y)
  <2>1. To(c, Cat(u, b)) = Cat(w, z) /\ w \in Seq(Message) /\ z \in Seq(Message)
    BY <1>1, ToJoins
  <2>2. w = Cat(To(c, o), y) /\ y \in Seq(Message) /\ x \in Seq(Message)
    BY <1>1, ToJoins
  <2> QED
    BY <2>1, <2>2
<1>3. m.destination = c => To(c, o) = o /\ To(c, Append(q, m)) = Cat(x, o)
  <2>1. m.destination = c => To(c, o) = o
    BY ToOne
  <2>2. Append(q, m) = Cat(q, o)
    BY AppendIsCat
  <2>3. To(c, Cat(q, o)) = Cat(x, To(c, o))
    BY <1>1, ToJoins
  <2> QED
    BY <2>1, <2>2, <2>3
<1>4. To(c, Cat(Cat(One(m), t), b)) = To(c, Cat(Cat(o, t), b))
  OBVIOUS
<1> HIDE DEF o, x, y, z, w, u, line
<1>5. Loses(line, Cat(x, z))
  BY <1>2 DEF Loses
<1>6. m.destination = c => Loses(line, Cat(Cat(x, o), z))
  <2> SUFFICES ASSUME m.destination = c
               PROVE  Loses(line, Cat(Cat(x, o), z))
    OBVIOUS
  <2>1. Cat(y, z) \in Seq(Message) /\ Cat(x, o) \in Seq(Message)
    BY <1>1, <1>2, CatIsSeq
  <2>2. Cat(Cat(o, y), z) = Cat(o, Cat(y, z))
    BY <1>1, <1>2, CatAssoc
  <2>3. Cat(x, Cat(o, Cat(y, z))) = Cat(Cat(x, o), Cat(y, z))
    BY <1>1, <1>2, <2>1, CatAssoc
  <2>4. line = Cat(Cat(x, o), Cat(y, z))
    BY <1>2, <1>3, <2>2, <2>3
  <2> QED
    BY <1>2, <2>1, <2>4 DEF Loses
<1> QED
  BY <1>3, <1>5, <1>6 DEF line, x, z

LEMMA ReceiverPutLateKeeps == IInv /\ InShortWaits /\ Timed!ReceiverPutLate => IInv'
<1>0. SUFFICES ASSUME IInv, InShortWaits, Timed!ReceiverPutLate
               PROVE  IInv'
  OBVIOUS
<1>1. Types /\ Places /\ Ends /\ Flows
  BY <1>0 DEF IInv, Flows
<1>2. /\ npc' = npc /\ program' = program /\ program = "ThreeStageSig_noSOAW" /\ ~Lossless
      /\ apc' = apc /\ shutDownGet' = shutDownGet /\ ShutDownPut' = ShutDownPut
      /\ AllProduced' = AllProduced /\ Retries' = Retries
      /\ Pair' = Pair /\ Message' = Message /\ Lossless' = Lossless
      /\ Timed!Thread' = Timed!Thread /\ Pthreads!Getter' = Pthreads!Getter
  BY <1>0, InShortWaitsFrame
<1>3. /\ rpc = "distribute" /\ Timed!theReceiver \in late
      /\ LET m == Head(rBlock) IN
           r2cq' = [r2cq EXCEPT ![m.destination] =
                      IF Len(@) < R2C_QLEN - 1 THEN Append(@, m) ELSE @]
      /\ rBlock' = <<>> /\ rpc' = "done" /\ late' \subseteq late
      /\ UNCHANGED <<p2tq, t2rq, produced, consumed, running, tpc, tBlock, tLeft, rLeft,
                     boss, ShutDown>>
  BY <1>0 DEF Timed!ReceiverPutLate, Timed!pairVars, Timed!workVars, Timed!tVars, Timed!bossVars,
              Timed!Room
<1>4. PICK m : /\ m = Head(rBlock)
               /\ r2cq' = [r2cq EXCEPT ![m.destination] =
                             IF Len(@) < R2C_QLEN - 1 THEN Append(@, m) ELSE @]
  BY <1>3
<1>10. /\ rBlock # <<>> /\ rBlock \in Seq(Message) /\ r2cq \in [Pair -> Seq(Message)]
       /\ R2C_QLEN \in Nat /\ \A c \in Pair : Len(r2cq[c]) < R2C_QLEN
  BY <1>1, <1>2, <1>3, PipelineAssumption DEF Types, PipelineTypeOK, Places
<1>11. /\ m \in Message /\ m.destination \in Pair /\ Tail(rBlock) \in Seq(Message)
       /\ rBlock = Cat(One(m), Tail(rBlock))
  <2>1. m \in Message /\ Tail(rBlock) \in Seq(Message) /\ rBlock = Cat(One(m), Tail(rBlock))
    BY <1>4, <1>10, HeadAndTail
  <2> QED
    BY <2>1 DEF Message
<1>12. /\ r2cq' \in [Pair -> Seq(Message)]
       /\ \A c \in Pair : r2cq'[c] \in Seq(Message) /\ Len(r2cq'[c]) < R2C_QLEN
       /\ \A c \in Pair : r2cq'[c] # r2cq[c] =>
                         /\ r2cq'[c] = Append(r2cq[c], m)
                         /\ m.destination = c
  <2>1. \A c \in Pair :
          /\ Append(r2cq[c], m) \in Seq(Message)
          /\ Len(r2cq[c]) < R2C_QLEN - 1 => Len(Append(r2cq[c], m)) < R2C_QLEN
    BY <1>10, <1>11
  <2> QED
    BY <1>4, <1>10, <1>11, <2>1
<1>5. Types'
  <2>1. /\ r2cq' \in [Pair -> Seq(Message)]
        /\ \A c \in Pair : r2cq'[c] \in Seq(Message) /\ Len(r2cq'[c]) < R2C_QLEN
    BY <1>12
  <2>2. rBlock' \in Seq(Message) /\ rpc' \in {"loop", "get", "getting", "distribute", "done"}
    BY <1>1, <1>2, <1>3 DEF Types, PipelineTypeOK
  <2> QED
    BY <1>1, <1>2, <1>3, <2>1, <2>2, SMTT(90) DEF Types, PipelineTypeOK
<1>6. Places'
  BY <1>1, <1>2, <1>3
     DEF Places, Timed!theReceiver, Pthreads!theReceiver, Pthreads!theTransmitter
<1>7. Steps /\ \A p \in Pair : Finished(p)' = Finished(p)
  BY <1>1, <1>2, <1>3, <1>5 DEF Steps, Finished
<1>8. Ends'
  BY <1>1, <1>2, <1>3, <1>7 DEF Ends
<1>9. Flows'
  <2>1. /\ Behind \in Seq(Message) /\ Upstream = Cat(Cat(One(m), Tail(rBlock)), Behind)
        /\ Upstream' = Behind
    BY <1>3, <1>7, <1>11, BlockAndBehind, CatNone
  <2>2. \A c \in Pair :
                       /\ r2cq[c] \in Seq(Message)
                       /\ InFlight(c) = Cat(To(c, r2cq[c]), To(c, Upstream))
                       /\ InFlight(c)' = Cat(To(c, r2cq'[c]), To(c, Upstream'))
    BY <1>2, <1>7, Stepping DEF Parted
  <2>3. \A c \in Pair : Loses(InFlight(c), InFlight(c)')
    <3> SUFFICES ASSUME NEW c \in Pair
                 PROVE  Loses(InFlight(c), InFlight(c)')
      OBVIOUS
    <3> DEFINE q == r2cq[c]
               t == Tail(rBlock)
               b == Behind
               line == Cat(To(c, q), To(c, Cat(Cat(One(m), t), b)))
    <3>1. /\ q \in Seq(Message) /\ t \in Seq(Message) /\ b \in Seq(Message)
          /\ InFlight(c) = line
          /\ InFlight(c)' = Cat(To(c, r2cq'[c]), To(c, b))
      BY <1>11, <2>1, <2>2
    <3>2. r2cq'[c] = q \/ (r2cq'[c] = Append(q, m) /\ m.destination = c)
      BY <1>12
    <3> HIDE DEF q, t, b
    <3>3. /\ Loses(line, Cat(To(c, q), To(c, b)))
          /\ m.destination = c => Loses(line, Cat(To(c, Append(q, m)), To(c, b)))
      BY <1>11, <3>1, BlockLost
    <3> HIDE DEF line
    <3> QED
      BY <3>1, <3>2, <3>3
  <2>4. \A c \in Pair : FinalIn(c, Upstream') => FinalIn(c, Upstream)
    BY <1>10, <1>11, <2>1, FinalInCat
  <2>5. \A c \in Pair : \A i \in DOMAIN r2cq'[c] : r2cq'[c][i].destination = c
    <3> SUFFICES ASSUME NEW c \in Pair
                 PROVE  \A i \in DOMAIN r2cq'[c] : r2cq'[c][i].destination = c
      OBVIOUS
    <3> DEFINE q == r2cq[c]
    <3>1. q \in Seq(Message) /\ \A i \in DOMAIN q : q[i].destination = c
      BY <1>1, <1>10 DEF Flows, Lines
    <3>2. r2cq'[c] # q => r2cq'[c] = Append(q, m) /\ m.destination = c
      BY <1>12
    <3> HIDE DEF q
    <3>3. /\ DOMAIN Append(q, m) = 1 .. Len(q) + 1 /\ DOMAIN q = 1 .. Len(q) /\ Len(q) \in Nat
          /\ \A i \in 1 .. Len(q) : Append(q, m)[i] = q[i]
          /\ Append(q, m)[Len(q) + 1] = m
      BY <1>11, <3>1
    <3> QED
      BY <3>1, <3>2, <3>3
  <2>6. \A c \in Pair : FinalIn(c, p2tq') => FinalIn(c, p2tq)
    BY <1>3
  <2>9. \A c \in Pair : produced[c] <= produced'[c] /\ (Finished(c) => Finished(c)')
    BY <1>3, <1>7, Stepping
  <2> QED
    BY <1>1, <1>2, <1>3, <1>7, <2>3, <2>4, <2>5, <2>6, <2>9, FlowsLess
<1> QED
  BY <1>1, <1>5, <1>6, <1>8, <1>9 DEF IInv, Flows

-----------------------------------------------------------------------------
(* Where a message is, and what the lines say of it. *)

Inside(x, s) == \E i \in DOMAIN s : s[i] = x

LEMMA InsideCat ==
  \A x, M : \A s, t \in Seq(M) :
    /\ Inside(x, s) => Inside(x, Cat(s, t))
    /\ Inside(x, t) => Inside(x, Cat(s, t))
    /\ Inside(x, Cat(s, t)) => Inside(x, s) \/ Inside(x, t)
<1> SUFFICES ASSUME NEW x, NEW M, NEW s \in Seq(M), NEW t \in Seq(M)
             PROVE  /\ Inside(x, s) => Inside(x, Cat(s, t))
                    /\ Inside(x, t) => Inside(x, Cat(s, t))
                    /\ Inside(x, Cat(s, t)) => Inside(x, s) \/ Inside(x, t)
  OBVIOUS
<1> DEFINE u == Cat(s, t)
           m == Len(s)
           n == Len(t)
<1>1. /\ u \in Seq(M) /\ m \in Nat /\ n \in Nat /\ Joint(s, t, u)
      /\ DOMAIN s = 1 .. m /\ DOMAIN t = 1 .. n /\ DOMAIN u = 1 .. Len(u)
  BY CatIsSeq, LenProperties
<1>2. /\ DOMAIN u = 1 .. m + n
      /\ \A i \in 1 .. m : u[i] = s[i]
      /\ \A i \in 1 .. n : u[m + i] = t[i]
  BY <1>1 DEF Joint
<1> HIDE DEF u, m, n
<1>3. \A i \in 1 .. m + n : i \in 1 .. m \/ (i - m \in 1 .. n /\ u[i] = t[i - m])
  <2> SUFFICES ASSUME NEW i \in 1 .. m + n, i \notin 1 .. m
               PROVE  i - m \in 1 .. n /\ u[i] = t[i - m]
    OBVIOUS
  <2>1. i - m \in 1 .. n /\ m + (i - m) = i
    BY <1>1
  <2> QED
    BY <1>2, <2>1
<1>4. Inside(x, u) => Inside(x, s) \/ Inside(x, t)
  BY <1>1, <1>2, <1>3 DEF Inside
<1>5. Inside(x, s) => Inside(x, u)
  BY <1>1, <1>2 DEF Inside
<1>6. Inside(x, t) => Inside(x, u)
  <2> SUFFICES ASSUME NEW i \in 1 .. n, t[i] = x
               PROVE  Inside(x, u)
    BY <1>1 DEF Inside
  <2>1. m + i \in 1 .. m + n /\ u[m + i] = x
    BY <1>1, <1>2
  <2> QED
    BY <1>2, <2>1 DEF Inside
<1> QED
  BY <1>4, <1>5, <1>6 DEF u

LEMMA InsideHead ==
  \A M : \A s \in Seq(M) : s # <<>> => Head(s) \in M /\ Inside(Head(s), s)
BY DEF Inside

LEMMA InsideUpstream ==
  ASSUME Types, NEW x
  PROVE  /\ Inside(x, p2tq) => Inside(x, Upstream)
         /\ Inside(x, rBlock) => Inside(x, Upstream)
         /\ Inside(x, FlattenSeq(t2rq)) => Inside(x, Upstream)
<1> DEFINE b == rBlock
           f == FlattenSeq(t2rq)
           k == tBlock
           h == Cat(b, f)
<1>1. /\ b \in Seq(Message) /\ f \in Seq(Message) /\ k \in Seq(Message) /\ p2tq \in Seq(Message)
      /\ Held = Cat(h, k) /\ Held \in Seq(Message) /\ Upstream = Cat(Held, p2tq)
      /\ h \in Seq(Message)
  BY Parts, CatIsSeq DEF Parted
<1> HIDE DEF b, f, k
<1>2. (Inside(x, b) => Inside(x, h)) /\ (Inside(x, f) => Inside(x, h))
  BY <1>1, InsideCat
<1> HIDE DEF h
<1>3. Inside(x, h) => Inside(x, Held)
  BY <1>1, InsideCat
<1>4. (Inside(x, Held) => Inside(x, Upstream)) /\ (Inside(x, p2tq) => Inside(x, Upstream))
  BY <1>1, InsideCat
<1> QED
  BY <1>2, <1>3, <1>4 DEF b, f

\* A message that has not reached the queues of the consumers is in its line.
LEMMA InItsLine ==
  ASSUME Types, NEW x, Inside(x, Upstream)
  PROVE  /\ x \in Message /\ x.destination \in Pair
         /\ Inside(x, To(x.destination, Upstream)) /\ Inside(x, InFlight(x.destination))
<1>1. Parted
  BY Parts
<1>2. Upstream \in Seq(Message)
  BY <1>1 DEF Parted
<1>3. PICK i \in 1 .. Len(Upstream) : Upstream[i] = x
  BY <1>2 DEF Inside
<1>4. x \in Message /\ x.destination \in Pair
  <2>1. x \in Message
    BY <1>2, <1>3
  <2> QED
    BY <2>1 DEF Message
<1>5. Inside(x, To(x.destination, Upstream))
  BY <1>2, <1>3, ToFinds DEF Inside
<1>6. /\ To(x.destination, Upstream) \in Seq(Message)
      /\ To(x.destination, r2cq[x.destination]) \in Seq(Message)
      /\ InFlight(x.destination)
           = Cat(To(x.destination, r2cq[x.destination]), To(x.destination, Upstream))
  BY <1>1, <1>4 DEF Parted
<1>7. Inside(x, InFlight(x.destination))
  <2> DEFINE a == To(x.destination, r2cq[x.destination])
             b == To(x.destination, Upstream)
  <2>1. a \in Seq(Message) /\ b \in Seq(Message) /\ Inside(x, b)
        /\ InFlight(x.destination) = Cat(a, b)
    BY <1>5, <1>6
  <2> HIDE DEF a, b
  <2> QED
    BY <2>1, InsideCat
<1> QED
  BY <1>4, <1>5, <1>7

\* A final message comes from a producer that has returned.
LEMMA FinalsComeLast ==
  ASSUME Types, Lines, NEW x, Inside(x, Upstream), IsLast(x)
  PROVE  Finished(x.destination)
<1>1. x.destination \in Pair /\ Inside(x, InFlight(x.destination))
  BY InItsLine
<1>2. GoodLine(InFlight(x.destination), produced[x.destination], consumed[x.destination],
               Finished(x.destination), Lossless)
  BY <1>1 DEF Lines
<1>3. \A i \in DOMAIN InFlight(x.destination) :
         IsLast(InFlight(x.destination)[i]) => Finished(x.destination)
  BY <1>2 DEF GoodLine
<1> QED
  BY <1>1, <1>3 DEF Inside

LEMMA CatEmpty ==
  \A M : \A s, t \in Seq(M) : Cat(s, t) = <<>> => s = <<>> /\ t = <<>>
<1> SUFFICES ASSUME NEW M, NEW s \in Seq(M), NEW t \in Seq(M), Cat(s, t) = <<>>
             PROVE  s = <<>> /\ t = <<>>
  OBVIOUS
<1>1. Len(<<>>) = Len(s) + Len(t) /\ Len(s) \in Nat /\ Len(t) \in Nat
  BY CatIsSeq, LenProperties DEF Joint
<1>2. Len(s) = 0 /\ Len(t) = 0
  BY <1>1
<1> QED
  BY <1>2, EmptySeq

\* The queue of c holds nothing but messages for c.
LEMMA NoneIsEmpty ==
  ASSUME NEW M, NEW c, NEW q \in Seq(M), \A i \in DOMAIN q : q[i].destination = c,
         To(c, q) = <<>>
  PROVE  q = <<>>
<1> SUFFICES ASSUME q # <<>>
             PROVE  FALSE
  OBVIOUS
<1>1. 1 \in 1 .. Len(q) /\ q[1].destination = c
  OBVIOUS
<1>2. \E j \in DOMAIN To(c, q) : To(c, q)[j] = q[1]
  BY <1>1, ToFinds
<1> QED
  BY <1>2

\* Without final messages nothing is under way when everything is consumed.
LEMMA AllEmpty ==
  ASSUME Types, Lines, Lossless, \A c \in Pair : consumed[c] = Goal /\ ~Finished(c)
  PROVE  /\ p2tq = <<>> /\ tBlock = <<>> /\ rBlock = <<>> /\ FlattenSeq(t2rq) = <<>>
         /\ \A c \in Pair : r2cq[c] = <<>>
<1>1. Parted
  BY Parts
<1>2. \A c \in Pair : InFlight(c) = <<>>
  <2> SUFFICES ASSUME NEW c \in Pair
               PROVE  InFlight(c) = <<>>
    OBVIOUS
  <2> DEFINE line == InFlight(c)
             made == produced[c]
             taken == consumed[c]
  <2>1. produced \in [Pair -> 0 .. Goal] /\ Goal \in Nat
    BY PipelineAssumption DEF Types, PipelineTypeOK
  <2>2. line \in Seq(Message) /\ made \in Nat /\ taken \in Nat /\ made <= taken
    BY <1>1, <2>1 DEF Parted
  <2>3. Lossless = TRUE /\ Finished(c) = FALSE
    BY DEF Lossless, Finished
  <2>4. GoodLine(line, made, taken, FALSE, TRUE)
    BY <2>3 DEF Lines
  <2> HIDE DEF line, made, taken
  <2>5. taken <= made /\ (taken = made => line = <<>>)
    BY <2>2, <2>4, LineHolds
  <2> QED
    BY <2>2, <2>5 DEF line
<1>3. Upstream = <<>>
  <2>1. \A x : ~Inside(x, Upstream)
    BY <1>2, InItsLine DEF Inside
  <2>2. Upstream \in Seq(Message)
    BY <1>1 DEF Parted
  <2> QED
    BY <2>1, <2>2, InsideHead
<1>4. Held = <<>> /\ p2tq = <<>>
  BY <1>1, <1>3, CatEmpty DEF Parted
<1>5. /\ rBlock \in Seq(Message) /\ FlattenSeq(t2rq) \in Seq(Message) /\ tBlock \in Seq(Message)
      /\ Cat(Cat(rBlock, FlattenSeq(t2rq)), tBlock) = <<>>
      /\ Cat(rBlock, FlattenSeq(t2rq)) \in Seq(Message)
  BY <1>1, <1>4, CatIsSeq DEF Parted
<1>6. tBlock = <<>> /\ Cat(rBlock, FlattenSeq(t2rq)) = <<>>
  BY <1>5, CatEmpty
<1>7. rBlock = <<>> /\ FlattenSeq(t2rq) = <<>>
  BY <1>5, <1>6, CatEmpty
<1>8. ASSUME NEW c \in Pair
      PROVE  r2cq[c] = <<>>
  <2>1. /\ r2cq[c] \in Seq(Message) /\ To(c, r2cq[c]) \in Seq(Message)
        /\ To(c, Upstream) \in Seq(Message)
        /\ Cat(To(c, r2cq[c]), To(c, Upstream)) = <<>>
    BY <1>1, <1>2 DEF Parted
  <2>2. To(c, r2cq[c]) = <<>>
    BY <2>1, CatEmpty
  <2>3. \A i \in DOMAIN r2cq[c] : r2cq[c][i].destination = c
    BY DEF Lines
  <2> QED
    BY <2>1, <2>2, <2>3, NoneIsEmpty
<1> QED
  BY <1>4, <1>6, <1>7, <1>8

-----------------------------------------------------------------------------
(* The steps of ThreeStageCancel.c.  Its messages are never final. *)

InTheCancel ==
  /\ program = "ThreeStageCancel"
  /\ UNCHANGED <<program, npc, countVars, late, retryVars>>

\* What does not change, and what holds of the endless program.
CancelFrame ==
  /\ npc' = npc /\ program' = program /\ program = "ThreeStageCancel" /\ Lossless
  /\ running' = running /\ tLeft' = tLeft /\ rLeft' = rLeft /\ late' = late
  /\ AllProduced' = AllProduced /\ Retries' = Retries
  /\ Pair' = Pair /\ Message' = Message /\ Lossless' = Lossless
  /\ Timed!Thread' = Timed!Thread /\ Pthreads!Getter' = Pthreads!Getter
  /\ \A p \in Pair : ~Finished(p) /\ Finished(p)' = Finished(p)

LEMMA InTheCancelFrame == IInv /\ InTheCancel => CancelFrame
<1> SUFFICES ASSUME IInv, InTheCancel
             PROVE  CancelFrame
  OBVIOUS
<1>1. /\ npc' = npc /\ program' = program /\ program = "ThreeStageCancel" /\ Lossless
      /\ running' = running /\ tLeft' = tLeft /\ rLeft' = rLeft /\ late' = late
      /\ AllProduced' = AllProduced /\ Retries' = Retries
      /\ Pair' = Pair /\ Message' = Message /\ Lossless' = Lossless
      /\ Timed!Thread' = Timed!Thread /\ Pthreads!Getter' = Pthreads!Getter
  BY Framed DEF InTheCancel, countVars, retryVars, Lossless
<1>2. running = {"producer", "consumer"} \X Pair
  BY <1>1 DEF IInv, Ends
<1>3. \A p \in Pair : ~Finished(p) /\ Finished(p)' = Finished(p)
  BY <1>1, <1>2 DEF Finished
<1> QED
  BY <1>1, <1>3 DEF CancelFrame

\* The next message of a producer of an endless program.
LEMMA NextMessage ==
  ASSUME NEW p \in Pair, NEW k \in Int
  PROVE  \E m \in Message : /\ m = [destination |-> p, sequence |-> k]
                            /\ m.destination = p /\ m.sequence = k
<1> DEFINE m == [destination |-> p, sequence |-> k]
<1>1. m \in Message /\ m.destination = p /\ m.sequence = k
  BY DEF Message
<1> QED
  BY <1>1

LEMMA CancelProducerKeeps ==
  \A p \in Pair : IInv /\ InTheCancel /\ Cancel!Producer(p) => IInv'
<1>0. SUFFICES ASSUME NEW p \in Pair, IInv, InTheCancel, Cancel!Producer(p)
               PROVE  IInv'
  OBVIOUS
<1>1. Types /\ Places /\ Ends /\ Flows /\ CancelFrame
  BY <1>0, InTheCancelFrame DEF IInv, Flows
<1>2. /\ produced[p] < Goal /\ Len(p2tq) < P2T_QLEN - 1
      /\ p2tq' = Append(p2tq, [destination |-> p, sequence |-> produced[p]])
      /\ produced' = [produced EXCEPT ![p] = @ + 1]
      /\ UNCHANGED <<t2rq, r2cq, consumed, tpc, tBlock, rpc, rBlock, boss, ShutDown,
                     apc, shutDownGet, ShutDownPut>>
  BY <1>0 DEF Cancel!Producer, Cancel!tVars, Cancel!rVars, Cancel!bossVars, Cancel!cancelVars,
              Cancel!Room
<1>3. /\ produced \in [Pair -> 0 .. Goal] /\ p2tq \in Seq(Message) /\ Goal \in Nat /\ P2T_QLEN \in Nat
      /\ produced[p] \in Int
  <2>1. produced \in [Pair -> 0 .. Goal] /\ p2tq \in Seq(Message)
    BY <1>1 DEF Types, PipelineTypeOK
  <2> QED
    BY <1>0, <2>1, PipelineAssumption
<1>4. PICK m \in Message : p2tq' = Append(p2tq, m) /\ m.destination = p /\ m.sequence = produced[p]
  BY <1>0, <1>2, <1>3, NextMessage
<1>5. Types'
  <2>1. p2tq' \in Seq(Message) /\ Len(p2tq') < P2T_QLEN
    BY <1>2, <1>3, <1>4
  <2>2. produced' \in [Pair -> 0 .. Goal]
    BY <1>0, <1>2, <1>3
  <2> QED
    BY <1>1, <1>2, <2>1, <2>2, SMTT(60) DEF Types, PipelineTypeOK, CancelFrame
<1>6. Places'
  BY <1>1, <1>2 DEF Places, CancelFrame, Timed!theReceiver, Pthreads!theReceiver,
                    Pthreads!theTransmitter
<1>7. Steps
  BY <1>1, <1>5 DEF Steps, CancelFrame
<1>8. Ends'
  BY <1>1, <1>2 DEF Ends, CancelFrame
<1>9. Held' = Held
  BY <1>2 DEF Held
<1>10. Flows'
  BY <1>0, <1>1, <1>2, <1>4, <1>7, <1>9, FlowsIn DEF CancelFrame
<1> QED
  BY <1>1, <1>5, <1>6, <1>8, <1>10 DEF IInv, Flows

LEMMA CancelConsumerKeeps ==
  \A c \in Pair : IInv /\ InTheCancel /\ Cancel!Consumer(c) => IInv'
<1>0. SUFFICES ASSUME NEW c \in Pair, IInv, InTheCancel, Cancel!Consumer(c)
               PROVE  IInv'
  OBVIOUS
<1>1. Types /\ Places /\ Ends /\ Lines /\ Flows /\ CancelFrame
  BY <1>0, InTheCancelFrame DEF IInv, Flows
<1>2. /\ consumed[c] < Goal /\ r2cq[c] # <<>>
      /\ r2cq' = [r2cq EXCEPT ![c] = Tail(@)]
      /\ consumed' = [consumed EXCEPT ![c] = @ + 1]
      /\ UNCHANGED <<p2tq, t2rq, produced, tpc, tBlock, rpc, rBlock, boss, ShutDown,
                     apc, shutDownGet, ShutDownPut>>
  BY <1>0 DEF Cancel!Consumer, Cancel!tVars, Cancel!rVars, Cancel!bossVars, Cancel!cancelVars
<1>3. /\ r2cq \in [Pair -> Seq(Message)] /\ consumed \in [Pair -> 0 .. Goal] /\ Goal \in Nat
      /\ R2C_QLEN \in Nat /\ \A d \in Pair : Len(r2cq[d]) < R2C_QLEN
  BY <1>1, PipelineAssumption DEF Types, PipelineTypeOK
<1>4. Types'
  <2>1. /\ r2cq' \in [Pair -> Seq(Message)]
        /\ \A d \in Pair : r2cq'[d] \in Seq(Message) /\ Len(r2cq'[d]) < R2C_QLEN
    <3>1. Tail(r2cq[c]) \in Seq(Message) /\ Len(Tail(r2cq[c])) < R2C_QLEN
      BY <1>0, <1>2, <1>3
    <3> QED
      BY <1>0, <1>2, <1>3, <3>1
  <2>2. consumed' \in [Pair -> 0 .. Goal]
    BY <1>0, <1>2, <1>3
  <2> QED
    BY <1>1, <1>2, <2>1, <2>2, SMTT(60) DEF Types, PipelineTypeOK, CancelFrame
<1>5. Places'
  BY <1>1, <1>2 DEF Places, CancelFrame, Timed!theReceiver, Pthreads!theReceiver,
                    Pthreads!theTransmitter
<1>6. Steps
  BY <1>1, <1>4 DEF Steps, CancelFrame
<1>7. Ends'
  <2>1. ~ShutDown
    BY <1>0, <1>1, <1>2, <1>3 DEF Ends, CancelFrame
  <2> QED
    BY <1>1, <1>2, <2>1 DEF Ends, CancelFrame
<1>8. ~IsLast(Head(r2cq[c]))
  BY <1>0, <1>1, <1>2, FirstIsOrdinary DEF CancelFrame
<1>9. Upstream' = Upstream
  BY <1>2 DEF Held, Upstream
<1>10. Flows'
  BY <1>0, <1>1, <1>2, <1>6, <1>8, <1>9, FlowsOut DEF CancelFrame
<1> QED
  BY <1>1, <1>4, <1>5, <1>7, <1>10 DEF IInv, Flows

(***************************************************************************)
(* The steps that move no message: those of main, the tests of the loops,  *)
(* the waits and the cancellations.                                        *)
(***************************************************************************)
CancelQuiet ==
  \/ Cancel!TransmitterLoop \/ Cancel!TransmitterWakes \/ Cancel!TransmitterCancelled
  \/ Cancel!ReceiverLoop \/ Cancel!ReceiverWakes \/ Cancel!ReceiverCancelled
  \/ Cancel!Boss

LEMMA CancelQuietKeeps == IInv /\ InTheCancel /\ CancelQuiet => IInv'
<1>0. SUFFICES ASSUME IInv, InTheCancel, CancelQuiet
               PROVE  IInv'
  OBVIOUS
<1>1. Types /\ Places /\ Ends /\ Flows /\ CancelFrame
  BY <1>0, InTheCancelFrame DEF IInv, Flows
<1> DEFINE Cancelling(b, a, g, p) == b \in {"cancel", "cancelReceiver"} \/ a # {} \/ g \/ p
<1>2. Cancelling(boss, apc, shutDownGet, ShutDownPut) => ShutDown
  BY <1>1 DEF Ends, CancelFrame
<1>3. /\ shutDownGet \in BOOLEAN /\ ShutDownPut \in BOOLEAN /\ ShutDown \in BOOLEAN
      /\ apc \subseteq {"transmitter", "receiver"} /\ TBLOCK_SIZE \in Nat \ {0}
      /\ tpc = "loop" => tBlock = <<>> /\ Len(tBlock) < TBLOCK_SIZE
      /\ tpc = "getting" => Len(tBlock) < TBLOCK_SIZE
      /\ rpc \in {"loop", "getting"} => rBlock = <<>>
  <2>1. TBLOCK_SIZE \in Nat \ {0}
    BY PipelineAssumption
  <2>2. tpc = "loop" => tBlock = <<>>
    BY <1>1 DEF Places
  <2>3. tpc = "loop" => Len(tBlock) < TBLOCK_SIZE
    BY <2>1, <2>2
  <2> QED
    BY <1>1, <2>1, <2>2, <2>3 DEF Types, PipelineTypeOK, Places
<1>4. /\ UNCHANGED <<p2tq, t2rq, r2cq, produced, consumed, tBlock, rBlock>>
      /\ \/ tpc' = tpc
         \/ tpc' \in {"done", "send"}
         \/ tpc' = "pack" /\ Len(tBlock) < TBLOCK_SIZE
      /\ \/ rpc' = rpc
         \/ rpc' \in {"done", "get"} /\ rBlock = <<>>
      /\ boss' = boss \/ boss' \in {"consumers", "cancel", "cancelReceiver", "stages", "done"}
      /\ apc' \subseteq {"transmitter", "receiver"}
      /\ shutDownGet' \in BOOLEAN /\ ShutDownPut' \in BOOLEAN
      /\ \/ ShutDown' = ShutDown
         \/ ShutDown' = TRUE /\ \A c \in Pair : consumed[c] = Goal
      /\ Cancelling(boss', apc', shutDownGet', ShutDownPut') => ShutDown'
  <2>1. CASE Cancel!TransmitterLoop
    BY <1>2, <1>3, <2>1
       DEF Cancel!TransmitterLoop, Cancel!queues, Cancel!workVars, Cancel!rVars, Cancel!bossVars,
           Cancel!cancelVars
  <2>2. CASE Cancel!TransmitterWakes
    BY <1>2, <1>3, <2>2
       DEF Cancel!TransmitterWakes, Cancel!queues, Cancel!workVars, Cancel!rVars, Cancel!bossVars,
           Cancel!cancelVars
  <2>3. CASE Cancel!TransmitterCancelled
    BY <1>2, <1>3, <2>3
       DEF Cancel!TransmitterCancelled, Cancel!queues, Cancel!workVars, Cancel!rVars, Cancel!bossVars
  <2>4. CASE Cancel!ReceiverLoop
    BY <1>2, <1>3, <2>4
       DEF Cancel!ReceiverLoop, Cancel!queues, Cancel!workVars, Cancel!tVars, Cancel!bossVars,
           Cancel!cancelVars
  <2>5. CASE Cancel!ReceiverWakes
    BY <1>2, <1>3, <2>5
       DEF Cancel!ReceiverWakes, Cancel!queues, Cancel!workVars, Cancel!tVars, Cancel!bossVars,
           Cancel!cancelVars
  <2>6. CASE Cancel!ReceiverCancelled
    BY <1>2, <1>3, <2>6
       DEF Cancel!ReceiverCancelled, Cancel!queues, Cancel!workVars, Cancel!tVars, Cancel!bossVars
  <2>7. CASE Cancel!Boss
    <3>1. CASE Cancel!BossProducers
      BY <1>2, <1>3, <3>1
         DEF Cancel!BossProducers, Cancel!queues, Cancel!workVars, Cancel!tVars, Cancel!rVars,
             Cancel!cancelVars
    <3>2. CASE Cancel!BossConsumers
      BY <1>2, <1>3, <3>2
         DEF Cancel!BossConsumers, Cancel!queues, Cancel!workVars, Cancel!tVars, Cancel!rVars,
             Cancel!cancelVars, Cancel!Pair, Pair
    <3>3. CASE Cancel!BossCancelsTransmitter
      BY <1>2, <1>3, <3>3
         DEF Cancel!BossCancelsTransmitter, Cancel!queues, Cancel!workVars, Cancel!tVars,
             Cancel!rVars
    <3>4. CASE Cancel!BossCancelsReceiver
      BY <1>2, <1>3, <3>4
         DEF Cancel!BossCancelsReceiver, Cancel!queues, Cancel!workVars, Cancel!tVars, Cancel!rVars
    <3>5. CASE Cancel!BossStages
      BY <1>2, <1>3, <3>5
         DEF Cancel!BossStages, Cancel!queues, Cancel!workVars, Cancel!tVars, Cancel!rVars,
             Cancel!cancelVars
    <3> QED
      BY <2>7, <3>1, <3>2, <3>3, <3>4, <3>5 DEF Cancel!Boss
  <2> QED
    BY <1>0, <2>1, <2>2, <2>3, <2>4, <2>5, <2>6, <2>7 DEF CancelQuiet
<1>5. Types'
  <2>1. ShutDown' \in BOOLEAN
    BY <1>3, <1>4
  <2>2. tpc' \in {"loop", "pack", "getting", "send", "done"}
    BY <1>1, <1>4 DEF Types, PipelineTypeOK
  <2>3. rpc' \in {"loop", "get", "getting", "distribute", "done"}
    BY <1>1, <1>4 DEF Types, PipelineTypeOK
  <2>4. boss' \in {"producers", "consumers", "cancel", "cancelReceiver", "stages", "done"}
    BY <1>1, <1>4 DEF Types, PipelineTypeOK
  <2>5. /\ UNCHANGED <<p2tq, t2rq, r2cq, produced, consumed, tBlock, rBlock>>
        /\ apc' \subseteq {"transmitter", "receiver"}
        /\ shutDownGet' \in BOOLEAN /\ ShutDownPut' \in BOOLEAN
    BY <1>4
  <2> QED
    BY <1>1, <2>1, <2>2, <2>3, <2>4, <2>5, SMTT(60) DEF Types, PipelineTypeOK, CancelFrame
<1>6. Places'
  <2>1. /\ UNCHANGED <<p2tq, t2rq, r2cq, produced, consumed, tBlock, rBlock>>
        /\ \/ tpc' = tpc
           \/ tpc' \in {"done", "send"}
           \/ tpc' = "pack" /\ Len(tBlock) < TBLOCK_SIZE
        /\ \/ rpc' = rpc
           \/ rpc' \in {"done", "get"} /\ rBlock = <<>>
    BY <1>4
  <2> QED
    BY <1>1, <2>1 DEF Places, CancelFrame, Timed!theReceiver, Pthreads!theReceiver,
                      Pthreads!theTransmitter
<1>7. Steps
  BY <1>1, <1>5 DEF Steps, CancelFrame
<1>8. Ends'
  <2>1. ShutDown' => \A c \in Pair : consumed[c] = Goal
    BY <1>1, <1>4 DEF Ends, CancelFrame
  <2> QED
    BY <1>1, <1>4, <2>1 DEF Ends, CancelFrame
<1>9. Flows'
  BY <1>1, <1>4, <1>7, StageWaits, FlowsOn DEF CancelFrame
<1> QED
  BY <1>1, <1>5, <1>6, <1>8, <1>9 DEF IInv, Flows

LEMMA CancelPackKeeps == IInv /\ InTheCancel /\ Cancel!TransmitterPack => IInv'
<1>0. SUFFICES ASSUME IInv, InTheCancel, Cancel!TransmitterPack
               PROVE  IInv'
  OBVIOUS
<1>1. Types /\ Places /\ Ends /\ Lines /\ Flows /\ CancelFrame
  BY <1>0, InTheCancelFrame DEF IInv, Flows
<1>2. /\ tpc = "pack"
      /\ \/ /\ tpc' \in {"send", "getting"} /\ p2tq' = p2tq /\ tBlock' = tBlock
         \/ /\ p2tq # <<>> /\ p2tq' = Tail(p2tq) /\ tBlock' = Append(tBlock, Head(p2tq))
            /\ \/ tpc' = "send"
               \/ tpc' = "pack" /\ Len(tBlock') # TBLOCK_SIZE
      /\ UNCHANGED <<t2rq, r2cq, produced, consumed, rpc, rBlock, boss, ShutDown,
                     apc, shutDownGet, ShutDownPut>>
  BY <1>0 DEF Cancel!TransmitterPack, Cancel!workVars, Cancel!rVars, Cancel!bossVars,
              Cancel!cancelVars
<1>3. /\ p2tq \in Seq(Message) /\ tBlock \in Seq(Message) /\ Len(p2tq) < P2T_QLEN
      /\ Len(tBlock) < TBLOCK_SIZE /\ TBLOCK_SIZE \in Nat /\ P2T_QLEN \in Nat
  BY <1>1, <1>2, PipelineAssumption DEF Types, PipelineTypeOK, Places, CancelFrame
<1>4. /\ p2tq' \in Seq(Message) /\ Len(p2tq') < P2T_QLEN
      /\ tBlock' \in Seq(Message) /\ Len(tBlock') <= TBLOCK_SIZE
      /\ tpc' \in {"pack", "getting"} => Len(tBlock') < TBLOCK_SIZE
  <2>1. p2tq # <<>> => /\ Head(p2tq) \in Message /\ Tail(p2tq) \in Seq(Message)
                       /\ Len(Tail(p2tq)) < P2T_QLEN
    BY <1>3
  <2>2. p2tq # <<>> => /\ Append(tBlock, Head(p2tq)) \in Seq(Message)
                       /\ Len(Append(tBlock, Head(p2tq))) = Len(tBlock) + 1
    BY <1>3, <2>1
  <2>3. Len(tBlock) \in Nat
    BY <1>3
  <2>4. CASE p2tq' = p2tq /\ tBlock' = tBlock
    BY <1>3, <2>3, <2>4
  <2>5. CASE /\ p2tq # <<>> /\ p2tq' = Tail(p2tq) /\ tBlock' = Append(tBlock, Head(p2tq))
             /\ \/ tpc' = "send"
                \/ tpc' = "pack" /\ Len(tBlock') # TBLOCK_SIZE
    <3>1. /\ p2tq' \in Seq(Message) /\ Len(p2tq') < P2T_QLEN
          /\ tBlock' \in Seq(Message) /\ Len(tBlock') = Len(tBlock) + 1
      BY <2>1, <2>2, <2>5
    <3> QED
      BY <1>3, <2>3, <2>5, <3>1
  <2> QED
    BY <1>2, <2>4, <2>5
<1>5. Types'
  BY <1>1, <1>2, <1>4, SMTT(60) DEF Types, PipelineTypeOK, CancelFrame
<1>6. Places'
  BY <1>1, <1>2, <1>4
     DEF Places, CancelFrame, Timed!theReceiver, Pthreads!theReceiver, Pthreads!theTransmitter
<1>7. Steps
  BY <1>1, <1>5 DEF Steps, CancelFrame
<1>8. Ends'
  BY <1>1, <1>2 DEF Ends, CancelFrame
<1>9. Flows'
  <2>1. CASE p2tq' = p2tq /\ tBlock' = tBlock
    BY <1>1, <1>2, <1>7, <2>1, StageWaits, FlowsOn DEF CancelFrame
  <2>2. CASE p2tq # <<>> /\ p2tq' = Tail(p2tq) /\ tBlock' = Append(tBlock, Head(p2tq))
    <3>1. Upstream' = Upstream
      BY <1>2, <1>7, <2>2, TransmitterTakes
    <3>2. Inside(Head(p2tq), Upstream)
      BY <1>1, <1>3, <2>2, InsideHead, InsideUpstream
    <3>3. ~IsLast(Head(p2tq))
      BY <1>1, <3>2, FinalsComeLast, InItsLine DEF CancelFrame
    <3> QED
      BY <1>1, <1>2, <1>7, <2>2, <3>1, <3>3, FlowsToTransmitter DEF CancelFrame
  <2> QED
    BY <1>2, <2>1, <2>2
<1> QED
  BY <1>1, <1>5, <1>6, <1>8, <1>9 DEF IInv, Flows

\* After the receiver's cancellation there is nothing to send, so that the
\* block that is dropped is empty.
LEMMA CancelSendKeeps == IInv /\ InTheCancel /\ Cancel!TransmitterSend => IInv'
<1>0. SUFFICES ASSUME IInv, InTheCancel, Cancel!TransmitterSend
               PROVE  IInv'
  OBVIOUS
<1>1. Types /\ Places /\ Ends /\ Lines /\ Flows /\ CancelFrame
  BY <1>0, InTheCancelFrame DEF IInv, Flows
<1>2. /\ tBlock' = <<>> /\ tpc' \in {"done", "loop"}
      /\ \/ ShutDownPut /\ t2rq' = t2rq
         \/ Len(t2rq) < T2R_QLEN - 1 /\ t2rq' = Append(t2rq, tBlock)
      /\ UNCHANGED <<p2tq, r2cq, produced, consumed, rpc, rBlock, boss, ShutDown,
                     apc, shutDownGet, ShutDownPut>>
  BY <1>0 DEF Cancel!TransmitterSend, Cancel!workVars, Cancel!rVars, Cancel!bossVars,
              Cancel!cancelVars, Cancel!Room
<1>3. /\ t2rq \in Seq(Seq(Message)) /\ tBlock \in Seq(Message) /\ T2R_QLEN \in Nat
      /\ TBLOCK_SIZE \in Nat /\ Len(t2rq) < T2R_QLEN
  BY <1>1, PipelineAssumption DEF Types, PipelineTypeOK
<1>4. t2rq' \in Seq(Seq(Message)) /\ Len(t2rq') < T2R_QLEN
  <2>1. CASE t2rq' = t2rq
    BY <1>3, <2>1
  <2>2. CASE Len(t2rq) < T2R_QLEN - 1 /\ t2rq' = Append(t2rq, tBlock)
    <3>1. t2rq' \in Seq(Seq(Message)) /\ Len(t2rq') = Len(t2rq) + 1 /\ Len(t2rq) \in Nat
      BY <1>3, <2>2
    <3> QED
      BY <1>3, <2>2, <3>1
  <2> QED
    BY <1>2, <2>1, <2>2
<1>5. tBlock' \in Seq(Message) /\ Len(tBlock') <= TBLOCK_SIZE
  BY <1>2, <1>3
<1>6. Types'
  BY <1>1, <1>2, <1>4, <1>5, SMTT(60) DEF Types, PipelineTypeOK, CancelFrame
<1>7. Places'
  BY <1>1, <1>2
     DEF Places, CancelFrame, Timed!theReceiver, Pthreads!theReceiver, Pthreads!theTransmitter
<1>8. Steps
  BY <1>1, <1>6 DEF Steps, CancelFrame
<1>9. Ends'
  BY <1>1, <1>2 DEF Ends, CancelFrame
<1>10. Upstream' = Upstream
  <2>1. CASE ShutDownPut /\ t2rq' = t2rq
    <3>1. \A c \in Pair : consumed[c] = Goal
      BY <1>1, <2>1 DEF Ends, CancelFrame
    <3>2. tBlock = <<>>
      BY <1>1, <3>1, AllEmpty DEF CancelFrame
    <3> QED
      BY <1>2, <1>8, <2>1, <3>2, StageWaits
  <2>2. CASE t2rq' = Append(t2rq, tBlock)
    BY <1>2, <1>8, <2>2, TransmitterSends
  <2> QED
    BY <1>2, <2>1, <2>2
<1>11. Flows'
  BY <1>1, <1>2, <1>8, <1>10, FlowsOn DEF CancelFrame
<1> QED
  BY <1>1, <1>6, <1>7, <1>9, <1>11 DEF IInv, Flows

LEMMA CancelGetKeeps == IInv /\ InTheCancel /\ Cancel!ReceiverGet => IInv'
<1>0. SUFFICES ASSUME IInv, InTheCancel, Cancel!ReceiverGet
               PROVE  IInv'
  OBVIOUS
<1>1. Types /\ Places /\ Ends /\ Lines /\ Flows /\ CancelFrame
  BY <1>0, InTheCancelFrame DEF IInv, Flows
<1>2. /\ rpc = "get"
      /\ \/ /\ rpc' \in {"done", "getting"} /\ t2rq' = t2rq /\ rBlock' = rBlock
         \/ /\ t2rq # <<>> /\ t2rq' = Tail(t2rq) /\ rBlock' = Head(t2rq)
            /\ rpc' = IF rBlock' = <<>> THEN "loop" ELSE "distribute"
      /\ UNCHANGED <<p2tq, r2cq, produced, consumed, tpc, tBlock, boss, ShutDown,
                     apc, shutDownGet, ShutDownPut>>
  BY <1>0 DEF Cancel!ReceiverGet, Cancel!workVars, Cancel!tVars, Cancel!bossVars,
              Cancel!cancelVars
<1>3. /\ t2rq \in Seq(Seq(Message)) /\ Len(t2rq) < T2R_QLEN /\ T2R_QLEN \in Nat /\ rBlock = <<>>
      /\ rBlock \in Seq(Message)
  BY <1>1, <1>2, PipelineAssumption DEF Types, PipelineTypeOK, Places
<1>4. rBlock' \in Seq(Message) /\ t2rq' \in Seq(Seq(Message)) /\ Len(t2rq') < T2R_QLEN
  <2>1. t2rq # <<>> => /\ Head(t2rq) \in Seq(Message) /\ Tail(t2rq) \in Seq(Seq(Message))
                       /\ Len(Tail(t2rq)) < T2R_QLEN
    BY <1>3
  <2> QED
    BY <1>2, <1>3, <2>1
<1>5. Types'
  BY <1>1, <1>2, <1>4, SMTT(60) DEF Types, PipelineTypeOK, CancelFrame
<1>6. Places'
  BY <1>1, <1>2, <1>3
     DEF Places, CancelFrame, Timed!theReceiver, Pthreads!theReceiver, Pthreads!theTransmitter
<1>7. Steps
  BY <1>1, <1>5 DEF Steps, CancelFrame
<1>8. Ends'
  BY <1>1, <1>2 DEF Ends, CancelFrame
<1>9. Upstream' = Upstream
  <2>1. CASE t2rq' = t2rq /\ rBlock' = rBlock
    BY <1>2, <1>7, <2>1, StageWaits
  <2>2. CASE t2rq # <<>> /\ t2rq' = Tail(t2rq) /\ rBlock' = Head(t2rq)
    BY <1>2, <1>3, <1>7, <2>2, ReceiverTakes
  <2> QED
    BY <1>2, <2>1, <2>2
<1>10. Flows'
  BY <1>1, <1>2, <1>7, <1>9, FlowsOn DEF CancelFrame
<1> QED
  BY <1>1, <1>5, <1>6, <1>8, <1>10 DEF IInv, Flows

\* The receiver has a block only while there is something to send, so that it
\* is not cancelled then.
LEMMA CancelPutKeeps == IInv /\ InTheCancel /\ Cancel!ReceiverPut => IInv'
<1>0. SUFFICES ASSUME IInv, InTheCancel, Cancel!ReceiverPut
               PROVE  IInv'
  OBVIOUS
<1>1. Types /\ Places /\ Ends /\ Lines /\ Flows /\ CancelFrame
  BY <1>0, InTheCancelFrame DEF IInv, Flows
<1>2. rpc = "distribute" /\ rBlock # <<>>
  BY <1>0, <1>1 DEF Cancel!ReceiverPut, Places, CancelFrame
<1>3. ~ShutDownPut
  <2> SUFFICES ASSUME ShutDownPut
               PROVE  FALSE
    OBVIOUS
  <2>1. \A c \in Pair : consumed[c] = Goal
    BY <1>1 DEF Ends, CancelFrame
  <2> QED
    BY <1>1, <1>2, <2>1, AllEmpty DEF CancelFrame
<1>4. \E m : /\ m = Head(rBlock) /\ Len(r2cq[m.destination]) < R2C_QLEN - 1
             /\ r2cq' = [r2cq EXCEPT ![m.destination] = Append(@, m)]
             /\ rBlock' = Tail(rBlock)
             /\ rpc' = (IF rBlock' = <<>> THEN "loop" ELSE "distribute")
             /\ UNCHANGED <<p2tq, t2rq, produced, consumed, tpc, tBlock, boss, ShutDown,
                            apc, shutDownGet, ShutDownPut>>
  BY <1>0, <1>3 DEF Cancel!ReceiverPut, Cancel!workVars, Cancel!tVars, Cancel!bossVars,
                    Cancel!cancelVars, Cancel!Room
<1>5. PICK m : /\ m = Head(rBlock) /\ Len(r2cq[m.destination]) < R2C_QLEN - 1
               /\ r2cq' = [r2cq EXCEPT ![m.destination] = Append(@, m)]
               /\ rBlock' = Tail(rBlock)
               /\ rpc' = (IF rBlock' = <<>> THEN "loop" ELSE "distribute")
               /\ UNCHANGED <<p2tq, t2rq, produced, consumed, tpc, tBlock, boss, ShutDown,
                              apc, shutDownGet, ShutDownPut>>
  BY <1>4
<1>6. /\ rBlock \in Seq(Message) /\ r2cq \in [Pair -> Seq(Message)] /\ R2C_QLEN \in Nat
      /\ \A c \in Pair : Len(r2cq[c]) < R2C_QLEN
  BY <1>1, PipelineAssumption DEF Types, PipelineTypeOK
<1>7. m \in Message /\ m.destination \in Pair /\ rBlock' \in Seq(Message)
  <2>1. m \in Message /\ rBlock' \in Seq(Message)
    BY <1>2, <1>5, <1>6, HeadAndTail
  <2> QED
    BY <2>1 DEF Message
<1>8. /\ r2cq' \in [Pair -> Seq(Message)]
      /\ \A c \in Pair : r2cq'[c] \in Seq(Message) /\ Len(r2cq'[c]) < R2C_QLEN
  <2>1. /\ Append(r2cq[m.destination], m) \in Seq(Message)
        /\ Len(Append(r2cq[m.destination], m)) < R2C_QLEN
    BY <1>5, <1>6, <1>7
  <2> QED
    BY <1>5, <1>6, <1>7, <2>1
<1>9. Types'
  BY <1>1, <1>5, <1>7, <1>8, SMTT(60) DEF Types, PipelineTypeOK, CancelFrame
<1>10. Places'
  BY <1>1, <1>5
     DEF Places, CancelFrame, Timed!theReceiver, Pthreads!theReceiver, Pthreads!theTransmitter
<1>11. Steps
  BY <1>1, <1>9 DEF Steps, CancelFrame
<1>12. Ends'
  BY <1>1, <1>5 DEF Ends, CancelFrame
<1>13. Upstream = Cat(One(m), Upstream')
  BY <1>2, <1>5, <1>11, ReceiverHands
<1>14. ~IsLast(m)
  <2>1. Inside(m, Upstream)
    BY <1>1, <1>2, <1>5, <1>6, InsideHead, InsideUpstream
  <2> QED
    BY <1>1, <2>1, FinalsComeLast, InItsLine DEF CancelFrame
<1>15. Flows'
  BY <1>1, <1>5, <1>7, <1>11, <1>13, <1>14, FlowsToConsumer DEF CancelFrame
<1> QED
  BY <1>1, <1>9, <1>10, <1>12, <1>15 DEF IInv, Flows

LEMMA CancelKeeps ==
  \A i \in Pair :
    /\ IInv /\ InTheCancel
    /\ \/ Cancel!Producer(i) \/ Cancel!Consumer(i)
       \/ Cancel!Transmitter \/ Cancel!Receiver \/ Cancel!Boss
    => IInv'
BY CancelProducerKeeps, CancelConsumerKeeps, CancelQuietKeeps, CancelPackKeeps, CancelSendKeeps,
   CancelGetKeeps, CancelPutKeeps
   DEF Cancel!Transmitter, Cancel!Receiver, CancelQuiet

-----------------------------------------------------------------------------
(* The steps of ThreeStagePthreads/ThreeStage.c: no final messages either. *)

InThePthreads ==
  /\ program = "ThreeStagePthreads"
  /\ UNCHANGED <<program, npc, countVars, late, cancelVars>>

PthreadsFrame ==
  /\ npc' = npc /\ program' = program /\ program = "ThreeStagePthreads" /\ Lossless
  /\ running' = running /\ tLeft' = tLeft /\ rLeft' = rLeft /\ late' = late
  /\ apc' = apc /\ shutDownGet' = shutDownGet /\ ShutDownPut' = ShutDownPut
  /\ Pair' = Pair /\ Message' = Message /\ Lossless' = Lossless
  /\ Timed!Thread' = Timed!Thread /\ Pthreads!Getter' = Pthreads!Getter
  /\ \A p \in Pair : ~Finished(p) /\ Finished(p)' = Finished(p)

LEMMA InThePthreadsFrame == IInv /\ InThePthreads => PthreadsFrame
<1> SUFFICES ASSUME IInv, InThePthreads
             PROVE  PthreadsFrame
  OBVIOUS
<1>1. /\ npc' = npc /\ program' = program /\ program = "ThreeStagePthreads" /\ Lossless
      /\ running' = running /\ tLeft' = tLeft /\ rLeft' = rLeft /\ late' = late
      /\ apc' = apc /\ shutDownGet' = shutDownGet /\ ShutDownPut' = ShutDownPut
      /\ Pair' = Pair /\ Message' = Message /\ Lossless' = Lossless
      /\ Timed!Thread' = Timed!Thread /\ Pthreads!Getter' = Pthreads!Getter
  BY Framed DEF InThePthreads, countVars, cancelVars, Lossless
<1>2. running = {"producer", "consumer"} \X Pair
  BY <1>1 DEF IInv, Ends
<1>3. \A p \in Pair : ~Finished(p) /\ Finished(p)' = Finished(p)
  BY <1>1, <1>2 DEF Finished
<1> QED
  BY <1>1, <1>3 DEF PthreadsFrame

\* The three kinds of threads that count their failures are different ones.
LEMMA Getters ==
  /\ Pthreads!theTransmitter \in Pthreads!Getter /\ Pthreads!theReceiver \in Pthreads!Getter
  /\ Pthreads!theTransmitter # Pthreads!theReceiver
  /\ \A c \in Pair : /\ <<"consumer", c>> \in Pthreads!Getter
                    /\ <<"consumer", c>> # Pthreads!theTransmitter
                    /\ <<"consumer", c>> # Pthreads!theReceiver
BY DEF Pthreads!Getter, Pthreads!theTransmitter, Pthreads!theReceiver, Pthreads!Pair, Pair

\* What a success and a failure of t do to the counts.
LEMMA RetriesChange ==
  ASSUME Types, NEW t \in Pthreads!Getter
  PROVE  /\ Pthreads!Succeeds(t) =>
              /\ Retries' \in [Pthreads!Getter -> 0 .. MAX_RETRY]
              /\ \A u \in Pthreads!Getter :
                   Retries[u] < MAX_RETRY => Retries'[u] < MAX_RETRY
         /\ \A q : Pthreads!TimesOut(t, q) /\ Retries[t] # MAX_RETRY =>
              /\ q = <<>>
              /\ Retries' \in [Pthreads!Getter -> 0 .. MAX_RETRY]
              /\ \A u \in Pthreads!Getter : u # t => Retries'[u] = Retries[u]
<1>1. Retries \in [Pthreads!Getter -> 0 .. MAX_RETRY] /\ MAX_RETRY \in Nat \ {0}
  BY ProgramsAssumption DEF Types
<1>2. Retries[t] # MAX_RETRY => Retries[t] + 1 \in 0 .. MAX_RETRY
  BY <1>1
<1> QED
  BY <1>1, <1>2 DEF Pthreads!Succeeds, Pthreads!TimesOut

LEMMA PthreadsProducerKeeps ==
  \A p \in Pair : IInv /\ InThePthreads /\ Pthreads!Producer(p) => IInv'
<1>0. SUFFICES ASSUME NEW p \in Pair, IInv, InThePthreads, Pthreads!Producer(p)
               PROVE  IInv'
  OBVIOUS
<1>1. Types /\ Places /\ Ends /\ Flows /\ PthreadsFrame
  BY <1>0, InThePthreadsFrame DEF IInv, Flows
<1>2. /\ produced[p] < Goal /\ Len(p2tq) < P2T_QLEN - 1
      /\ p2tq' = Append(p2tq, [destination |-> p, sequence |-> produced[p]])
      /\ produced' = [produced EXCEPT ![p] = @ + 1]
      /\ UNCHANGED <<t2rq, r2cq, consumed, tpc, tBlock, rpc, rBlock, boss, ShutDown,
                     AllProduced, Retries>>
  BY <1>0 DEF Pthreads!Producer, Pthreads!tVars, Pthreads!rVars, Pthreads!bossVars, Pthreads!retryVars,
              Pthreads!Room
<1>3. /\ produced \in [Pair -> 0 .. Goal] /\ p2tq \in Seq(Message) /\ Goal \in Nat /\ P2T_QLEN \in Nat
      /\ produced[p] \in Int
  <2>1. produced \in [Pair -> 0 .. Goal] /\ p2tq \in Seq(Message)
    BY <1>1 DEF Types, PipelineTypeOK
  <2> QED
    BY <1>0, <2>1, PipelineAssumption
<1>4. PICK m \in Message : p2tq' = Append(p2tq, m) /\ m.destination = p /\ m.sequence = produced[p]
  BY <1>0, <1>2, <1>3, NextMessage
<1>5. Types'
  <2>1. p2tq' \in Seq(Message) /\ Len(p2tq') < P2T_QLEN
    BY <1>2, <1>3, <1>4
  <2>2. produced' \in [Pair -> 0 .. Goal]
    BY <1>0, <1>2, <1>3
  <2> QED
    BY <1>1, <1>2, <2>1, <2>2, SMTT(60) DEF Types, PipelineTypeOK, PthreadsFrame
<1>6. Places'
  BY <1>1, <1>2 DEF Places, PthreadsFrame, Timed!theReceiver, Pthreads!theReceiver,
                    Pthreads!theTransmitter
<1>7. Steps
  BY <1>1, <1>5 DEF Steps, PthreadsFrame
<1>8. Ends'
  BY <1>1, <1>2 DEF Ends, PthreadsFrame
<1>9. Held' = Held
  BY <1>2 DEF Held
<1>10. Flows'
  BY <1>0, <1>1, <1>2, <1>4, <1>7, <1>9, FlowsIn DEF PthreadsFrame
<1> QED
  BY <1>1, <1>5, <1>6, <1>8, <1>10 DEF IInv, Flows

LEMMA PthreadsConsumerKeeps ==
  \A c \in Pair : IInv /\ InThePthreads /\ Pthreads!ConsumerGet(c) => IInv'
<1>0. SUFFICES ASSUME NEW c \in Pair, IInv, InThePthreads, Pthreads!ConsumerGet(c)
               PROVE  IInv'
  OBVIOUS
<1>1. Types /\ Places /\ Ends /\ Lines /\ Flows /\ PthreadsFrame
  BY <1>0, InThePthreadsFrame DEF IInv, Flows
<1>2. /\ consumed[c] # Goal /\ r2cq[c] # <<>> /\ Pthreads!Succeeds(<<"consumer", c>>)
      /\ r2cq' = [r2cq EXCEPT ![c] = Tail(@)]
      /\ consumed' = [consumed EXCEPT ![c] = @ + 1]
      /\ UNCHANGED <<p2tq, t2rq, produced, tpc, tBlock, rpc, rBlock, boss, ShutDown,
                     AllProduced>>
  BY <1>0 DEF Pthreads!ConsumerGet, Pthreads!Returned, Pthreads!tVars, Pthreads!rVars, Pthreads!bossVars
<1>3. /\ Retries' \in [Pthreads!Getter -> 0 .. MAX_RETRY]
      /\ Retries[Pthreads!theTransmitter] < MAX_RETRY =>
           Retries'[Pthreads!theTransmitter] < MAX_RETRY
      /\ Retries[Pthreads!theReceiver] < MAX_RETRY => Retries'[Pthreads!theReceiver] < MAX_RETRY
  BY <1>0, <1>1, <1>2, Getters, RetriesChange
<1>11. /\ r2cq \in [Pair -> Seq(Message)] /\ consumed \in [Pair -> 0 .. Goal] /\ Goal \in Nat
       /\ R2C_QLEN \in Nat /\ (\A d \in Pair : Len(r2cq[d]) < R2C_QLEN) /\ consumed[c] < Goal
  <2>1. /\ r2cq \in [Pair -> Seq(Message)] /\ consumed \in [Pair -> 0 .. Goal] /\ Goal \in Nat
        /\ R2C_QLEN \in Nat /\ \A d \in Pair : Len(r2cq[d]) < R2C_QLEN
    BY <1>1, PipelineAssumption DEF Types, PipelineTypeOK
  <2> QED
    BY <1>0, <1>2, <2>1
<1>4. Types'
  <2>1. /\ r2cq' \in [Pair -> Seq(Message)]
        /\ \A d \in Pair : r2cq'[d] \in Seq(Message) /\ Len(r2cq'[d]) < R2C_QLEN
    <3>1. Tail(r2cq[c]) \in Seq(Message) /\ Len(Tail(r2cq[c])) < R2C_QLEN
      BY <1>0, <1>2, <1>11
    <3> QED
      BY <1>0, <1>2, <1>11, <3>1
  <2>2. consumed' \in [Pair -> 0 .. Goal]
    BY <1>0, <1>2, <1>11
  <2> QED
    BY <1>1, <1>2, <1>3, <2>1, <2>2, SMTT(60) DEF Types, PipelineTypeOK, PthreadsFrame
<1>5. Places'
  BY <1>1, <1>2, <1>3 DEF Places, PthreadsFrame, Timed!theReceiver
<1>6. Steps
  BY <1>1, <1>4 DEF Steps, PthreadsFrame
<1>7. Ends'
  BY <1>1, <1>2 DEF Ends, PthreadsFrame
<1>8. ~IsLast(Head(r2cq[c]))
  BY <1>0, <1>1, <1>2, <1>11, FirstIsOrdinary DEF PthreadsFrame
<1>9. Upstream' = Upstream
  BY <1>2 DEF Held, Upstream
<1>10. Flows'
  BY <1>0, <1>1, <1>2, <1>6, <1>8, <1>9, FlowsOut DEF PthreadsFrame
<1> QED
  BY <1>1, <1>4, <1>5, <1>7, <1>10 DEF IInv, Flows

(***************************************************************************)
(* The steps that move no message: those of main, the tests of the loops   *)
(* and the time-outs.                                                      *)
(***************************************************************************)
PthreadsQuiet ==
  \/ \E c \in Pair : Pthreads!ConsumerTimeOut(c)
  \/ Pthreads!TransmitterLoop \/ Pthreads!TransmitterTest \/ Pthreads!TransmitterTimeOut
  \/ Pthreads!ReceiverLoop \/ Pthreads!ReceiverTimeOut
  \/ Pthreads!Boss

LEMMA PthreadsQuietKeeps == IInv /\ InThePthreads /\ PthreadsQuiet => IInv'
<1>0. SUFFICES ASSUME IInv, InThePthreads, PthreadsQuiet
               PROVE  IInv'
  OBVIOUS
<1>1. Types /\ Places /\ Ends /\ Flows /\ PthreadsFrame
  BY <1>0, InThePthreadsFrame DEF IInv, Flows
<1> DEFINE T == Pthreads!theTransmitter
           R == Pthreads!theReceiver
           G == Pthreads!Getter
<1>2. /\ AllProduced \in BOOLEAN /\ ShutDown \in BOOLEAN /\ Retries \in [G -> 0 .. MAX_RETRY]
      /\ tpc = "loop" => tBlock = <<>>
      /\ tpc = "getting" => Retries[T] < MAX_RETRY
      /\ rpc \in {"loop", "get"} => rBlock = <<>>
      /\ rpc = "get" => Retries[R] < MAX_RETRY
  BY <1>1 DEF Types, PipelineTypeOK, Places, PthreadsFrame
<1>3. T \in G /\ R \in G /\ T # R /\ MAX_RETRY \in Nat /\ Retries[R] \in Int /\ Retries[T] \in Int
  BY <1>2, Getters, ProgramsAssumption
<1>4. /\ UNCHANGED <<p2tq, t2rq, r2cq, produced, consumed, tBlock, rBlock>>
      /\ \/ tpc' = tpc
         \/ tpc' \in {"done", "send", "pack"}
         \/ tpc' = "getting" /\ Len(tBlock) < TBLOCK_SIZE /\ Retries[T] < MAX_RETRY
      /\ \/ rpc' = rpc
         \/ rpc' \in {"done", "loop"} /\ rBlock = <<>>
         \/ rpc' = "get" /\ rBlock = <<>> /\ Retries[R] < MAX_RETRY
      /\ boss' = boss \/ boss' \in {"consumers", "stages", "done"}
      /\ ShutDown' \in BOOLEAN /\ AllProduced' \in BOOLEAN
      /\ Retries' \in [G -> 0 .. MAX_RETRY]
      /\ tpc' = "getting" => Retries'[T] = Retries[T]
      /\ rpc' = "get" => Retries'[R] = Retries[R]
  <2>1. CASE \E c \in Pair : Pthreads!ConsumerTimeOut(c)
    <3>1. PICK c \in Pair : Pthreads!ConsumerTimeOut(c)
      BY <2>1
    <3>2. /\ Pthreads!TimesOut(<<"consumer", c>>, r2cq[c]) /\ Retries[<<"consumer", c>>] # MAX_RETRY
          /\ UNCHANGED <<p2tq, t2rq, r2cq, produced, consumed, tpc, tBlock, rpc, rBlock, boss,
                         ShutDown, AllProduced>>
      BY <3>1 DEF Pthreads!ConsumerTimeOut, Pthreads!Returned, Pthreads!GaveUp, Pthreads!queues,
                  Pthreads!workVars, Pthreads!tVars, Pthreads!rVars, Pthreads!bossVars
    <3>3. Retries' \in [G -> 0 .. MAX_RETRY] /\ Retries'[T] = Retries[T] /\ Retries'[R] = Retries[R]
      BY <1>1, <3>2, Getters, RetriesChange
    <3> QED
      BY <1>2, <3>2, <3>3
  <2>2. CASE Pthreads!TransmitterLoop
    BY <1>2, <2>2
       DEF Pthreads!TransmitterLoop, Pthreads!queues, Pthreads!workVars, Pthreads!rVars,
           Pthreads!bossVars, Pthreads!retryVars
  <2>3. CASE Pthreads!TransmitterTest
    BY <1>2, <2>3
       DEF Pthreads!TransmitterTest, Pthreads!queues, Pthreads!workVars, Pthreads!rVars,
           Pthreads!bossVars, Pthreads!retryVars
  <2>4. CASE Pthreads!TransmitterTimeOut
    <3>1. /\ tpc = "getting" /\ Pthreads!TimesOut(T, p2tq) /\ tpc' = "pack"
          /\ UNCHANGED <<p2tq, t2rq, r2cq, produced, consumed, tBlock, rpc, rBlock, boss,
                         ShutDown, AllProduced>>
      BY <2>4 DEF Pthreads!TransmitterTimeOut, Pthreads!queues, Pthreads!workVars, Pthreads!rVars,
                  Pthreads!bossVars
    <3>2. Retries[T] # MAX_RETRY
      BY <1>2, <1>3, <3>1
    <3>3. Retries' \in [G -> 0 .. MAX_RETRY] /\ Retries'[R] = Retries[R]
      BY <1>1, <1>3, <3>1, <3>2, RetriesChange
    <3> QED
      BY <1>2, <3>1, <3>3
  <2>5. CASE Pthreads!ReceiverLoop
    <3>1. /\ rpc = "loop" /\ rpc' \in {"done", "get"} /\ (rpc' = "get" => Retries[R] # MAX_RETRY)
          /\ UNCHANGED <<p2tq, t2rq, r2cq, produced, consumed, tpc, tBlock, rBlock, boss,
                         ShutDown, AllProduced, Retries>>
      BY <2>5 DEF Pthreads!ReceiverLoop, Pthreads!GaveUp, Pthreads!queues, Pthreads!workVars,
                  Pthreads!tVars, Pthreads!bossVars, Pthreads!retryVars
    <3>2. rpc' = "get" => Retries[R] < MAX_RETRY
      BY <1>2, <1>3, <3>1
    <3> QED
      BY <1>2, <3>1, <3>2
  <2>6. CASE Pthreads!ReceiverTimeOut
    <3>1. /\ rpc = "get" /\ Pthreads!TimesOut(R, t2rq) /\ rpc' = "loop"
          /\ UNCHANGED <<p2tq, t2rq, r2cq, produced, consumed, tpc, tBlock, rBlock, boss,
                         ShutDown, AllProduced>>
      BY <2>6 DEF Pthreads!ReceiverTimeOut, Pthreads!queues, Pthreads!workVars, Pthreads!tVars,
                  Pthreads!bossVars
    <3>2. Retries[R] # MAX_RETRY
      BY <1>2, <1>3, <3>1
    <3>3. Retries' \in [G -> 0 .. MAX_RETRY] /\ Retries'[T] = Retries[T]
      BY <1>1, <1>3, <3>1, <3>2, RetriesChange
    <3> QED
      BY <1>2, <3>1, <3>3
  <2>7. CASE Pthreads!Boss
    <3>1. /\ UNCHANGED <<p2tq, t2rq, r2cq, produced, consumed, tpc, tBlock, rpc, rBlock, Retries>>
          /\ boss' \in {"consumers", "stages", "done"}
          /\ ShutDown' \in {ShutDown, TRUE} /\ AllProduced' \in {AllProduced, TRUE}
      BY <2>7 DEF Pthreads!Boss, Pthreads!BossProducers, Pthreads!BossConsumers, Pthreads!BossStages,
                  Pthreads!queues, Pthreads!workVars, Pthreads!tVars, Pthreads!rVars,
                  Pthreads!retryVars
    <3> QED
      BY <1>2, <3>1
  <2> QED
    BY <1>0, <2>1, <2>2, <2>3, <2>4, <2>5, <2>6, <2>7 DEF PthreadsQuiet
<1>5. Types'
  <2>1. tpc' \in {"loop", "pack", "getting", "send", "done"}
    BY <1>1, <1>4 DEF Types, PipelineTypeOK
  <2>2. rpc' \in {"loop", "get", "getting", "distribute", "done"}
    BY <1>1, <1>4 DEF Types, PipelineTypeOK
  <2>3. boss' \in {"producers", "consumers", "cancel", "cancelReceiver", "stages", "done"}
    BY <1>1, <1>4 DEF Types, PipelineTypeOK
  <2>4. /\ UNCHANGED <<p2tq, t2rq, r2cq, produced, consumed, tBlock, rBlock>>
        /\ ShutDown' \in BOOLEAN /\ AllProduced' \in BOOLEAN
        /\ Retries' \in [Pthreads!Getter -> 0 .. MAX_RETRY]
    BY <1>4
  <2> QED
    BY <1>1, <2>1, <2>2, <2>3, <2>4, SMTT(60) DEF Types, PipelineTypeOK, PthreadsFrame
<1>6. Places'
  <2>1. /\ UNCHANGED <<p2tq, t2rq, r2cq, produced, consumed, tBlock, rBlock>>
        /\ \/ tpc' = tpc
           \/ tpc' \in {"done", "send", "pack"}
           \/ tpc' = "getting" /\ Len(tBlock) < TBLOCK_SIZE /\ Retries[T] < MAX_RETRY
        /\ \/ rpc' = rpc
           \/ rpc' \in {"done", "loop"} /\ rBlock = <<>>
           \/ rpc' = "get" /\ rBlock = <<>> /\ Retries[R] < MAX_RETRY
        /\ tpc' = "getting" => Retries'[T] = Retries[T]
        /\ rpc' = "get" => Retries'[R] = Retries[R]
    BY <1>4
  <2> QED
    BY <1>1, <2>1 DEF Places, PthreadsFrame, Timed!theReceiver
<1>7. Steps
  BY <1>1, <1>5 DEF Steps, PthreadsFrame
<1>8. Ends'
  BY <1>1, <1>4 DEF Ends, PthreadsFrame
<1>9. Flows'
  BY <1>1, <1>4, <1>7, StageWaits, FlowsOn DEF PthreadsFrame
<1> QED
  BY <1>1, <1>5, <1>6, <1>8, <1>9 DEF IInv, Flows

LEMMA PthreadsGetKeeps == IInv /\ InThePthreads /\ Pthreads!TransmitterGet => IInv'
<1>0. SUFFICES ASSUME IInv, InThePthreads, Pthreads!TransmitterGet
               PROVE  IInv'
  OBVIOUS
<1>1. Types /\ Places /\ Ends /\ Lines /\ Flows /\ PthreadsFrame
  BY <1>0, InThePthreadsFrame DEF IInv, Flows
<1>2. /\ tpc = "getting" /\ tpc' = "pack" /\ Pthreads!Succeeds(Pthreads!theTransmitter)
      /\ p2tq # <<>> /\ p2tq' = Tail(p2tq) /\ tBlock' = Append(tBlock, Head(p2tq))
      /\ UNCHANGED <<t2rq, r2cq, produced, consumed, rpc, rBlock, boss, ShutDown, AllProduced>>
  BY <1>0 DEF Pthreads!TransmitterGet, Pthreads!workVars, Pthreads!rVars, Pthreads!bossVars
<1>3. /\ p2tq \in Seq(Message) /\ tBlock \in Seq(Message) /\ Len(p2tq) < P2T_QLEN
      /\ Len(tBlock) < TBLOCK_SIZE /\ TBLOCK_SIZE \in Nat /\ P2T_QLEN \in Nat
  BY <1>1, <1>2, PipelineAssumption DEF Types, PipelineTypeOK, Places, PthreadsFrame
<1>4. /\ Retries' \in [Pthreads!Getter -> 0 .. MAX_RETRY]
      /\ Retries[Pthreads!theReceiver] < MAX_RETRY => Retries'[Pthreads!theReceiver] < MAX_RETRY
  BY <1>1, <1>2, Getters, RetriesChange
<1>5. /\ p2tq' \in Seq(Message) /\ Len(p2tq') < P2T_QLEN
      /\ tBlock' \in Seq(Message) /\ Len(tBlock') <= TBLOCK_SIZE
  <2>1. Head(p2tq) \in Message /\ Tail(p2tq) \in Seq(Message) /\ Len(Tail(p2tq)) < P2T_QLEN
    BY <1>2, <1>3
  <2>2. /\ Append(tBlock, Head(p2tq)) \in Seq(Message) /\ Len(tBlock) \in Nat
        /\ Len(Append(tBlock, Head(p2tq))) = Len(tBlock) + 1
    BY <1>3, <2>1
  <2> QED
    BY <1>2, <1>3, <2>1, <2>2
<1>6. Types'
  BY <1>1, <1>2, <1>4, <1>5, SMTT(60) DEF Types, PipelineTypeOK, PthreadsFrame
<1>7. Places'
  BY <1>1, <1>2, <1>4 DEF Places, PthreadsFrame, Timed!theReceiver
<1>8. Steps
  BY <1>1, <1>6 DEF Steps, PthreadsFrame
<1>9. Ends'
  BY <1>1, <1>2 DEF Ends, PthreadsFrame
<1>10. Upstream' = Upstream
  BY <1>2, <1>8, TransmitterTakes
<1>11. ~IsLast(Head(p2tq))
  <2>1. Inside(Head(p2tq), Upstream)
    BY <1>1, <1>2, <1>3, InsideHead, InsideUpstream
  <2> QED
    BY <1>1, <2>1, FinalsComeLast, InItsLine DEF PthreadsFrame
<1>12. Flows'
  BY <1>1, <1>2, <1>8, <1>10, <1>11, FlowsToTransmitter DEF PthreadsFrame
<1> QED
  BY <1>1, <1>6, <1>7, <1>9, <1>12 DEF IInv, Flows

LEMMA PthreadsSendKeeps == IInv /\ InThePthreads /\ Pthreads!TransmitterSend => IInv'
<1>0. SUFFICES ASSUME IInv, InThePthreads, Pthreads!TransmitterSend
               PROVE  IInv'
  OBVIOUS
<1>1. Types /\ Places /\ Ends /\ Flows /\ PthreadsFrame
  BY <1>0, InThePthreadsFrame DEF IInv, Flows
<1>2. /\ tBlock' = <<>> /\ tpc' = "loop"
      /\ Len(t2rq) < T2R_QLEN - 1 /\ t2rq' = Append(t2rq, tBlock)
      /\ UNCHANGED <<p2tq, r2cq, produced, consumed, rpc, rBlock, boss, ShutDown,
                     AllProduced, Retries>>
  BY <1>0 DEF Pthreads!TransmitterSend, Pthreads!workVars, Pthreads!rVars, Pthreads!bossVars,
              Pthreads!retryVars, Pthreads!Room
<1>3. /\ t2rq \in Seq(Seq(Message)) /\ tBlock \in Seq(Message) /\ T2R_QLEN \in Nat
      /\ TBLOCK_SIZE \in Nat
  BY <1>1, PipelineAssumption DEF Types, PipelineTypeOK
<1>4. t2rq' \in Seq(Seq(Message)) /\ Len(t2rq') < T2R_QLEN
  <2>1. t2rq' \in Seq(Seq(Message)) /\ Len(t2rq') = Len(t2rq) + 1 /\ Len(t2rq) \in Nat
    BY <1>2, <1>3
  <2> QED
    BY <1>2, <1>3, <2>1
<1>5. tBlock' \in Seq(Message) /\ Len(tBlock') <= TBLOCK_SIZE
  BY <1>2, <1>3
<1>6. Types'
  BY <1>1, <1>2, <1>4, <1>5, SMTT(60) DEF Types, PipelineTypeOK, PthreadsFrame
<1>7. Places'
  BY <1>1, <1>2 DEF Places, PthreadsFrame, Timed!theReceiver
<1>8. Steps
  BY <1>1, <1>6 DEF Steps, PthreadsFrame
<1>9. Ends'
  BY <1>1, <1>2 DEF Ends, PthreadsFrame
<1>10. Upstream' = Upstream
  BY <1>2, <1>8, TransmitterSends
<1>11. Flows'
  BY <1>1, <1>2, <1>8, <1>10, FlowsOn DEF PthreadsFrame
<1> QED
  BY <1>1, <1>6, <1>7, <1>9, <1>11 DEF IInv, Flows

LEMMA PthreadsReceiveKeeps == IInv /\ InThePthreads /\ Pthreads!ReceiverGet => IInv'
<1>0. SUFFICES ASSUME IInv, InThePthreads, Pthreads!ReceiverGet
               PROVE  IInv'
  OBVIOUS
<1>1. Types /\ Places /\ Ends /\ Flows /\ PthreadsFrame
  BY <1>0, InThePthreadsFrame DEF IInv, Flows
<1>2. /\ rpc = "get" /\ t2rq # <<>> /\ t2rq' = Tail(t2rq) /\ rBlock' = Head(t2rq)
      /\ rpc' = IF rBlock' = <<>> THEN "loop" ELSE "distribute"
      /\ Pthreads!Succeeds(Pthreads!theReceiver)
      /\ UNCHANGED <<p2tq, r2cq, produced, consumed, tpc, tBlock, boss, ShutDown, AllProduced>>
  BY <1>0 DEF Pthreads!ReceiverGet, Pthreads!workVars, Pthreads!tVars, Pthreads!bossVars
<1>3. /\ t2rq \in Seq(Seq(Message)) /\ Len(t2rq) < T2R_QLEN /\ T2R_QLEN \in Nat /\ rBlock = <<>>
  BY <1>1, <1>2, PipelineAssumption DEF Types, PipelineTypeOK, Places
<1>4. /\ Retries' \in [Pthreads!Getter -> 0 .. MAX_RETRY]
      /\ Retries[Pthreads!theTransmitter] < MAX_RETRY =>
           Retries'[Pthreads!theTransmitter] < MAX_RETRY
  BY <1>1, <1>2, Getters, RetriesChange
<1>5. rBlock' \in Seq(Message) /\ t2rq' \in Seq(Seq(Message)) /\ Len(t2rq') < T2R_QLEN
  BY <1>2, <1>3
<1>6. Types'
  BY <1>1, <1>2, <1>4, <1>5, SMTT(60) DEF Types, PipelineTypeOK, PthreadsFrame
<1>7. Places'
  BY <1>1, <1>2, <1>4 DEF Places, PthreadsFrame, Timed!theReceiver
<1>8. Steps
  BY <1>1, <1>6 DEF Steps, PthreadsFrame
<1>9. Ends'
  BY <1>1, <1>2 DEF Ends, PthreadsFrame
<1>10. Upstream' = Upstream
  BY <1>2, <1>3, <1>8, ReceiverTakes
<1>11. Flows'
  BY <1>1, <1>2, <1>8, <1>10, FlowsOn DEF PthreadsFrame
<1> QED
  BY <1>1, <1>6, <1>7, <1>9, <1>11 DEF IInv, Flows

LEMMA PthreadsPutKeeps == IInv /\ InThePthreads /\ Pthreads!ReceiverPut => IInv'
<1>0. SUFFICES ASSUME IInv, InThePthreads, Pthreads!ReceiverPut
               PROVE  IInv'
  OBVIOUS
<1>1. Types /\ Places /\ Ends /\ Lines /\ Flows /\ PthreadsFrame
  BY <1>0, InThePthreadsFrame DEF IInv, Flows
<1>2. rpc = "distribute" /\ rBlock # <<>>
  BY <1>0, <1>1 DEF Pthreads!ReceiverPut, Places, PthreadsFrame
<1>4. \E m : /\ m = Head(rBlock) /\ Len(r2cq[m.destination]) < R2C_QLEN - 1
             /\ r2cq' = [r2cq EXCEPT ![m.destination] = Append(@, m)]
             /\ rBlock' = Tail(rBlock)
             /\ rpc' = (IF rBlock' = <<>> THEN "loop" ELSE "distribute")
             /\ UNCHANGED <<p2tq, t2rq, produced, consumed, tpc, tBlock, boss, ShutDown,
                            AllProduced, Retries>>
  BY <1>0 DEF Pthreads!ReceiverPut, Pthreads!workVars, Pthreads!tVars, Pthreads!bossVars,
                    Pthreads!retryVars, Pthreads!Room
<1>5. PICK m : /\ m = Head(rBlock) /\ Len(r2cq[m.destination]) < R2C_QLEN - 1
               /\ r2cq' = [r2cq EXCEPT ![m.destination] = Append(@, m)]
               /\ rBlock' = Tail(rBlock)
               /\ rpc' = (IF rBlock' = <<>> THEN "loop" ELSE "distribute")
               /\ UNCHANGED <<p2tq, t2rq, produced, consumed, tpc, tBlock, boss, ShutDown,
                              AllProduced, Retries>>
  BY <1>4
<1>6. /\ rBlock \in Seq(Message) /\ r2cq \in [Pair -> Seq(Message)] /\ R2C_QLEN \in Nat
      /\ \A c \in Pair : Len(r2cq[c]) < R2C_QLEN
  BY <1>1, PipelineAssumption DEF Types, PipelineTypeOK
<1>7. m \in Message /\ m.destination \in Pair /\ rBlock' \in Seq(Message)
  <2>1. m \in Message /\ rBlock' \in Seq(Message)
    BY <1>2, <1>5, <1>6, HeadAndTail
  <2> QED
    BY <2>1 DEF Message
<1>8. /\ r2cq' \in [Pair -> Seq(Message)]
      /\ \A c \in Pair : r2cq'[c] \in Seq(Message) /\ Len(r2cq'[c]) < R2C_QLEN
  <2>1. /\ Append(r2cq[m.destination], m) \in Seq(Message)
        /\ Len(Append(r2cq[m.destination], m)) < R2C_QLEN
    BY <1>5, <1>6, <1>7
  <2> QED
    BY <1>5, <1>6, <1>7, <2>1
<1>9. Types'
  BY <1>1, <1>5, <1>7, <1>8, SMTT(60) DEF Types, PipelineTypeOK, PthreadsFrame
<1>10. Places'
  BY <1>1, <1>5
     DEF Places, PthreadsFrame, Timed!theReceiver
<1>11. Steps
  BY <1>1, <1>9 DEF Steps, PthreadsFrame
<1>12. Ends'
  BY <1>1, <1>5 DEF Ends, PthreadsFrame
<1>13. Upstream = Cat(One(m), Upstream')
  BY <1>2, <1>5, <1>11, ReceiverHands
<1>14. ~IsLast(m)
  <2>1. Inside(m, Upstream)
    BY <1>1, <1>2, <1>5, <1>6, InsideHead, InsideUpstream
  <2> QED
    BY <1>1, <2>1, FinalsComeLast, InItsLine DEF PthreadsFrame
<1>15. Flows'
  BY <1>1, <1>5, <1>7, <1>11, <1>13, <1>14, FlowsToConsumer DEF PthreadsFrame
<1> QED
  BY <1>1, <1>9, <1>10, <1>12, <1>15 DEF IInv, Flows

LEMMA PthreadsKeeps ==
  \A i \in Pair :
    /\ IInv /\ InThePthreads
    /\ \/ Pthreads!Producer(i) \/ Pthreads!Consumer(i)
       \/ Pthreads!Transmitter \/ Pthreads!Receiver \/ Pthreads!Boss
    => IInv'
BY PthreadsProducerKeeps, PthreadsConsumerKeeps, PthreadsQuietKeeps, PthreadsGetKeeps,
   PthreadsSendKeeps, PthreadsReceiveKeeps, PthreadsPutKeeps
   DEF Pthreads!Consumer, Pthreads!Transmitter, Pthreads!Receiver, PthreadsQuiet

-----------------------------------------------------------------------------
(* The invariant. *)

LEMMA ThreeStageKeeps ==
  \A i \in Pair :
    /\ IInv /\ InThreeStage
    /\ \/ Plain!Producer(i) \/ Plain!Consumer(i) \/ Plain!Transmitter
       \/ Plain!ReceiverLoop
       \/ Plain!ReceiverGet /\ (~Lossless => Timed!theReceiver \notin late)
       \/ Plain!ReceiverPut /\ rBlock # <<>>
       \/ Plain!Boss
    => IInv'
BY ProducerKeeps, ConsumerGetKeeps, ConsumerReturnKeeps, TransmitterLoopKeeps,
   TransmitterPackKeeps, TransmitterSendKeeps, ReceiverLoopKeeps, ReceiverGetKeeps,
   ReceiverPutKeeps, BossKeeps
   DEF Plain!Consumer, Plain!Transmitter

LEMMA PlainKeeps ==
  \A i \in Pair :
    /\ IInv
    /\ \/ InPlain(Plain!Producer(i)) \/ InPlain(Plain!Consumer(i))
       \/ InPlain(Plain!Transmitter) \/ InPlain(Plain!Receiver) \/ InPlain(Plain!Boss)
    => IInv'
<1>0. SUFFICES ASSUME NEW i \in Pair, IInv,
                      \/ InPlain(Plain!Producer(i)) \/ InPlain(Plain!Consumer(i))
                      \/ InPlain(Plain!Transmitter) \/ InPlain(Plain!Receiver)
                      \/ InPlain(Plain!Boss)
               PROVE  IInv'
  OBVIOUS
<1>1. /\ program = "ThreeStage" /\ InThreeStage /\ Lossless
      /\ \/ Plain!Producer(i) \/ Plain!Consumer(i) \/ Plain!Transmitter
         \/ Plain!ReceiverLoop \/ Plain!ReceiverGet \/ Plain!ReceiverPut
         \/ Plain!Boss
  BY <1>0 DEF InPlain, InThreeStage, Lossless, Plain!Receiver
<1>2. Plain!ReceiverPut => rBlock # <<>>
  BY <1>0, <1>1 DEF Plain!ReceiverPut, IInv, Places
<1> QED
  BY <1>0, <1>1, <1>2, ThreeStageKeeps

\* The calls of the other program that are in time are those of this one.
LEMMA TheSameCalls ==
  /\ \A i : /\ Timed!Producer(i) <=> Plain!Producer(i)
            /\ Timed!Consumer(i) <=> Plain!Consumer(i)
  /\ Timed!Transmitter <=> Plain!Transmitter
  /\ Timed!ReceiverLoop <=> Plain!ReceiverLoop
  /\ Timed!ReceiverGet <=> Plain!ReceiverGet
  /\ Timed!ReceiverPut <=> Plain!ReceiverPut
  /\ Timed!Boss <=> Plain!Boss
<1>1. Timed!Pair = Plain!Pair /\ \A m : Timed!IsLast(m) <=> Plain!IsLast(m)
  BY DEF Timed!Pair, Plain!Pair, Timed!IsLast, Plain!IsLast
<1>2. /\ Timed!pairVars = Plain!pairVars /\ Timed!tVars = Plain!tVars
      /\ Timed!rVars = Plain!rVars /\ Timed!bossVars = Plain!bossVars
      /\ \A q, n : Timed!Room(q, n) <=> Plain!Room(q, n)
  BY DEF Timed!pairVars, Timed!workVars, Timed!tVars, Timed!rVars, Timed!bossVars, Timed!Room,
         Plain!pairVars, Plain!workVars, Plain!tVars, Plain!rVars, Plain!bossVars, Plain!Room
<1>3. \A i : Timed!Producer(i) <=> Plain!Producer(i)
  BY DEF Timed!Producer, Plain!Producer, Timed!Room, Plain!Room, Timed!tVars, Plain!tVars,
         Timed!rVars, Plain!rVars, Timed!bossVars, Plain!bossVars
<1>4. \A i : Timed!Consumer(i) <=> Plain!Consumer(i)
  BY DEF Timed!Consumer, Plain!Consumer, Timed!ConsumerGet, Plain!ConsumerGet,
         Timed!ConsumerReturn, Plain!ConsumerReturn, Timed!IsLast, Plain!IsLast,
         Timed!tVars, Plain!tVars, Timed!rVars, Plain!rVars, Timed!bossVars, Plain!bossVars
<1>5. Timed!Transmitter <=> Plain!Transmitter
  BY DEF Timed!Transmitter, Plain!Transmitter, Timed!TransmitterLoop, Plain!TransmitterLoop,
         Timed!TransmitterPack, Plain!TransmitterPack, Timed!TransmitterSend,
         Plain!TransmitterSend, Timed!IsLast, Plain!IsLast, Timed!Room, Plain!Room,
         Timed!pairVars, Plain!pairVars, Timed!workVars, Plain!workVars,
         Timed!rVars, Plain!rVars, Timed!bossVars, Plain!bossVars
<1>6. /\ Timed!ReceiverLoop <=> Plain!ReceiverLoop
      /\ Timed!ReceiverGet <=> Plain!ReceiverGet
      /\ Timed!ReceiverPut <=> Plain!ReceiverPut
  BY DEF Timed!ReceiverLoop, Plain!ReceiverLoop, Timed!ReceiverGet, Plain!ReceiverGet,
         Timed!ReceiverPut, Plain!ReceiverPut, Timed!IsLast, Plain!IsLast, Timed!Room, Plain!Room,
         Timed!pairVars, Plain!pairVars, Timed!workVars, Plain!workVars,
         Timed!tVars, Plain!tVars, Timed!bossVars, Plain!bossVars
<1>7. Timed!Boss <=> Plain!Boss
  BY DEF Timed!Boss, Plain!Boss, Timed!BossProducers, Plain!BossProducers, Timed!BossConsumers,
         Plain!BossConsumers, Timed!BossStages, Plain!BossStages, Timed!Pair, Plain!Pair,
         Timed!pairVars, Plain!pairVars, Timed!workVars, Plain!workVars,
         Timed!tVars, Plain!tVars, Timed!rVars, Plain!rVars
<1> QED
  BY <1>3, <1>4, <1>5, <1>6, <1>7

LEMMA TimedKeeps ==
  \A i \in Pair :
    /\ IInv
    /\ \/ InTimed(Timed!TimedProducer(i)) \/ InTimed(Timed!TimedConsumer(i))
       \/ InTimed(Timed!TimedTransmitter) \/ InTimed(Timed!TimedReceiver)
       \/ InTimed(Timed!TimedBoss)
    => IInv'
<1>0. SUFFICES ASSUME NEW i \in Pair, IInv,
                      \/ InTimed(Timed!TimedProducer(i)) \/ InTimed(Timed!TimedConsumer(i))
                      \/ InTimed(Timed!TimedTransmitter) \/ InTimed(Timed!TimedReceiver)
                      \/ InTimed(Timed!TimedBoss)
               PROVE  IInv'
  OBVIOUS
<1>1. InShortWaits /\ (late' = late => InThreeStage) /\ ~Lossless
  BY <1>0 DEF InTimed, InShortWaits, InThreeStage, Lossless
<1>2. /\ <<"producer", i>> \in Timed!Thread /\ <<"consumer", i>> \in Timed!Thread
      /\ Timed!theTransmitter \in Timed!Thread /\ Timed!theReceiver \in Timed!Thread
      /\ Timed!theTransmitter # Timed!theReceiver
      /\ <<"producer", i>> # Timed!theReceiver /\ <<"consumer", i>> # Timed!theReceiver
  BY DEF Timed!Thread, Timed!Pair, Pair, Timed!theTransmitter, Timed!theReceiver
<1>3. \A mustWait : \A t \in Timed!Thread :
         /\ Timed!TimeOut(t, mustWait)
         /\ t = Timed!theReceiver /\ rpc = "distribute" => rBlock # <<>>
         => IInv'
  BY <1>0, <1>1, TimeOutKeeps
<1>4. CASE InTimed(Timed!TimedProducer(i))
  <2>1. \/ late' = late /\ Plain!Producer(i)
        \/ Timed!ProducerLate(i)
        \/ Timed!TimeOut(<<"producer", i>>, ~Timed!Room(p2tq, P2T_QLEN))
    BY <1>4, TheSameCalls DEF InTimed, Timed!TimedProducer, Timed!InTime, Timed!ProducerTimeOut
  <2> QED
    BY <1>0, <1>1, <1>2, <1>3, <2>1, ThreeStageKeeps, ProducerLateKeeps
<1>5. CASE InTimed(Timed!TimedConsumer(i))
  <2>1. \/ late' = late /\ Plain!Consumer(i)
        \/ Timed!ConsumerLate(i)
        \/ Timed!TimeOut(<<"consumer", i>>, r2cq[i] = <<>>)
    BY <1>5, TheSameCalls DEF InTimed, Timed!TimedConsumer, Timed!InTime, Timed!ConsumerTimeOut
  <2> QED
    BY <1>0, <1>1, <1>2, <1>3, <2>1, ThreeStageKeeps, ConsumerLateKeeps
<1>6. CASE InTimed(Timed!TimedTransmitter)
  <2>1. \/ late' = late /\ Plain!Transmitter
        \/ Timed!TransmitterPackLate
        \/ Timed!TransmitterSendLate
        \/ Timed!TimeOut(Timed!theTransmitter, p2tq = <<>>)
        \/ Timed!TimeOut(Timed!theTransmitter, ~Timed!Room(t2rq, T2R_QLEN))
    BY <1>6, TheSameCalls
       DEF InTimed, Timed!TimedTransmitter, Timed!InTime, Timed!TransmitterTimeOut
  <2> QED
    BY <1>0, <1>1, <1>2, <1>3, <2>1, ThreeStageKeeps, TransmitterPackLateKeeps,
       TransmitterSendLateKeeps
<1>7. CASE InTimed(Timed!TimedReceiver)
  <2>1. \/ /\ late' = late /\ Timed!theReceiver \notin late
           /\ Plain!ReceiverLoop \/ Plain!ReceiverGet \/ (rBlock # <<>> /\ Plain!ReceiverPut)
        \/ Timed!ReceiverGetLate
        \/ Timed!ReceiverPutLate
        \/ Timed!ReceiverEmptyBlock
        \/ rpc = "get" /\ Timed!TimeOut(Timed!theReceiver, t2rq = <<>>)
        \/ rBlock # <<>>
           /\ Timed!TimeOut(Timed!theReceiver,
                            ~Timed!Room(r2cq[Head(rBlock).destination], R2C_QLEN))
    BY <1>7, TheSameCalls
       DEF InTimed, Timed!TimedReceiver, Timed!InTime, Timed!ReceiverTimeOut
  <2> QED
    BY <1>0, <1>1, <1>2, <1>3, <2>1, ThreeStageKeeps, ReceiverGetLateKeeps, ReceiverPutLateKeeps,
       ReceiverEmptyBlockKeeps
<1>8. CASE InTimed(Timed!TimedBoss)
  BY <1>0, <1>1, <1>8, TheSameCalls, ThreeStageKeeps DEF InTimed, Timed!TimedBoss
<1> QED
  BY <1>0, <1>4, <1>5, <1>6, <1>7, <1>8

LEMMA IInvHolds == IInv /\ [Next]_vars => IInv'
<1>1. IInv /\ Next => IInv'
  <2>0. SUFFICES ASSUME IInv, Next
                 PROVE  IInv'
    OBVIOUS
  <2>1. 1 \in Pair
    BY <2>0 DEF IInv, Types, PipelineTypeOK, Pair
  <2>2. PICK i \in Pair : \/ Producer(i) \/ Consumer(i)
                          \/ Transmitter \/ Receiver \/ Boss
    BY <2>0, <2>1 DEF Next
  <2>3. CASE \/ InPlain(Plain!Producer(i)) \/ InPlain(Plain!Consumer(i))
             \/ InPlain(Plain!Transmitter) \/ InPlain(Plain!Receiver) \/ InPlain(Plain!Boss)
    BY <2>0, <2>3, PlainKeeps
  <2>4. CASE \/ InTimed(Timed!TimedProducer(i)) \/ InTimed(Timed!TimedConsumer(i))
             \/ InTimed(Timed!TimedTransmitter) \/ InTimed(Timed!TimedReceiver)
             \/ InTimed(Timed!TimedBoss)
    BY <2>0, <2>4, TimedKeeps
  <2>5. CASE \/ InCancel(Cancel!Producer(i)) \/ InCancel(Cancel!Consumer(i))
             \/ InCancel(Cancel!Transmitter) \/ InCancel(Cancel!Receiver)
             \/ InCancel(Cancel!Boss)
    BY <2>0, <2>5, CancelKeeps DEF InCancel, InTheCancel
  <2>6. CASE \/ InPthreads(Pthreads!Producer(i)) \/ InPthreads(Pthreads!Consumer(i))
             \/ InPthreads(Pthreads!Transmitter) \/ InPthreads(Pthreads!Receiver)
             \/ InPthreads(Pthreads!Boss)
    BY <2>0, <2>6, PthreadsKeeps DEF InPthreads, InThePthreads
  <2> QED
    BY <2>2, <2>3, <2>4, <2>5, <2>6 DEF Producer, Consumer, Transmitter, Receiver, Boss
<1>2. IInv /\ UNCHANGED vars => IInv'
  <2>0. SUFFICES ASSUME IInv, UNCHANGED vars
                 PROVE  IInv'
    OBVIOUS
  <2>1. Types /\ Places /\ Ends /\ Flows
    BY <2>0 DEF IInv, Flows
  <2>2. /\ UNCHANGED <<npc, p2tq, t2rq, r2cq, produced, consumed, tpc, tBlock, rpc, rBlock, boss,
                       ShutDown>>
        /\ UNCHANGED <<program, running, tLeft, rLeft, late, apc, shutDownGet, ShutDownPut,
                       AllProduced, Retries>>
    BY <2>0 DEF vars, pipelineVars, queues, workVars, bossVars, countVars, cancelVars, retryVars
  <2>3. /\ Pair' = Pair /\ Message' = Message /\ Lossless' = Lossless
        /\ Timed!Thread' = Timed!Thread /\ Pthreads!Getter' = Pthreads!Getter
    BY <2>2, Framed
  <2>4. Types'
    BY <2>1, <2>2, <2>3, SMTT(60) DEF Types, PipelineTypeOK
  <2>5. Places'
    BY <2>1, <2>2, <2>3
       DEF Places, Timed!theReceiver, Pthreads!theReceiver, Pthreads!theTransmitter
  <2>6. Steps /\ \A p \in Pair : Finished(p)' = Finished(p)
    BY <2>1, <2>2, <2>4 DEF Steps, Finished
  <2>7. Ends'
    BY <2>1, <2>2, <2>3, <2>6 DEF Ends
  <2>8. Flows'
    BY <2>1, <2>2, <2>6, StageWaits, FlowsOn
  <2> QED
    BY <2>1, <2>4, <2>5, <2>7, <2>8 DEF IInv, Flows
<1> QED
  BY <1>1, <1>2

LEMMA IInvBegins == Init => IInv
<1>0. SUFFICES ASSUME Init
               PROVE  IInv
  OBVIOUS
<1>1. /\ program \in Programs /\ npc \in 1 .. MaxPairs
      /\ p2tq = <<>> /\ t2rq = <<>> /\ r2cq = [c \in Pair |-> <<>>]
      /\ produced = [p \in Pair |-> 0] /\ consumed = [c \in Pair |-> 0]
      /\ tpc = "loop" /\ tBlock = <<>> /\ rpc = "loop" /\ rBlock = <<>>
      /\ boss = "producers" /\ ShutDown = FALSE
      /\ running = {"producer", "consumer"} \X Pair /\ tLeft = npc /\ rLeft = npc
      /\ late = {} /\ apc = {} /\ shutDownGet = FALSE /\ ShutDownPut = FALSE
      /\ AllProduced = FALSE /\ Retries = [t \in Pthreads!Getter |-> 0]
  BY <1>0 DEF Init, Timed!TimedInit, Timed!Init, Timed!PipelineInit, Cancel!Init, Pthreads!Init,
              Timed!Pair, Pair
<1>2. /\ npc \in Nat /\ Goal \in Nat /\ MAX_RETRY \in Nat /\ TBLOCK_SIZE \in Nat /\ TBLOCK_SIZE > 0
      /\ P2T_QLEN > 0 /\ T2R_QLEN > 0 /\ R2C_QLEN > 0
  BY <1>1, PipelineAssumption, ProgramsAssumption
<1>3. /\ <<>> \in Seq(Message) /\ <<>> \in Seq(Seq(Message)) /\ Len(<<>>) = 0
      /\ FlattenSeq(<<>>) = <<>> /\ DOMAIN <<>> = {}
  <2>1. <<>> \in Seq(Message) /\ <<>> \in Seq(Seq(Message))
    BY EmptySeq
  <2>2. Len(<<>>) = 0
    OBVIOUS
  <2>3. DOMAIN <<>> = {}
    OBVIOUS
  <2>4. FlattenSeq(<<>>) = <<>>
    BY <2>1, FlattenIsSeq
  <2> QED
    BY <2>1, <2>2, <2>3, <2>4
<1>4. Types
  <2>1. PipelineTypeOK
    <3>1. \A c \in Pair : r2cq[c] = <<>>
      BY <1>1
    <3>2. produced \in [Pair -> 0 .. Goal] /\ consumed \in [Pair -> 0 .. Goal]
      BY <1>1, <1>2
    <3>3. /\ p2tq \in Seq(Message) /\ tBlock \in Seq(Message) /\ rBlock \in Seq(Message)
          /\ t2rq \in Seq(Seq(Message)) /\ \A c \in Pair : r2cq[c] \in Seq(Message)
          /\ Len(p2tq) = 0 /\ Len(tBlock) = 0 /\ Len(t2rq) = 0
          /\ \A c \in Pair : Len(r2cq[c]) = 0
      BY <1>1, <1>3, <3>1, Zenon
    <3>4. /\ npc \in 1 .. MaxPairs /\ ShutDown \in BOOLEAN
          /\ tpc = "loop" /\ rpc = "loop" /\ boss = "producers"
      BY <1>1
    <3>5. /\ Len(p2tq) < P2T_QLEN /\ Len(t2rq) < T2R_QLEN /\ Len(tBlock) <= TBLOCK_SIZE
          /\ \A c \in Pair : Len(r2cq[c]) < R2C_QLEN
      BY <1>2, <3>3
    <3> QED
      BY <3>2, <3>3, <3>4, <3>5 DEF PipelineTypeOK
  <2>2. r2cq \in [Pair -> Seq(Message)]
    BY <1>1, <1>3
  <2>3. Retries \in [Pthreads!Getter -> 0 .. MAX_RETRY]
    BY <1>1, <1>2
  <2>4. /\ running \subseteq {"producer", "consumer"} \X Pair
        /\ late \subseteq Timed!Thread /\ apc \subseteq {"transmitter", "receiver"}
        /\ shutDownGet \in BOOLEAN /\ ShutDownPut \in BOOLEAN /\ AllProduced \in BOOLEAN
    BY <1>1
  <2>5. tLeft \in Int /\ tLeft <= npc /\ rLeft \in Int /\ rLeft <= npc
    <3>1. npc \in Nat /\ tLeft = npc /\ rLeft = npc
      BY <1>1, <1>2
    <3> QED
      BY <3>1
  <2>6. program \in Programs
    BY <1>1
  <2> QED
    BY <2>1, <2>2, <2>3, <2>4, <2>5, <2>6 DEF Types
<1>5. Places
  BY <1>1, <1>3 DEF Places
<1>6. \A p \in Pair : ~Finished(p)
  BY <1>1 DEF Finished
<1>7. Ends
  BY <1>1, <1>6 DEF Ends
<1>8. Upstream = <<>> /\ \A c \in Pair : InFlight(c) = <<>>
  <2>1. Parted
    BY <1>4, Parts
  <2>2. Cat(<<>>, <<>>) = <<>> /\ \A c : To(c, <<>>) = <<>>
    BY <1>3, CatNone, ToNone
  <2>3. Held = Cat(Cat(<<>>, <<>>), <<>>) /\ Upstream = Cat(Held, <<>>)
    BY <1>1, <1>3, <2>1 DEF Parted
  <2>4. \A c \in Pair : r2cq[c] = <<>>
    BY <1>1
  <2> QED
    BY <2>1, <2>2, <2>3, <2>4 DEF Parted
<1>9. Lines
  <2>1. Lossless \in BOOLEAN /\ \A c \in Pair : Finished(c) = FALSE
    BY <1>6 DEF Lossless, Finished
  <2>2. \A c \in Pair : produced[c] = 0 /\ consumed[c] = 0 /\ r2cq[c] = <<>>
    BY <1>1
  <2> QED
    BY <1>3, <1>8, <2>1, <2>2, LineBegins DEF Lines
<1>10. Counts
  <2>1. Awaited(<<>>) = Pair
    BY <1>6 DEF Awaited
  <2>2. Cardinality(Pair) = npc
    BY <1>2, FS_Interval DEF Pair
  <2> QED
    BY <1>1, <1>2, <1>8, <2>1, <2>2 DEF Counts
<1> QED
  BY <1>4, <1>5, <1>7, <1>9, <1>10 DEF IInv

LEMMA Invariant == Spec => []IInv
BY IInvBegins, IInvHolds, PTL DEF Spec

-----------------------------------------------------------------------------
(* What the runs check follows from the invariant. *)

(***************************************************************************)
(* Each variable of each program has its type, in the programs whose waits *)
(* are cut short too.  No stage counts more final messages than there are  *)
(* producers, nor counts one twice: numProducers does not fall below zero. *)
(***************************************************************************)
LEMMA TypesFollow == IInv => TypeOK
<1> SUFFICES ASSUME IInv
             PROVE  TypeOK
  OBVIOUS
<1>1. Types /\ Counts
  BY DEF IInv
<1>2. 0 <= tLeft /\ 0 <= rLeft
  <2>1. npc \in Nat
    BY <1>1, PipelineAssumption DEF Types, PipelineTypeOK
  <2>2. Cardinality(Awaited(p2tq)) \in Nat /\ Cardinality(Awaited(Upstream)) \in Nat
    <3>1. Awaited(p2tq) \subseteq 1 .. npc /\ Awaited(Upstream) \subseteq 1 .. npc
      BY DEF Awaited, Pair
    <3> QED
      BY <2>1, <3>1, CountOf
  <2> QED
    BY <1>1, <2>2 DEF Types, Counts
<1>3. /\ program \in Programs /\ PipelineTypeOK
      /\ running \subseteq {"producer", "consumer"} \X Pair
      /\ late \subseteq Timed!Thread /\ apc \subseteq {"transmitter", "receiver"}
      /\ Retries \in [Pthreads!Getter -> 0 .. MAX_RETRY]
      /\ {shutDownGet, ShutDownPut, AllProduced} \subseteq BOOLEAN
  BY <1>1 DEF Types
<1>4. tLeft \in 0 .. npc /\ rLeft \in 0 .. npc
  <2>1. npc \in Nat /\ tLeft \in Int /\ tLeft <= npc /\ rLeft \in Int /\ rLeft <= npc
    BY <1>1, PipelineAssumption DEF Types, PipelineTypeOK
  <2> QED
    BY <1>2, <2>1
<1> QED
  BY <1>3, <1>4 DEF TypeOK

THEOREM TypeCorrect == Spec => []TypeOK
BY Invariant, TypesFollow, PTL

Numbers(line) == [i \in DOMAIN line |-> line[i].sequence]
Coming(made, taken, finished) ==
  [i \in 1 .. made - taken |-> taken + i - 1] \o (IF finished THEN <<-1>> ELSE <<>>)

\* A line that nothing is lost of is what its consumer has coming.
LEMMA LineIsOwed ==
  ASSUME NEW M, Sequenced(M), NEW line \in Seq(M), NEW made \in Nat, NEW taken \in Nat,
         NEW finished \in BOOLEAN, GoodLine(line, made, taken, finished, TRUE)
  PROVE  Numbers(line) = Coming(made, taken, finished)
<1> DEFINE k == made - taken
           left == [i \in DOMAIN line |-> line[i].sequence]
           front == [i \in 1 .. k |-> taken + i - 1]
<1>1. /\ k \in Nat /\ Len(line) = k + (IF finished THEN 1 ELSE 0)
      /\ \A i \in 1 .. k : line[i].sequence = taken + i - 1
      /\ finished => line[k + 1].sequence = -1
      /\ DOMAIN line = 1 .. Len(line)
  BY LenProperties DEF GoodLine
<1>2. front \in Seq(Int) /\ Len(front) = k /\ \A i \in 1 .. k : front[i] = taken + i - 1
  BY <1>1, IsASeq
<1>3. Numbers(line) = left
  BY DEF Numbers
<1>4. Coming(made, taken, finished) = front \o (IF finished THEN <<-1>> ELSE <<>>)
  BY DEF Coming
<1>5. CASE ~finished
  <2>1. left = front
    BY <1>1, <1>5
  <2>2. front \o <<>> = front
    BY <1>2, ConcatEmptySeq
  <2> HIDE DEF left, front
  <2> QED
    BY <1>5, <1>3, <1>4, <2>1, <2>2
<1>6. CASE finished
  <2>1. /\ Len(line) = k + 1 /\ Len(line) \in Nat
        /\ DOMAIN left = 1 .. k + 1 /\ left[k + 1] = -1
        /\ \A i \in 1 .. k : left[i] = taken + i - 1
    BY <1>1, <1>6
  <2>2. left \in Seq(Int) /\ Len(left) = k + 1
    <3>1. \A i \in 1 .. k + 1 : left[i] \in Int
      BY <1>1, <2>1
    <3>2. left \in [1 .. k + 1 -> Int]
      BY <2>1, <3>1
    <3> HIDE DEF left, k
    <3>3. left \in Seq(Int)
      BY <1>1, <3>2, SeqDef
    <3> QED
      BY <1>1, <3>2, <3>3
  <2> DEFINE tail == <<-1>>
  <2>3. tail \in Seq(Int) /\ Len(tail) = 1 /\ tail[1] = -1
    OBVIOUS
  <2> HIDE DEF left, front, tail, k
  <2>4. /\ front \o tail \in Seq(Int) /\ Len(front \o tail) = k + 1
        /\ \A i \in 1 .. k : (front \o tail)[i] = taken + i - 1
        /\ (front \o tail)[k + 1] = -1
    <3>1. /\ front \o tail \in Seq(Int) /\ Joint(front, tail, front \o tail)
      BY <1>2, <2>3, CatIsSeq DEF Cat
    <3> QED
      BY <1>1, <1>2, <2>3, <3>1 DEF Joint
  <2>5. \A i \in 1 .. k + 1 : left[i] = (front \o tail)[i]
    <3>1. \A i \in 1 .. k + 1 : i \in 1 .. k \/ i = k + 1
      BY <1>1
    <3> QED
      BY <2>1, <2>4, <3>1
  <2>6. left = front \o tail
    BY <2>2, <2>4, <2>5, SeqEqual
  <2>7. Coming(made, taken, finished) = front \o tail
    BY <1>6, <1>4 DEF tail
  <2> QED
    BY <1>3, <2>6, <2>7
<1> QED
  BY <1>5, <1>6

LEMMA OrderFollows == IInv => EndToEndOrder
<1> SUFFICES ASSUME IInv, NEW c \in Pair
             PROVE  IF program = "ThreeStageSig_noSOAW"
                    THEN Ordered(InFlight(c))
                    ELSE [i \in DOMAIN InFlight(c) |-> InFlight(c)[i].sequence] = Owed(c)
  BY DEF EndToEndOrder
<1> DEFINE line == InFlight(c)
           made == produced[c]
           taken == consumed[c]
           finished == Finished(c)
<1>1. GoodLine(line, made, taken, finished, Lossless)
  BY DEF IInv, Lines
<1>2. CASE program = "ThreeStageSig_noSOAW"
  BY <1>1, <1>2 DEF GoodLine
<1>3. CASE program # "ThreeStageSig_noSOAW"
  <2>1. /\ Sequenced(Message) /\ line \in Seq(Message) /\ made \in Nat /\ taken \in Nat
        /\ finished \in BOOLEAN /\ Lossless = TRUE
    <3>1. Types /\ Parted
      BY Parts DEF IInv
    <3>2. produced \in [Pair -> 0 .. Goal] /\ consumed \in [Pair -> 0 .. Goal] /\ Goal \in Nat
      BY <3>1, PipelineAssumption DEF Types, PipelineTypeOK
    <3> QED
      BY <1>3, <3>1, <3>2 DEF Parted, Finished, Lossless
  <2>2. Owed(c) = Coming(made, taken, finished)
    BY DEF Owed, Coming, Finished
  <2>3. GoodLine(line, made, taken, finished, TRUE)
    BY <1>1, <2>1
  <2> HIDE DEF line, made, taken, finished
  <2>4. Numbers(line) = Owed(c)
    BY <2>1, <2>2, <2>3, LineIsOwed
  <2> QED
    BY <1>3, <2>4 DEF line, Numbers
<1> QED
  BY <1>2, <1>3

(***************************************************************************)
(* The messages of each producer reach its consumer in the order of their  *)
(* production, and but over QueueObjSig_noSOAW.c every one of them: what   *)
(* lies in the queues and blocks of the pipeline is what the consumer has  *)
(* not taken yet, whatever the number of pairs, of messages, and the sizes *)
(* of queues and blocks.                                                   *)
(***************************************************************************)
THEOREM EndToEnd == Spec => []EndToEndOrder
BY Invariant, OrderFollows, PTL

-----------------------------------------------------------------------------
(* Where the final messages are. *)

\* In front of a consumer that has taken its Goal there is at most a final message.
LEMMA OnlyFinals ==
  ASSUME Types, Lines, Lossless, NEW x, Inside(x, Upstream),
         consumed[x.destination] = Goal
  PROVE  IsLast(x) /\ Len(InFlight(x.destination)) = 1
<1> DEFINE c == x.destination
           line == InFlight(c)
           made == produced[c]
           taken == consumed[c]
           finished == Finished(c)
<1>1. c \in Pair /\ Inside(x, line)
  BY InItsLine
<1>2. /\ line \in Seq(Message) /\ made \in Nat /\ taken \in Nat /\ made <= taken
      /\ finished \in BOOLEAN
  <2>1. produced \in [Pair -> 0 .. Goal] /\ Goal \in Nat
    BY PipelineAssumption DEF Types, PipelineTypeOK
  <2> QED
    BY <1>1, <2>1, Parts DEF Parted, Finished
<1>3. GoodLine(line, made, taken, finished, TRUE)
  <2>1. Lossless = TRUE
    BY DEF Lossless
  <2> QED
    BY <1>1, <2>1 DEF Lines
<1> HIDE DEF c, made, taken, finished, line
<1>4. taken = made
  <2>1. taken <= made
    BY <1>2, <1>3, LineHolds
  <2> QED
    BY <1>2, <2>1
<1>5. line # <<>>
  BY <1>1 DEF Inside
<1>6. Len(line) = 1 /\ IsLast(line[1])
  BY <1>2, <1>3, <1>4, <1>5, LineHolds
<1>7. x = line[1]
  BY <1>1, <1>2, <1>6 DEF Inside
<1> QED
  BY <1>6, <1>7 DEF line, c

LEMMA LastOfCat ==
  \A M : \A s, t \in Seq(M) : t # <<>> => /\ Len(t) \in DOMAIN t
                                          /\ Len(Cat(s, t)) \in Nat
                                          /\ Cat(s, t)[Len(Cat(s, t))] = t[Len(t)]
<1> SUFFICES ASSUME NEW M, NEW s \in Seq(M), NEW t \in Seq(M), t # <<>>
             PROVE  /\ Len(t) \in DOMAIN t /\ Len(Cat(s, t)) \in Nat
                    /\ Cat(s, t)[Len(Cat(s, t))] = t[Len(t)]
  OBVIOUS
<1>1. /\ Joint(s, t, Cat(s, t)) /\ Len(Cat(s, t)) \in Nat
      /\ Len(t) \in 1 .. Len(t) /\ DOMAIN t = 1 .. Len(t)
  <2>1. Cat(s, t) \in Seq(M) /\ Joint(s, t, Cat(s, t))
    BY CatIsSeq
  <2>2. Len(t) \in Nat /\ Len(t) # 0 /\ DOMAIN t = 1 .. Len(t)
    BY LenProperties, EmptySeq
  <2> QED
    BY <2>1, <2>2, LenProperties
<1> QED
  BY <1>1 DEF Joint

(***************************************************************************)
(* Of whatever the pipeline holds behind some point, the final messages    *)
(* come last: where a finished producer has any message, it has its final  *)
(* one.                                                                    *)
(***************************************************************************)
LEMMA FinalBehind ==
  ASSUME Types, Lines, Lossless, NEW w \in Seq(Message), NEW s \in Seq(Message),
         Upstream = Cat(w, s), NEW x, Inside(x, s), Finished(x.destination)
  PROVE  FinalIn(x.destination, s)
<1> DEFINE c == x.destination
           line == InFlight(c)
           made == produced[c]
           taken == consumed[c]
           a == To(c, r2cq[c])
           b == To(c, w)
           t == To(c, s)
<1>1. c \in Pair
  <2>1. Inside(x, Upstream)
    BY InsideCat
  <2> QED
    BY <2>1, InItsLine
<1>2. /\ line \in Seq(Message) /\ a \in Seq(Message) /\ b \in Seq(Message) /\ t \in Seq(Message)
      /\ line = Cat(Cat(a, b), t) /\ Cat(a, b) \in Seq(Message)
  <2>1. /\ line \in Seq(Message) /\ a \in Seq(Message)
        /\ line = Cat(a, To(c, Upstream))
    BY <1>1, Parts DEF Parted
  <2>2. To(c, Upstream) = Cat(b, t) /\ b \in Seq(Message) /\ t \in Seq(Message)
    BY ToJoins
  <2> HIDE DEF line, a, b, t
  <2>3. Cat(a, Cat(b, t)) = Cat(Cat(a, b), t) /\ Cat(a, b) \in Seq(Message)
    BY <2>1, <2>2, CatAssoc, CatIsSeq
  <2> QED
    BY <2>1, <2>2, <2>3
<1>3. t # <<>>
  <2>1. PICK i \in 1 .. Len(s) : s[i] = x
    BY DEF Inside
  <2>2. \E j \in DOMAIN t : t[j] = x
    BY <2>1, ToFinds
  <2> QED
    BY <2>2
<1>4. made \in Nat /\ taken \in Nat
  <2>1. produced \in [Pair -> 0 .. Goal] /\ consumed \in [Pair -> 0 .. Goal] /\ Goal \in Nat
    BY PipelineAssumption DEF Types, PipelineTypeOK
  <2> QED
    BY <1>1, <2>1
<1>5. GoodLine(line, made, taken, TRUE, TRUE)
  <2>1. Lossless = TRUE /\ Finished(c) = TRUE
    BY DEF Lossless, Finished
  <2> QED
    BY <1>1, <2>1 DEF Lines
<1>6. FinalIn(c, s) <=> \E i \in DOMAIN t : IsLast(t[i])
  BY DEF FinalIn
<1> HIDE DEF c, line, made, taken, a, b, t
<1>7. Len(line) = made - taken + 1 /\ line[made - taken + 1].sequence = -1
  BY <1>5 DEF GoodLine
<1>8. IsLast(line[Len(line)])
  BY <1>7, LastIs
<1>9. Len(t) \in DOMAIN t /\ line[Len(line)] = t[Len(t)]
  BY <1>2, <1>3, LastOfCat
<1> QED
  BY <1>6, <1>8, <1>9 DEF c

\* With nothing left to count, nothing is left.
LEMMA NoneAwaited ==
  ASSUME Types, Lines, Lossless, NEW w \in Seq(Message), NEW s \in Seq(Message),
         Upstream = Cat(w, s), Cardinality(Awaited(s)) = 0
  PROVE  \A x : ~Inside(x, s)
<1> SUFFICES ASSUME NEW x, Inside(x, s)
             PROVE  FALSE
  OBVIOUS
<1>1. x.destination \in Pair
  <2>1. Inside(x, Upstream)
    BY InsideCat
  <2> QED
    BY <2>1, InItsLine
<1>2. Awaited(s) = {}
  <2>1. IsFiniteSet(Awaited(s))
    <3>1. npc \in Nat
      BY PipelineAssumption DEF Types, PipelineTypeOK
    <3>2. IsFiniteSet(1 .. npc)
      BY <3>1, FS_Interval
    <3>3. Awaited(s) \subseteq 1 .. npc
      BY DEF Awaited, Pair
    <3> QED
      BY <3>2, <3>3, FS_Subset
  <2> QED
    BY <2>1, FS_EmptySet
<1>3. Finished(x.destination) /\ ~FinalIn(x.destination, s)
  BY <1>1, <1>2 DEF Awaited
<1> QED
  BY <1>3, FinalBehind

LEMMA NothingBehind == IInv => NoDataLeftBehind
<1>0. SUFFICES ASSUME IInv
               PROVE  NoDataLeftBehind
  OBVIOUS
<1> DEFINE behind == rBlock \o FlattenSeq(t2rq)
<1>1. Types /\ Ends /\ Lines /\ Counts /\ Parted
  BY <1>0, Parts DEF IInv
<1>2. ASSUME program = "ThreeStage"
      PROVE  /\ tpc = "done" => \A i \in DOMAIN p2tq : IsLast(p2tq[i])
             /\ rpc = "done" => \A i \in DOMAIN behind : IsLast(behind[i])
  <2>1. Lossless
    BY <1>2 DEF Lossless
  <2>2. ASSUME ShutDown, NEW x, Inside(x, Upstream)
        PROVE  IsLast(x)
    <3>1. consumed[x.destination] = Goal
      BY <1>1, <1>2, <2>2, InItsLine DEF Ends
    <3> QED
      BY <1>1, <2>1, <2>2, <3>1, OnlyFinals
  <2>3. ASSUME tpc = "done", NEW i \in DOMAIN p2tq
        PROVE  IsLast(p2tq[i])
    <3>1. Inside(p2tq[i], p2tq) /\ Inside(p2tq[i], Upstream)
      BY <1>1, InsideUpstream DEF Inside
    <3>2. tLeft # 0
      <4> SUFFICES ASSUME tLeft = 0
                   PROVE  FALSE
        OBVIOUS
      <4>1. Cardinality(Awaited(p2tq)) = 0
        BY <1>1, <2>1 DEF Counts
      <4>2. Held \in Seq(Message) /\ p2tq \in Seq(Message) /\ Upstream = Cat(Held, p2tq)
        BY <1>1 DEF Parted
      <4> QED
        BY <1>1, <2>1, <3>1, <4>1, <4>2, NoneAwaited
    <3>3. ShutDown
      BY <1>1, <1>2, <2>3, <3>2 DEF Ends
    <3> QED
      BY <2>2, <3>1, <3>3
  <2>4. ASSUME rpc = "done", NEW i \in DOMAIN behind
        PROVE  IsLast(behind[i])
    <3> DEFINE x == behind[i]
    <3>1. Inside(x, Upstream)
      <4> DEFINE f == FlattenSeq(t2rq)
      <4>1. rBlock \in Seq(Message) /\ f \in Seq(Message) /\ behind = Cat(rBlock, f)
        BY <1>1 DEF Parted, Cat
      <4>2. Inside(x, behind)
        BY DEF Inside
      <4> HIDE DEF x, behind, f
      <4>3. Inside(x, rBlock) \/ Inside(x, f)
        BY <4>1, <4>2, InsideCat
      <4> QED
        BY <1>1, <4>3, InsideUpstream DEF f
    <3> HIDE DEF x
    <3>2. rLeft # 0
      <4> SUFFICES ASSUME rLeft = 0
                   PROVE  FALSE
        OBVIOUS
      <4>1. Cardinality(Awaited(Upstream)) = 0
        BY <1>1, <2>1 DEF Counts
      <4>2. Upstream \in Seq(Message) /\ <<>> \in Seq(Message) /\ Upstream = Cat(<<>>, Upstream)
        BY <1>1, CatNone, EmptySeq DEF Parted
      <4> QED
        BY <1>1, <2>1, <3>1, <4>1, <4>2, NoneAwaited
    <3>3. ShutDown
      BY <1>1, <1>2, <2>4, <3>2 DEF Ends
    <3>4. IsLast(x)
      BY <2>2, <3>1, <3>3
    <3> QED
      BY <3>4 DEF x
  <2> QED
    BY <2>3, <2>4
<1>3. ASSUME program = "ThreeStageCancel", ShutDown
      PROVE  /\ p2tq = <<>> /\ tBlock = <<>> /\ behind = <<>>
             /\ \A c \in Pair : r2cq[c] = <<>>
  <2>1. \A c \in Pair : consumed[c] = Goal /\ ~Finished(c)
    BY <1>1, <1>3 DEF Ends, Finished
  <2>2. /\ p2tq = <<>> /\ tBlock = <<>> /\ rBlock = <<>> /\ FlattenSeq(t2rq) = <<>>
        /\ \A c \in Pair : r2cq[c] = <<>>
    BY <1>1, <1>3, <2>1, AllEmpty DEF Lossless
  <2>3. <<>> \o <<>> = <<>>
    OBVIOUS
  <2> QED
    BY <2>2, <2>3
<1> HIDE DEF behind
<1>4. NoDataLeftBehind
  <2>1. CASE program = "ThreeStage"
    BY <1>2, <2>1 DEF NoDataLeftBehind, behind
  <2>2. CASE program = "ThreeStageCancel"
    BY <1>3, <2>2 DEF NoDataLeftBehind, behind
  <2>3. CASE program \notin {"ThreeStage", "ThreeStageCancel"}
    BY <2>3 DEF NoDataLeftBehind
  <2> QED
    BY <2>1, <2>2, <2>3
<1> QED
  BY <1>4

(***************************************************************************)
(* A stage of ThreeStage.c that has returned, by its count of final        *)
(* messages or by the flag, leaves nothing behind it but final messages;   *)
(* main of ThreeStageCancel.c cancels stages that have nothing to do.      *)
(***************************************************************************)
THEOREM NothingLeftBehind == Spec => []NoDataLeftBehind
BY Invariant, NothingBehind, PTL

LEMMA RoomFollows == IInv => FinishedConsumerHasRoom
<1>0. SUFFICES ASSUME IInv, program = "ThreeStage", NEW c \in Pair,
                      <<"consumer", c>> \notin running, NEW i \in DOMAIN rBlock,
                      rBlock[i].destination = c
               PROVE  Room(r2cq[c], R2C_QLEN)
  BY DEF FinishedConsumerHasRoom
<1>1. Types /\ Ends /\ Lines /\ Lossless /\ Parted
  BY <1>0, Parts DEF IInv, Lossless
<1> DEFINE x == rBlock[i]
           a == To(c, r2cq[c])
           b == To(c, Upstream)
<1>2. Inside(x, Upstream) /\ x.destination = c
  BY <1>0, <1>1, InsideUpstream DEF Inside
<1> HIDE DEF x
<1>3. Len(InFlight(c)) = 1
  <2>1. consumed[c] = Goal
    BY <1>0, <1>1 DEF Ends
  <2> QED
    BY <1>1, <1>2, <2>1, OnlyFinals
<1>4. /\ a \in Seq(Message) /\ b \in Seq(Message) /\ InFlight(c) = Cat(a, b)
      /\ Inside(x, b)
  BY <1>0, <1>1, <1>2, InItsLine DEF Parted
<1> HIDE DEF a, b
<1>5. a = <<>>
  <2>1. Len(a) \in Nat /\ Len(b) \in Nat /\ Len(a) + Len(b) = 1
    <3>1. Joint(a, b, Cat(a, b))
      BY <1>4, CatIsSeq
    <3>2. Len(Cat(a, b)) = Len(a) + Len(b)
      BY <3>1 DEF Joint
    <3> QED
      BY <1>3, <1>4, <3>2, LenProperties
  <2>2. b # <<>>
    BY <1>4 DEF Inside
  <2>3. Len(b) # 0
    BY <1>4, <2>2, EmptySeq
  <2>4. Len(a) = 0
    BY <2>1, <2>3
  <2> QED
    BY <1>4, <2>4, EmptySeq
<1>6. r2cq[c] = <<>>
  <2>1. r2cq[c] \in Seq(Message) /\ \A k \in DOMAIN r2cq[c] : r2cq[c][k].destination = c
    BY <1>0, <1>1 DEF Parted, Lines
  <2>2. To(c, r2cq[c]) = <<>>
    BY <1>5 DEF a
  <2> QED
    BY <2>1, <2>2, NoneIsEmpty
<1>7. Len(r2cq[c]) = 0 /\ R2C_QLEN \in Nat /\ R2C_QLEN > 1
  <2>1. R2C_QLEN \in Nat \ {0, 1}
    BY PipelineAssumption
  <2> QED
    BY <1>6, <2>1
<1> QED
  BY <1>7 DEF Room

(***************************************************************************)
(* The receiver of ThreeStage.c never waits for room in the queue of a     *)
(* consumer that has returned, which nobody would make.                    *)
(***************************************************************************)
THEOREM RoomForFinals == Spec => []FinishedConsumerHasRoom
BY Invariant, RoomFollows, PTL
=============================================================================
