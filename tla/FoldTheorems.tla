---------------------------- MODULE FoldTheorems ----------------------------
(***************************************************************************)
(* What the proofs need to know of sums, of sequences that are made step   *)
(* by step, and of remainders.  The library's principles of induction take *)
(* a predicate as a parameter; here, the predicate is the set of the       *)
(* numbers for which it holds.                                             *)
(***************************************************************************)
EXTENDS Integers, FiniteSetsExt, SequencesExt, FiniteSetTheorems, SequenceTheorems, WellFoundedInduction, TLAPS

\* A set of numbers has a least one.
LEMMA LeastElement ==
  ASSUME NEW T, T \subseteq Nat, T # {}
  PROVE  \E x \in T : \A y \in T : x <= y
<1> DEFINE R == {ss \in Nat \X Nat : ss[1] < ss[2]}
<1>1. IsWellFoundedOn(R, Nat)
  BY NatLessThanWellFounded DEF OpToRel
<1>2. \A x, y \in Nat : <<y, x>> \in R <=> y < x
  OBVIOUS
<1> HIDE DEF R
<1>3. PICK x \in T : \A y \in T : <<y, x>> \notin R
  BY <1>1, WFMin
<1>4. \A y \in T : ~(y < x)
  BY <1>2, <1>3
<1>5. \A y \in T : x <= y
  <2> TAKE y \in T
  <2>1. x \in Nat /\ y \in Nat /\ ~(y < x)
    BY <1>4
  <2> QED
    BY <2>1
<1> QED
  BY <1>5

\* Induction over the natural numbers, for the elements of a set.
LEMMA Induction ==
  ASSUME NEW T, 0 \in T, \A n \in Nat : n \in T => n + 1 \in T
  PROVE  Nat \subseteq T
<1> DEFINE Rest == Nat \ T
<1> SUFFICES ASSUME Rest # {} PROVE FALSE
  OBVIOUS
<1>1. PICK x \in Rest : \A y \in Rest : x <= y
  BY LeastElement
<1>2. x # 0 /\ x \in Nat
  OBVIOUS
<1>3. x - 1 \in Nat /\ x - 1 \notin Rest
  BY <1>1, <1>2
<1> QED
  BY <1>3

-----------------------------------------------------------------------------
(* Sums over finite sets, as FoldSet makes them. *)

AnyOf(s) == CHOOSE x \in s : TRUE

\* g has the sums of f over the sets of D, each from that without one element.
Sums(g, f, D) ==
  g = [s \in D |-> IF s = {} THEN 0 ELSE g[s \ {AnyOf(s)}] + f[AnyOf(s)]]

SumOf(f, S) == FoldSet(LAMBDA t, sum : sum + f[t], 0, S)

Smaller(S, n) == {s \in SUBSET S : Cardinality(s) <= n}

LEMMA SmallerSets ==
  ASSUME NEW S, IsFiniteSet(S)
  PROVE  /\ \A n \in Nat : \A s \in Smaller(S, n + 1) :
              s # {} => AnyOf(s) \in s /\ s \ {AnyOf(s)} \in Smaller(S, n)
         /\ Smaller(S, 0) = {{}}
         /\ \A n \in Nat : Smaller(S, n) \subseteq Smaller(S, n + 1)
         /\ Smaller(S, Cardinality(S)) = SUBSET S
         /\ Cardinality(S) \in Nat
<1>1. \A s \in SUBSET S : IsFiniteSet(s) /\ Cardinality(s) \in Nat /\ Cardinality(s) <= Cardinality(S)
  BY FS_Subset, FS_CardinalityType
<1>2. \A s \in SUBSET S : s # {} =>
        /\ AnyOf(s) \in s /\ s \ {AnyOf(s)} \in SUBSET S
        /\ Cardinality(s \ {AnyOf(s)}) = Cardinality(s) - 1
  BY <1>1, FS_RemoveElement DEF AnyOf
<1>3. \A s \in SUBSET S : Cardinality(s) = 0 <=> s = {}
  BY <1>1, FS_EmptySet
<1>4. \A n \in Nat : \A s \in Smaller(S, n + 1) :
        s # {} => AnyOf(s) \in s /\ s \ {AnyOf(s)} \in Smaller(S, n)
  BY <1>1, <1>2 DEF Smaller
<1>5. Smaller(S, 0) = {{}}
  BY <1>1, <1>3 DEF Smaller
<1>6. \A n \in Nat : Smaller(S, n) \subseteq Smaller(S, n + 1)
  BY <1>1 DEF Smaller
<1>7. Smaller(S, Cardinality(S)) = SUBSET S
  BY <1>1 DEF Smaller
<1> QED
  BY <1>1, <1>4, <1>5, <1>6, <1>7

\* There are such sums.
LEMMA SumsExist ==
  ASSUME NEW S, IsFiniteSet(S), NEW f
  PROVE  \E g : Sums(g, f, SUBSET S)
<1> DEFINE T == {n \in Nat : \E g : Sums(g, f, Smaller(S, n))}
<1>1. 0 \in T
  <2> DEFINE g == [s \in Smaller(S, 0) |-> 0]
  <2>1. g = [s \in Smaller(S, 0) |-> IF s = {} THEN 0 ELSE g[s \ {AnyOf(s)}] + f[AnyOf(s)]]
    BY SmallerSets
  <2>2. Sums(g, f, Smaller(S, 0))
    BY <2>1 DEF Sums
  <2> QED
    BY <2>2
<1>2. ASSUME NEW n \in Nat, n \in T
      PROVE  n + 1 \in T
  <2>1. PICK g : Sums(g, f, Smaller(S, n))
    BY <1>2
  <2> DEFINE D == Smaller(S, n + 1)
             h == [s \in D |-> IF s = {} THEN 0 ELSE g[s \ {AnyOf(s)}] + f[AnyOf(s)]]
  <2>2. ASSUME NEW s \in Smaller(S, n)
        PROVE  h[s] = g[s]
    <3>1. s \in D
      BY SmallerSets
    <3>2. h[s] = IF s = {} THEN 0 ELSE g[s \ {AnyOf(s)}] + f[AnyOf(s)]
      BY <3>1
    <3>3. g[s] = IF s = {} THEN 0 ELSE g[s \ {AnyOf(s)}] + f[AnyOf(s)]
      BY <2>1 DEF Sums
    <3> QED
      BY <3>2, <3>3
  <2>3. ASSUME NEW s \in D, s # {}
        PROVE  h[s \ {AnyOf(s)}] = g[s \ {AnyOf(s)}]
    BY <2>2, <2>3, SmallerSets
  <2>4. h = [s \in D |-> IF s = {} THEN 0 ELSE h[s \ {AnyOf(s)}] + f[AnyOf(s)]]
    BY <2>3
  <2>5. Sums(h, f, D)
    BY <2>4 DEF Sums
  <2> HIDE DEF h
  <2> QED
    BY <2>5
<1> HIDE DEF T
<1>3. Cardinality(S) \in T
  BY <1>1, <1>2, Induction, SmallerSets
<1>4. Smaller(S, Cardinality(S)) = SUBSET S
  BY SmallerSets
<1> QED
  BY <1>3, <1>4 DEF T

\* FoldSet gives them.
LEMMA SumIsSums ==
  ASSUME NEW S, IsFiniteSet(S), NEW f
  PROVE  \E g : Sums(g, f, SUBSET S) /\ SumOf(f, S) = g[S]
<1> DEFINE g == CHOOSE iter : Sums(iter, f, SUBSET S)
<1>1. Sums(g, f, SUBSET S)
  BY SumsExist
<1>2. SumOf(f, S) = g[S]
  BY DEF SumOf, FoldSet, MapThenFoldSet, AnyOf, Sums
<1> QED
  BY <1>1, <1>2

\* A change of f at x changes the sum by as much.
LEMMA SumChanges ==
  ASSUME NEW S, IsFiniteSet(S), NEW f, NEW h, NEW x,
         \A y \in S : f[y] \in Int /\ h[y] \in Int, \A y \in S \ {x} : h[y] = f[y]
  PROVE  /\ SumOf(h, S) = SumOf(f, S) + (IF x \in S THEN h[x] - f[x] ELSE 0)
         /\ SumOf(f, S) \in Int
<1>1. PICK g : Sums(g, f, SUBSET S) /\ SumOf(f, S) = g[S]
  BY SumIsSums
<1>2. PICK k : Sums(k, h, SUBSET S) /\ SumOf(h, S) = k[S]
  BY SumIsSums
<1> DEFINE T == {n \in Nat : \A s \in Smaller(S, n) :
                   /\ g[s] \in Int
                   /\ k[s] = g[s] + (IF x \in s THEN h[x] - f[x] ELSE 0)}
<1>3. g[{}] = 0 /\ k[{}] = 0
  BY <1>1, <1>2 DEF Sums
<1>4. 0 \in T
  <2> SUFFICES ASSUME NEW s \in Smaller(S, 0)
               PROVE  /\ g[s] \in Int
                      /\ k[s] = g[s] + (IF x \in s THEN h[x] - f[x] ELSE 0)
    OBVIOUS
  <2>1. s = {}
    BY SmallerSets
  <2> QED
    BY <1>3, <2>1
<1>5. ASSUME NEW n \in Nat, n \in T
      PROVE  n + 1 \in T
  <2> SUFFICES ASSUME NEW s \in Smaller(S, n + 1)
               PROVE  /\ g[s] \in Int
                      /\ k[s] = g[s] + (IF x \in s THEN h[x] - f[x] ELSE 0)
    OBVIOUS
  <2>0. CASE s = {}
    BY <1>3, <2>0
  <2> SUFFICES ASSUME s # {}
               PROVE  /\ g[s] \in Int
                      /\ k[s] = g[s] + (IF x \in s THEN h[x] - f[x] ELSE 0)
    BY <2>0
  <2> DEFINE r == s \ {AnyOf(s)}
  <2>1. s \in SUBSET S /\ AnyOf(s) \in s /\ r \in Smaller(S, n)
    BY SmallerSets DEF Smaller
  <2>2. g[s] = g[r] + f[AnyOf(s)] /\ k[s] = k[r] + h[AnyOf(s)]
    BY <1>1, <1>2, <2>1 DEF Sums
  <2>3. g[r] \in Int /\ k[r] = g[r] + (IF x \in r THEN h[x] - f[x] ELSE 0)
    BY <1>5, <2>1
  <2>4. f[AnyOf(s)] \in Int /\ h[AnyOf(s)] \in Int
    BY <2>1
  <2>5. CASE AnyOf(s) = x
    BY <2>1, <2>2, <2>3, <2>4, <2>5
  <2>6. CASE AnyOf(s) # x
    <3>1. /\ x \in r <=> x \in s
          /\ x \in s => f[x] \in Int /\ h[x] \in Int
      BY <2>1, <2>6
    <3>2. h[AnyOf(s)] = f[AnyOf(s)]
      BY <2>1, <2>6
    <3> HIDE DEF r
    <3> QED
      BY <2>2, <2>3, <2>4, <3>1, <3>2
  <2> QED
    BY <2>5, <2>6
<1> HIDE DEF T
<1>6. Cardinality(S) \in T /\ S \in Smaller(S, Cardinality(S))
  BY <1>4, <1>5, Induction, SmallerSets
<1> QED
  BY <1>1, <1>2, <1>6 DEF T

LEMMA SumOfZeros ==
  ASSUME NEW S, IsFiniteSet(S), NEW f, \A y \in S : f[y] = 0
  PROVE  SumOf(f, S) = 0
<1>1. PICK g : Sums(g, f, SUBSET S) /\ SumOf(f, S) = g[S]
  BY SumIsSums
<1> DEFINE T == {n \in Nat : \A s \in Smaller(S, n) : g[s] = 0}
<1>2. g[{}] = 0
  BY <1>1 DEF Sums
<1>3. 0 \in T
  BY <1>2, SmallerSets
<1>4. ASSUME NEW n \in Nat, n \in T
      PROVE  n + 1 \in T
  <2> SUFFICES ASSUME NEW s \in Smaller(S, n + 1), s # {} PROVE g[s] = 0
    BY <1>2
  <2>1. s \in SUBSET S /\ AnyOf(s) \in s /\ s \ {AnyOf(s)} \in Smaller(S, n)
    BY SmallerSets DEF Smaller
  <2>2. g[s] = g[s \ {AnyOf(s)}] + f[AnyOf(s)]
    BY <1>1, <2>1 DEF Sums
  <2> QED
    BY <1>4, <2>1, <2>2
<1> HIDE DEF T
<1>5. Cardinality(S) \in T /\ S \in Smaller(S, Cardinality(S))
  BY <1>3, <1>4, Induction, SmallerSets
<1> QED
  BY <1>1, <1>5 DEF T

-----------------------------------------------------------------------------
(* Sequences of sequences, as FlattenSeq joins them. *)

LEMMA Assoc == \A S : \A s, t, u \in Seq(S) : (s \o t) \o u = s \o (t \o u)
BY ConcatAssociative

\* An algebra of sequences whose operators the provers take as they are.
Cat(s, t) == s \o t
One(m) == <<m>>

LEMMA CatAssoc ==
  \A M : \A s, t, u \in Seq(M) : Cat(Cat(s, t), u) = Cat(s, Cat(t, u))
BY Assoc DEF Cat

LEMMA CatNone ==
  \A M : \A s \in Seq(M) : Cat(s, <<>>) = s /\ Cat(<<>>, s) = s
BY ConcatEmptySeq DEF Cat

LEMMA CatStays ==
  \A M : \A s, t \in Seq(M) : Cat(s, t) \in Seq(M)
BY ConcatProperties DEF Cat

LEMMA OneIsSeq ==
  \A M : \A m \in M : One(m) \in Seq(M) /\ Len(One(m)) = 1 /\ One(m)[1] = m
BY DEF One

LEMMA AppendIsCat ==
  \A M : \A s \in Seq(M), m \in M : Append(s, m) = Cat(s, One(m))
BY AppendIsConcat DEF Cat, One

LEMMA HeadAndTail ==
  \A M : \A s \in Seq(M) : s # <<>> =>
    Head(s) \in M /\ Tail(s) \in Seq(M) /\ s = Cat(One(Head(s)), Tail(s))
<1> SUFFICES ASSUME NEW M, NEW s \in Seq(M), s # <<>>
             PROVE  Head(s) \in M /\ Tail(s) \in Seq(M) /\ s = <<Head(s)>> \o Tail(s)
  BY DEF Cat, One
<1>1. /\ Head(s) \in M /\ Tail(s) \in Seq(M) /\ Len(Tail(s)) = Len(s) - 1 /\ Len(s) \in Nat
      /\ \A i \in 1 .. Len(Tail(s)) : Tail(s)[i] = s[i + 1]
  BY HeadTailProperties, LenProperties
<1>2. Head(s) = s[1]
  OBVIOUS
<1> DEFINE h == Head(s)
           t == Tail(s)
<1>3. <<h>> \in Seq(M) /\ Len(<<h>>) = 1 /\ <<h>>[1] = h
  BY <1>1
<1> HIDE DEF h, t
<1>4. /\ <<h>> \o t \in Seq(M) /\ Len(<<h>> \o t) = 1 + Len(t)
      /\ \A i \in 1 .. 1 + Len(t) : (<<h>> \o t)[i] = IF i <= 1 THEN <<h>>[i] ELSE t[i - 1]
  BY <1>1, <1>3, ConcatProperties DEF t
<1>5. ASSUME NEW i \in 1 .. Len(s)
      PROVE  s[i] = (<<h>> \o t)[i]
  <2>1. CASE i = 1
    BY <1>1, <1>2, <1>3, <1>4, <2>1 DEF h, t
  <2>2. CASE i # 1
    <3>1. i - 1 \in 1 .. Len(t) /\ i \in 1 .. 1 + Len(t) /\ ~(i <= 1) /\ (i - 1) + 1 = i
      BY <1>1, <2>2 DEF t
    <3> QED
      BY <1>1, <1>4, <3>1 DEF t
  <2> QED
    BY <2>1, <2>2
<1> QED
  BY <1>1, <1>4, <1>5, SeqEqual DEF h, t

LEMMA ConcatAppend ==
  ASSUME NEW S, NEW s \in Seq(S), NEW t \in Seq(S), NEW x \in S
  PROVE  s \o Append(t, x) = Append(s \o t, x) /\ s \o t \in Seq(S)
<1>1. /\ Append(t, x) = t \o <<x>> /\ Append(s \o t, x) = (s \o t) \o <<x>>
      /\ s \o t \in Seq(S) /\ <<x>> \in Seq(S)
  BY AppendIsConcat, ConcatProperties
<1> QED
  BY <1>1, ConcatAssociative

\* f joins the first n of ss.
Joins(f, ss, n) == f = [i \in 1 .. n |-> IF i = 1 THEN ss[i] ELSE f[i - 1] \o ss[i]]

\* There is such a function, and its values are sequences.
LEMMA JoinsExist ==
  ASSUME NEW S, NEW ss \in Seq(Seq(S))
  PROVE  \A n \in Nat : n <= Len(ss) =>
           \E f : Joins(f, ss, n) /\ \A i \in 1 .. n : f[i] \in Seq(S)
<1> DEFINE T == {n \in Nat : n <= Len(ss) =>
                   \E f : Joins(f, ss, n) /\ \A i \in 1 .. n : f[i] \in Seq(S)}
<1>1. 0 \in T
  <2> DEFINE f == [i \in 1 .. 0 |-> <<>>]
  <2>1. f = [i \in 1 .. 0 |-> IF i = 1 THEN ss[i] ELSE f[i - 1] \o ss[i]]
    OBVIOUS
  <2>2. Joins(f, ss, 0)
    BY <2>1 DEF Joins
  <2> QED
    BY <2>2
<1>2. ASSUME NEW n \in Nat, n \in T
      PROVE  n + 1 \in T
  <2> SUFFICES ASSUME n + 1 <= Len(ss)
               PROVE  \E f : Joins(f, ss, n + 1) /\ \A i \in 1 .. n + 1 : f[i] \in Seq(S)
    OBVIOUS
  <2>1. PICK f : Joins(f, ss, n) /\ \A i \in 1 .. n : f[i] \in Seq(S)
    BY <1>2
  <2>2. f = [i \in 1 .. n |-> IF i = 1 THEN ss[i] ELSE f[i - 1] \o ss[i]]
    BY <2>1 DEF Joins
  <2> DEFINE g == [i \in 1 .. n + 1 |-> IF i = 1 THEN ss[i] ELSE f[i - 1] \o ss[i]]
  <2>3. ASSUME NEW i \in 1 .. n
        PROVE  g[i] = f[i]
    <3>1. i \in 1 .. n + 1
      OBVIOUS
    <3>2. g[i] = IF i = 1 THEN ss[i] ELSE f[i - 1] \o ss[i]
      BY <3>1
    <3>3. f[i] = IF i = 1 THEN ss[i] ELSE f[i - 1] \o ss[i]
      BY <2>2
    <3> QED
      BY <3>2, <3>3
  <2>4. ASSUME NEW i \in 1 .. n + 1, i # 1
        PROVE  g[i - 1] = f[i - 1]
    <3>1. i - 1 \in 1 .. n
      BY <2>4
    <3> HIDE DEF g
    <3> QED
      BY <2>3, <3>1
  <2>5. g = [i \in 1 .. n + 1 |-> IF i = 1 THEN ss[i] ELSE g[i - 1] \o ss[i]]
    BY <2>4
  <2>6. Joins(g, ss, n + 1)
    BY <2>5 DEF Joins
  <2>7. ASSUME NEW i \in 1 .. n + 1
        PROVE  g[i] \in Seq(S)
    <3>1. ss[i] \in Seq(S)
      OBVIOUS
    <3>2. CASE i = 1
      BY <3>1, <3>2
    <3>3. CASE i # 1
      <4>1. i - 1 \in 1 .. n
        BY <3>3
      <4>2. f[i - 1] \in Seq(S) /\ g[i] = f[i - 1] \o ss[i]
        BY <2>1, <3>3, <4>1
      <4> QED
        BY <3>1, <4>2
    <3> QED
      BY <3>2, <3>3
  <2> HIDE DEF g
  <2> QED
    BY <2>6, <2>7
<1> HIDE DEF T
<1>3. Nat \subseteq T
  BY <1>1, <1>2, Induction
<1> QED
  BY <1>3 DEF T

\* And there is one only.
LEMMA JoinsUnique ==
  ASSUME NEW ss, NEW tt, NEW m \in Nat, NEW n \in Nat, m <= n,
         NEW f, Joins(f, ss, m), NEW g, Joins(g, tt, n), \A i \in 1 .. m : ss[i] = tt[i]
  PROVE  \A i \in 1 .. m : f[i] = g[i]
<1> DEFINE T == {k \in Nat : k \in 1 .. m => f[k] = g[k]}
<1>1. /\ \A i \in 1 .. m : f[i] = IF i = 1 THEN ss[i] ELSE f[i - 1] \o ss[i]
      /\ \A i \in 1 .. n : g[i] = IF i = 1 THEN tt[i] ELSE g[i - 1] \o tt[i]
  BY DEF Joins
<1>2. 0 \in T
  OBVIOUS
<1>3. ASSUME NEW k \in Nat, k \in T
      PROVE  k + 1 \in T
  <2> SUFFICES ASSUME k + 1 \in 1 .. m PROVE f[k + 1] = g[k + 1]
    OBVIOUS
  <2>1. /\ f[k + 1] = IF k + 1 = 1 THEN ss[k + 1] ELSE f[k] \o ss[k + 1]
        /\ g[k + 1] = IF k + 1 = 1 THEN tt[k + 1] ELSE g[k] \o tt[k + 1]
        /\ ss[k + 1] = tt[k + 1]
    BY <1>1
  <2>2. k + 1 # 1 => f[k] = g[k]
    BY <1>3
  <2> QED
    BY <2>1, <2>2
<1> HIDE DEF T
<1>4. Nat \subseteq T
  BY <1>2, <1>3, Induction
<1> QED
  BY <1>4 DEF T

LEMMA FlattenJoins ==
  ASSUME NEW S, NEW ss \in Seq(Seq(S)), ss # <<>>
  PROVE  \E f : /\ Joins(f, ss, Len(ss)) /\ FlattenSeq(ss) = f[Len(ss)]
                /\ \A i \in 1 .. Len(ss) : f[i] \in Seq(S)
<1>1. Len(ss) \in Nat /\ Len(ss) # 0
  OBVIOUS
<1> DEFINE g == CHOOSE f : Joins(f, ss, Len(ss))
<1>2. PICK f : Joins(f, ss, Len(ss)) /\ \A i \in 1 .. Len(ss) : f[i] \in Seq(S)
  BY <1>1, JoinsExist
<1>3. Joins(g, ss, Len(ss))
  BY <1>2
<1>4. FlattenSeq(ss) = g[Len(ss)]
  BY <1>1 DEF FlattenSeq, Joins
<1> HIDE DEF g
<1>5. \A i \in 1 .. Len(ss) : g[i] = f[i]
  BY <1>1, <1>2, <1>3, JoinsUnique
<1> QED
  BY <1>2, <1>3, <1>4, <1>5

LEMMA FlattenIsSeq ==
  ASSUME NEW S, NEW ss \in Seq(Seq(S))
  PROVE  FlattenSeq(ss) \in Seq(S) /\ FlattenSeq(<<>>) = <<>>
<1>1. FlattenSeq(<<>>) = <<>>
  BY EmptySeq DEF FlattenSeq
<1>2. CASE ss = <<>>
  BY <1>1, <1>2, EmptySeq
<1>3. CASE ss # <<>>
  <2>1. Len(ss) \in 1 .. Len(ss)
    BY <1>3, EmptySeq
  <2> QED
    BY <1>1, <1>3, <2>1, FlattenJoins
<1> QED
  BY <1>2, <1>3

(***************************************************************************)
(* The last of the sequences is joined to what the others give.            *)
(***************************************************************************)
LEMMA FlattenAppend ==
  ASSUME NEW S, NEW ss \in Seq(Seq(S)), NEW b \in Seq(S)
  PROVE  /\ FlattenSeq(Append(ss, b)) = FlattenSeq(ss) \o b
         /\ FlattenSeq(<<b>>) = b
<1> DEFINE n == Len(ss)
           tt == Append(ss, b)
<1>3. /\ n \in Nat /\ tt \in Seq(Seq(S)) /\ tt # <<>> /\ Len(tt) = n + 1
      /\ tt[n + 1] = b /\ \A i \in 1 .. n : tt[i] = ss[i]
  BY AppendProperties
<1> HIDE DEF n, tt
<1>4. PICK g : Joins(g, tt, n + 1) /\ FlattenSeq(tt) = g[n + 1]
  BY <1>3, FlattenJoins
<1>5. g[n + 1] = IF n + 1 = 1 THEN b ELSE g[n] \o b
  <2>1. n + 1 \in 1 .. n + 1 /\ (n + 1) - 1 = n
    BY <1>3
  <2> QED
    BY <1>3, <1>4, <2>1 DEF Joins
<1>6. FlattenSeq(<<b>>) = b
  <2> DEFINE uu == <<b>>
  <2>1. uu \in Seq(Seq(S)) /\ uu # <<>> /\ Len(uu) = 1 /\ uu[1] = b
    OBVIOUS
  <2> HIDE DEF uu
  <2>2. PICK h : Joins(h, uu, 1) /\ FlattenSeq(uu) = h[1]
    BY <2>1, FlattenJoins
  <2>3. h[1] = b
    BY <2>1, <2>2 DEF Joins
  <2> QED
    BY <2>2, <2>3 DEF uu
<1>7. CASE ss = <<>>
  <2>1. FlattenSeq(ss) = <<>>
    BY <1>7, FlattenIsSeq
  <2>3. tt = <<b>>
    BY <1>7 DEF tt
  <2>2. <<>> \o b = b
    BY ConcatEmptySeq
  <2> QED
    BY <1>6, <2>1, <2>2, <2>3 DEF tt
<1>8. CASE ss # <<>>
  <2>1. PICK f : Joins(f, ss, n) /\ FlattenSeq(ss) = f[n]
    BY <1>8, FlattenJoins DEF n
  <2>2. n \in 1 .. n /\ n + 1 # 1
    BY <1>8, EmptySeq DEF n
  <2>3. /\ n + 1 \in Nat /\ n <= n + 1 /\ n \in Nat
        /\ \A i \in 1 .. n : ss[i] = tt[i]
    BY <1>3
  <2>4. \A i \in 1 .. n : f[i] = g[i]
    BY <1>4, <2>1, <2>3, JoinsUnique
  <2>5. FlattenSeq(tt) = FlattenSeq(ss) \o b
    BY <1>4, <1>5, <2>1, <2>2, <2>4
  <2> QED
    BY <1>6, <2>5 DEF tt
<1> QED
  BY <1>7, <1>8

(***************************************************************************)
(* What two sequences of sequences give together.                          *)
(***************************************************************************)
LEMMA FlattenConcat ==
  ASSUME NEW S, NEW ss \in Seq(Seq(S)), NEW tt \in Seq(Seq(S))
  PROVE  FlattenSeq(ss \o tt) = FlattenSeq(ss) \o FlattenSeq(tt)
<1> DEFINE T == {n \in Nat : \A uu \in Seq(Seq(S)) : Len(uu) = n =>
                   FlattenSeq(ss \o uu) = FlattenSeq(ss) \o FlattenSeq(uu)}
<1>1. 0 \in T
  <2> SUFFICES ASSUME NEW uu \in Seq(Seq(S)), Len(uu) = 0
               PROVE  FlattenSeq(ss \o uu) = FlattenSeq(ss) \o FlattenSeq(uu)
    OBVIOUS
  <2>1. uu = <<>> /\ ss \o uu = ss
    BY EmptySeq, ConcatEmptySeq
  <2>2. FlattenSeq(ss) \in Seq(S) /\ FlattenSeq(uu) = <<>>
    BY <2>1, FlattenIsSeq
  <2> QED
    BY <2>1, <2>2, ConcatEmptySeq
<1>2. ASSUME NEW n \in Nat, n \in T
      PROVE  n + 1 \in T
  <2>0. SUFFICES ASSUME NEW uu \in Seq(Seq(S)), Len(uu) = n + 1
               PROVE  FlattenSeq(ss \o uu) = FlattenSeq(ss) \o FlattenSeq(uu)
    OBVIOUS
  <2>1. PICK vv \in Seq(Seq(S)), b \in Seq(S) : uu = Append(vv, b) /\ Len(vv) = n
    <3>1. uu # <<>>
      BY <2>0, EmptySeq
    <3>2. PICK vv \in Seq(Seq(S)), b \in Seq(S) : uu = Append(vv, b)
      BY <3>1, SequenceEmptyOrAppend
    <3>3. Len(uu) = Len(vv) + 1 /\ Len(vv) \in Nat
      BY <3>2, AppendProperties, LenProperties
    <3>4. Len(vv) = n
      BY <2>0, <3>3
    <3> QED
      BY <3>2, <3>4
  <2>2. ss \o uu = Append(ss \o vv, b) /\ ss \o vv \in Seq(Seq(S))
    BY <2>1, ConcatAppend
  <2>3. FlattenSeq(ss \o uu) = FlattenSeq(ss \o vv) \o b
    <3> DEFINE x == ss \o vv
    <3>1. x \in Seq(Seq(S)) /\ b \in Seq(S) /\ ss \o uu = Append(x, b)
      BY <2>1, <2>2
    <3> HIDE DEF x
    <3>2. FlattenSeq(Append(x, b)) = FlattenSeq(x) \o b
      BY <3>1, FlattenAppend
    <3> QED
      BY <3>1, <3>2 DEF x
  <2>4. FlattenSeq(ss \o vv) = FlattenSeq(ss) \o FlattenSeq(vv)
    BY <1>2, <2>1
  <2>5. FlattenSeq(uu) = FlattenSeq(vv) \o b
    BY <2>1, FlattenAppend
  <2>6. FlattenSeq(ss) \in Seq(S) /\ FlattenSeq(vv) \in Seq(S)
    BY <2>1, FlattenIsSeq
  <2>7. (FlattenSeq(ss) \o FlattenSeq(vv)) \o b = FlattenSeq(ss) \o (FlattenSeq(vv) \o b)
    <3> DEFINE x == FlattenSeq(ss)
               y == FlattenSeq(vv)
    <3>1. x \in Seq(S) /\ y \in Seq(S) /\ b \in Seq(S)
      BY <2>6
    <3> HIDE DEF x, y
    <3>2. Cat(Cat(x, y), b) = Cat(x, Cat(y, b))
      BY <3>1, CatAssoc
    <3> QED
      BY <3>2 DEF x, y, Cat
  <2> QED
    BY <2>3, <2>4, <2>5, <2>7
<1> HIDE DEF T
<1>3. Nat \subseteq T
  BY <1>1, <1>2, Induction
<1> QED
  BY <1>3 DEF T

-----------------------------------------------------------------------------
(* The sum of a sequence of numbers, as FoldLeft makes it. *)

Total(w) == FoldLeft(LAMBDA m, n : m + n, 0, w)

\* g has the sums of w over sets of indexes, each from that without the greatest.
Totals(g, w, n) ==
  g = [s \in SUBSET (1 .. n) |-> IF s = {} THEN 0 ELSE g[s \ {Max(s)}] + w[Max(s)]]

\* p has the sums of the first elements of w.
Partial(p, w, n) == p[0] = 0 /\ \A i \in 1 .. n : p[i] = p[i - 1] + w[i]

LEMMA GreatestElement ==
  ASSUME NEW n \in Nat, NEW s \in SUBSET (1 .. n), s # {}
  PROVE  Max(s) \in s /\ \A y \in s : y <= Max(s)
<1> DEFINE T == {n - x : x \in s}
<1>0. \A x \in s : x \in Nat /\ n - x \in Nat
  OBVIOUS
<1>1. T \subseteq Nat /\ T # {}
  BY <1>0
<1>2. PICK d \in T : \A e \in T : d <= e
  BY <1>1, LeastElement
<1>3. PICK x \in s : d = n - x
  BY <1>2
<1>4. \A y \in s : x >= y
  <2> TAKE y \in s
  <2>1. n - y \in T
    OBVIOUS
  <2> HIDE DEF T
  <2>2. n - x <= n - y /\ x \in Nat /\ y \in Nat
    BY <1>0, <1>2, <1>3, <2>1
  <2> QED
    BY <2>2
<1>5. Max(s) \in s /\ \A y \in s : Max(s) >= y
  BY <1>4 DEF Max
<1> HIDE DEF T
<1> QED
  BY <1>0, <1>5

LEMMA TotalsExist ==
  ASSUME NEW w
  PROVE  \A n \in Nat : \E g : Totals(g, w, n)
<1> DEFINE T == {n \in Nat : \E g : Totals(g, w, n)}
<1>1. 0 \in T
  <2> DEFINE g == [s \in SUBSET (1 .. 0) |-> 0]
  <2>1. SUBSET (1 .. 0) = {{}}
    OBVIOUS
  <2>2. g = [s \in SUBSET (1 .. 0) |-> IF s = {} THEN 0 ELSE g[s \ {Max(s)}] + w[Max(s)]]
    BY <2>1
  <2>3. Totals(g, w, 0)
    BY <2>2 DEF Totals
  <2> QED
    BY <2>3
<1>2. ASSUME NEW n \in Nat, n \in T
      PROVE  n + 1 \in T
  <2>1. PICK g : Totals(g, w, n)
    BY <1>2
  <2> DEFINE D == SUBSET (1 .. n + 1)
             h == [s \in D |-> IF n + 1 \in s THEN g[s \ {n + 1}] + w[n + 1] ELSE g[s]]
  <2>2. ASSUME NEW s \in SUBSET (1 .. n)
        PROVE  h[s] = g[s]
    OBVIOUS
  <2>3. ASSUME NEW s \in D
        PROVE  h[s] = IF s = {} THEN 0 ELSE h[s \ {Max(s)}] + w[Max(s)]
    <3>1. CASE s = {}
      <4>1. g[{}] = 0
        BY <2>1 DEF Totals
      <4> QED
        BY <2>2, <3>1, <4>1
    <3>2. CASE s # {} /\ n + 1 \in s
      <4> DEFINE b == n + 1
      <4>0. b \in Nat /\ s \in SUBSET (1 .. b) /\ b \in s /\ s # {}
        BY <3>2
      <4> HIDE DEF b
      <4>1. Max(s) \in s /\ b <= Max(s)
        BY <4>0, GreatestElement
      <4>5. Max(s) \in 1 .. b
        BY <4>0, <4>1
      <4>6. Max(s) = b
        BY <4>0, <4>1, <4>5
      <4>2. Max(s) = n + 1
        BY <4>6 DEF b
      <4>3. s \ {n + 1} \in SUBSET (1 .. n)
        OBVIOUS
      <4>4. h[s \ {n + 1}] = g[s \ {n + 1}]
        BY <2>2, <4>3
      <4> QED
        BY <3>2, <4>2, <4>4
    <3>3. CASE s # {} /\ n + 1 \notin s
      <4>1. s \in SUBSET (1 .. n)
        BY <3>3
      <4>2. g[s] = g[s \ {Max(s)}] + w[Max(s)]
        BY <2>1, <3>3, <4>1 DEF Totals
      <4>3. s \ {Max(s)} \in SUBSET (1 .. n)
        BY <4>1
      <4>4. h[s] = g[s] /\ h[s \ {Max(s)}] = g[s \ {Max(s)}]
        BY <2>2, <4>1, <4>3
      <4> HIDE DEF h
      <4> QED
        BY <3>3, <4>2, <4>4
    <3> QED
      BY <3>1, <3>2, <3>3
  <2> DEFINE k == [s \in D |-> IF s = {} THEN 0 ELSE h[s \ {Max(s)}] + w[Max(s)]]
  <2>4. h = k
    <3>1. DOMAIN h = D /\ h = [s \in D |-> h[s]]
      OBVIOUS
    <3> HIDE DEF h
    <3> QED
      BY <2>3, <3>1
  <2>5. Totals(h, w, n + 1)
    <3> HIDE DEF h
    <3> QED
      BY <2>4 DEF Totals
  <2> HIDE DEF h, k
  <2> QED
    BY <2>5
<1> HIDE DEF T
<1>3. Nat \subseteq T
  BY <1>1, <1>2, Induction
<1> QED
  BY <1>3 DEF T

LEMMA TotalIsTotals ==
  ASSUME NEW w, NEW n \in Nat, DOMAIN w = 1 .. n
  PROVE  \E g : Totals(g, w, n) /\ Total(w) = g[1 .. n]
<1> DEFINE g == CHOOSE iter : Totals(iter, w, n)
<1>1. Totals(g, w, n)
  BY TotalsExist
<1>2. Total(w) = g[1 .. n]
  BY DEF Total, FoldLeft, MapThenFoldSet, Totals
<1> QED
  BY <1>1, <1>2

LEMMA PartialSums ==
  ASSUME NEW n \in Nat, NEW w \in [1 .. n -> Int]
  PROVE  \E p \in [0 .. n -> Int] : Partial(p, w, n) /\ Total(w) = p[n]
<1>1. PICK g : Totals(g, w, n) /\ Total(w) = g[1 .. n]
  BY TotalIsTotals
<1> DEFINE p == [i \in 0 .. n |-> g[1 .. i]]
<1>2. p[0] = 0
  <2>1. 1 .. 0 = {} /\ g[{}] = 0
    BY <1>1 DEF Totals
  <2> QED
    BY <2>1
<1>3. ASSUME NEW i \in 1 .. n PROVE p[i] = p[i - 1] + w[i]
  <2> DEFINE s == 1 .. i
  <2>1. s \in SUBSET (1 .. n) /\ s # {} /\ i \in s
    OBVIOUS
  <2>2. Max(s) \in s /\ i <= Max(s)
    BY <2>1, GreatestElement
  <2>3. Max(s) = i
    BY <2>2
  <2>4. s \ {i} = 1 .. i - 1
    OBVIOUS
  <2>5. g[s] = g[s \ {Max(s)}] + w[Max(s)]
    BY <1>1, <2>1 DEF Totals
  <2>6. p[i] = g[s] /\ p[i - 1] = g[1 .. i - 1]
    OBVIOUS
  <2> QED
    BY <2>3, <2>4, <2>5, <2>6
<1> HIDE DEF p
<1> DEFINE T == {k \in Nat : k <= n => p[k] \in Int}
<1>4. 0 \in T
  BY <1>2
<1>5. ASSUME NEW k \in Nat, k \in T PROVE k + 1 \in T
  <2> SUFFICES ASSUME k + 1 <= n PROVE p[k + 1] \in Int
    OBVIOUS
  <2>1. p[k] \in Int /\ k + 1 \in 1 .. n /\ w[k + 1] \in Int /\ (k + 1) - 1 = k
    BY <1>5
  <2> QED
    BY <1>3, <2>1
<1> HIDE DEF T
<1>6. Nat \subseteq T
  BY <1>4, <1>5, Induction
<1>7. \A k \in 0 .. n : p[k] \in Int
  BY <1>6 DEF T
<1>8. p \in [0 .. n -> Int] /\ p[n] = g[1 .. n]
  BY <1>7 DEF p
<1> QED
  BY <1>1, <1>2, <1>3, <1>8 DEF Partial

\* There is one such sum.
LEMMA TotalIsPartial ==
  ASSUME NEW n \in Nat, NEW w \in [1 .. n -> Int], NEW p, Partial(p, w, n)
  PROVE  Total(w) = p[n]
<1>1. PICK r \in [0 .. n -> Int] : Partial(r, w, n) /\ Total(w) = r[n]
  BY PartialSums
<1> DEFINE T == {k \in Nat : k <= n => p[k] = r[k]}
<1>2. 0 \in T
  BY <1>1 DEF Partial
<1>3. ASSUME NEW k \in Nat, k \in T PROVE k + 1 \in T
  <2> SUFFICES ASSUME k + 1 <= n PROVE p[k + 1] = r[k + 1]
    OBVIOUS
  <2>1. p[k] = r[k] /\ k + 1 \in 1 .. n /\ (k + 1) - 1 = k
    BY <1>3
  <2> QED
    BY <1>1, <2>1 DEF Partial
<1> HIDE DEF T
<1>4. Nat \subseteq T
  BY <1>2, <1>3, Induction
<1> QED
  BY <1>1, <1>4 DEF T

LEMMA TotalAppends ==
  ASSUME NEW n \in Nat, NEW w \in [1 .. n -> Int], NEW v \in [1 .. n + 1 -> Int],
         \A i \in 1 .. n : v[i] = w[i]
  PROVE  Total(v) = Total(w) + v[n + 1] /\ Total(w) \in Int
<1>1. PICK p \in [0 .. n + 1 -> Int] : Partial(p, v, n + 1) /\ Total(v) = p[n + 1]
  BY PartialSums
<1>2. Partial(p, w, n)
  BY <1>1 DEF Partial
<1>3. Total(w) = p[n]
  BY <1>2, TotalIsPartial
<1>4. p[n + 1] = p[n] + v[n + 1]
  <2>1. n + 1 \in 1 .. n + 1 /\ (n + 1) - 1 = n
    OBVIOUS
  <2> QED
    BY <1>1, <2>1 DEF Partial
<1> QED
  BY <1>1, <1>3, <1>4

LEMMA TotalDrops ==
  ASSUME NEW n \in Nat, NEW w \in [1 .. n -> Int], NEW f \in 1 .. n,
         NEW v \in [1 .. n - 1 -> Int],
         \A i \in 1 .. n - 1 : v[i] = IF i < f THEN w[i] ELSE w[i + 1]
  PROVE  Total(v) = Total(w) - w[f] /\ Total(w) \in Int
<1>1. PICK p \in [0 .. n -> Int] : Partial(p, w, n) /\ Total(w) = p[n]
  BY PartialSums
<1> DEFINE r == [k \in 0 .. n - 1 |-> IF k < f THEN p[k] ELSE p[k + 1] - w[f]]
<1>2. r[0] = 0
  BY <1>1 DEF Partial
<1>3. ASSUME NEW i \in 1 .. n - 1 PROVE r[i] = r[i - 1] + v[i]
  <2>1. /\ i \in 1 .. n /\ i + 1 \in 1 .. n /\ i \in 0 .. n - 1 /\ i - 1 \in 0 .. n - 1
        /\ (i + 1) - 1 = i /\ (i - 1) + 1 = i
    OBVIOUS
  <2>2. p[i] = p[i - 1] + w[i] /\ p[i + 1] = p[i] + w[i + 1]
    BY <1>1, <2>1 DEF Partial
  <2>3. /\ p[i] \in Int /\ p[i - 1] \in Int /\ p[i + 1] \in Int
        /\ w[i] \in Int /\ w[i + 1] \in Int /\ w[f] \in Int
    <3>1. i \in 0 .. n /\ i - 1 \in 0 .. n /\ i + 1 \in 0 .. n
      OBVIOUS
    <3>2. p[i] \in Int /\ p[i - 1] \in Int /\ p[i + 1] \in Int
      BY <3>1
    <3> QED
      BY <2>1, <3>2
  <2>4. /\ r[i] = IF i < f THEN p[i] ELSE p[i + 1] - w[f]
        /\ r[i - 1] = IF i - 1 < f THEN p[i - 1] ELSE p[i] - w[f]
    BY <2>1
  <2>5. v[i] = IF i < f THEN w[i] ELSE w[i + 1]
    OBVIOUS
  <2> HIDE DEF r
  <2>6. CASE i < f
    BY <2>2, <2>3, <2>4, <2>5, <2>6
  <2>7. CASE i = f
    BY <2>2, <2>3, <2>4, <2>5, <2>7, SMTT(30)
  <2>8. CASE i > f
    <3>1. ~(i < f) /\ ~(i - 1 < f)
      BY <2>8
    <3>2. r[i] = p[i + 1] - w[f] /\ r[i - 1] = p[i] - w[f] /\ v[i] = w[i + 1]
      BY <2>4, <2>5, <3>1
    <3> QED
      BY <2>2, <2>3, <3>2, SMTT(30)
  <2> QED
    BY <2>6, <2>7, <2>8
<1>4. r[n - 1] = p[n] - w[f]
  <2>1. n - 1 \in 0 .. n - 1 /\ (n - 1) + 1 = n /\ n \in 1 .. n
    OBVIOUS
  <2>5. n \in 0 .. n /\ n - 1 \in 0 .. n
    OBVIOUS
  <2>6. p[n] \in Int /\ p[n - 1] \in Int /\ w[n] \in Int /\ w[f] \in Int
    BY <2>1, <2>5
  <2>2. p[n] = p[n - 1] + w[n]
    BY <1>1, <2>1 DEF Partial
  <2>3. r[n - 1] = IF n - 1 < f THEN p[n - 1] ELSE p[n] - w[f]
    BY <2>1
  <2> HIDE DEF r
  <2>4. n - 1 < f => f = n
    OBVIOUS
  <2> QED
    BY <2>2, <2>3, <2>4, <2>6
<1> HIDE DEF r
<1>5. Partial(r, v, n - 1) /\ n - 1 \in Nat
  BY <1>2, <1>3 DEF Partial
<1>6. Total(v) = r[n - 1]
  BY <1>5, TotalIsPartial
<1> QED
  BY <1>1, <1>4, <1>6

LEMMA TotalIsNat ==
  ASSUME NEW n \in Nat, NEW w \in [1 .. n -> Nat]
  PROVE  Total(w) \in Nat
<1>1. PICK p \in [0 .. n -> Int] : Partial(p, w, n) /\ Total(w) = p[n]
  BY PartialSums
<1> DEFINE T == {k \in Nat : k <= n => p[k] \in Nat}
<1>2. 0 \in T
  BY <1>1 DEF Partial
<1>3. ASSUME NEW k \in Nat, k \in T PROVE k + 1 \in T
  <2> SUFFICES ASSUME k + 1 <= n PROVE p[k + 1] \in Nat
    OBVIOUS
  <2>1. p[k] \in Nat /\ k + 1 \in 1 .. n /\ w[k + 1] \in Nat /\ (k + 1) - 1 = k
    BY <1>3
  <2> QED
    BY <1>1, <2>1 DEF Partial
<1> HIDE DEF T
<1>4. Nat \subseteq T
  BY <1>2, <1>3, Induction
<1> QED
  BY <1>1, <1>4 DEF T

-----------------------------------------------------------------------------
(* Remainders. *)

\* The quotient and the remainder of a division are determined.
LEMMA Division ==
  ASSUME NEW m \in Nat \ {0}
  PROVE  \A r \in Nat : /\ r = m * (r \div m) + (r % m)
                        /\ r \div m \in Int /\ r % m \in 0 .. m - 1
OBVIOUS

\* A smaller number has the smaller quotient, or the same and the smaller rest.
LEMMA SmallerQuotient ==
  ASSUME NEW m \in Nat \ {0}, NEW q1 \in Int, NEW q2 \in Int,
         NEW r1 \in 0 .. m - 1, NEW r2 \in 0 .. m - 1, m * q1 + r1 < m * q2 + r2
  PROVE  q1 < q2 \/ (q1 = q2 /\ r1 < r2)
<1> SUFFICES ASSUME q1 > q2 PROVE FALSE
  OBVIOUS
<1>1. m * q1 >= m * (q2 + 1)
  OBVIOUS
<1>2. m * (q2 + 1) = m * q2 + m
  OBVIOUS
<1> QED
  BY <1>1, <1>2

\* One round on, the remainder is the same.
LEMMA NextRound ==
  ASSUME NEW m \in Nat \ {0}, NEW r \in Nat
  PROVE  (r + m) % m = r % m
<1> DEFINE q1 == r \div m  q2 == (r + m) \div m  r1 == r % m  r2 == (r + m) % m
<1>1. r = m * q1 + r1 /\ q1 \in Int /\ r1 \in 0 .. m - 1
  BY Division
<1>2. r + m = m * q2 + r2 /\ q2 \in Int /\ r2 \in 0 .. m - 1
  OBVIOUS
<1> HIDE DEF q1, q2, r1, r2
<1>3. m * (q1 + 1) = m * q1 + m /\ m * q2 = m * (q2 - 1) + m
  BY <1>1, <1>2
<1>4. m * (q1 + 1) + r1 = m * q2 + r2
  BY <1>1, <1>2, <1>3
<1>5. ~(q1 + 1 < q2)
  <2> SUFFICES ASSUME q1 + 1 < q2 PROVE FALSE
    OBVIOUS
  <2>1. m * (q2 - 1) >= m * (q1 + 1)
    BY <1>1, <1>2
  <2> QED
    BY <2>1, <1>1, <1>2, <1>3, <1>4
<1>6. ~(q2 < q1 + 1)
  <2> SUFFICES ASSUME q2 < q1 + 1 PROVE FALSE
    OBVIOUS
  <2>1. m * q1 >= m * q2
    BY <1>1, <1>2
  <2> QED
    BY <2>1, <1>1, <1>2, <1>3, <1>4
<1> QED
  BY <1>1, <1>2, <1>4, <1>5, <1>6 DEF r1, r2

\* Two numbers with the same remainder are a round apart.
LEMMA RoundApart ==
  ASSUME NEW m \in Nat \ {0}, NEW r \in Nat, NEW s \in Nat, r % m = s % m, r < s
  PROVE  s >= r + m
<1> DEFINE q1 == r \div m  q2 == s \div m  k == r % m
<1>1. r = m * q1 + k /\ s = m * q2 + k /\ q1 \in Int /\ q2 \in Int /\ k \in 0 .. m - 1
  BY Division
<1> HIDE DEF q1, q2, k
<1>2. q1 < q2
  BY <1>1, SmallerQuotient
<1>3. m * q2 >= m * (q1 + 1)
  BY <1>1, <1>2
<1>4. m * (q1 + 1) = m * q1 + m
  BY <1>1
<1> QED
  BY <1>1, <1>3, <1>4
=============================================================================
