------------------------------ MODULE WorkCrew ------------------------------
(***************************************************************************)
(* Three programs that divide the work among threads: CHAPTR07/sortMT.c    *)
(* sorts the parts of a mapped file and merges them in pairs,              *)
(* CHAPTR07/grepMT.c searches each of its files in a thread, and           *)
(* CHAPTR14/compMP.c compares two mapped files, each thread every          *)
(* nThreads-th block, until the first MAX_MISMATCH differences are known.  *)
(*                                                                         *)
(* Their error exits are left out, but for that of grepMT.c when it cannot *)
(* delete a file that is open.                                             *)
(***************************************************************************)
EXTENDS Integers, Sequences, FiniteSets

CONSTANTS
  CrewThreads,                          \* their numbers
  nRec, CrewSizes, SortKeys,            \* sortMT.c: the records, the numbers of threads
  fileSize, blockSize, nThreads, MAX_MISMATCH,   \* compMP.c
  Files                                 \* grepMT.c: as many, from 0

PowerOf2(n) == \A d \in 1 .. n : n % d = 0 => d = 1 \/ d % 2 = 0

\* What main and the threads rely on.
WorkCrewAssumption ==
  \* The LIMITATIONS in the header of sortMT.c, and a file that has records: of
  \* an empty one thread 0 waits for nobody, and main unmaps it under the others.
  /\ \A n \in CrewSizes : n \in Nat \ {0} /\ PowerOf2(n) /\ nRec % n = 0
  /\ nRec \in Nat \ {0} /\ SortKeys \subseteq Int
  /\ {fileSize, blockSize, nThreads, MAX_MISMATCH, Files} \subseteq Nat \ {0}
  /\ CrewThreads \subseteq Nat
  /\ \A n \in CrewSizes \cup {nThreads, Files} : 0 .. n - 1 \subseteq CrewThreads

VARIABLES
  tool,                       \* the program
  crew, crewMain, numThreads, \* where the threads and main are
  pRecords, given,            \* sortMT.c: the mapped file, now and at first
  twoToI, pDest,              \* the merge step of each thread, and what it has merged
  differ, mmLocation, curPos, pFile,  \* compMP.c: where the files differ, and the rest
  contents, tHandle, targv, searched, reported   \* grepMT.c

sortVars == <<pRecords, given, twoToI, pDest>>
compVars == <<differ, mmLocation, curPos, pFile>>
grepVars == <<contents, tHandle, targv, searched, reported>>
crewVars == <<crew, crewMain, numThreads, sortVars, compVars, grepVars>>

UI64_MAX == fileSize + 1
Slots == 0 .. Files - 1

CrewInit ==
  /\ numThreads \in CASE tool = "sortMT" -> CrewSizes
                      [] tool = "compMP" -> {nThreads}
                      [] OTHER -> {Files}
  /\ crew = [n \in CrewThreads |-> "none"] /\ crewMain = "create"
  /\ given \in IF tool = "sortMT" THEN [1 .. nRec -> SortKeys] ELSE {<<>>}
  /\ pRecords = given
  /\ twoToI = [n \in CrewThreads |-> 1] /\ pDest = [n \in CrewThreads |-> <<>>]
  /\ differ \in IF tool = "compMP" THEN SUBSET (0 .. fileSize - 1) ELSE {{}}
  /\ mmLocation = [m \in 1 .. MAX_MISMATCH |-> UI64_MAX]
  /\ curPos = [n \in CrewThreads |-> blockSize * n] /\ pFile = [n \in CrewThreads |-> 0]
  /\ contents \in IF tool = "grepMT" THEN [Slots -> {"match", "other", "missing"}]
                                     ELSE {<<>>}
  /\ tHandle = [i \in Slots |-> i] /\ targv = [i \in Slots |-> i]
  /\ searched = [i \in Slots |-> Files] /\ reported = [f \in Slots |-> 0]

CrewGoes(n, from, to) == crew[n] = from /\ crew' = [crew EXCEPT ![n] = to]
MainIs(from, to) == crewMain = from /\ crewMain' = to

-----------------------------------------------------------------------------
(* main of all three: it creates the threads, suspended in sortMT.c and    *)
(* compMP.c, and resumes them; that of grepMT.c start at once.             *)

\* Fault: no thread is created suspended.
Started_NotSuspended == "start"

Started == IF tool = "grepMT" THEN "start" ELSE "suspended"

\* The first thread that is there, or else the end of the loop.
ForEach(from, to, end) ==
  LET at == {n \in 0 .. numThreads - 1 : crew[n] = from} IN
  IF at # {}
  THEN CrewGoes(CHOOSE n \in at : \A m \in at : n <= m, from, to) /\ UNCHANGED crewMain
  ELSE crewMain' = end /\ UNCHANGED crew

CreateThread ==
  /\ crewMain = "create"
  /\ ForEach("none", Started, IF tool = "grepMT" THEN "wait" ELSE "resume")
  /\ UNCHANGED <<numThreads, sortVars, compVars, grepVars>>

ResumeThread ==
  /\ crewMain = "resume"
  /\ ForEach("suspended", "start", "wait")
  /\ UNCHANGED <<numThreads, sortVars, compVars, grepVars>>

\* A wait for a handle that is not set yet fails, and is over.
WaitIsOver(n) == crew[n] \in {"none", "ended"}

\* sortMT.c waits for thread 0 only, compMP.c for one after the other.
WaitForThreads ==
  /\ tool # "grepMT"
  /\ \A n \in IF tool = "sortMT" THEN {0} ELSE 0 .. numThreads - 1 : WaitIsOver(n)
  /\ MainIs("wait", "ended")
  /\ UNCHANGED <<crew, numThreads, sortVars, compVars, grepVars>>

-----------------------------------------------------------------------------
(* sortMT.c *)

nRecTh == nRec \div numThreads
First(n) == nRecTh * n + 1
Part(first, n) == SubSeq(pRecords, first, first + n - 1)
Placed(first, s) == [r \in 1 .. nRec |-> IF r \in first .. first + Len(s) - 1
                                         THEN s[r - first + 1] ELSE pRecords[r]]

Sorted(s) == \A r \in 1 .. Len(s) - 1 : s[r] <= s[r + 1]

\* The orders in which n records can be.
Orders(n) == {p \in [1 .. n -> 1 .. n] : \A i, j \in 1 .. n : p[i] = p[j] => i = j}
Ordered(s, p) == [r \in 1 .. Len(s) |-> s[p[r]]]

\* What is next: another merge, or the end.
MergesAgain(n, i) == n % (2 * i) = 0 /\ nRecTh * i < nRec

SortPart(n) ==
  /\ CrewGoes(n, "start", IF MergesAgain(n, 1) THEN "join" ELSE "ended")
  /\ \E p \in Orders(nRecTh) : LET s == Ordered(Part(First(n), nRecTh), p) IN
       Sorted(s) /\ pRecords' = Placed(First(n), s)
  /\ UNCHANGED <<crewMain, numThreads, given, twoToI, pDest, compVars, grepVars>>

\* The next record is that of the first array, after i1 of it and i2 of the other.
TakesFirst(s1, s2, i1, i2) ==
  i2 = Len(s2) \/ (i1 < Len(s1) /\ s1[i1 + 1] <= s2[i2 + 1])

Merged(s1, s2) ==
  LET nDest == Len(s1) + Len(s2)
      i1[k \in 0 .. nDest] ==
        IF k = 0 THEN 0
        ELSE i1[k - 1] + IF TakesFirst(s1, s2, i1[k - 1], k - 1 - i1[k - 1]) THEN 1 ELSE 0
  IN  [k \in 1 .. nDest |-> IF i1[k] > i1[k - 1] THEN s1[i1[k]] ELSE s2[k - i1[k]]]

\* The adjacent array is another thread's, until that thread has ended.
MergeArrays(n) ==
  LET nRecs == nRecTh * twoToI[n] IN
  /\ crew[n] = "join" /\ WaitIsOver(n + twoToI[n])
  /\ CrewGoes(n, "join", "copy")
  /\ pDest' = [pDest EXCEPT ![n] = Merged(Part(First(n), nRecs), Part(First(n) + nRecs, nRecs))]
  /\ UNCHANGED <<crewMain, numThreads, pRecords, given, twoToI, compVars, grepVars>>

CopyBack(n) ==
  /\ crew[n] = "copy"
  /\ pRecords' = Placed(First(n), pDest[n])
  /\ pDest' = [pDest EXCEPT ![n] = <<>>]
  /\ twoToI' = [twoToI EXCEPT ![n] = 2 * @]
  /\ CrewGoes(n, "copy", IF MergesAgain(n, 2 * twoToI[n]) THEN "join" ELSE "ended")
  /\ UNCHANGED <<crewMain, numThreads, given, compVars, grepVars>>

-----------------------------------------------------------------------------
(* compMP.c *)

\* Fault: it is full.
CanTerminate_Full(n) == mmLocation[MAX_MISMATCH] # UI64_MAX

\* Under the shared lock: the table is full of lower mismatches.
CanTerminate(n) == curPos[n] > mmLocation[MAX_MISMATCH]

ReadCompare(n) ==
  /\ CrewGoes(n, "start", IF curPos[n] >= fileSize \/ CanTerminate(n) THEN "ended" ELSE "compare")
  /\ pFile' = [pFile EXCEPT ![n] = curPos[n]]
  /\ UNCHANGED <<crewMain, numThreads, differ, mmLocation, curPos, sortVars, grepVars>>

\* Under the exclusive lock.  The highest location leaves the table.
LogMismatchByte(mmLoc) ==
  LET insertHere == 1 + Cardinality({m \in DOMAIN mmLocation : mmLoc > mmLocation[m]}) IN
  mmLocation' = [m \in DOMAIN mmLocation |-> CASE m < insertHere -> mmLocation[m]
                                               [] m = insertHere -> mmLoc
                                               [] OTHER -> mmLocation[m - 1]]

\* The block to its next mismatch; without one, to the stripe's next block.
CompareBlock(n) ==
  LET left == {b \in differ : b >= pFile[n] /\ b < curPos[n] + blockSize} IN
  /\ IF left # {}
     THEN LET mmLoc == CHOOSE b \in left : \A c \in left : b <= c IN
          /\ crew[n] = "compare"
          /\ LogMismatchByte(mmLoc)
          /\ pFile' = [pFile EXCEPT ![n] = mmLoc + 1]
          /\ UNCHANGED <<crew, curPos>>
     ELSE /\ CrewGoes(n, "compare", "start")
          /\ curPos' = [curPos EXCEPT ![n] = @ + blockSize * nThreads]
          /\ UNCHANGED <<mmLocation, pFile>>
  /\ UNCHANGED <<crewMain, numThreads, differ, sortVars, grepVars>>

-----------------------------------------------------------------------------
(* grepMT.c.  A slot is a handle and the file that goes with it.           *)

\* The thread copies its arguments, which main may already move.
ThGrep(n) ==
  /\ CrewGoes(n, "start", "search")
  /\ searched' = [searched EXCEPT ![n] = targv[n]]
  /\ UNCHANGED <<crewMain, numThreads, contents, tHandle, targv, reported, sortVars, compVars>>

ThGrepEnd(n) ==
  /\ CrewGoes(n, "search", "ended")
  /\ UNCHANGED <<crewMain, numThreads, sortVars, compVars, grepVars>>

\* Fault: its names do not.
MoveLast_HandleOnly(iThrd, threadCount) ==
  /\ tHandle' = [tHandle EXCEPT ![iThrd] = tHandle[threadCount - 1]]
  /\ UNCHANGED targv

\* The last slot moves to that of the thread that has ended.
MoveLast(iThrd, threadCount) ==
  /\ tHandle' = [tHandle EXCEPT ![iThrd] = tHandle[threadCount - 1]]
  /\ targv' = [targv EXCEPT ![iThrd] = targv[threadCount - 1]]

\* The exit code is 0 for a file that matches.  A file that cannot be opened
\* leaves its result open: it cannot be deleted, and the program ends.
ReportFile ==
  LET ended == {i \in 0 .. numThreads - 1 : crew[tHandle[i]] = "ended"} IN
  /\ tool = "grepMT" /\ crewMain = "wait" /\ ended # {}
  /\ LET iThrd == CHOOSE i \in ended : \A j \in ended : i <= j
         result == contents[searched[tHandle[iThrd]]]
     IN  /\ reported' = [reported EXCEPT ![targv[iThrd]] = @ + IF result = "match" THEN 1 ELSE 0]
         /\ IF contents[targv[iThrd]] = "missing"
            THEN crewMain' = "failed" /\ UNCHANGED <<tHandle, targv, numThreads>>
            ELSE /\ MoveLast(iThrd, numThreads)
                 /\ numThreads' = numThreads - 1
                 /\ crewMain' = IF numThreads = 1 THEN "ended" ELSE "wait"
  /\ UNCHANGED <<crew, contents, searched, sortVars, compVars>>

-----------------------------------------------------------------------------
CrewGoesOn(n) ==
  /\ n \in CrewThreads
  /\ \/ tool = "sortMT" /\ (SortPart(n) \/ MergeArrays(n) \/ CopyBack(n))
     \/ tool = "compMP" /\ (ReadCompare(n) \/ CompareBlock(n))
     \/ tool = "grepMT" /\ (ThGrep(n) \/ ThGrepEnd(n))
CrewMainStep == CreateThread \/ ResumeThread \/ WaitForThreads \/ ReportFile
-----------------------------------------------------------------------------
(***************************************************************************)
(* When main of sortMT.c has seen thread 0 end, the file is sorted, holds  *)
(* the records that it held, and no thread is at work on it any more.      *)
(***************************************************************************)
SortedInTheEnd ==
  (tool = "sortMT" /\ crewMain = "ended") =>
    /\ Sorted(pRecords) /\ \E p \in Orders(nRec) : pRecords = Ordered(given, p)
    /\ \A n \in 0 .. numThreads - 1 : crew[n] = "ended"

\* The n lowest elements.
Lowest(S, n) == {x \in S : Cardinality({y \in S : y < x}) < n}

(***************************************************************************)
(* The table of compMP.c is sorted, and in the end it holds the first      *)
(* mismatches of the files, although threads give up when they find that   *)
(* the table is full, and find the mismatches in any order.                *)
(***************************************************************************)
LowestMismatches ==
  tool = "compMP" =>
    /\ \A m \in 1 .. MAX_MISMATCH - 1 :
         mmLocation[m] < mmLocation[m + 1] \/ mmLocation[m + 1] = UI64_MAX
    /\ crewMain = "ended" =>
         {mmLocation[m] : m \in DOMAIN mmLocation} \ {UI64_MAX} = Lowest(differ, MAX_MISMATCH)

(***************************************************************************)
(* grepMT.c reports a file that matches once, under its own name, and no   *)
(* other, however the slots have moved; unless a file is missing, which    *)
(* ends the program with the results of the threads that are left.         *)
(***************************************************************************)
ResultsReported ==
  tool = "grepMT" =>
    /\ \A f \in Slots : reported[f] <= (IF contents[f] = "match" THEN 1 ELSE 0)
    /\ crewMain = "ended" => \A f \in Slots : contents[f] = "match" => reported[f] = 1
    /\ crewMain = "failed" => \E f \in Slots : contents[f] = "missing"

CrewEnded == crewMain \in {"ended", "failed"}
=============================================================================
