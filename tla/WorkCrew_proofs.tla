---------------------------- MODULE WorkCrew_proofs ----------------------------
(***************************************************************************)
(* Proofs about the programs of WorkCrew, in which main starts one thread  *)
(* for each file or each part of a file: grepMT.c, sortMT.c and compMP.c.  *)
(***************************************************************************)
EXTENDS Programs, FoldTheorems, TLAPS

-----------------------------------------------------------------------------
(***************************************************************************)
(* grepMT.c: the slots that main still waits for, and the files of which   *)
(* it has the results.                                                     *)
(***************************************************************************)
Awaited == {targv[i] : i \in 0 .. numThreads - 1}

GrepTypes ==
  /\ numThreads \in 0 .. Files
  /\ crewMain \in {"create", "wait", "ended", "failed"}
  /\ crew \in [Numbers -> {"none", "start", "search", "ended"}]
  /\ tHandle \in [Crew!Slots -> Crew!Slots]
  /\ searched \in [Crew!Slots -> 0 .. Files]
  /\ reported \in [Crew!Slots -> {0, 1}]
  /\ contents \in [Crew!Slots -> {"match", "other", "missing"}]

\* The handle of a slot is that of its file's thread, and slots are different;
\* a thread that has not yet copied its argument is in its own slot.
SlotsMoveWhole ==
  /\ targv = tHandle
  /\ \A i, j \in 0 .. numThreads - 1 : targv[i] = targv[j] => i = j
  /\ \A n \in Crew!Slots : /\ crew[n] \in {"none", "start"} => targv[n] = n
                           /\ crew[n] \in {"search", "ended"} => searched[n] = n

ReportedSoFar ==
  /\ \A f \in Crew!Slots :
       reported[f] = IF f \in Awaited \/ contents[f] # "match" THEN 0 ELSE 1
  /\ crewMain = "ended" => numThreads = 0
  /\ crewMain = "failed" => \E f \in Crew!Slots : contents[f] = "missing"

Searching == GrepTypes /\ SlotsMoveWhole /\ ReportedSoFar
GrepInv == program = "grepMT" => Searching


\* Steps of the programs with a crew are all that changes its variables.
CrewStep == (\E n \in Numbers : Crew!CrewGoesOn(n)) \/ Crew!CrewMainStep

LEMMA CrewAlone ==
  ASSUME [ProgramsNext]_programVars
  PROVE  program' = program /\ (UNCHANGED crewVars \/ (program \in CrewProgram /\ CrewStep))
<1>1. program' = program
  BY DEF ProgramsNext, programVars
<1> SUFFICES ASSUME program \in CrewProgram, ProgramsNext PROVE CrewStep
  BY <1>1 DEF ProgramsNext, programVars, Frozen
<1>2. CrewProgram \cap (MessageProgram \cup FileProgram \cup StreamProgram
         \cup {"testTHB", "msg_emulation", "serverNP", "serverSK", "08-Queue", "09-Queue",
               "Handshake", "JobShell", "serverNPCP", "SimpleService"}) = {}
  BY DEF FileProgram, File!Converter, File!OneThread, File!Striped, MessageProgram, CrewProgram,
         StreamProgram
<1> USE <1>2 DEF MessageProgram, InSimple, InEvent, InMulti, CrewStep
<1>3. CASE \E n \in Numbers : Thread(n)
  BY <1>3 DEF Thread
<1>4. CASE MainThread
  BY <1>4 DEF MainThread
<1>5. CASE Environment
  BY <1>5 DEF Environment
<1> QED
  BY <1>3, <1>4, <1>5 DEF ProgramsNext

\* What main does with the first thread that is where it looks, or at the end.
LEMMA ForEachStep ==
  ASSUME NEW from, NEW to, NEW end, numThreads \in Nat, Crew!ForEach(from, to, end)
  PROVE  \/ \E n \in 0 .. numThreads - 1 : Crew!CrewGoes(n, from, to) /\ crewMain' = crewMain
         \/ /\ crewMain' = end /\ crew' = crew
            /\ \A n \in 0 .. numThreads - 1 : crew[n] # from
<1> DEFINE at == {n \in 0 .. numThreads - 1 : crew[n] = from}
<1>1. CASE at = {}
  BY <1>1 DEF Crew!ForEach
<1>2. CASE at # {}
  <2>1. \E n \in at : \A m \in at : n <= m
    <3>1. at \subseteq Nat
      OBVIOUS
    <3> QED
      BY <3>1, <1>2, LeastElement
  <2>2. Crew!CrewGoes(CHOOSE n \in at : \A m \in at : n <= m, from, to) /\ crewMain' = crewMain
    BY <1>2 DEF Crew!ForEach
  <2>3. (CHOOSE n \in at : \A m \in at : n <= m) \in at
    <3> HIDE DEF at
    <3> QED
      BY <2>1
  <2> QED
    BY <2>2, <2>3
<1> QED
  BY <1>1, <1>2

LEMMA GrepBegins ==
  ASSUME Crew!WorkCrewAssumption, Crew!CrewInit
  PROVE  GrepInv
<1> SUFFICES ASSUME program = "grepMT" PROVE Searching
  BY DEF GrepInv
<1> USE DEF Crew!CrewInit, Crew!WorkCrewAssumption, Crew!Slots
<1>1. Files \in Nat \ {0} /\ numThreads = Files /\ Crew!Slots \subseteq Numbers
  OBVIOUS
<1>2. GrepTypes
  <2>1. contents \in [Crew!Slots -> {"match", "other", "missing"}]
    OBVIOUS
  <2>2. numThreads \in 0 .. Files
    BY <1>1
  <2>3. /\ crewMain \in {"create", "wait", "ended", "failed"}
        /\ crew \in [Numbers -> {"none", "start", "search", "ended"}]
    OBVIOUS
  <2>4. /\ tHandle \in [Crew!Slots -> Crew!Slots] /\ reported \in [Crew!Slots -> {0, 1}]
        /\ searched \in [Crew!Slots -> 0 .. Files]
    BY <1>1
  <2> QED
    BY <2>1, <2>2, <2>3, <2>4 DEF GrepTypes
<1>3. SlotsMoveWhole
  BY <1>1 DEF SlotsMoveWhole
<1>4. ReportedSoFar
  BY <1>1 DEF ReportedSoFar, Awaited
<1> QED
  BY <1>2, <1>3, <1>4 DEF Searching

\* A thread copies its arguments, or ends.
LEMMA GrepThreads ==
  ASSUME Crew!WorkCrewAssumption, Searching, NEW n \in Numbers, Crew!ThGrep(n) \/ Crew!ThGrepEnd(n)
  PROVE  Searching'
<1> USE DEF Crew!ThGrep, Crew!ThGrepEnd, Crew!CrewGoes, Crew!grepVars
<1>1. GrepTypes /\ SlotsMoveWhole /\ ReportedSoFar
  BY DEF Searching
<1>2. /\ crew \in [Numbers -> {"none", "start", "search", "ended"}]
      /\ searched \in [Crew!Slots -> 0 .. Files] /\ targv = tHandle
      /\ targv \in [Crew!Slots -> Crew!Slots]
  BY <1>1 DEF GrepTypes, SlotsMoveWhole
<1>3. Crew!Slots \subseteq Numbers /\ Crew!Slots \subseteq 0 .. Files
  BY DEF Crew!WorkCrewAssumption, Crew!Slots
<1>4. UNCHANGED <<crewMain, numThreads, contents, tHandle, targv, reported>>
  OBVIOUS
<1>5. /\ crew' \in [Numbers -> {"none", "start", "search", "ended"}]
      /\ \A m \in Numbers : m # n => crew'[m] = crew[m]
      /\ \/ crew[n] = "start" /\ crew'[n] = "search"
         \/ crew[n] = "search" /\ crew'[n] = "ended"
  BY <1>2
<1>6. CASE Crew!ThGrep(n)
  <2>1. searched' = [searched EXCEPT ![n] = targv[n]] /\ crew[n] = "start" /\ crew'[n] = "search"
    BY <1>2, <1>6
  <2>2. searched' \in [Crew!Slots -> 0 .. Files]
    BY <2>1, <1>2, <1>3
  <2>3. \A m \in Crew!Slots : searched'[m] = IF m = n THEN targv[n] ELSE searched[m]
    BY <2>1, <1>2
  <2>4. GrepTypes'
    BY <1>1, <1>4, <1>5, <2>2 DEF GrepTypes, Crew!Slots
  <2>5. SlotsMoveWhole'
    BY <1>1, <1>3, <1>4, <1>5, <2>1, <2>3 DEF SlotsMoveWhole, Crew!Slots
  <2> QED
    BY <2>4, <2>5, <1>1, <1>4 DEF Searching, ReportedSoFar, Awaited, Crew!Slots
<1>7. CASE Crew!ThGrepEnd(n)
  <2>1. searched' = searched /\ crew[n] = "search" /\ crew'[n] = "ended"
    BY <1>2, <1>7
  <2>2. GrepTypes'
    BY <1>1, <1>4, <1>5, <2>1 DEF GrepTypes, Crew!Slots
  <2>3. SlotsMoveWhole'
    BY <1>1, <1>3, <1>4, <1>5, <2>1 DEF SlotsMoveWhole, Crew!Slots
  <2> QED
    BY <2>2, <2>3, <1>1, <1>4 DEF Searching, ReportedSoFar, Awaited, Crew!Slots
<1> QED
  BY <1>6, <1>7

\* main creates a thread, or goes on to wait.
LEMMA GrepCreates ==
  ASSUME Crew!WorkCrewAssumption, program = "grepMT", Searching, Crew!CreateThread
  PROVE  Searching'
<1> USE DEF Searching, GrepTypes, SlotsMoveWhole, Crew!CreateThread, Crew!grepVars
<1>1. \/ \E n \in 0 .. numThreads - 1 : Crew!CrewGoes(n, "none", "start") /\ crewMain' = crewMain
      \/ crewMain' = "wait" /\ crew' = crew
  BY ForEachStep DEF Crew!Started
<1>2. /\ \A n \in Numbers : crew'[n] # crew[n] => crew[n] = "none" /\ crew'[n] = "start"
      /\ crew' \in [Numbers -> {"none", "start", "search", "ended"}]
      /\ crewMain' \in {"create", "wait"}
  BY <1>1 DEF Crew!CrewGoes
<1>3. Crew!Slots \subseteq Numbers
  BY DEF Crew!WorkCrewAssumption, Crew!Slots
<1>4. SlotsMoveWhole'
  BY <1>2, <1>3 DEF Crew!Slots
<1> QED
  BY <1>2, <1>4 DEF ReportedSoFar, Awaited, Crew!Slots

\* main reports the file of a thread that has ended, and moves the last slot.
LEMMA GrepReports ==
  ASSUME Crew!WorkCrewAssumption, Searching, Crew!ReportFile
  PROVE  Searching'
<1>1. GrepTypes /\ SlotsMoveWhole /\ ReportedSoFar
  BY DEF Searching
<1>2. /\ numThreads \in 0 .. Files /\ targv = tHandle
      /\ targv \in [Crew!Slots -> Crew!Slots] /\ reported \in [Crew!Slots -> {0, 1}]
      /\ contents \in [Crew!Slots -> {"match", "other", "missing"}]
      /\ Files \in Nat \ {0} /\ 0 .. numThreads - 1 \subseteq Crew!Slots
  BY <1>1 DEF GrepTypes, SlotsMoveWhole, Crew!WorkCrewAssumption, Crew!Slots
<1> DEFINE ended == {i \in 0 .. numThreads - 1 : crew[tHandle[i]] = "ended"}
           iThrd == CHOOSE i \in ended : \A j \in ended : i <= j
           f == targv[iThrd]
           result == contents[searched[tHandle[iThrd]]]
<1>3. /\ crewMain = "wait" /\ ended # {} /\ UNCHANGED <<crew, contents, searched>>
      /\ reported' = [reported EXCEPT ![f] = @ + IF result = "match" THEN 1 ELSE 0]
      /\ \/ /\ contents[f] = "missing" /\ crewMain' = "failed"
            /\ UNCHANGED <<tHandle, targv, numThreads>>
         \/ /\ contents[f] # "missing"
            /\ tHandle' = [tHandle EXCEPT ![iThrd] = tHandle[numThreads - 1]]
            /\ targv' = [targv EXCEPT ![iThrd] = targv[numThreads - 1]]
            /\ numThreads' = numThreads - 1
            /\ crewMain' = IF numThreads = 1 THEN "ended" ELSE "wait"
  BY DEF Crew!ReportFile, Crew!MoveLast
<1>4. iThrd \in ended
  <2>1. ended \subseteq Nat
    OBVIOUS
  <2>2. \E i \in ended : \A j \in ended : i <= j
    <3> HIDE DEF ended
    <3> QED
      BY <2>1, <1>3, LeastElement
  <2> HIDE DEF ended
  <2> QED
    BY <2>2
<1>5. iThrd \in 0 .. numThreads - 1 /\ crew[f] = "ended"
  BY <1>2, <1>4
<1> HIDE DEF iThrd, ended
<1>6. f \in Crew!Slots /\ f \in Awaited /\ searched[f] = f /\ result = contents[f]
  BY <1>1, <1>2, <1>5 DEF Awaited, SlotsMoveWhole
<1> HIDE DEF f, result
<1>7. reported[f] = 0 /\ reported' = [reported EXCEPT ![f] = IF contents[f] = "match" THEN 1 ELSE 0]
  <2>1. reported[f] = 0
    BY <1>1, <1>6 DEF ReportedSoFar
  <2>2. reported' = [reported EXCEPT ![f] = 0 + IF contents[f] = "match" THEN 1 ELSE 0]
    BY <1>3, <1>6, <2>1
  <2> QED
    BY <2>1, <2>2
<1>8. /\ reported' \in [Crew!Slots -> {0, 1}]
      /\ \A g \in Crew!Slots : reported'[g] = IF g # f THEN reported[g]
                                              ELSE IF contents[f] = "match" THEN 1 ELSE 0
  BY <1>2, <1>6, <1>7
<1>9. CASE contents[f] = "missing"
  <2>1. crewMain' = "failed" /\ UNCHANGED <<tHandle, targv, numThreads>>
    BY <1>3, <1>9
  <2>2. GrepTypes' /\ SlotsMoveWhole'
    BY <1>1, <1>3, <1>8, <2>1 DEF GrepTypes, SlotsMoveWhole, Crew!Slots
  <2>3. \A g \in Crew!Slots : reported'[g] = reported[g]
    BY <1>7, <1>8, <1>9
  <2>4. ReportedSoFar'
    BY <1>1, <1>3, <1>6, <1>9, <2>1, <2>3 DEF ReportedSoFar, Awaited, Crew!Slots
  <2> QED
    BY <2>2, <2>4 DEF Searching
<1>10. CASE contents[f] # "missing"
  <2>1. /\ targv' = [targv EXCEPT ![iThrd] = targv[numThreads - 1]] /\ tHandle' = targv'
        /\ numThreads' = numThreads - 1
        /\ crewMain' = IF numThreads = 1 THEN "ended" ELSE "wait"
    BY <1>2, <1>3, <1>10
  <2>2. /\ numThreads - 1 \in Crew!Slots /\ numThreads' \in 0 .. Files
        /\ targv' \in [Crew!Slots -> Crew!Slots]
        /\ \A i \in Crew!Slots : targv'[i] = IF i = iThrd THEN targv[numThreads - 1] ELSE targv[i]
    BY <1>2, <1>5, <2>1
  <2>3. GrepTypes'
    BY <1>1, <1>2, <1>3, <1>8, <2>1, <2>2 DEF GrepTypes, Crew!Slots
  <2>4. \A i, j \in 0 .. numThreads' - 1 : targv'[i] = targv'[j] => i = j
    BY <1>1, <1>2, <1>5, <2>1, <2>2 DEF SlotsMoveWhole
  <2>5. \A n \in Crew!Slots : crew[n] \in {"none", "start"} => targv'[n] = n
    BY <1>1, <1>5, <2>2 DEF SlotsMoveWhole, f
  <2>6. SlotsMoveWhole'
    BY <1>1, <1>3, <2>1, <2>4, <2>5 DEF SlotsMoveWhole, Crew!Slots
  <2>7. Awaited' = Awaited \ {f}
    <3>1. \A i \in 0 .. numThreads - 1 : targv[i] = f => i = iThrd
      BY <1>1, <1>5 DEF SlotsMoveWhole, f
    <3>2. \A i \in 0 .. numThreads' - 1 : targv'[i] \in Awaited /\ targv'[i] # f
      BY <1>2, <1>5, <2>1, <2>2, <3>1 DEF Awaited
    <3>3. \A i \in 0 .. numThreads - 1 :
            targv[i] # f => \E j \in 0 .. numThreads' - 1 : targv'[j] = targv[i]
      <4> SUFFICES ASSUME NEW i \in 0 .. numThreads - 1, targv[i] # f
                   PROVE  \E j \in 0 .. numThreads' - 1 : targv'[j] = targv[i]
        OBVIOUS
      <4>1. i # iThrd
        BY DEF f
      <4>2. CASE i = numThreads - 1
        BY <4>1, <4>2, <1>2, <1>5, <2>1, <2>2
      <4>3. CASE i # numThreads - 1
        BY <4>1, <4>3, <1>2, <1>5, <2>1, <2>2
      <4> QED
        BY <4>2, <4>3
    <3> QED
      BY <3>2, <3>3 DEF Awaited
  <2>8. ReportedSoFar'
    <3>1. \A g \in Crew!Slots :
            reported'[g] = IF g \in Awaited' \/ contents[g] # "match" THEN 0 ELSE 1
      BY <1>1, <1>6, <1>8, <2>7 DEF ReportedSoFar
    <3>2. crewMain' = "ended" => numThreads' = 0
      BY <1>2, <2>1
    <3>3. crewMain' # "failed"
      BY <2>1
    <3> QED
      BY <1>3, <3>1, <3>2, <3>3 DEF ReportedSoFar, Crew!Slots
  <2> QED
    BY <2>3, <2>6, <2>8 DEF Searching
<1> QED
  BY <1>9, <1>10

LEMMA GrepInvStep ==
  ASSUME Crew!WorkCrewAssumption, GrepInv, [ProgramsNext]_programVars
  PROVE  GrepInv'
<1> SUFFICES ASSUME program = "grepMT" PROVE Searching'
  BY CrewAlone DEF GrepInv
<1>1. Searching
  BY DEF GrepInv
<1>2. CASE UNCHANGED crewVars
  BY <1>1, <1>2 DEF crewVars, Searching, GrepTypes, SlotsMoveWhole, ReportedSoFar, Awaited,
     Crew!Slots
<1>3. CASE CrewStep
  <2>1. crewMain # "resume"
    BY <1>1 DEF Searching, GrepTypes
  <2>2. \/ \E n \in Numbers : Crew!ThGrep(n) \/ Crew!ThGrepEnd(n)
        \/ Crew!CreateThread \/ Crew!ReportFile
    BY <1>3, <2>1 DEF CrewStep, Crew!CrewGoesOn, Crew!CrewMainStep, Crew!ResumeThread,
       Crew!WaitForThreads
  <2> QED
    BY <1>1, <2>2, GrepThreads, GrepCreates, GrepReports
<1> QED
  BY <1>2, <1>3, CrewAlone

(***************************************************************************)
(* grepMT.c, for any number of files with any contents: however the slots  *)
(* move, main reports each file that matches once, and no other; and it    *)
(* ends without one of them only when a file is missing.                   *)
(***************************************************************************)
THEOREM SearchReported == ProgramsSpec => []ResultsReported
<1>1. ProgramsInit => GrepInv
  BY GrepBegins, ProgramsAssumption DEF ProgramsInit
<1>2. GrepInv /\ [ProgramsNext]_programVars => GrepInv'
  BY GrepInvStep, ProgramsAssumption
<1>3. GrepInv => ResultsReported
  <2> SUFFICES ASSUME program = "grepMT", Searching PROVE ResultsReported
    BY DEF GrepInv, ResultsReported, Crew!ResultsReported
  <2>1. crewMain = "ended" => Awaited = {}
    BY DEF Searching, ReportedSoFar, Awaited
  <2> QED
    BY <2>1 DEF ResultsReported, Crew!ResultsReported, Searching, ReportedSoFar, GrepTypes
<1> QED
  BY <1>1, <1>2, <1>3, PTL DEF ProgramsSpec

-----------------------------------------------------------------------------
\* Divisors, and numbers of which all are even but 1.
Divides(a, b) == \E k \in Nat : b = a * k
Doubling(a) == \A d \in Nat \ {0} : Divides(d, a) => d = 1 \/ Divides(2, d)

LEMMA Remainder ==
  ASSUME NEW a \in Nat \ {0}, NEW b \in Nat
  PROVE  (b % a = 0) <=> Divides(a, b)
<1>1. b = a * (b \div a) + (b % a) /\ b \div a \in Int /\ b % a \in 0 .. a - 1
  BY Division
<1>2. ASSUME b % a = 0
      PROVE  Divides(a, b)
  <2> DEFINE k == b \div a
  <2>1. b = a * k /\ k \in Int
    BY <1>1, <1>2
  <2> HIDE DEF k
  <2>2. k >= 0
    <3> SUFFICES ASSUME k <= -1 PROVE FALSE
      BY <2>1
    <3>1. a * k <= a * (-1)
      BY <2>1
    <3> QED
      BY <2>1, <3>1
  <2> QED
    BY <2>1, <2>2 DEF Divides
<1>3. ASSUME Divides(a, b)
      PROVE  b % a = 0
  <2>1. PICK k \in Nat : b = a * k
    BY <1>3 DEF Divides
  <2> DEFINE m == b \div a
             r == b % a
  <2>2. a * k = a * m + r /\ m \in Int /\ r \in 0 .. a - 1
    BY <1>1, <2>1
  <2> HIDE DEF m, r
  <2>3. CASE k >= m + 1
    <3>1. a * k >= a * (m + 1)
      BY <2>2, <2>3
    <3>2. a * (m + 1) = a * m + a
      BY <2>2
    <3> QED
      BY <2>2, <3>1, <3>2
  <2>4. CASE k <= m - 1
    <3>1. a * k <= a * (m - 1)
      BY <2>2, <2>4
    <3>2. a * (m - 1) = a * m - a
      BY <2>2
    <3> QED
      BY <2>2, <3>1, <3>2
  <2>5. CASE k = m
    BY <2>2, <2>5 DEF r
  <2> QED
    BY <2>2, <2>3, <2>4, <2>5
<1> QED
  BY <1>2, <1>3

LEMMA DividesTwice ==
  ASSUME NEW a \in Nat, NEW b \in Nat, NEW c \in Nat, Divides(a, b), Divides(b, c)
  PROVE  Divides(a, c)
<1>1. PICK k \in Nat : b = a * k
  BY DEF Divides
<1>2. PICK m \in Nat : c = b * m
  BY DEF Divides
<1>3. c = a * (k * m) /\ k * m \in Nat
  BY <1>1, <1>2
<1> QED
  BY <1>3 DEF Divides

LEMMA DividesSum ==
  ASSUME NEW a \in Nat, NEW b \in Nat, NEW c \in Nat, Divides(a, b), Divides(a, c)
  PROVE  Divides(a, b + c)
<1>1. PICK k \in Nat : b = a * k
  BY DEF Divides
<1>2. PICK m \in Nat : c = a * m
  BY DEF Divides
<1>3. a * k + a * m = a * (k + m) /\ k + m \in Nat
  OBVIOUS
<1> QED
  BY <1>1, <1>2, <1>3 DEF Divides

LEMMA DividesDifference ==
  ASSUME NEW a \in Nat \ {0}, NEW b \in Nat, NEW c \in Nat, Divides(a, b), Divides(a, c), b < c
  PROVE  Divides(a, c - b) /\ b + a <= c
<1>1. PICK k \in Nat : b = a * k
  BY DEF Divides
<1>2. PICK m \in Nat : c = a * m
  BY DEF Divides
<1>3. m > k
  <2> SUFFICES ASSUME m <= k PROVE FALSE
    OBVIOUS
  <2>1. a * m <= a * k
    OBVIOUS
  <2> QED
    BY <1>1, <1>2, <2>1
<1>4. m - k \in Nat \ {0}
  BY <1>3
<1>5. a * m - a * k = a * (m - k)
  OBVIOUS
<1>6. a * (m - k) >= a
  BY <1>4
<1>7. c - b = a * (m - k)
  BY <1>1, <1>2, <1>5
<1>8. Divides(a, c - b)
  BY <1>4, <1>7 DEF Divides
<1>9. c - b >= a
  BY <1>6, <1>7
<1> QED
  BY <1>8, <1>9

\* Of two divisors of a power of 2, one divides the other.
LEMMA Comparable ==
  ASSUME NEW N \in Nat \ {0}, Doubling(N)
  PROVE  \A a, b \in Nat \ {0} : Divides(a, N) /\ Divides(b, N) => Divides(a, b) \/ Divides(b, a)
<1> DEFINE T == {n \in Nat : \A a, b \in Nat \ {0} :
                   a <= n /\ Divides(a, N) /\ Divides(b, N) => Divides(a, b) \/ Divides(b, a)}
<1>1. 0 \in T
  OBVIOUS
<1>2. ASSUME NEW n \in Nat, n \in T
      PROVE  n + 1 \in T
  <2>0. SUFFICES ASSUME NEW a \in Nat \ {0}, NEW b \in Nat \ {0},
                        a <= n + 1, Divides(a, N), Divides(b, N)
                 PROVE  Divides(a, b) \/ Divides(b, a)
    OBVIOUS
  <2>1. CASE a = 1
    <3>1. b = a * b
      BY <2>1
    <3> QED
      BY <3>1 DEF Divides
  <2>2. CASE b = 1
    <3>1. a = b * a
      BY <2>2
    <3> QED
      BY <3>1 DEF Divides
  <2>3. CASE a # 1 /\ b # 1
    <3>1. Divides(2, a) /\ Divides(2, b)
      BY <2>0, <2>3 DEF Doubling
    <3>2. PICK a1 \in Nat : a = 2 * a1
      BY <3>1 DEF Divides
    <3>3. PICK b1 \in Nat : b = 2 * b1
      BY <3>1 DEF Divides
    <3>4. a1 \in Nat \ {0} /\ b1 \in Nat \ {0} /\ a1 <= n
      BY <3>2, <3>3, <2>0
    <3>5. Divides(a1, a) /\ Divides(b1, b)
      <4>1. a = a1 * 2 /\ b = b1 * 2
        BY <3>2, <3>3
      <4> QED
        BY <4>1 DEF Divides
    <3>6. Divides(a1, N) /\ Divides(b1, N)
      BY <3>4, <3>5, <2>0, DividesTwice
    <3>7. Divides(a1, b1) \/ Divides(b1, a1)
      BY <1>2, <3>4, <3>6
    <3>8. CASE Divides(a1, b1)
      <4>1. PICK k \in Nat : b1 = a1 * k
        BY <3>8 DEF Divides
      <4>2. b = a * k
        BY <4>1, <3>2, <3>3
      <4> QED
        BY <4>2 DEF Divides
    <3>9. CASE Divides(b1, a1)
      <4>1. PICK k \in Nat : a1 = b1 * k
        BY <3>9 DEF Divides
      <4>2. a = b * k
        BY <4>1, <3>2, <3>3
      <4> QED
        BY <4>2 DEF Divides
    <3> QED
      BY <3>7, <3>8, <3>9
  <2> QED
    BY <2>1, <2>2, <2>3
<1> HIDE DEF T
<1>3. Nat \subseteq T
  BY <1>1, <1>2, Induction
<1> SUFFICES ASSUME NEW a \in Nat \ {0}, NEW b \in Nat \ {0}, Divides(a, N), Divides(b, N)
             PROVE  Divides(a, b) \/ Divides(b, a)
  OBVIOUS
<1>4. a \in T
  BY <1>3
<1>5. a <= a
  OBVIOUS
<1> QED
  BY <1>4, <1>5 DEF T

\* The double of a divisor divides what a larger divisor divides.
LEMMA TwiceSmaller ==
  ASSUME NEW N \in Nat \ {0}, Doubling(N), NEW a \in Nat \ {0}, NEW b \in Nat \ {0},
         Divides(a, N), Divides(b, N), Divides(a, b), a # b
  PROVE  Divides(2 * a, b)
<1>1. PICK k \in Nat : b = a * k
  BY DEF Divides
<1>2. k # 0 /\ k # 1
  BY <1>1
<1>3. Divides(k, b)
  <2>1. b = k * a
    BY <1>1
  <2> QED
    BY <2>1 DEF Divides
<1>4. Divides(k, N)
  BY <1>3, DividesTwice
<1>5. Divides(2, k)
  BY <1>2, <1>4 DEF Doubling
<1>6. PICK m \in Nat : k = 2 * m
  BY <1>5 DEF Divides
<1>7. b = (2 * a) * m
  BY <1>1, <1>6
<1> QED
  BY <1>7 DEF Divides

\* A thread merges as often as its number allows.
LEMMA SameLevel ==
  ASSUME NEW N \in Nat \ {0}, Doubling(N), NEW a \in Nat \ {0}, NEW b \in Nat \ {0},
         Divides(a, N), Divides(b, N), NEW n \in Nat, Divides(a, n), Divides(b, n),
         ~Divides(2 * a, n), ~Divides(2 * b, n)
  PROVE  a = b
<1> SUFFICES ASSUME a # b PROVE FALSE
  OBVIOUS
<1>1. Divides(a, b) \/ Divides(b, a)
  BY Comparable
<1>2. CASE Divides(a, b)
  <2>1. Divides(2 * a, b)
    BY <1>2, TwiceSmaller
  <2> QED
    BY <2>1, DividesTwice
<1>3. CASE Divides(b, a)
  <2>1. Divides(2 * b, a)
    BY <1>3, TwiceSmaller
  <2> QED
    BY <2>1, DividesTwice
<1> QED
  BY <1>1, <1>2, <1>3

(* A function that goes step by step. *)

\* g begins with a, and F says what follows what.
Stepwise(g, S, a, N, F) ==
  /\ g \in [0 .. N -> S] /\ g[0] = a
  /\ \A k \in 1 .. N : g[k] = F[<<k, g[k - 1]>>]

\* There is one, whatever F is.
LEMMA StepsExist ==
  ASSUME NEW S, NEW a \in S, NEW N \in Nat, NEW F \in [(1 .. N) \X S -> S]
  PROVE  \E g : Stepwise(g, S, a, N, F)
<1> DEFINE Goes(n, g) == g \in [0 .. n -> S] /\ g[0] = a
                         /\ \A k \in 1 .. n : g[k] = F[<<k, g[k - 1]>>]
           T == {n \in Nat : n <= N => \E g : Goes(n, g)}
<1>1. 0 \in T
  <2>1. Goes(0, [k \in 0 .. 0 |-> a])
    OBVIOUS
  <2> QED
    BY <2>1
<1>2. ASSUME NEW n \in Nat, n \in T
      PROVE  n + 1 \in T
  <2> SUFFICES ASSUME n + 1 <= N PROVE \E h : Goes(n + 1, h)
    OBVIOUS
  <2>1. PICK g : Goes(n, g)
    BY <1>2
  <2> DEFINE h == [k \in 0 .. n + 1 |-> IF k = n + 1 THEN F[<<n + 1, g[n]>>] ELSE g[k]]
  <2>2. g[n] \in S /\ n + 1 \in 1 .. N
    BY <2>1
  <2>3. F[<<n + 1, g[n]>>] \in S
    BY <2>2
  <2>4. h \in [0 .. n + 1 -> S] /\ h[0] = a
    BY <2>1, <2>3
  <2>5. ASSUME NEW k \in 1 .. n + 1
        PROVE  h[k] = F[<<k, h[k - 1]>>]
    <3>1. CASE k = n + 1
      BY <3>1, SMTT(30)
    <3>2. CASE k # n + 1
      <4>1. k \in 1 .. n /\ k - 1 \in 0 .. n /\ k - 1 # n + 1
        BY <3>2
      <4> QED
        BY <2>1, <4>1
    <3> QED
      BY <3>1, <3>2
  <2> HIDE DEF h
  <2>6. Goes(n + 1, h)
    BY <2>4, <2>5
  <2> QED
    BY <2>6
<1> HIDE DEF T
<1>3. N \in T
  BY <1>1, <1>2, Induction
<1> QED
  BY <1>3 DEF T, Stepwise

-----------------------------------------------------------------------------
(* sortMT.c: the merge of two arrays. *)

\* g tells after how many records of the first array each record is taken.
FromFirst(g, s1, s2) ==
  g = [k \in 0 .. Len(s1) + Len(s2) |->
         IF k = 0 THEN 0
         ELSE g[k - 1] + IF Crew!TakesFirst(s1, s2, g[k - 1], k - 1 - g[k - 1]) THEN 1 ELSE 0]

LEMMA FromFirstExists ==
  ASSUME NEW s1 \in Seq(Int), NEW s2 \in Seq(Int)
  PROVE  \E g : FromFirst(g, s1, s2)
<1> DEFINE N == Len(s1) + Len(s2)
           F == [q1 \in (1 .. N) \X Int |->
                   q1[2] + IF Crew!TakesFirst(s1, s2, q1[2], q1[1] - 1 - q1[2]) THEN 1 ELSE 0]
<1>1. N \in Nat
  OBVIOUS
<1>2. F \in [(1 .. N) \X Int -> Int]
  OBVIOUS
<1>3. ASSUME NEW k \in 1 .. N, NEW a \in Int
      PROVE  F[<<k, a>>] = a + IF Crew!TakesFirst(s1, s2, a, k - 1 - a) THEN 1 ELSE 0
  OBVIOUS
<1> HIDE DEF F, N
<1>4. PICK g : Stepwise(g, Int, 0, N, F)
  <2>1. 0 \in Int
    OBVIOUS
  <2> QED
    BY <1>1, <1>2, <2>1, StepsExist, Zenon
<1>5. ASSUME NEW k \in 1 .. N
      PROVE  g[k] = g[k - 1] + IF Crew!TakesFirst(s1, s2, g[k - 1], k - 1 - g[k - 1]) THEN 1 ELSE 0
  <2>1. g[k - 1] \in Int
    BY <1>1, <1>4 DEF Stepwise
  <2> QED
    BY <1>3, <1>4, <2>1 DEF Stepwise
<1>6. g = [k \in 0 .. N |->
             IF k = 0 THEN 0
             ELSE g[k - 1] + IF Crew!TakesFirst(s1, s2, g[k - 1], k - 1 - g[k - 1]) THEN 1 ELSE 0]
  <2>1. \A k \in 0 .. N : k # 0 => k \in 1 .. N
    BY <1>1
  <2> QED
    BY <1>4, <1>5, <2>1 DEF Stepwise
<1> QED
  BY <1>6 DEF FromFirst, N

LEMMA MergedIs ==
  ASSUME NEW s1 \in Seq(Int), NEW s2 \in Seq(Int)
  PROVE  \E g : /\ FromFirst(g, s1, s2)
                /\ Crew!Merged(s1, s2) = [k \in 1 .. Len(s1) + Len(s2) |->
                     IF g[k] > g[k - 1] THEN s1[g[k]] ELSE s2[k - g[k]]]
<1> DEFINE g == CHOOSE i1 : FromFirst(i1, s1, s2)
<1>1. FromFirst(g, s1, s2)
  BY FromFirstExists
<1>2. Crew!Merged(s1, s2) = [k \in 1 .. Len(s1) + Len(s2) |->
        IF g[k] > g[k - 1] THEN s1[g[k]] ELSE s2[k - g[k]]]
  BY DEF Crew!Merged, FromFirst
<1> QED
  BY <1>1, <1>2

\* It takes no more than there is, and a record of one array at a time.
LEMMA FromEach ==
  ASSUME NEW s1 \in Seq(Int), NEW s2 \in Seq(Int), NEW g, FromFirst(g, s1, s2)
  PROVE  /\ \A k \in 0 .. Len(s1) + Len(s2) : g[k] \in 0 .. Len(s1) /\ k - g[k] \in 0 .. Len(s2)
         /\ \A k \in 1 .. Len(s1) + Len(s2) :
              g[k] = g[k - 1] + IF Crew!TakesFirst(s1, s2, g[k - 1], k - 1 - g[k - 1]) THEN 1 ELSE 0
<1> DEFINE N == Len(s1) + Len(s2)
           T == {k \in Nat : k <= N => g[k] \in 0 .. Len(s1) /\ k - g[k] \in 0 .. Len(s2)}
<1>1. N \in Nat /\ Len(s1) \in Nat /\ Len(s2) \in Nat
  OBVIOUS
<1>2. g[0] = 0
  BY DEF FromFirst
<1>3. ASSUME NEW k \in 1 .. N
      PROVE  g[k] = g[k - 1] + IF Crew!TakesFirst(s1, s2, g[k - 1], k - 1 - g[k - 1]) THEN 1 ELSE 0
  <2>1. k \in 0 .. N /\ k # 0
    BY <1>1
  <2> QED
    BY <2>1 DEF FromFirst
<1> HIDE DEF FromFirst
<1>4. 0 \in T
  BY <1>1, <1>2
<1>5. ASSUME NEW n \in Nat, n \in T
      PROVE  n + 1 \in T
  <2> SUFFICES ASSUME n + 1 <= N
               PROVE  g[n + 1] \in 0 .. Len(s1) /\ n + 1 - g[n + 1] \in 0 .. Len(s2)
    OBVIOUS
  <2>1. g[n] \in 0 .. Len(s1) /\ n - g[n] \in 0 .. Len(s2)
    BY <1>1, <1>5
  <2>2. n + 1 \in 1 .. N /\ (n + 1) - 1 = n
    BY <1>1
  <2>3. g[n + 1] = g[n] + IF Crew!TakesFirst(s1, s2, g[n], n - g[n]) THEN 1 ELSE 0
    BY <1>3, <2>2
  <2>4. CASE Crew!TakesFirst(s1, s2, g[n], n - g[n])
    <3>1. n - g[n] = Len(s2) \/ g[n] < Len(s1)
      BY <2>4 DEF Crew!TakesFirst
    <3> QED
      BY <1>1, <2>1, <2>3, <2>4, <3>1, SMTT(30)
  <2>5. CASE ~Crew!TakesFirst(s1, s2, g[n], n - g[n])
    <3>1. n - g[n] # Len(s2)
      BY <2>5 DEF Crew!TakesFirst
    <3> QED
      BY <1>1, <2>1, <2>3, <2>5, <3>1
  <2> QED
    BY <2>4, <2>5
<1> HIDE DEF T
<1>6. Nat \subseteq T
  BY <1>4, <1>5, Induction
<1>7. ASSUME NEW k \in 0 .. N
      PROVE  g[k] \in 0 .. Len(s1) /\ k - g[k] \in 0 .. Len(s2)
  <2>1. k \in T /\ k \in Nat /\ k <= N
    BY <1>1, <1>6
  <2> QED
    BY <2>1 DEF T
<1> QED
  BY <1>3, <1>7

\* The indexes only go up.
LEMMA FromEachGrows ==
  ASSUME NEW s1 \in Seq(Int), NEW s2 \in Seq(Int), NEW g, FromFirst(g, s1, s2),
         NEW j \in 0 .. Len(s1) + Len(s2)
  PROVE  \A k \in j .. Len(s1) + Len(s2) : g[j] <= g[k] /\ j - g[j] <= k - g[k]
<1> DEFINE N == Len(s1) + Len(s2)
           T == {d \in Nat : j + d <= N => g[j] <= g[j + d] /\ j - g[j] <= (j + d) - g[j + d]}
<1>1. N \in Nat /\ j \in Nat
  OBVIOUS
<1>2. ASSUME NEW k \in 0 .. N PROVE g[k] \in Int
  BY <1>1, FromEach
<1>3. ASSUME NEW k \in 1 .. N PROVE g[k] = g[k - 1] \/ g[k] = g[k - 1] + 1
  <2>1. g[k] = g[k - 1] + IF Crew!TakesFirst(s1, s2, g[k - 1], k - 1 - g[k - 1]) THEN 1 ELSE 0
    BY FromEach
  <2>2. g[k - 1] \in Int
    BY <1>1, <1>2
  <2> QED
    BY <2>1, <2>2
<1> HIDE DEF FromFirst
<1>4. 0 \in T
  BY <1>1, <1>2
<1>5. ASSUME NEW d \in Nat, d \in T
      PROVE  d + 1 \in T
  <2> SUFFICES ASSUME j + (d + 1) <= N
               PROVE  g[j] <= g[j + (d + 1)] /\ j - g[j] <= (j + (d + 1)) - g[j + (d + 1)]
    OBVIOUS
  <2>1. g[j] <= g[j + d] /\ j - g[j] <= (j + d) - g[j + d]
    BY <1>1, <1>5
  <2>2. j + (d + 1) \in 1 .. N /\ (j + (d + 1)) - 1 = j + d /\ j + d \in 0 .. N /\ j \in 0 .. N
    BY <1>1
  <2>3. g[j + (d + 1)] = g[j + d] \/ g[j + (d + 1)] = g[j + d] + 1
    BY <1>3, <2>2
  <2>4. g[j] \in Int /\ g[j + d] \in Int
    BY <1>2, <2>2
  <2> QED
    BY <1>1, <2>1, <2>3, <2>4
<1>6. Nat \subseteq T
  BY <1>4, <1>5, Induction
<1> SUFFICES ASSUME NEW k \in j .. N PROVE g[j] <= g[k] /\ j - g[j] <= k - g[k]
  OBVIOUS
<1>7. k - j \in Nat /\ j + (k - j) = k /\ k <= N
  BY <1>1
<1>8. k - j \in T
  BY <1>6, <1>7
<1> QED
  BY <1>7, <1>8

\* What the merge of two sorted arrays is: sorted, with the records of both.
MergeOf(m, s1, s2) ==
  /\ m \in Seq(Int) /\ Len(m) = Len(s1) + Len(s2) /\ Crew!Sorted(m)
  /\ \E p \in Crew!Orders(Len(s1) + Len(s2)) : \A k \in 1 .. Len(s1) + Len(s2) :
       m[k] = IF p[k] <= Len(s1) THEN s1[p[k]] ELSE s2[p[k] - Len(s1)]

LEMMA MergedSorted ==
  ASSUME NEW s1 \in Seq(Int), NEW s2 \in Seq(Int), Crew!Sorted(s1), Crew!Sorted(s2)
  PROVE  MergeOf(Crew!Merged(s1, s2), s1, s2)
<1> DEFINE l1 == Len(s1)
           l2 == Len(s2)
           N == l1 + l2
<1>1. PICK g : /\ FromFirst(g, s1, s2)
               /\ Crew!Merged(s1, s2) = [k \in 1 .. N |->
                    IF g[k] > g[k - 1] THEN s1[g[k]] ELSE s2[k - g[k]]]
  BY MergedIs
<1>2. l1 \in Nat /\ l2 \in Nat /\ N \in Nat
  OBVIOUS
<1>3. ASSUME NEW k \in 0 .. N
      PROVE  g[k] \in 0 .. l1 /\ k - g[k] \in 0 .. l2 /\ g[k] \in Int
  <2>1. g[k] \in 0 .. l1 /\ k - g[k] \in 0 .. l2
    BY <1>1, FromEach
  <2> QED
    BY <1>2, <2>1
<1>4. ASSUME NEW k \in 1 .. N
      PROVE  /\ k - 1 \in 0 .. N /\ k \in 0 .. N
             /\ Crew!TakesFirst(s1, s2, g[k - 1], k - 1 - g[k - 1]) => g[k] = g[k - 1] + 1
             /\ ~Crew!TakesFirst(s1, s2, g[k - 1], k - 1 - g[k - 1]) => g[k] = g[k - 1]
  <2>1. k - 1 \in 0 .. N /\ k \in 0 .. N
    BY <1>2
  <2>2. g[k] = g[k - 1] + IF Crew!TakesFirst(s1, s2, g[k - 1], k - 1 - g[k - 1]) THEN 1 ELSE 0
    BY <1>1, FromEach
  <2>3. g[k - 1] \in Int
    BY <1>3, <2>1
  <2> QED
    BY <2>1, <2>2, <2>3
<1>5. ASSUME NEW j \in 0 .. N, NEW k \in j .. N
      PROVE  g[j] <= g[k] /\ j - g[j] <= k - g[k]
  BY <1>1, FromEachGrows
<1> DEFINE m == Crew!Merged(s1, s2)
<1>6. m = [k \in 1 .. N |-> IF g[k] > g[k - 1] THEN s1[g[k]] ELSE s2[k - g[k]]]
  BY <1>1
<1>7. /\ \A i \in 1 .. l1 : s1[i] \in Int
      /\ \A i \in 1 .. l2 : s2[i] \in Int
      /\ \A i \in 1 .. l1 - 1 : s1[i] <= s1[i + 1]
      /\ \A i \in 1 .. l2 - 1 : s2[i] <= s2[i + 1]
  BY DEF Crew!Sorted
<1> HIDE DEF l1, l2, N, m
\* Each record is that of one array, at the index that has been reached.
<1>8. ASSUME NEW k \in 1 .. N
      PROVE  \/ g[k] > g[k - 1] /\ g[k] \in 1 .. l1 /\ m[k] = s1[g[k]]
             \/ ~(g[k] > g[k - 1]) /\ k - g[k] \in 1 .. l2 /\ m[k] = s2[k - g[k]]
  <2>1. /\ g[k - 1] \in 0 .. l1 /\ (k - 1) - g[k - 1] \in 0 .. l2 /\ g[k - 1] \in Int
        /\ g[k] \in 0 .. l1 /\ k - g[k] \in 0 .. l2 /\ g[k] \in Int
        /\ (g[k] = g[k - 1] + 1 \/ g[k] = g[k - 1])
    BY <1>3, <1>4
  <2>2. m[k] = IF g[k] > g[k - 1] THEN s1[g[k]] ELSE s2[k - g[k]]
    BY <1>6
  <2> QED
    BY <1>2, <2>1, <2>2
<1>9. m \in Seq(Int) /\ Len(m) = N
  <2>1. \A k \in 1 .. N : m[k] \in Int
    BY <1>7, <1>8
  <2>2. m \in [1 .. N -> Int]
    BY <1>6, <2>1
  <2> QED
    BY <1>2, <2>2
<1>10. ASSUME NEW k \in 1 .. N - 1
       PROVE  m[k] <= m[k + 1]
  <2> DEFINE a == g[k]
             b == k - g[k]
  <2>1. k \in 1 .. N /\ k + 1 \in 1 .. N /\ (k + 1) - 1 = k /\ k - 1 \in 0 .. N
    BY <1>2
  <2>2. a \in 0 .. l1 /\ b \in 0 .. l2 /\ a \in Int /\ g[k - 1] \in Int /\ g[k + 1] \in Int
    BY <1>3, <1>4, <2>1
  <2>3. /\ g[k] = g[k - 1] + 1 \/ g[k] = g[k - 1]
        /\ g[k + 1] = a + 1 \/ g[k + 1] = a
    <3>1. (k + 1) - 1 - g[(k + 1) - 1] = b
      BY <2>1, <2>2
    <3> QED
      BY <1>4, <2>1
  <2>0. k \in Int
    BY <1>2
  <2>4. /\ g[k] > g[k - 1] => (k - 1) - g[k - 1] = b /\ g[k - 1] = a - 1
        /\ ~(g[k] > g[k - 1]) => (k - 1) - g[k - 1] = b - 1 /\ g[k - 1] = a
    <3>1. CASE g[k] = g[k - 1] + 1
      <4>1. \A x, y, z \in Int : x = y + 1 => (z - 1) - y = z - x /\ y = x - 1 /\ x > y
        OBVIOUS
      <4>2. g[k] \in Int /\ g[k - 1] \in Int
        BY <2>2
      <4>3. (k - 1) - g[k - 1] = k - g[k]
        BY <2>0, <3>1, <4>1, <4>2
      <4>4. g[k - 1] = g[k] - 1 /\ g[k] > g[k - 1]
        BY <2>0, <3>1, <4>1, <4>2
      <4> QED
        BY <4>3, <4>4
    <3>2. CASE g[k] = g[k - 1]
      BY <2>0, <2>2, <3>2
    <3> QED
      BY <2>3, <3>1, <3>2
  <2>5. g[k] > g[k - 1] => b = l2 \/ (a - 1 < l1 /\ s1[a] <= s2[b + 1])
    <3> SUFFICES ASSUME g[k] > g[k - 1] PROVE b = l2 \/ (a - 1 < l1 /\ s1[a] <= s2[b + 1])
      OBVIOUS
    <3>1. g[k] # g[k - 1] /\ (a - 1) + 1 = a
      BY <2>2
    <3>2. Crew!TakesFirst(s1, s2, a - 1, b)
      BY <1>4, <2>1, <2>4, <3>1
    <3> QED
      BY <3>1, <3>2 DEF Crew!TakesFirst, l1, l2
  <2>6. ~(g[k] > g[k - 1]) => b - 1 # l2 /\ ~(a < l1 /\ s1[a + 1] <= s2[b])
    <3> SUFFICES ASSUME ~(g[k] > g[k - 1]) PROVE b - 1 # l2 /\ ~(a < l1 /\ s1[a + 1] <= s2[b])
      OBVIOUS
    <3>1. g[k] # g[k - 1] + 1 /\ (b - 1) + 1 = b
      BY <2>2
    <3>2. ~Crew!TakesFirst(s1, s2, a, b - 1)
      BY <1>4, <2>1, <2>4, <3>1
    <3> QED
      BY <3>1, <3>2 DEF Crew!TakesFirst, l1, l2
  <2> HIDE DEF b
  <2>7. \/ g[k] > g[k - 1] /\ a \in 1 .. l1 /\ m[k] = s1[a]
        \/ ~(g[k] > g[k - 1]) /\ b \in 1 .. l2 /\ m[k] = s2[b]
    BY <1>8, <2>1 DEF b
  <2>8. \/ g[k + 1] = a + 1 /\ a + 1 \in 1 .. l1 /\ m[k + 1] = s1[a + 1]
        \/ b + 1 \in 1 .. l2 /\ m[k + 1] = s2[b + 1]
    <3>1. \/ g[k + 1] > a /\ g[k + 1] \in 1 .. l1 /\ m[k + 1] = s1[g[k + 1]]
          \/ ~(g[k + 1] > a) /\ (k + 1) - g[k + 1] \in 1 .. l2 /\ m[k + 1] = s2[(k + 1) - g[k + 1]]
      BY <1>8, <2>1
    <3>2. CASE g[k + 1] > a
      <4>1. g[k + 1] = a + 1
        BY <2>2, <2>3, <3>2
      <4> QED
        BY <3>1, <3>2, <4>1
    <3>3. CASE ~(g[k + 1] > a)
      <4>1. g[k + 1] = a
        BY <2>2, <2>3, <3>3
      <4>2. (k + 1) - g[k + 1] = b + 1
        BY <2>0, <2>2, <4>1, SMTT(30) DEF b
      <4> QED
        BY <3>1, <3>3, <4>2
    <3> QED
      BY <3>2, <3>3
  <2> HIDE DEF a
  <2>9. a \in Int /\ b \in Int
    BY <1>2, <2>2
  <2>10. CASE g[k] > g[k - 1] /\ a \in 1 .. l1 /\ m[k] = s1[a]
    <3>1. CASE a + 1 \in 1 .. l1 /\ m[k + 1] = s1[a + 1]
      <4>1. a \in 1 .. l1 - 1
        BY <1>2, <2>9, <2>10, <3>1
      <4> QED
        BY <1>7, <2>10, <3>1, <4>1
    <3>2. CASE b + 1 \in 1 .. l2 /\ m[k + 1] = s2[b + 1]
      <4>1. b # l2
        BY <1>2, <2>9, <3>2
      <4> QED
        BY <2>5, <2>10, <3>2, <4>1
    <3> QED
      BY <2>8, <3>1, <3>2
  <2>11. CASE ~(g[k] > g[k - 1]) /\ b \in 1 .. l2 /\ m[k] = s2[b]
    <3>1. CASE a + 1 \in 1 .. l1 /\ m[k + 1] = s1[a + 1]
      <4>1. a < l1
        BY <1>2, <2>9, <3>1
      <4>2. ~(s1[a + 1] <= s2[b])
        BY <2>6, <2>11, <4>1
      <4>3. s1[a + 1] \in Int /\ s2[b] \in Int
        BY <1>7, <2>11, <3>1
      <4> QED
        BY <2>11, <3>1, <4>2, <4>3
    <3>2. CASE b + 1 \in 1 .. l2 /\ m[k + 1] = s2[b + 1]
      <4>1. b \in 1 .. l2 - 1
        BY <1>2, <2>9, <2>11, <3>2
      <4> QED
        BY <1>7, <2>11, <3>2, <4>1
    <3> QED
      BY <2>8, <3>1, <3>2
  <2> QED
    BY <2>7, <2>10, <2>11
<1>11. Crew!Sorted(m)
  BY <1>9, <1>10 DEF Crew!Sorted
<1> DEFINE p == [k \in 1 .. N |-> IF g[k] > g[k - 1] THEN g[k] ELSE l1 + (k - g[k])]
<1>12. ASSUME NEW k \in 1 .. N
       PROVE  /\ p[k] \in 1 .. N
              /\ m[k] = IF p[k] <= l1 THEN s1[p[k]] ELSE s2[p[k] - l1]
  <2>1. p[k] = IF g[k] > g[k - 1] THEN g[k] ELSE l1 + (k - g[k])
    OBVIOUS
  <2> HIDE DEF p
  <2>2. CASE g[k] > g[k - 1] /\ g[k] \in 1 .. l1 /\ m[k] = s1[g[k]]
    <3>1. p[k] = g[k] /\ p[k] <= l1 /\ p[k] \in 1 .. N
      BY <1>2, <2>1, <2>2 DEF N
    <3> QED
      BY <2>2, <3>1
  <2>3. CASE ~(g[k] > g[k - 1]) /\ k - g[k] \in 1 .. l2 /\ m[k] = s2[k - g[k]]
    <3>1. p[k] = l1 + (k - g[k]) /\ ~(p[k] <= l1) /\ p[k] - l1 = k - g[k] /\ p[k] \in 1 .. N
      BY <1>2, <2>1, <2>3, SMTT(30) DEF N
    <3> QED
      BY <2>3, <3>1
  <2> QED
    BY <1>8, <2>2, <2>3
<1>13. ASSUME NEW j \in 1 .. N, NEW k \in 1 .. N, j < k
       PROVE  p[j] # p[k]
  <2>1. /\ p[j] = IF g[j] > g[j - 1] THEN g[j] ELSE l1 + (j - g[j])
        /\ p[k] = IF g[k] > g[k - 1] THEN g[k] ELSE l1 + (k - g[k])
    OBVIOUS
  <2>2. j \in 0 .. N /\ k - 1 \in j .. N /\ k - 1 \in 0 .. N
    BY <1>2, <1>13
  <2>3. g[j] <= g[k - 1] /\ j - g[j] <= (k - 1) - g[k - 1]
    BY <1>5, <2>2
  <2>4. g[j] \in Int /\ g[k] \in Int /\ g[k - 1] \in Int /\ (g[k] = g[k - 1] + 1 \/ g[k] = g[k - 1])
    BY <1>3, <1>4, <2>2
  <2>5. /\ g[j] > g[j - 1] => g[j] \in 1 .. l1
        /\ ~(g[j] > g[j - 1]) => j - g[j] \in 1 .. l2
        /\ g[k] > g[k - 1] => g[k] \in 1 .. l1
        /\ ~(g[k] > g[k - 1]) => k - g[k] \in 1 .. l2
    BY <1>8
  <2> HIDE DEF p
  <2>6. j \in Int /\ k \in Int
    BY <1>2
  <2>7. CASE g[k] > g[k - 1]
    <3>1. p[k] = g[k] /\ g[k] = g[k - 1] + 1 /\ g[k] \in 1 .. l1
      BY <2>1, <2>4, <2>5, <2>7
    <3>2. CASE g[j] > g[j - 1]
      <4>1. p[j] = g[j]
        BY <2>1, <3>2
      <4> QED
        BY <2>3, <2>4, <3>1, <4>1
    <3>3. CASE ~(g[j] > g[j - 1])
      <4>1. p[j] = l1 + (j - g[j]) /\ j - g[j] \in 1 .. l2
        BY <2>1, <2>5, <3>3
      <4> QED
        BY <1>2, <2>4, <2>6, <3>1, <4>1
    <3> QED
      BY <3>2, <3>3
  <2>8. CASE ~(g[k] > g[k - 1])
    <3>1. p[k] = l1 + (k - g[k]) /\ g[k] = g[k - 1] /\ k - g[k] \in 1 .. l2
      BY <2>1, <2>4, <2>5, <2>8
    <3>2. CASE g[j] > g[j - 1]
      <4>1. p[j] = g[j] /\ g[j] \in 1 .. l1
        BY <2>1, <2>5, <3>2
      <4> QED
        BY <1>2, <2>4, <2>6, <3>1, <4>1
    <3>3. CASE ~(g[j] > g[j - 1])
      <4>1. p[j] = l1 + (j - g[j])
        BY <2>1, <3>3
      <4> QED
        BY <1>2, <2>3, <2>4, <2>6, <3>1, <4>1, SMTT(30)
    <3> QED
      BY <3>2, <3>3
  <2> QED
    BY <2>7, <2>8
<1>14. p \in Crew!Orders(N)
  <2>1. p \in [1 .. N -> 1 .. N]
    BY <1>12
  <2> HIDE DEF p
  <2>2. ASSUME NEW i \in 1 .. N, NEW j \in 1 .. N, p[i] = p[j] PROVE i = j
    <3>1. i \in Int /\ j \in Int
      BY <1>2
    <3>2. ~(i < j) /\ ~(j < i)
      BY <1>13, <2>2
    <3> QED
      BY <3>1, <3>2
  <2> QED
    BY <2>1, <2>2 DEF Crew!Orders
<1> HIDE DEF p
<1>15. \E q1 \in Crew!Orders(N) : \A k \in 1 .. N :
         m[k] = IF q1[k] <= l1 THEN s1[q1[k]] ELSE s2[q1[k] - l1]
  BY <1>12, <1>14
<1> QED
  BY <1>9, <1>11, <1>15 DEF MergeOf, m, N, l1, l2

-----------------------------------------------------------------------------
\* The records before those of thread n.
At(n) == Crew!nRecTh * n

SortSizes ==
  /\ nRec \in Nat \ {0} /\ numThreads \in Nat \ {0} /\ Doubling(numThreads)
  /\ Crew!nRecTh \in Nat \ {0} /\ At(numThreads) = nRec
  /\ 0 .. numThreads - 1 \subseteq Numbers /\ Numbers \subseteq Nat

LEMMA SortSizesHold ==
  ASSUME Crew!WorkCrewAssumption, numThreads \in CrewSizes
  PROVE  SortSizes
<1>1. /\ nRec \in Nat \ {0} /\ numThreads \in Nat \ {0} /\ Crew!PowerOf2(numThreads)
      /\ nRec % numThreads = 0 /\ Numbers \subseteq Nat
      /\ 0 .. numThreads - 1 \subseteq Numbers
  BY DEF Crew!WorkCrewAssumption
<1>2. Doubling(numThreads)
  <2> SUFFICES ASSUME NEW d \in Nat \ {0}, Divides(d, numThreads)
               PROVE  d = 1 \/ Divides(2, d)
    BY DEF Doubling
  <2>1. numThreads % d = 0
    BY <1>1, Remainder
  <2>2. d <= numThreads
    <3>1. PICK k \in Nat : numThreads = d * k
      BY DEF Divides
    <3>2. k >= 1
      BY <1>1, <3>1
    <3>3. d * k >= d * 1
      BY <3>2
    <3> QED
      BY <3>1, <3>3
  <2>3. d = 1 \/ d % 2 = 0
    <3>1. d \in 1 .. numThreads
      BY <1>1, <2>2
    <3> QED
      BY <1>1, <2>1, <3>1 DEF Crew!PowerOf2
  <2> QED
    BY <2>3, Remainder
<1>3. nRec = numThreads * (nRec \div numThreads) /\ nRec \div numThreads \in Int
  <2>1. nRec = numThreads * (nRec \div numThreads) + (nRec % numThreads) /\ nRec \div numThreads \in Int
    BY <1>1, Division
  <2> DEFINE d == nRec \div numThreads
  <2>2. nRec = numThreads * d + 0 /\ d \in Int
    BY <1>1, <2>1
  <2> HIDE DEF d
  <2>3. nRec = numThreads * d /\ d \in Int
    BY <1>1, <2>2
  <2> QED
    BY <2>3 DEF d
<1> DEFINE d == nRec \div numThreads
<1>4. nRec = numThreads * d /\ d \in Int /\ d = Crew!nRecTh
  BY <1>3 DEF Crew!nRecTh
<1> HIDE DEF d
<1>5. d \in Nat \ {0}
  <2> SUFFICES ASSUME d <= 0 PROVE FALSE
    BY <1>4
  <2>1. numThreads * d <= numThreads * 0
    BY <1>1, <1>4
  <2> QED
    BY <1>1, <1>4, <2>1
<1>6. d * numThreads = nRec
  BY <1>1, <1>4
<1> QED
  BY <1>1, <1>2, <1>4, <1>5, <1>6 DEF SortSizes, At

LEMMA Ats ==
  ASSUME SortSizes
  PROVE  /\ \A n \in Nat : At(n) \in Nat
         /\ \A m, n \in Nat : At(m + n) = At(m) + At(n)
         /\ \A m, n \in Nat : m <= n => At(m) <= At(n)
         /\ \A m, n \in Nat : m < n => At(m) < At(n)
         /\ At(numThreads) = nRec /\ At(0) = 0 /\ At(1) = Crew!nRecTh
<1> DEFINE d == Crew!nRecTh
<1>1. d \in Nat \ {0} /\ At(numThreads) = nRec
  BY DEF SortSizes
<1>2. \A n \in Nat : At(n) = d * n
  BY DEF At
<1> HIDE DEF d
<1>3. ASSUME NEW m \in Nat, NEW n \in Nat
      PROVE  d * n \in Nat /\ d * (m + n) = d * m + d * n
  BY <1>1
<1>4. ASSUME NEW m \in Nat, NEW n \in Nat, m < n
      PROVE  d * m < d * n
  BY <1>1, <1>4
<1>5. At(0) = 0 /\ At(1) = d
  BY <1>1, <1>2
<1>6. \A m, n \in Nat : At(n) \in Nat /\ At(m + n) = At(m) + At(n)
  BY <1>2, <1>3
<1>7. \A m, n \in Nat : m < n => At(m) < At(n)
  BY <1>2, <1>4
<1>8. \A m, n \in Nat : m <= n => At(m) <= At(n)
  <2> SUFFICES ASSUME NEW m \in Nat, NEW n \in Nat, m <= n PROVE At(m) <= At(n)
    OBVIOUS
  <2>1. At(m) \in Nat
    BY <1>6
  <2>2. m < n \/ m = n
    OBVIOUS
  <2>3. CASE m < n
    <3>1. At(m) < At(n) /\ At(n) \in Nat
      BY <1>6, <1>7, <2>3
    <3> QED
      BY <2>1, <3>1
  <2>4. CASE m = n
    BY <2>1, <2>4
  <2> QED
    BY <2>2, <2>3, <2>4
<1> QED
  BY <1>1, <1>5, <1>6, <1>7, <1>8 DEF d

\* The w records after the first f, and s in their place.
PartAt(f, w) == Crew!Part(f + 1, w)
PlacedAt(f, s) == Crew!Placed(f + 1, s)

LEMMA PartIs ==
  ASSUME nRec \in Nat, pRecords \in [1 .. nRec -> Int], NEW f \in Nat, NEW w \in Nat, f + w <= nRec
  PROVE  /\ PartAt(f, w) \in Seq(Int) /\ Len(PartAt(f, w)) = w
         /\ \A k \in 1 .. w : PartAt(f, w)[k] = pRecords[f + k]
<1>1. pRecords \in Seq(Int) /\ Len(pRecords) = nRec
  OBVIOUS
<1>2. Crew!Part(f + 1, w) = SubSeq(pRecords, f + 1, f + w)
  <2>1. f + 1 + w - 1 = f + w
    OBVIOUS
  <2> QED
    BY <2>1 DEF Crew!Part
<1>3. f + 1 \in 1 .. Len(pRecords) + 1 /\ f + w \in (f + 1) - 1 .. Len(pRecords)
  BY <1>1
<1>4. /\ SubSeq(pRecords, f + 1, f + w) \in Seq(Int)
      /\ Len(SubSeq(pRecords, f + 1, f + w)) = (f + w) - (f + 1) + 1
      /\ \A k \in 1 .. (f + w) - (f + 1) + 1 :
           SubSeq(pRecords, f + 1, f + w)[k] = pRecords[(f + 1) + k - 1]
  <2> HIDE DEF At
  <2> QED
    BY <1>1, <1>3, SubSeqProperties
<1>5. (f + w) - (f + 1) + 1 = w /\ \A k \in 1 .. w : (f + 1) + k - 1 = f + k
  OBVIOUS
<1> QED
  BY <1>2, <1>4, <1>5 DEF PartAt

LEMMA OrderedTwice ==
  ASSUME NEW N \in Nat, NEW g \in [1 .. N -> Int], NEW p \in Crew!Orders(N), NEW w \in Crew!Orders(N)
  PROVE  \E v \in Crew!Orders(N) : Crew!Ordered(Crew!Ordered(g, p), w) = Crew!Ordered(g, v)
<1>1. p \in [1 .. N -> 1 .. N] /\ \A i, j \in 1 .. N : p[i] = p[j] => i = j
  BY DEF Crew!Orders
<1>2. w \in [1 .. N -> 1 .. N] /\ \A i, j \in 1 .. N : w[i] = w[j] => i = j
  BY DEF Crew!Orders
<1> DEFINE v == [r \in 1 .. N |-> p[w[r]]]
<1>3. v \in [1 .. N -> 1 .. N]
  BY <1>1, <1>2
<1>4. ASSUME NEW i \in 1 .. N, NEW j \in 1 .. N, v[i] = v[j] PROVE i = j
  <2>1. p[w[i]] = p[w[j]] /\ w[i] \in 1 .. N /\ w[j] \in 1 .. N
    BY <1>2, <1>4
  <2>2. w[i] = w[j]
    BY <1>1, <2>1
  <2> QED
    BY <1>2, <2>2
<1>5. v \in Crew!Orders(N)
  BY <1>3, <1>4 DEF Crew!Orders
<1>6. Crew!Ordered(g, p) = [r \in 1 .. N |-> g[p[r]]] /\ Crew!Ordered(g, v) = [r \in 1 .. N |-> g[v[r]]]
  <2>1. Len(g) = N
    OBVIOUS
  <2> QED
    BY <2>1 DEF Crew!Ordered
<1> DEFINE o == [r \in 1 .. N |-> g[p[r]]]
<1>7. Len(o) = N
  BY <1>1
<1>8. Crew!Ordered(o, w) = [r \in 1 .. N |-> o[w[r]]]
  BY <1>7 DEF Crew!Ordered
<1>9. [r \in 1 .. N |-> o[w[r]]] = [r \in 1 .. N |-> g[v[r]]]
  <2>1. \A r \in 1 .. N : o[w[r]] = g[v[r]]
    BY <1>2
  <2> HIDE DEF o, v
  <2> QED
    BY <2>1
<1> QED
  BY <1>5, <1>6, <1>8, <1>9

LEMMA OrderedSame ==
  ASSUME NEW N \in Nat, NEW g \in [1 .. N -> Int]
  PROVE  \E v \in Crew!Orders(N) : g = Crew!Ordered(g, v)
<1> DEFINE v == [r \in 1 .. N |-> r]
<1>1. v \in Crew!Orders(N)
  BY DEF Crew!Orders
<1>2. Len(g) = N
  OBVIOUS
<1>3. Crew!Ordered(g, v) = g
  BY <1>2 DEF Crew!Ordered
<1> QED
  BY <1>1, <1>3

\* s has the w records after f in another order.
Rearranges(s, rec, f, w) ==
  /\ s \in Seq(Int) /\ Len(s) = w
  /\ \E p \in Crew!Orders(w) : \A k \in 1 .. w : s[k] = rec[f + p[k]]

\* rec has s after the first f records, and otherwise what was there.
Replaced(rec, f, w, s) ==
  /\ rec \in [1 .. nRec -> Int]
  /\ \A r \in 1 .. nRec : r <= f \/ r > f + w => rec[r] = pRecords[r]
  /\ \A r \in f + 1 .. f + w : rec[r] = s[r - f]
  /\ \E v \in Crew!Orders(nRec) : rec = Crew!Ordered(pRecords, v)

LEMMA PlacedIs ==
  ASSUME nRec \in Nat, pRecords \in [1 .. nRec -> Int], NEW f \in Nat, NEW w \in Nat, f + w <= nRec,
         NEW s, Rearranges(s, pRecords, f, w)
  PROVE  Replaced(PlacedAt(f, s), f, w, s)
<1>1. s \in Seq(Int) /\ Len(s) = w
  BY DEF Rearranges
<1>2. PICK p \in Crew!Orders(w) : \A k \in 1 .. w : s[k] = pRecords[f + p[k]]
  BY DEF Rearranges
<1>3. p \in [1 .. w -> 1 .. w] /\ \A i, j \in 1 .. w : p[i] = p[j] => i = j
  BY <1>2 DEF Crew!Orders
<1> DEFINE P == Crew!Placed(f + 1, s)
<1>4. P = [r \in 1 .. nRec |-> IF r \in f + 1 .. f + w THEN s[r - f] ELSE pRecords[r]]
  <2>1. f + 1 + Len(s) - 1 = f + w /\ \A r \in 1 .. nRec : r - (f + 1) + 1 = r - f
    BY <1>1
  <2> QED
    BY <2>1 DEF Crew!Placed
<1> HIDE DEF P
<1>5. ASSUME NEW r \in f + 1 .. f + w PROVE r - f \in 1 .. w /\ r \in 1 .. nRec /\ s[r - f] \in Int
  BY <1>1
<1>6. P \in [1 .. nRec -> Int]
  <2>1. \A r \in 1 .. nRec : (IF r \in f + 1 .. f + w THEN s[r - f] ELSE pRecords[r]) \in Int
    BY <1>5
  <2> QED
    BY <1>4, <2>1
<1>7. \A r \in 1 .. nRec : r <= f \/ r > f + w => P[r] = pRecords[r]
  <2> SUFFICES ASSUME NEW r \in 1 .. nRec, r <= f \/ r > f + w PROVE P[r] = pRecords[r]
    OBVIOUS
  <2>1. r \notin f + 1 .. f + w
    OBVIOUS
  <2> QED
    BY <1>4, <2>1
<1>8. \A r \in f + 1 .. f + w : P[r] = s[r - f]
  BY <1>4, <1>5
<1> DEFINE v == [r \in 1 .. nRec |-> IF r \in f + 1 .. f + w THEN f + p[r - f] ELSE r]
<1>9. ASSUME NEW r \in 1 .. nRec
      PROVE  /\ v[r] \in 1 .. nRec /\ P[r] = pRecords[v[r]]
             /\ r \in f + 1 .. f + w <=> v[r] \in f + 1 .. f + w
             /\ r \in f + 1 .. f + w => v[r] = f + p[r - f]
             /\ r \notin f + 1 .. f + w => v[r] = r
  <2>1. CASE r \in f + 1 .. f + w
    <3>1. v[r] = f + p[r - f] /\ r - f \in 1 .. w
      BY <1>5, <2>1
    <3>2. p[r - f] \in 1 .. w
      BY <1>3, <3>1
    <3>3. v[r] \in f + 1 .. f + w
      BY <3>1, <3>2
    <3>4. v[r] \in 1 .. nRec
      BY <3>3
    <3>5. P[r] = pRecords[v[r]]
      BY <1>2, <1>8, <2>1, <3>1
    <3> QED
      BY <2>1, <3>1, <3>3, <3>4, <3>5
  <2>2. CASE r \notin f + 1 .. f + w
    <3>1. v[r] = r
      BY <2>2
    <3>2. P[r] = pRecords[r]
      BY <1>4, <2>2
    <3> QED
      BY <2>2, <3>1, <3>2
  <2> QED
    BY <2>1, <2>2
<1>10. v \in [1 .. nRec -> 1 .. nRec]
  BY <1>9
<1> HIDE DEF v
<1>11. ASSUME NEW i \in 1 .. nRec, NEW j \in 1 .. nRec, v[i] = v[j] PROVE i = j
  <2>1. CASE i \in f + 1 .. f + w /\ j \in f + 1 .. f + w
    <3>1. f + p[i - f] = f + p[j - f] /\ i - f \in 1 .. w /\ j - f \in 1 .. w
      BY <1>5, <1>9, <1>11, <2>1
    <3>2. p[i - f] \in Int /\ p[j - f] \in Int
      BY <1>3, <3>1
    <3>3. p[i - f] = p[j - f]
      BY <3>1, <3>2
    <3>4. i - f = j - f
      BY <1>3, <3>1, <3>3
    <3> QED
      BY <3>4
  <2>2. CASE i \notin f + 1 .. f + w /\ j \notin f + 1 .. f + w
    BY <1>9, <1>11, <2>2
  <2> QED
    BY <1>9, <1>11, <2>1, <2>2
<1>12. v \in Crew!Orders(nRec)
  BY <1>10, <1>11 DEF Crew!Orders
<1>13. P = Crew!Ordered(pRecords, v)
  <2>1. Len(pRecords) = nRec
    OBVIOUS
  <2>2. Crew!Ordered(pRecords, v) = [r \in 1 .. nRec |-> pRecords[v[r]]]
    BY <2>1 DEF Crew!Ordered
  <2>3. P = [r \in 1 .. nRec |-> P[r]]
    BY <1>6
  <2> QED
    BY <1>9, <2>2, <2>3
<1> QED
  BY <1>6, <1>7, <1>8, <1>12, <1>13 DEF P, PlacedAt, Replaced

-----------------------------------------------------------------------------
(***************************************************************************)
(* sortMT.c: the levels of the threads, the threads that a thread has      *)
(* waited for, and what it has sorted.                                     *)
(***************************************************************************)
SortTypes ==
  /\ SortSizes
  /\ given \in [1 .. nRec -> Int] /\ pRecords \in [1 .. nRec -> Int]
  /\ crew \in [Numbers -> {"none", "suspended", "start", "join", "copy", "ended"}]
  /\ crewMain \in {"create", "resume", "wait", "ended"}
  /\ twoToI \in [Numbers -> Nat \ {0}] /\ pDest \in [Numbers -> Seq(Int)]

\* Every thread is created before one of them begins.
SortBegun ==
  /\ \A n \in 0 .. numThreads - 1 :
       /\ crewMain = "create" => crew[n] \in {"none", "suspended"}
       /\ crewMain # "create" => crew[n] # "none"
       /\ crewMain \in {"wait", "ended"} => crew[n] # "suspended"
  /\ \A n \in Numbers \ (0 .. numThreads - 1) : crew[n] = "none"
  /\ crewMain = "ended" => crew[0] = "ended"

\* A thread that merges has a partner, and it ends when it has none.
Level(N, n, at, i) ==
  /\ Divides(i, N) /\ Divides(i, n)
  /\ at \in {"none", "suspended", "start"} => i = 1
  /\ at \in {"join", "copy"} => Divides(2 * i, n) /\ i < N
  /\ at = "ended" => ~Divides(2 * i, n) \/ i >= N

\* The threads whose records it holds have ended, with no others.
Width(at, i) == IF at = "copy" THEN 2 * i ELSE i
Absorbs(n) ==
  LET w == Width(crew[n], twoToI[n]) IN
  \A m \in n + 1 .. n + w - 1 : crew[m] = "ended" /\ m + twoToI[m] <= n + w

SortedIn(rec, f, w) == \A r \in f + 1 .. f + w - 1 : rec[r] <= rec[r + 1]
SortedBy(n, rec) ==
  /\ crew[n] \in {"join", "ended"} => SortedIn(rec, At(n), At(twoToI[n]))
  /\ crew[n] = "copy" => /\ Crew!Sorted(pDest[n])
                         /\ Rearranges(pDest[n], rec, At(n), At(2 * twoToI[n]))

ThreadSorts(n) ==
  Level(numThreads, n, crew[n], twoToI[n]) /\ Absorbs(n) /\ SortedBy(n, pRecords)

Sorting ==
  /\ SortTypes /\ SortBegun
  /\ \A n \in 0 .. numThreads - 1 : ThreadSorts(n)
  /\ \E p \in Crew!Orders(nRec) : pRecords = Crew!Ordered(given, p)

SortInv == program = "sortMT" => Sorting

\* The records of a thread, and of a partner, are all there.
LEMMA Fits ==
  ASSUME SortTypes, NEW n \in 0 .. numThreads - 1, ThreadSorts(n)
  PROVE  /\ twoToI[n] \in Nat \ {0} /\ n \in Numbers
         /\ Width(crew[n], twoToI[n]) \in Nat \ {0}
         /\ n + Width(crew[n], twoToI[n]) <= numThreads
         /\ crew[n] \in {"join", "copy"} => /\ n + 2 * twoToI[n] <= numThreads
                                            /\ Divides(2 * twoToI[n], numThreads)
<1> DEFINE i == twoToI[n]
<1>1. i \in Nat \ {0} /\ n \in Numbers /\ n \in Nat /\ numThreads \in Nat \ {0} /\ n < numThreads
      /\ Doubling(numThreads)
  BY DEF SortTypes, SortSizes
<1>2. /\ Divides(i, numThreads) /\ Divides(i, n)
      /\ crew[n] \in {"join", "copy"} => Divides(2 * i, n) /\ i < numThreads
  BY DEF ThreadSorts, Level
<1> HIDE DEF i
<1>3. n + i <= numThreads
  BY <1>1, <1>2, DividesDifference
<1>4. ASSUME crew[n] \in {"join", "copy"}
      PROVE  n + 2 * i <= numThreads /\ Divides(2 * i, numThreads)
  <2>1. Divides(numThreads, numThreads)
    <3>1. numThreads = numThreads * 1
      BY <1>1
    <3> QED
      BY <3>1 DEF Divides
  <2>2. i # numThreads
    BY <1>1, <1>2, <1>4
  <2>3. Divides(2 * i, numThreads)
    BY <1>1, <1>2, <2>1, <2>2, TwiceSmaller
  <2>4. 2 * i \in Nat \ {0}
    BY <1>1
  <2>5. n + 2 * i <= numThreads
    BY <1>1, <1>2, <1>4, <2>3, <2>4, DividesDifference
  <2> QED
    BY <2>3, <2>5
<1>5. CASE crew[n] = "copy"
  <2>1. Width(crew[n], i) = 2 * i
    BY <1>5 DEF Width
  <2> QED
    BY <1>1, <1>4, <1>5, <2>1 DEF i
<1>6. CASE crew[n] # "copy"
  <2>1. Width(crew[n], i) = i
    BY <1>6 DEF Width
  <2> QED
    BY <1>1, <1>3, <1>4, <2>1 DEF i
<1> QED
  BY <1>5, <1>6

\* The records of two threads are apart, unless one holds those of the other.
LEMMA RecordsApart ==
  ASSUME SortTypes, NEW n \in 0 .. numThreads - 1, ThreadSorts(n),
         NEW t \in 0 .. numThreads - 1, ThreadSorts(t), n # t, crew[t] # "ended"
  PROVE  \/ n + Width(crew[n], twoToI[n]) <= t
         \/ t + Width(crew[t], twoToI[t]) <= n
         \/ t < n /\ crew[n] = "ended" /\ n + twoToI[n] <= t + Width(crew[t], twoToI[t])
<1> DEFINE wn == Width(crew[n], twoToI[n])
           wt == Width(crew[t], twoToI[t])
<1>1. wn \in Nat \ {0} /\ wt \in Nat \ {0}
  BY Fits
<1>2. \A m \in n + 1 .. n + wn - 1 : crew[m] = "ended"
  BY DEF ThreadSorts, Absorbs
<1>3. \A m \in t + 1 .. t + wt - 1 : crew[m] = "ended" /\ m + twoToI[m] <= t + wt
  BY DEF ThreadSorts, Absorbs
<1>4. t \notin n + 1 .. n + wn - 1
  BY <1>2
<1>5. n \in Nat /\ t \in Nat
  BY DEF SortTypes, SortSizes
<1> HIDE DEF wn, wt
<1>6. CASE n < t
  BY <1>1, <1>4, <1>5, <1>6 DEF wn
<1>7. CASE t < n /\ ~(t + wt <= n)
  <2>1. n \in t + 1 .. t + wt - 1
    BY <1>1, <1>5, <1>7
  <2> QED
    BY <1>3, <1>7, <2>1 DEF wt
<1> QED
  BY <1>5, <1>6, <1>7 DEF wt

\* A step of thread t on its own records leaves the other threads what they have.
LEMMA OthersSorted ==
  ASSUME SortTypes, \A n \in 0 .. numThreads - 1 : ThreadSorts(n),
         NEW t \in 0 .. numThreads - 1, crew[t] # "ended", numThreads' = numThreads,
         \A n \in (0 .. numThreads - 1) \ {t} :
           crew'[n] = crew[n] /\ twoToI'[n] = twoToI[n] /\ pDest'[n] = pDest[n],
         LET f == At(t)
             w == At(Width(crew[t], twoToI[t]))
         IN  \/ pRecords' = pRecords
             \/ /\ \A r \in 1 .. nRec : r <= f \/ r > f + w => pRecords'[r] = pRecords[r]
                /\ SortedIn(pRecords', f, w)
  PROVE  \A n \in (0 .. numThreads - 1) \ {t} : ThreadSorts(n)'
<1> SUFFICES ASSUME NEW n \in (0 .. numThreads - 1) \ {t} PROVE ThreadSorts(n)'
  OBVIOUS
<1>1. /\ ThreadSorts(n) /\ ThreadSorts(t) /\ n \in Nat /\ t \in Nat
      /\ numThreads \in Nat
  BY DEF SortTypes, SortSizes
<1>2. crew'[n] = crew[n] /\ twoToI'[n] = twoToI[n] /\ pDest'[n] = pDest[n]
  OBVIOUS
<1> DEFINE wn == Width(crew[n], twoToI[n])
           wt == Width(crew[t], twoToI[t])
<1>3. /\ wn \in Nat \ {0} /\ wt \in Nat \ {0} /\ n + wn <= numThreads /\ t + wt <= numThreads
      /\ twoToI[n] \in Nat \ {0}
  BY <1>1, Fits
<1>4. Level(numThreads, n, crew'[n], twoToI'[n])
  BY <1>1, <1>2 DEF ThreadSorts
<1>5. Absorbs(n)'
  <2>1. \A m \in n + 1 .. n + wn - 1 : crew[m] = "ended" /\ m + twoToI[m] <= n + wn
    BY <1>1 DEF ThreadSorts, Absorbs
  <2>2. Width(crew[n], twoToI[n])' = wn
    BY <1>2 DEF Width
  <2> HIDE DEF wn
  <2>3. \A m \in n + 1 .. n + wn - 1 : crew'[m] = "ended" /\ m + twoToI'[m] <= n + wn
    <3> SUFFICES ASSUME NEW m \in n + 1 .. n + wn - 1
                 PROVE  crew'[m] = "ended" /\ m + twoToI'[m] <= n + wn
      OBVIOUS
    <3>1. m \in 0 .. numThreads - 1
      BY <1>1, <1>3
    <3>2. crew[m] = "ended" /\ m + twoToI[m] <= n + wn
      BY <2>1
    <3>3. m # t
      BY <3>2
    <3> QED
      BY <3>1, <3>2, <3>3
  <2> QED
    BY <2>2, <2>3 DEF Absorbs
<1>6. \A m \in Nat : At(m)' = At(m)
  BY DEF At, Crew!nRecTh
<1>7. SortedBy(n, pRecords)
  BY <1>1 DEF ThreadSorts
<1>8. CASE pRecords' = pRecords
  <2>1. SortedBy(n, pRecords)'
    BY <1>2, <1>3, <1>6, <1>7, <1>8 DEF SortedBy
  <2> QED
    BY <1>4, <1>5, <2>1 DEF ThreadSorts
<1>9. CASE /\ \A r \in 1 .. nRec : r <= At(t) \/ r > At(t) + At(wt) => pRecords'[r] = pRecords[r]
           /\ SortedIn(pRecords', At(t), At(wt))
  <2>1. /\ At(n) \in Nat /\ At(wn) \in Nat /\ At(t) \in Nat /\ At(wt) \in Nat
        /\ At(n + wn) = At(n) + At(wn) /\ At(t + wt) = At(t) + At(wt)
        /\ At(n + wn) <= nRec /\ At(t + wt) <= nRec
        /\ n + wn <= t => At(n + wn) <= At(t)
        /\ t + wt <= n => At(t + wt) <= At(n)
        /\ t < n => At(t) <= At(n)
        /\ At(n + twoToI[n]) = At(n) + At(twoToI[n]) /\ At(twoToI[n]) \in Nat
        /\ n + twoToI[n] <= t + wt => At(n + twoToI[n]) <= At(t + wt)
    <3>0. SortSizes
      BY DEF SortTypes
    <3> HIDE DEF wn, wt
    <3>1. /\ SortSizes /\ numThreads \in Nat /\ n + wn \in Nat /\ t + wt \in Nat
          /\ n + twoToI[n] \in Nat
      BY <1>1, <1>3, <3>0
    <3>2. /\ At(n) \in Nat /\ At(wn) \in Nat /\ At(t) \in Nat /\ At(wt) \in Nat /\ At(twoToI[n]) \in Nat
      BY <1>1, <1>3, <3>1, Ats
    <3>3. /\ At(n + wn) = At(n) + At(wn) /\ At(t + wt) = At(t) + At(wt)
          /\ At(n + twoToI[n]) = At(n) + At(twoToI[n])
      BY <1>1, <1>3, <3>1, Ats
    <3>4. At(n + wn) <= nRec /\ At(t + wt) <= nRec
      <4>1. At(numThreads) = nRec /\ \A m \in Nat : m <= numThreads => At(m) <= At(numThreads)
        BY <3>1, Ats
      <4> QED
        BY <1>3, <3>1, <4>1
    <3>5. /\ n + wn <= t => At(n + wn) <= At(t)
          /\ t + wt <= n => At(t + wt) <= At(n)
          /\ n + twoToI[n] <= t + wt => At(n + twoToI[n]) <= At(t + wt)
      BY <1>1, <1>3, <3>1, Ats
    <3>6. t < n => At(t) <= At(n)
      BY <1>1, <3>1, Ats
    <3> QED
      BY <3>2, <3>3, <3>4, <3>5, <3>6
  <2>2. \/ n + wn <= t
        \/ t + wt <= n
        \/ t < n /\ crew[n] = "ended" /\ n + twoToI[n] <= t + wt
    BY <1>1, RecordsApart
  <2>3. crew[n] = "copy" => wn = 2 * twoToI[n]
    BY DEF Width
  <2>4. crew[n] # "copy" => wn = twoToI[n]
    BY DEF Width
  <2>5. nRec \in Nat
    BY DEF SortTypes, SortSizes
  <2> HIDE DEF wn, wt
  <2>6. ASSUME n + wn <= t \/ t + wt <= n
        PROVE  SortedBy(n, pRecords')
    <3>1. \A r \in At(n) + 1 .. At(n) + At(wn) : pRecords'[r] = pRecords[r]
      <4> SUFFICES ASSUME NEW r \in At(n) + 1 .. At(n) + At(wn) PROVE pRecords'[r] = pRecords[r]
        OBVIOUS
      <4>1. r \in 1 .. nRec
        BY <2>1, <2>5
      <4>2. r <= At(t) \/ r > At(t) + At(wt)
        BY <2>1, <2>6
      <4> QED
        BY <1>9, <4>1, <4>2
    <3>2. CASE crew[n] \in {"join", "ended"}
      <4>1. SortedIn(pRecords, At(n), At(wn)) /\ wn = twoToI[n]
        BY <1>7, <2>4, <3>2 DEF SortedBy
      <4>2. SortedIn(pRecords', At(n), At(wn))
        <5> SUFFICES ASSUME NEW r \in At(n) + 1 .. At(n) + At(wn) - 1
                     PROVE  pRecords'[r] <= pRecords'[r + 1]
          BY DEF SortedIn
        <5>1. r \in At(n) + 1 .. At(n) + At(wn) /\ r + 1 \in At(n) + 1 .. At(n) + At(wn)
          BY <2>1
        <5>2. pRecords[r] <= pRecords[r + 1]
          BY <4>1 DEF SortedIn
        <5> QED
          BY <3>1, <5>1, <5>2
      <4> QED
        BY <3>2, <4>1, <4>2 DEF SortedBy
    <3>3. CASE crew[n] = "copy"
      <4>1. Crew!Sorted(pDest[n]) /\ Rearranges(pDest[n], pRecords, At(n), At(wn)) /\ wn = 2 * twoToI[n]
        BY <1>7, <2>3, <3>3 DEF SortedBy
      <4>2. PICK p \in Crew!Orders(At(wn)) :
              \A k \in 1 .. At(wn) : pDest[n][k] = pRecords[At(n) + p[k]]
        BY <4>1 DEF Rearranges
      <4>3. \A k \in 1 .. At(wn) : pDest[n][k] = pRecords'[At(n) + p[k]]
        <5> SUFFICES ASSUME NEW k \in 1 .. At(wn) PROVE pDest[n][k] = pRecords'[At(n) + p[k]]
          OBVIOUS
        <5>1. p[k] \in 1 .. At(wn)
          BY <4>2 DEF Crew!Orders
        <5>2. At(n) + p[k] \in At(n) + 1 .. At(n) + At(wn)
          BY <2>1, <5>1
        <5> QED
          BY <3>1, <4>2, <5>2
      <4>4. Rearranges(pDest[n], pRecords', At(n), At(wn))
        BY <4>1, <4>2, <4>3 DEF Rearranges
      <4> QED
        BY <3>3, <4>1, <4>4 DEF SortedBy
    <3> QED
      BY <3>2, <3>3 DEF SortedBy
  <2>7. ASSUME t < n /\ crew[n] = "ended" /\ n + twoToI[n] <= t + wt
        PROVE  SortedBy(n, pRecords')
    <3>1. At(t) <= At(n) /\ At(n) + At(twoToI[n]) <= At(t) + At(wt)
      BY <2>1, <2>7
    <3>2. \A r \in At(n) + 1 .. At(n) + At(twoToI[n]) - 1 : r \in At(t) + 1 .. At(t) + At(wt) - 1
      BY <2>1, <3>1
    <3>3. SortedIn(pRecords', At(n), At(twoToI[n]))
      BY <1>9, <3>2 DEF SortedIn
    <3> QED
      BY <2>7, <3>3 DEF SortedBy
  <2>8. SortedBy(n, pRecords')
    BY <2>2, <2>6, <2>7
  <2>9. SortedBy(n, pRecords)'
    BY <1>2, <1>3, <1>6, <2>8 DEF SortedBy
  <2> QED
    BY <1>4, <1>5, <2>9 DEF ThreadSorts
<1> QED
  BY <1>8, <1>9

LEMMA AgainIs ==
  ASSUME SortSizes, NEW n \in Nat, NEW i \in Nat \ {0}
  PROVE  Crew!MergesAgain(n, i) <=> Divides(2 * i, n) /\ i < numThreads
<1>1. n % (2 * i) = 0 <=> Divides(2 * i, n)
  <2>1. 2 * i \in Nat \ {0}
    OBVIOUS
  <2> HIDE DEF Divides
  <2> QED
    BY <2>1, Remainder
<1>2. Crew!nRecTh * i < nRec <=> i < numThreads
  <2>1. At(i) < nRec <=> i < numThreads
    <3>1. numThreads \in Nat /\ At(numThreads) = nRec
      BY DEF SortSizes
    <3>2. i < numThreads => At(i) < At(numThreads)
      BY <3>1, Ats
    <3>3. numThreads <= i => At(numThreads) <= At(i)
      BY <3>1, Ats
    <3>4. At(i) \in Nat /\ At(numThreads) \in Nat
      BY <3>1, Ats
    <3> QED
      BY <3>1, <3>2, <3>3, <3>4
  <2> QED
    BY <2>1 DEF At
<1> QED
  BY <1>1, <1>2 DEF Crew!MergesAgain

LEMMA FirstIs ==
  ASSUME SortSizes, NEW n \in Nat
  PROVE  Crew!First(n) = At(n) + 1
BY DEF Crew!First, At

LEMMA OrderKept ==
  ASSUME Sorting, NEW v \in Crew!Orders(nRec), pRecords' = Crew!Ordered(pRecords, v), given' = given
  PROVE  \E p \in Crew!Orders(nRec) : pRecords' = Crew!Ordered(given', p)
<1>1. nRec \in Nat /\ given \in [1 .. nRec -> Int]
  BY DEF Sorting, SortTypes, SortSizes
<1>2. PICK p \in Crew!Orders(nRec) : pRecords = Crew!Ordered(given, p)
  BY DEF Sorting
<1>3. \E w \in Crew!Orders(nRec) : Crew!Ordered(Crew!Ordered(given, p), v) = Crew!Ordered(given, w)
  BY <1>1, OrderedTwice
<1> QED
  BY <1>2, <1>3

\* What is placed in order is in order there.
LEMMA PlacedInOrder ==
  ASSUME NEW f \in Nat, NEW w \in Nat, NEW s, Len(s) = w, Crew!Sorted(s), NEW rec,
         \A r \in f + 1 .. f + w : rec[r] = s[r - f]
  PROVE  SortedIn(rec, f, w)
<1> SUFFICES ASSUME NEW r \in f + 1 .. f + w - 1 PROVE rec[r] <= rec[r + 1]
  BY DEF SortedIn
<1>1. r \in f + 1 .. f + w /\ r + 1 \in f + 1 .. f + w /\ (r + 1) - f = (r - f) + 1
      /\ r - f \in 1 .. w - 1
  OBVIOUS
<1>2. s[r - f] <= s[(r - f) + 1]
  BY <1>1 DEF Crew!Sorted
<1>3. rec[r] = s[r - f] /\ rec[r + 1] = s[(r - f) + 1]
  BY <1>1
<1> QED
  BY <1>2, <1>3

-----------------------------------------------------------------------------
LEMMA SortBegins ==
  ASSUME Crew!WorkCrewAssumption, Crew!CrewInit
  PROVE  SortInv
<1> SUFFICES ASSUME program = "sortMT" PROVE Sorting
  BY DEF SortInv
<1>1. /\ numThreads \in CrewSizes /\ given \in [1 .. nRec -> SortKeys] /\ pRecords = given
      /\ crew = [n \in Numbers |-> "none"] /\ crewMain = "create"
      /\ twoToI = [n \in Numbers |-> 1] /\ pDest = [n \in Numbers |-> <<>>]
  BY DEF Crew!CrewInit
<1>2. SortSizes
  BY <1>1, SortSizesHold
<1>3. given \in [1 .. nRec -> Int] /\ pRecords \in [1 .. nRec -> Int] /\ nRec \in Nat
  BY <1>1 DEF Crew!WorkCrewAssumption
<1>4. SortTypes
  BY <1>1, <1>2, <1>3 DEF SortTypes
<1>5. SortBegun
  <2>1. 0 .. numThreads - 1 \subseteq Numbers
    BY <1>2 DEF SortSizes
  <2> QED
    BY <1>1, <2>1 DEF SortBegun
<1>6. ASSUME NEW n \in 0 .. numThreads - 1 PROVE ThreadSorts(n)
  <2>1. crew[n] = "none" /\ twoToI[n] = 1 /\ n \in Nat /\ numThreads \in Nat
    BY <1>1, <1>2 DEF SortSizes
  <2>2. Divides(1, n) /\ Divides(1, numThreads)
    <3>1. n = 1 * n /\ numThreads = 1 * numThreads
      BY <2>1
    <3> QED
      BY <2>1, <3>1 DEF Divides
  <2>3. Level(numThreads, n, crew[n], twoToI[n])
    BY <2>1, <2>2 DEF Level
  <2>4. Absorbs(n)
    <3>1. Width(crew[n], twoToI[n]) = 1
      BY <2>1 DEF Width
    <3>2. n + 1 .. n + 1 - 1 = {}
      BY <2>1
    <3> QED
      BY <3>1, <3>2 DEF Absorbs
  <2> QED
    BY <2>1, <2>3, <2>4 DEF ThreadSorts, SortedBy
<1>7. \E p \in Crew!Orders(nRec) : pRecords = Crew!Ordered(given, p)
  BY <1>1, <1>3, OrderedSame
<1> QED
  BY <1>4, <1>5, <1>6, <1>7 DEF Sorting

\* A step that leaves threads, levels and records as they are.
LEMMA SameThreads ==
  ASSUME Sorting, UNCHANGED <<crew, numThreads, given, pRecords, twoToI, pDest>>
  PROVE  /\ \A n \in 0 .. numThreads' - 1 : ThreadSorts(n)'
         /\ \E p \in Crew!Orders(nRec) : pRecords' = Crew!Ordered(given', p)
         /\ SortSizes'
<1>1. ASSUME NEW n \in 0 .. numThreads - 1 PROVE ThreadSorts(n)'
  <2>1. ThreadSorts(n)
    BY DEF Sorting
  <2>2. \A m \in Int : At(m)' = At(m)
    BY DEF At, Crew!nRecTh
  <2> QED
    BY <2>1, <2>2 DEF ThreadSorts, Level, Absorbs, SortedBy, At, Crew!nRecTh
<1>2. \E p \in Crew!Orders(nRec) : pRecords' = Crew!Ordered(given', p)
  BY DEF Sorting
<1>3. SortSizes'
  BY DEF Sorting, SortTypes, SortSizes, At, Crew!nRecTh
<1> QED
  BY <1>1, <1>2, <1>3

\* main creates or resumes a thread.
LEMMA MainStarts ==
  ASSUME Sorting, NEW t \in 0 .. numThreads - 1, NEW from \in {"none", "suspended"},
         NEW to \in {"suspended", "start"}, Crew!CrewGoes(t, from, to),
         UNCHANGED <<numThreads, given, pRecords, twoToI, pDest>>
  PROVE  /\ \A n \in 0 .. numThreads' - 1 : ThreadSorts(n)'
         /\ \E p \in Crew!Orders(nRec) : pRecords' = Crew!Ordered(given', p)
         /\ SortSizes'
<1>1. SortTypes /\ ThreadSorts(t) /\ \A n \in 0 .. numThreads - 1 : ThreadSorts(n)
  BY DEF Sorting
<1>2. /\ crew \in [Numbers -> {"none", "suspended", "start", "join", "copy", "ended"}]
      /\ 0 .. numThreads - 1 \subseteq Numbers /\ t \in Nat
  BY <1>1 DEF SortTypes, SortSizes
<1>3. crew[t] = from /\ crew' = [crew EXCEPT ![t] = to]
  BY DEF Crew!CrewGoes
<1>4. crew'[t] = to /\ \A n \in (0 .. numThreads - 1) \ {t} : crew'[n] = crew[n]
  BY <1>2, <1>3
<1>5. \A n \in (0 .. numThreads - 1) \ {t} : ThreadSorts(n)'
  BY <1>1, <1>3, <1>4, OthersSorted
<1>6. ThreadSorts(t)'
  <2>1. Level(numThreads, t, crew[t], twoToI[t]) /\ twoToI[t] = 1
    BY <1>1, <1>3 DEF ThreadSorts, Level
  <2>2. Level(numThreads, t, crew'[t], twoToI[t])
    BY <1>4, <2>1 DEF Level
  <2>3. Absorbs(t)'
    <3>1. Width(crew[t], twoToI[t])' = 1
      BY <1>4, <2>1 DEF Width
    <3>2. t + 1 .. t + 1 - 1 = {}
      BY <1>2
    <3> QED
      BY <3>1, <3>2 DEF Absorbs
  <2> QED
    BY <1>4, <2>2, <2>3 DEF ThreadSorts, SortedBy
<1>7. \E p \in Crew!Orders(nRec) : pRecords' = Crew!Ordered(given', p)
  BY DEF Sorting
<1>8. SortSizes'
  BY <1>1 DEF SortTypes, SortSizes, At, Crew!nRecTh
<1> QED
  BY <1>5, <1>6, <1>7, <1>8

LEMMA MainSorts ==
  ASSUME program = "sortMT", Sorting, Crew!CrewMainStep
  PROVE  Sorting'
<1>1. SortTypes /\ SortBegun
  BY DEF Sorting
<1>2. /\ numThreads \in Nat \ {0} /\ 0 .. numThreads - 1 \subseteq Numbers
      /\ crew \in [Numbers -> {"none", "suspended", "start", "join", "copy", "ended"}]
      /\ crewMain \in {"create", "resume", "wait", "ended"}
  BY <1>1 DEF SortTypes, SortSizes
<1>3. UNCHANGED <<numThreads, given, pRecords, twoToI, pDest>>
  BY DEF Crew!CrewMainStep, Crew!CreateThread, Crew!ResumeThread, Crew!WaitForThreads,
     Crew!ReportFile, Crew!sortVars
<1>4. ASSUME SortSizes', SortBegun', crewMain' \in {"create", "resume", "wait", "ended"},
             crew' \in [Numbers -> {"none", "suspended", "start", "join", "copy", "ended"}],
             \A n \in 0 .. numThreads' - 1 : ThreadSorts(n)',
             \E p \in Crew!Orders(nRec) : pRecords' = Crew!Ordered(given', p)
      PROVE  Sorting'
  <2>1. SortTypes'
    BY <1>1, <1>3, <1>4 DEF SortTypes
  <2> QED
    BY <1>4, <2>1 DEF Sorting
<1>5. CASE Crew!CreateThread
  <2>1. crewMain = "create" /\ Crew!ForEach("none", "suspended", "resume")
    BY <1>5 DEF Crew!CreateThread, Crew!Started
  <2>2. CASE \E n \in 0 .. numThreads - 1 : Crew!CrewGoes(n, "none", "suspended") /\ crewMain' = crewMain
    <3>1. PICK t \in 0 .. numThreads - 1 : Crew!CrewGoes(t, "none", "suspended") /\ crewMain' = crewMain
      BY <2>2
    <3>2. crew[t] = "none" /\ crew' = [crew EXCEPT ![t] = "suspended"]
      BY <3>1 DEF Crew!CrewGoes
    <3>3. SortBegun'
      BY <1>1, <1>2, <1>3, <2>1, <3>1, <3>2 DEF SortBegun
    <3>4. crew' \in [Numbers -> {"none", "suspended", "start", "join", "copy", "ended"}]
      BY <1>2, <3>2
    <3> QED
      BY <1>3, <1>4, <2>1, <3>1, <3>3, <3>4, MainStarts
  <2>3. CASE crewMain' = "resume" /\ crew' = crew /\ \A n \in 0 .. numThreads - 1 : crew[n] # "none"
    <3>1. SortBegun'
      BY <1>1, <1>2, <1>3, <2>1, <2>3 DEF SortBegun
    <3> QED
      BY <1>2, <1>3, <1>4, <2>3, <3>1, SameThreads
  <2> QED
    BY <1>2, <2>1, <2>2, <2>3, ForEachStep
<1>6. CASE Crew!ResumeThread
  <2>1. crewMain = "resume" /\ Crew!ForEach("suspended", "start", "wait")
    BY <1>6 DEF Crew!ResumeThread
  <2>2. CASE \E n \in 0 .. numThreads - 1 : Crew!CrewGoes(n, "suspended", "start") /\ crewMain' = crewMain
    <3>1. PICK t \in 0 .. numThreads - 1 : Crew!CrewGoes(t, "suspended", "start") /\ crewMain' = crewMain
      BY <2>2
    <3>2. crew[t] = "suspended" /\ crew' = [crew EXCEPT ![t] = "start"]
      BY <3>1 DEF Crew!CrewGoes
    <3>3. SortBegun'
      BY <1>1, <1>2, <1>3, <2>1, <3>1, <3>2 DEF SortBegun
    <3>4. crew' \in [Numbers -> {"none", "suspended", "start", "join", "copy", "ended"}]
      BY <1>2, <3>2
    <3> QED
      BY <1>3, <1>4, <2>1, <3>1, <3>3, <3>4, MainStarts
  <2>3. CASE crewMain' = "wait" /\ crew' = crew /\ \A n \in 0 .. numThreads - 1 : crew[n] # "suspended"
    <3>1. SortBegun'
      BY <1>1, <1>2, <1>3, <2>1, <2>3 DEF SortBegun
    <3> QED
      BY <1>2, <1>3, <1>4, <2>3, <3>1, SameThreads
  <2> QED
    BY <1>2, <2>1, <2>2, <2>3, ForEachStep
<1>7. CASE Crew!WaitForThreads
  <2>1. crewMain = "wait" /\ crewMain' = "ended" /\ crew' = crew /\ crew[0] \in {"none", "ended"}
    BY <1>7 DEF Crew!WaitForThreads, Crew!MainIs, Crew!WaitIsOver
  <2>2. crew[0] = "ended"
    BY <1>1, <1>2, <2>1 DEF SortBegun
  <2>3. SortBegun'
    BY <1>1, <1>2, <1>3, <2>1, <2>2 DEF SortBegun
  <2> QED
    BY <1>2, <1>3, <1>4, <2>1, <2>3, SameThreads
<1>8. ~Crew!ReportFile
  BY DEF Crew!ReportFile
<1> QED
  BY <1>5, <1>6, <1>7, <1>8 DEF Crew!CrewMainStep

\* A step of a thread that has begun and not ended.
LEMMA ThreadTakesStep ==
  ASSUME Sorting, NEW t \in 0 .. numThreads - 1, NEW to \in {"join", "copy", "ended"},
         crew[t] \in {"start", "join", "copy"}, crew' = [crew EXCEPT ![t] = to],
         UNCHANGED <<crewMain, numThreads, given>>
  PROVE  /\ SortBegun'
         /\ crew' \in [Numbers -> {"none", "suspended", "start", "join", "copy", "ended"}]
         /\ crewMain' \in {"create", "resume", "wait", "ended"}
         /\ crew'[t] = to /\ \A n \in Numbers \ {t} : crew'[n] = crew[n]
         /\ t \in Numbers
<1>1. SortTypes /\ SortBegun
  BY DEF Sorting
<1>2. /\ numThreads \in Nat \ {0} /\ 0 .. numThreads - 1 \subseteq Numbers
      /\ crew \in [Numbers -> {"none", "suspended", "start", "join", "copy", "ended"}]
      /\ crewMain \in {"create", "resume", "wait", "ended"} /\ t \in Numbers
  BY <1>1 DEF SortTypes, SortSizes
<1>3. /\ crew' \in [Numbers -> {"none", "suspended", "start", "join", "copy", "ended"}]
      /\ crew'[t] = to /\ \A n \in Numbers \ {t} : crew'[n] = crew[n]
  BY <1>2
<1>4. SortBegun'
  <2>1. ASSUME NEW n \in 0 .. numThreads - 1
        PROVE  /\ crewMain = "create" => crew'[n] \in {"none", "suspended"}
               /\ crewMain # "create" => crew'[n] # "none"
               /\ crewMain \in {"wait", "ended"} => crew'[n] # "suspended"
    <3>1. CASE n = t
      BY <1>1, <1>3, <3>1 DEF SortBegun
    <3>2. CASE n # t
      <4>1. crew'[n] = crew[n]
        BY <1>2, <1>3, <3>2
      <4> QED
        BY <1>1, <4>1 DEF SortBegun
    <3> QED
      BY <3>1, <3>2
  <2>2. crewMain = "ended" => crew'[0] = "ended"
    <3> SUFFICES ASSUME crewMain = "ended" PROVE crew'[0] = "ended"
      OBVIOUS
    <3>1. crew[0] = "ended" /\ 0 \in Numbers
      BY <1>1, <1>2 DEF SortBegun
    <3> QED
      BY <1>3, <3>1
  <2>3. \A n \in Numbers \ (0 .. numThreads - 1) : crew'[n] = "none"
    BY <1>1, <1>3 DEF SortBegun
  <2> QED
    BY <2>1, <2>2, <2>3 DEF SortBegun
<1> QED
  BY <1>2, <1>3, <1>4

\* A step that keeps what every thread has, and the records.
LEMMA SortingKept ==
  ASSUME Sorting, NEW t \in 0 .. numThreads - 1, SortBegun', ThreadSorts(t)',
         \A n \in (0 .. numThreads - 1) \ {t} : ThreadSorts(n)',
         crew' \in [Numbers -> {"none", "suspended", "start", "join", "copy", "ended"}],
         crewMain' \in {"create", "resume", "wait", "ended"},
         UNCHANGED <<numThreads, given>>, pRecords' \in [1 .. nRec -> Int],
         twoToI' \in [Numbers -> Nat \ {0}], pDest' \in [Numbers -> Seq(Int)],
         \E p \in Crew!Orders(nRec) : pRecords' = Crew!Ordered(given', p)
  PROVE  Sorting'
<1>1. SortTypes'
  BY DEF Sorting, SortTypes, SortSizes, At, Crew!nRecTh
<1>2. \A n \in 0 .. numThreads' - 1 : ThreadSorts(n)'
  OBVIOUS
<1> QED
  BY <1>1, <1>2 DEF Sorting

\* A thread that is there is one of those of the program.
LEMMA IsThread ==
  ASSUME Sorting, NEW t \in Numbers, crew[t] # "none"
  PROVE  t \in 0 .. numThreads - 1
BY DEF Sorting, SortBegun

LEMMA PartSorted ==
  ASSUME Sorting, NEW t \in 0 .. numThreads - 1, Crew!SortPart(t)
  PROVE  Sorting'
<1>1. SortTypes /\ SortSizes /\ ThreadSorts(t) /\ \A n \in 0 .. numThreads - 1 : ThreadSorts(n)
  BY DEF Sorting, SortTypes
<1>2. /\ t \in Nat /\ t \in Numbers /\ numThreads \in Nat \ {0} /\ nRec \in Nat
      /\ pRecords \in [1 .. nRec -> Int] /\ Crew!nRecTh \in Nat \ {0}
      /\ twoToI \in [Numbers -> Nat \ {0}] /\ pDest \in [Numbers -> Seq(Int)]
  BY <1>1 DEF SortTypes, SortSizes
<1> DEFINE to == IF Crew!MergesAgain(t, 1) THEN "join" ELSE "ended"
           R == Crew!nRecTh
           part == Crew!Part(Crew!First(t), R)
<1>3. /\ crew[t] = "start" /\ crew' = [crew EXCEPT ![t] = to]
      /\ UNCHANGED <<crewMain, numThreads, given, twoToI, pDest>>
      /\ \E p \in Crew!Orders(R) : /\ Crew!Sorted(Crew!Ordered(part, p))
                                   /\ pRecords' = Crew!Placed(Crew!First(t), Crew!Ordered(part, p))
  BY DEF Crew!SortPart, Crew!CrewGoes
<1>4. PICK p \in Crew!Orders(R) : /\ Crew!Sorted(Crew!Ordered(part, p))
                                  /\ pRecords' = Crew!Placed(Crew!First(t), Crew!Ordered(part, p))
  BY <1>3
<1>5. twoToI[t] = 1 /\ Width(crew[t], twoToI[t]) = 1 /\ Level(numThreads, t, "start", 1)
  BY <1>1, <1>3 DEF ThreadSorts, Level, Width
<1>6. At(t) \in Nat /\ At(1) = R /\ At(t) + R <= nRec /\ Crew!First(t) = At(t) + 1
  <2>1. t + 1 <= numThreads /\ t + 1 \in Nat /\ 1 \in Nat
    BY <1>2
  <2>2. At(t + 1) = At(t) + At(1) /\ At(t) \in Nat /\ At(1) = R
    BY <1>1, <1>2, <2>1, Ats
  <2>3. At(t + 1) <= At(numThreads) /\ At(numThreads) = nRec
    BY <1>1, <1>2, <2>1, Ats
  <2> QED
    BY <1>1, <1>2, <2>2, <2>3, FirstIs
<1> HIDE DEF to
<1>7. /\ part \in Seq(Int) /\ Len(part) = R
      /\ \A k \in 1 .. R : part[k] = pRecords[At(t) + k]
  <2> HIDE DEF R
  <2>1. R \in Nat
    BY <1>2 DEF R
  <2>2. part = PartAt(At(t), R)
    BY <1>6 DEF PartAt
  <2> HIDE DEF part
  <2> DEFINE f == At(t)
  <2>3. nRec \in Nat /\ pRecords \in [1 .. nRec -> Int] /\ f \in Nat /\ f + R <= nRec
    BY <1>2, <1>6
  <2> HIDE DEF f
  <2>4. /\ PartAt(f, R) \in Seq(Int) /\ Len(PartAt(f, R)) = R
        /\ \A k \in 1 .. R : PartAt(f, R)[k] = pRecords[f + k]
    BY <2>1, <2>3, PartIs
  <2> QED
    BY <2>2, <2>4 DEF f
<1> DEFINE s == Crew!Ordered(part, p)
<1> HIDE DEF part, R
<1>8. s = [k \in 1 .. R |-> part[p[k]]]
  BY <1>7 DEF Crew!Ordered
<1>9. p \in [1 .. R -> 1 .. R]
  BY DEF Crew!Orders
<1>10. R \in Nat
  BY <1>2 DEF R
<1>11. Rearranges(s, pRecords, At(t), R)
  <2>1. \A k \in 1 .. R : part[p[k]] \in Int /\ part[p[k]] = pRecords[At(t) + p[k]]
    BY <1>7, <1>9
  <2>2. s \in Seq(Int) /\ Len(s) = R
    BY <1>8, <1>10, <2>1
  <2>3. \A k \in 1 .. R : s[k] = pRecords[At(t) + p[k]]
    BY <1>8, <2>1
  <2> HIDE DEF s
  <2> QED
    BY <2>2, <2>3 DEF Rearranges
<1>12. Crew!Sorted(s) /\ pRecords' = Crew!Placed(At(t) + 1, s) /\ Len(s) = R
  BY <1>4, <1>6, <1>11 DEF part, R, Rearranges
<1> HIDE DEF s
<1>13. /\ pRecords' \in [1 .. nRec -> Int]
       /\ \A r \in 1 .. nRec : r <= At(t) \/ r > At(t) + R => pRecords'[r] = pRecords[r]
       /\ \A r \in At(t) + 1 .. At(t) + R : pRecords'[r] = s[r - At(t)]
       /\ \E v \in Crew!Orders(nRec) : pRecords' = Crew!Ordered(pRecords, v)
  <2>1. pRecords' = PlacedAt(At(t), s)
    BY <1>12 DEF PlacedAt
  <2>2. Replaced(PlacedAt(At(t), s), At(t), R, s)
    BY <1>2, <1>6, <1>10, <1>11, PlacedIs
  <2> QED
    BY <2>1, <2>2 DEF Replaced
<1>14. SortedIn(pRecords', At(t), R)
  BY <1>6, <1>10, <1>12, <1>13, PlacedInOrder
<1>15. /\ SortBegun' /\ crewMain' \in {"create", "resume", "wait", "ended"} /\ crew'[t] = to
       /\ crew' \in [Numbers -> {"none", "suspended", "start", "join", "copy", "ended"}]
       /\ \A n \in Numbers \ {t} : crew'[n] = crew[n]
  <2>1. to \in {"join", "copy", "ended"}
    BY DEF to
  <2> QED
    BY <1>2, <1>3, <2>1, ThreadTakesStep
<1>16. \A n \in (0 .. numThreads - 1) \ {t} : ThreadSorts(n)'
  <2>1. 0 .. numThreads - 1 \subseteq Numbers
    BY <1>1 DEF SortSizes
  <2>2. At(Width(crew[t], twoToI[t])) = R
    BY <1>5, <1>6
  <2> QED
    BY <1>1, <1>3, <1>13, <1>14, <1>15, <2>1, <2>2, OthersSorted
<1>17. ThreadSorts(t)'
  <2>1. twoToI'[t] = 1 /\ crew'[t] = to /\ to \in {"join", "ended"}
    BY <1>3, <1>5, <1>15 DEF to
  <2>2. to = "join" <=> Divides(2 * 1, t) /\ 1 < numThreads
    <3>1. 1 \in Nat \ {0}
      OBVIOUS
    <3> QED
      BY <1>1, <1>2, <3>1, AgainIs DEF to
  <2>3. Level(numThreads, t, to, 1)
    BY <1>2, <1>5, <2>1, <2>2 DEF Level
  <2>4. Absorbs(t)'
    <3>1. Width(crew[t], twoToI[t])' = 1
      BY <2>1 DEF Width
    <3>2. t + 1 .. t + 1 - 1 = {}
      BY <1>2
    <3> QED
      BY <3>1, <3>2 DEF Absorbs
  <2>5. \A m \in Nat : At(m)' = At(m)
    BY <1>3 DEF At, Crew!nRecTh
  <2>6. SortedIn(pRecords', At(t)', At(twoToI[t])')
    <3>1. At(t)' = At(t) /\ At(twoToI[t])' = At(1)
      <4>1. At(1)' = At(1) /\ At(t)' = At(t)
        BY <1>2, <2>5
      <4>2. At(twoToI[t])' = At(1)'
        BY <2>1 DEF At
      <4> QED
        BY <4>1, <4>2
    <3> QED
      BY <1>6, <1>14, <3>1
  <2>7. SortedBy(t, pRecords)'
    BY <2>1, <2>6 DEF SortedBy
  <2> QED
    BY <1>3, <2>1, <2>3, <2>4, <2>7 DEF ThreadSorts
<1>18. \E w \in Crew!Orders(nRec) : pRecords' = Crew!Ordered(given', w)
  BY <1>3, <1>13, OrderKept
<1> QED
  BY <1>2, <1>3, <1>13, <1>15, <1>16, <1>17, <1>18, SortingKept

\* The partner of a thread that merges has ended at the same level.
LEMMA PartnerEnded ==
  ASSUME Sorting, NEW t \in 0 .. numThreads - 1, crew[t] = "join",
         Crew!WaitIsOver(t + twoToI[t])
  PROVE  /\ t + twoToI[t] \in 0 .. numThreads - 1
         /\ crew[t + twoToI[t]] = "ended" /\ twoToI[t + twoToI[t]] = twoToI[t]
<1> DEFINE i == twoToI[t]
           n == t + i
           j == twoToI[n]
<1>1. /\ SortTypes /\ SortBegun /\ \A m \in 0 .. numThreads - 1 : ThreadSorts(m)
      /\ ThreadSorts(t) /\ t \in Nat /\ numThreads \in Nat \ {0} /\ Doubling(numThreads)
  BY DEF Sorting, SortTypes, SortSizes
<1>2. /\ i \in Nat \ {0} /\ t + 2 * i <= numThreads /\ Divides(2 * i, numThreads)
      /\ Divides(2 * i, t) /\ Divides(i, t) /\ Divides(i, numThreads)
  <2>1. i \in Nat \ {0} /\ t + 2 * i <= numThreads /\ Divides(2 * i, numThreads)
    BY <1>1, Fits
  <2>2. Divides(2 * i, t) /\ Divides(i, t) /\ Divides(i, numThreads)
    BY <1>1 DEF ThreadSorts, Level
  <2> QED
    BY <2>1, <2>2
<1> HIDE DEF i
<1>3. n \in 0 .. numThreads - 1 /\ n \in Nat
  BY <1>1, <1>2
<1>4. ThreadSorts(n)
  BY <1>1, <1>3
<1> HIDE DEF n
<1>5. crew[n] = "ended"
  <2>1. crewMain # "create"
    BY <1>1 DEF SortBegun
  <2>2. crew[n] # "none"
    BY <1>1, <1>3, <2>1 DEF SortBegun
  <2> QED
    BY <2>2 DEF Crew!WaitIsOver, n, i
<1>6. j \in Nat \ {0} /\ n + j <= numThreads
  <2>1. Width(crew[n], j) = j
    BY <1>5 DEF Width
  <2> QED
    BY <1>1, <1>3, <1>4, <2>1, Fits
<1>7. /\ Divides(j, numThreads) /\ Divides(j, n)
      /\ ~Divides(2 * j, n) \/ j >= numThreads
  BY <1>4, <1>5 DEF ThreadSorts, Level
<1> HIDE DEF j
<1>8. j < numThreads
  BY <1>1, <1>2, <1>3, <1>6 DEF n
<1>9. Divides(i, i) /\ Divides(i, n)
  <2>1. i = i * 1
    BY <1>2
  <2>2. Divides(i, i)
    BY <2>1 DEF Divides
  <2>3. i \in Nat
    BY <1>2
  <2> QED
    BY <1>1, <1>2, <2>2, <2>3, DividesSum DEF n
<1>10. ~Divides(2 * i, n)
  <2> SUFFICES ASSUME Divides(2 * i, n) PROVE FALSE
    OBVIOUS
  <2>1. 2 * i \in Nat \ {0} /\ t < n
    BY <1>1, <1>2 DEF n
  <2>2. t + 2 * i <= n
    BY <1>1, <1>2, <1>3, <2>1, DividesDifference
  <2> QED
    BY <1>1, <1>2, <2>2 DEF n
<1>11. j = i
  BY <1>1, <1>2, <1>3, <1>6, <1>7, <1>8, <1>9, <1>10, SameLevel
<1> QED
  BY <1>3, <1>5, <1>11 DEF i, j, n

\* The merge of two sorted arrays that follow each other.
LEMMA MergedRecords ==
  ASSUME nRec \in Nat, pRecords \in [1 .. nRec -> Int], NEW f \in Nat, NEW w \in Nat,
         f + w + w <= nRec, SortedIn(pRecords, f, w), SortedIn(pRecords, f + w, w)
  PROVE  LET m == Crew!Merged(PartAt(f, w), PartAt(f + w, w)) IN
         Crew!Sorted(m) /\ Rearranges(m, pRecords, f, w + w)
<1> DEFINE s1 == PartAt(f, w)
           s2 == PartAt(f + w, w)
           m == Crew!Merged(s1, s2)
<1>1. /\ s1 \in Seq(Int) /\ Len(s1) = w
      /\ \A k \in 1 .. w : s1[k] = pRecords[f + k]
  <2>1. f + w <= nRec
    OBVIOUS
  <2> QED
    BY <2>1, PartIs
<1>2. /\ s2 \in Seq(Int) /\ Len(s2) = w
      /\ \A k \in 1 .. w : s2[k] = pRecords[(f + w) + k]
  <2>1. f + w \in Nat /\ (f + w) + w <= nRec
    OBVIOUS
  <2> QED
    BY <2>1, PartIs
<1> HIDE DEF s1, s2
<1>3. Crew!Sorted(s1)
  <2> SUFFICES ASSUME NEW k \in 1 .. w - 1 PROVE s1[k] <= s1[k + 1]
    BY <1>1 DEF Crew!Sorted
  <2>1. k \in 1 .. w /\ k + 1 \in 1 .. w /\ f + k \in f + 1 .. f + w - 1 /\ (f + k) + 1 = f + (k + 1)
    OBVIOUS
  <2>2. pRecords[f + k] <= pRecords[(f + k) + 1]
    BY <2>1 DEF SortedIn
  <2> QED
    BY <1>1, <2>1, <2>2
<1>4. Crew!Sorted(s2)
  <2> SUFFICES ASSUME NEW k \in 1 .. w - 1 PROVE s2[k] <= s2[k + 1]
    BY <1>2 DEF Crew!Sorted
  <2> DEFINE g == f + w
  <2>1. k \in 1 .. w /\ k + 1 \in 1 .. w /\ g + k \in g + 1 .. g + w - 1 /\ (g + k) + 1 = g + (k + 1)
    OBVIOUS
  <2>2. pRecords[g + k] <= pRecords[(g + k) + 1]
    BY <2>1 DEF SortedIn
  <2>3. s2[k] = pRecords[g + k] /\ s2[k + 1] = pRecords[g + (k + 1)]
    BY <1>2, <2>1
  <2> HIDE DEF g
  <2> QED
    BY <2>1, <2>2, <2>3
<1>5. MergeOf(m, s1, s2)
  BY <1>1, <1>2, <1>3, <1>4, MergedSorted
<1> HIDE DEF m
<1>6. /\ m \in Seq(Int) /\ Len(m) = w + w /\ Crew!Sorted(m)
      /\ \E p \in Crew!Orders(w + w) : \A k \in 1 .. w + w :
           m[k] = IF p[k] <= w THEN s1[p[k]] ELSE s2[p[k] - w]
  BY <1>1, <1>2, <1>5 DEF MergeOf
<1>7. PICK p \in Crew!Orders(w + w) : \A k \in 1 .. w + w :
        m[k] = IF p[k] <= w THEN s1[p[k]] ELSE s2[p[k] - w]
  BY <1>6
<1>8. ASSUME NEW k \in 1 .. w + w
      PROVE  m[k] = pRecords[f + p[k]]
  <2>1. p[k] \in 1 .. w + w
    BY DEF Crew!Orders
  <2>2. m[k] = IF p[k] <= w THEN s1[p[k]] ELSE s2[p[k] - w]
    BY <1>7
  <2>3. CASE p[k] <= w
    <3>1. p[k] \in 1 .. w
      BY <2>1, <2>3
    <3> QED
      BY <1>1, <2>2, <2>3, <3>1
  <2>4. CASE ~(p[k] <= w)
    <3>1. p[k] - w \in 1 .. w /\ (f + w) + (p[k] - w) = f + p[k]
      BY <2>1, <2>4
    <3>2. s2[p[k] - w] = pRecords[(f + w) + (p[k] - w)]
      BY <1>2, <3>1
    <3> QED
      BY <2>2, <2>4, <3>1, <3>2
  <2> QED
    BY <2>3, <2>4
<1>9. Rearranges(m, pRecords, f, w + w)
  BY <1>6, <1>8 DEF Rearranges
<1> QED
  BY <1>6, <1>9 DEF m, s1, s2

LEMMA ArraysMerged ==
  ASSUME Sorting, NEW t \in 0 .. numThreads - 1, Crew!MergeArrays(t)
  PROVE  Sorting'
<1> DEFINE i == twoToI[t]
           n == t + i
           m == Crew!Merged(PartAt(At(t), At(i)), PartAt(At(t) + At(i), At(i)))
<1>1. /\ SortTypes /\ SortSizes /\ \A k \in 0 .. numThreads - 1 : ThreadSorts(k)
      /\ ThreadSorts(t) /\ t \in Nat /\ t \in Numbers /\ numThreads \in Nat \ {0} /\ nRec \in Nat
  BY DEF Sorting, SortTypes, SortSizes
<1>2. /\ pRecords \in [1 .. nRec -> Int] /\ twoToI \in [Numbers -> Nat \ {0}]
      /\ pDest \in [Numbers -> Seq(Int)]
  BY <1>1 DEF SortTypes
<1>3. /\ crew[t] = "join" /\ crew' = [crew EXCEPT ![t] = "copy"] /\ Crew!WaitIsOver(n)
      /\ UNCHANGED <<crewMain, numThreads, given, twoToI, pRecords>>
      /\ pDest' = [pDest EXCEPT ![t] = Crew!Merged(Crew!Part(Crew!First(t), Crew!nRecTh * i),
                         Crew!Part(Crew!First(t) + Crew!nRecTh * i, Crew!nRecTh * i))]
  BY DEF Crew!MergeArrays, Crew!CrewGoes
<1>4. n \in 0 .. numThreads - 1 /\ crew[n] = "ended" /\ twoToI[n] = i
  BY <1>3, PartnerEnded
<1>5. /\ i \in Nat \ {0} /\ t + 2 * i <= numThreads
      /\ ThreadSorts(n) /\ n \in Nat
  <2>1. i \in Nat \ {0} /\ t + 2 * i <= numThreads
    BY <1>1, <1>3, Fits
  <2> QED
    BY <1>1, <1>4, <2>1
<1> HIDE DEF i
<1>6. /\ At(t) \in Nat /\ At(i) \in Nat /\ At(n) = At(t) + At(i) /\ At(2 * i) = At(i) + At(i)
      /\ At(t) + At(i) + At(i) <= nRec
  <2>1. /\ i \in Nat /\ n \in Nat /\ n + i \in Nat /\ n + i <= numThreads /\ numThreads \in Nat
        /\ 2 * i = i + i
    BY <1>1, <1>5
  <2>2. At(t) \in Nat /\ At(i) \in Nat /\ At(n) = At(t) + At(i) /\ At(i + i) = At(i) + At(i)
    BY <1>1, <2>1, Ats
  <2>3. At(n + i) = At(n) + At(i) /\ At(n + i) <= At(numThreads) /\ At(numThreads) = nRec
    <3> HIDE DEF n
    <3> QED
      BY <1>1, <2>1, Ats
  <2> QED
    BY <2>1, <2>2, <2>3
<1> HIDE DEF n
<1>7. pDest' = [pDest EXCEPT ![t] = m]
  <2>1. Crew!First(t) = At(t) + 1 /\ Crew!nRecTh * i = At(i)
    BY <1>1, FirstIs DEF At
  <2>2. (At(t) + 1) + At(i) = (At(t) + At(i)) + 1
    BY <1>6
  <2>3. /\ Crew!Part(Crew!First(t), Crew!nRecTh * i) = PartAt(At(t), At(i))
        /\ Crew!Part(Crew!First(t) + Crew!nRecTh * i, Crew!nRecTh * i) = PartAt(At(t) + At(i), At(i))
    BY <2>1, <2>2 DEF PartAt
  <2> QED
    BY <1>3, <2>3
<1>8. SortedIn(pRecords, At(t), At(i)) /\ SortedIn(pRecords, At(t) + At(i), At(i))
  <2>1. SortedIn(pRecords, At(t), At(i))
    BY <1>1, <1>3 DEF ThreadSorts, SortedBy, i
  <2>2. SortedIn(pRecords, At(n), At(i))
    BY <1>4, <1>5 DEF ThreadSorts, SortedBy
  <2> QED
    BY <1>6, <2>1, <2>2
<1>9. Crew!Sorted(m) /\ Rearranges(m, pRecords, At(t), At(i) + At(i))
  <2> DEFINE f == At(t)
             w == At(i)
  <2>1. f \in Nat /\ w \in Nat /\ f + w + w <= nRec
    BY <1>6
  <2>2. SortedIn(pRecords, f, w) /\ SortedIn(pRecords, f + w, w)
    BY <1>8
  <2> HIDE DEF f, w
  <2>3. LET mm == Crew!Merged(PartAt(f, w), PartAt(f + w, w)) IN
        Crew!Sorted(mm) /\ Rearranges(mm, pRecords, f, w + w)
    BY <1>1, <1>2, <2>1, <2>2, MergedRecords
  <2> QED
    BY <2>3 DEF f, w
<1> HIDE DEF m
<1>10. pDest' \in [Numbers -> Seq(Int)] /\ pDest'[t] = m
       /\ \A k \in Numbers \ {t} : pDest'[k] = pDest[k]
  <2>1. m \in Seq(Int)
    BY <1>9 DEF Rearranges
  <2> QED
    BY <1>1, <1>2, <1>7, <2>1
<1>11. /\ SortBegun' /\ crewMain' \in {"create", "resume", "wait", "ended"} /\ crew'[t] = "copy"
       /\ crew' \in [Numbers -> {"none", "suspended", "start", "join", "copy", "ended"}]
       /\ \A k \in Numbers \ {t} : crew'[k] = crew[k]
  BY <1>3, ThreadTakesStep
<1>12. 0 .. numThreads - 1 \subseteq Numbers
  BY <1>1 DEF SortSizes
<1>13. \A k \in (0 .. numThreads - 1) \ {t} : ThreadSorts(k)'
  BY <1>1, <1>3, <1>10, <1>11, <1>12, OthersSorted
<1>14. Absorbs(t)'
  <2>1. Absorbs(t) /\ Absorbs(n)
    BY <1>1, <1>5 DEF ThreadSorts
  <2>2. \A k \in t + 1 .. t + i - 1 : crew[k] = "ended" /\ k + twoToI[k] <= t + i
    BY <1>3, <2>1 DEF Absorbs, Width, i
  <2>3. \A k \in n + 1 .. n + i - 1 : crew[k] = "ended" /\ k + twoToI[k] <= n + i
    BY <1>4, <2>1 DEF Absorbs, Width
  <2>4. Width(crew[t], twoToI[t])' = 2 * i
    BY <1>3, <1>11 DEF Width, i
  <2>5. n = t + i
    BY DEF n
  <2>6. ASSUME NEW k \in t + 1 .. t + 2 * i - 1
        PROVE  crew'[k] = "ended" /\ k + twoToI'[k] <= t + 2 * i
    <3>1. k \in Numbers \ {t} /\ k \in Nat
      BY <1>1, <1>5, <1>12
    <3>2. crew'[k] = crew[k] /\ twoToI'[k] = twoToI[k] /\ twoToI[k] \in Nat
      BY <1>2, <1>3, <1>11, <3>1
    <3>3. CASE k < n
      <4>1. k \in t + 1 .. t + i - 1
        BY <1>1, <1>5, <2>5, <3>1, <3>3
      <4>2. crew[k] = "ended" /\ k + twoToI[k] <= t + i
        BY <2>2, <4>1
      <4> QED
        BY <1>1, <1>5, <3>1, <3>2, <4>2
    <3>4. CASE k = n
      BY <1>1, <1>4, <1>5, <2>5, <3>2, <3>4
    <3>5. CASE k > n
      <4>1. k \in n + 1 .. n + i - 1
        BY <1>1, <1>5, <2>5, <3>1, <3>5
      <4>2. crew[k] = "ended" /\ k + twoToI[k] <= n + i
        BY <2>3, <4>1
      <4> QED
        BY <1>1, <1>5, <2>5, <3>1, <3>2, <4>2
    <3> QED
      BY <1>5, <3>1, <3>3, <3>4, <3>5
  <2> QED
    BY <2>4, <2>6 DEF Absorbs
<1>15. ThreadSorts(t)'
  <2>1. twoToI'[t] = i /\ numThreads' = numThreads
    BY <1>3 DEF i
  <2>2. Level(numThreads, t, "copy", i)
    BY <1>1, <1>3 DEF ThreadSorts, Level, i
  <2>3. At(t)' = At(t) /\ At(2 * twoToI[t])' = At(2 * i)
    BY <1>3 DEF At, Crew!nRecTh, i
  <2>4. SortedBy(t, pRecords)'
    BY <1>3, <1>6, <1>9, <1>10, <1>11, <2>3 DEF SortedBy
  <2> QED
    BY <1>11, <1>14, <2>1, <2>2, <2>4 DEF ThreadSorts
<1>16. \E p \in Crew!Orders(nRec) : pRecords' = Crew!Ordered(given', p)
  BY <1>3 DEF Sorting
<1> QED
  BY <1>2, <1>3, <1>10, <1>11, <1>13, <1>15, <1>16, SortingKept

LEMMA ArrayCopied ==
  ASSUME Sorting, NEW t \in 0 .. numThreads - 1, Crew!CopyBack(t)
  PROVE  Sorting'
<1> DEFINE i == twoToI[t]
           to == IF Crew!MergesAgain(t, 2 * i) THEN "join" ELSE "ended"
           f == At(t)
           w == At(2 * i)
           s == pDest[t]
<1>1. /\ SortTypes /\ SortSizes /\ \A k \in 0 .. numThreads - 1 : ThreadSorts(k)
      /\ ThreadSorts(t) /\ t \in Nat /\ t \in Numbers /\ numThreads \in Nat \ {0} /\ nRec \in Nat
  BY DEF Sorting, SortTypes, SortSizes
<1>2. /\ pRecords \in [1 .. nRec -> Int] /\ twoToI \in [Numbers -> Nat \ {0}]
      /\ pDest \in [Numbers -> Seq(Int)]
  BY <1>1 DEF SortTypes
<1>3. /\ crew[t] = "copy" /\ crew' = [crew EXCEPT ![t] = to]
      /\ UNCHANGED <<crewMain, numThreads, given>>
      /\ pRecords' = Crew!Placed(Crew!First(t), s)
      /\ pDest' = [pDest EXCEPT ![t] = <<>>]
      /\ twoToI' = [twoToI EXCEPT ![t] = 2 * i]
  BY DEF Crew!CopyBack, Crew!CrewGoes
<1>4. /\ i \in Nat \ {0} /\ t + 2 * i <= numThreads /\ Divides(2 * i, numThreads)
      /\ Divides(2 * i, t)
  <2>1. i \in Nat \ {0} /\ t + 2 * i <= numThreads /\ Divides(2 * i, numThreads)
    BY <1>1, <1>3, Fits
  <2>2. Divides(2 * i, t)
    BY <1>1, <1>3 DEF ThreadSorts, Level
  <2> QED
    BY <2>1, <2>2
<1>5. Crew!Sorted(s) /\ Rearranges(s, pRecords, f, w)
  BY <1>1, <1>3 DEF ThreadSorts, SortedBy
<1>6. Width(crew[t], i) = 2 * i /\ 2 * i \in Nat \ {0}
  BY <1>3, <1>4 DEF Width
<1> HIDE DEF i, to
<1>7. /\ f \in Nat /\ w \in Nat /\ f + w <= nRec
      /\ Crew!First(t) = f + 1
  <2>1. 2 * i \in Nat /\ t + 2 * i \in Nat /\ numThreads \in Nat
    BY <1>1, <1>4
  <2>2. At(t) \in Nat /\ At(2 * i) \in Nat /\ At(t + 2 * i) = At(t) + At(2 * i)
    BY <1>1, <2>1, Ats
  <2>3. At(t + 2 * i) <= At(numThreads) /\ At(numThreads) = nRec
    BY <1>1, <1>4, <2>1, Ats
  <2> QED
    BY <1>1, <2>2, <2>3, FirstIs
<1>8. pRecords' = PlacedAt(f, s)
  BY <1>3, <1>7 DEF PlacedAt
<1> HIDE DEF f, w, s
<1>9. Replaced(PlacedAt(f, s), f, w, s)
  BY <1>1, <1>2, <1>5, <1>7, PlacedIs
<1>10. /\ pRecords' \in [1 .. nRec -> Int]
       /\ \A r \in 1 .. nRec : r <= f \/ r > f + w => pRecords'[r] = pRecords[r]
       /\ \A r \in f + 1 .. f + w : pRecords'[r] = s[r - f]
       /\ \E v \in Crew!Orders(nRec) : pRecords' = Crew!Ordered(pRecords, v)
  BY <1>8, <1>9 DEF Replaced
<1>11. SortedIn(pRecords', f, w)
  <2>1. Len(s) = w
    BY <1>5 DEF Rearranges
  <2> QED
    BY <1>5, <1>7, <1>10, <2>1, PlacedInOrder
<1>12. /\ SortBegun' /\ crewMain' \in {"create", "resume", "wait", "ended"} /\ crew'[t] = to
       /\ crew' \in [Numbers -> {"none", "suspended", "start", "join", "copy", "ended"}]
       /\ \A k \in Numbers \ {t} : crew'[k] = crew[k]
  <2>1. to \in {"join", "copy", "ended"}
    BY DEF to
  <2> QED
    BY <1>3, <2>1, ThreadTakesStep
<1>13. 0 .. numThreads - 1 \subseteq Numbers
  BY <1>1 DEF SortSizes
<1>14. /\ twoToI' \in [Numbers -> Nat \ {0}] /\ twoToI'[t] = 2 * i
       /\ \A k \in Numbers \ {t} : twoToI'[k] = twoToI[k]
  BY <1>1, <1>2, <1>3, <1>4
<1>15. /\ pDest' \in [Numbers -> Seq(Int)]
       /\ \A k \in Numbers \ {t} : pDest'[k] = pDest[k]
  BY <1>1, <1>2, <1>3
<1>16. \A k \in (0 .. numThreads - 1) \ {t} : ThreadSorts(k)'
  <2>1. \A k \in (0 .. numThreads - 1) \ {t} :
          crew'[k] = crew[k] /\ twoToI'[k] = twoToI[k] /\ pDest'[k] = pDest[k]
    BY <1>12, <1>13, <1>14, <1>15
  <2>2. /\ \A r \in 1 .. nRec : r <= At(t) \/ r > At(t) + At(Width(crew[t], twoToI[t])) =>
                                  pRecords'[r] = pRecords[r]
        /\ SortedIn(pRecords', At(t), At(Width(crew[t], twoToI[t])))
    BY <1>6, <1>10, <1>11 DEF i, f, w
  <2> QED
    BY <1>1, <1>3, <2>1, <2>2, OthersSorted
<1>17. to \in {"join", "ended"} /\ (to = "join" <=> Divides(2 * (2 * i), t) /\ 2 * i < numThreads)
  <2>1. Crew!MergesAgain(t, 2 * i) <=> Divides(2 * (2 * i), t) /\ 2 * i < numThreads
    BY <1>1, <1>6, AgainIs
  <2> QED
    BY <2>1 DEF to
<1>18. Level(numThreads, t, to, 2 * i)
  BY <1>1, <1>4, <1>6, <1>17 DEF Level
<1>19. Absorbs(t)'
  <2>1. \A k \in t + 1 .. t + 2 * i - 1 : crew[k] = "ended" /\ k + twoToI[k] <= t + 2 * i
    BY <1>1, <1>6 DEF ThreadSorts, Absorbs, i
  <2>2. Width(crew[t], twoToI[t])' = 2 * i
    BY <1>12, <1>14, <1>17 DEF Width
  <2>3. ASSUME NEW k \in t + 1 .. t + 2 * i - 1
        PROVE  crew'[k] = "ended" /\ k + twoToI'[k] <= t + 2 * i
    <3>1. k \in Numbers \ {t}
      BY <1>1, <1>4, <1>13
    <3> QED
      BY <1>12, <1>14, <2>1, <3>1
  <2> QED
    BY <2>2, <2>3 DEF Absorbs
<1>20. SortedBy(t, pRecords)'
  <2>1. At(t)' = f /\ At(twoToI[t])' = w
    <3>1. At(t)' = f
      BY <1>3 DEF At, Crew!nRecTh, f
    <3>2. At(twoToI[t])' = w
      BY <1>3, <1>14 DEF At, Crew!nRecTh, w
    <3> QED
      BY <3>1, <3>2
  <2> QED
    BY <1>11, <1>12, <1>17, <2>1 DEF SortedBy
<1>21. ThreadSorts(t)'
  BY <1>3, <1>12, <1>14, <1>18, <1>19, <1>20 DEF ThreadSorts
<1>22. \E p \in Crew!Orders(nRec) : pRecords' = Crew!Ordered(given', p)
  BY <1>3, <1>10, OrderKept
<1> QED
  BY <1>3, <1>10, <1>12, <1>14, <1>15, <1>16, <1>21, <1>22, SortingKept

LEMMA SortInvStep ==
  ASSUME Crew!WorkCrewAssumption, SortInv, [ProgramsNext]_programVars
  PROVE  SortInv'
<1> SUFFICES ASSUME program = "sortMT" PROVE Sorting'
  BY CrewAlone DEF SortInv
<1>1. Sorting
  BY DEF SortInv
<1>2. CASE UNCHANGED crewVars
  <2>1. UNCHANGED <<crew, crewMain, numThreads, given, pRecords, twoToI, pDest>>
    BY <1>2 DEF crewVars
  <2>2. /\ \A n \in 0 .. numThreads' - 1 : ThreadSorts(n)'
        /\ \E p \in Crew!Orders(nRec) : pRecords' = Crew!Ordered(given', p)
        /\ SortSizes'
    BY <1>1, <2>1, SameThreads
  <2>3. SortTypes' /\ SortBegun'
    BY <1>1, <2>1, <2>2 DEF Sorting, SortTypes, SortBegun
  <2> QED
    BY <2>2, <2>3 DEF Sorting
<1>3. CASE Crew!CrewMainStep
  BY <1>1, <1>3, MainSorts
<1>4. CASE \E n \in Numbers : Crew!CrewGoesOn(n)
  <2>1. PICK t \in Numbers : Crew!SortPart(t) \/ Crew!MergeArrays(t) \/ Crew!CopyBack(t)
    BY <1>4 DEF Crew!CrewGoesOn
  <2>2. crew[t] # "none"
    BY <2>1 DEF Crew!SortPart, Crew!MergeArrays, Crew!CopyBack, Crew!CrewGoes
  <2>3. t \in 0 .. numThreads - 1
    BY <1>1, <2>2, IsThread
  <2> QED
    BY <1>1, <2>1, <2>3, PartSorted, ArraysMerged, ArrayCopied
<1> QED
  BY <1>2, <1>3, <1>4, CrewAlone DEF CrewStep

LEMMA AllSorted ==
  ASSUME Sorting, crewMain = "ended"
  PROVE  /\ Crew!Sorted(pRecords) /\ \E p \in Crew!Orders(nRec) : pRecords = Crew!Ordered(given, p)
         /\ \A n \in 0 .. numThreads - 1 : crew[n] = "ended"
<1>1. /\ SortTypes /\ SortSizes /\ SortBegun /\ ThreadSorts(0) /\ numThreads \in Nat \ {0}
      /\ 0 \in 0 .. numThreads - 1 /\ nRec \in Nat /\ pRecords \in [1 .. nRec -> Int]
  BY DEF Sorting, SortTypes, SortSizes
<1>2. crew[0] = "ended"
  BY <1>1 DEF SortBegun
<1> DEFINE i == twoToI[0]
<1>3. Width(crew[0], i) = i /\ i \in Nat \ {0} /\ i <= numThreads
  <2>1. Width(crew[0], i) = i
    BY <1>2 DEF Width
  <2>2. i \in Nat \ {0} /\ 0 + i <= numThreads
    BY <1>1, <2>1, Fits
  <2> QED
    BY <2>1, <2>2
<1>4. ~Divides(2 * i, 0) \/ i >= numThreads
  BY <1>1, <1>2 DEF ThreadSorts, Level
<1>5. \A m \in 0 + 1 .. 0 + i - 1 : crew[m] = "ended"
  BY <1>1, <1>3 DEF ThreadSorts, Absorbs
<1>6. SortedIn(pRecords, At(0), At(i))
  BY <1>1, <1>2 DEF ThreadSorts, SortedBy
<1> HIDE DEF i
<1>7. Divides(2 * i, 0)
  <2>1. 0 = (2 * i) * 0 /\ 0 \in Nat
    BY <1>3
  <2> QED
    BY <2>1 DEF Divides
<1>8. i = numThreads
  BY <1>1, <1>3, <1>4, <1>7
<1>9. At(0) = 0 /\ At(i) = nRec
  BY <1>1, <1>8, Ats
<1>10. Crew!Sorted(pRecords)
  <2>1. SortedIn(pRecords, 0, nRec)
    BY <1>6, <1>9
  <2>2. Len(pRecords) = nRec /\ 0 + 1 = 1 /\ 0 + nRec - 1 = nRec - 1
    BY <1>1
  <2> QED
    BY <2>1, <2>2 DEF SortedIn, Crew!Sorted
<1>11. ASSUME NEW n \in 0 .. numThreads - 1 PROVE crew[n] = "ended"
  <2>1. n = 0 \/ n \in 0 + 1 .. 0 + i - 1
    BY <1>1, <1>8
  <2> QED
    BY <1>2, <1>5, <2>1
<1> QED
  BY <1>10, <1>11 DEF Sorting

(***************************************************************************)
(* sortMT.c, for any number of records and any number of threads that the  *)
(* header allows: when main has seen thread 0 end, the records are sorted, *)
(* they are those of the file, and no thread is at work on them.           *)
(***************************************************************************)
THEOREM FileSorted == ProgramsSpec => []SortedInTheEnd
<1>1. ProgramsInit => SortInv
  BY SortBegins, ProgramsAssumption DEF ProgramsInit
<1>2. SortInv /\ [ProgramsNext]_programVars => SortInv'
  BY SortInvStep, ProgramsAssumption
<1>3. SortInv => SortedInTheEnd
  BY AllSorted DEF SortInv, SortedInTheEnd, Crew!SortedInTheEnd
<1> QED
  BY <1>1, <1>2, <1>3, PTL DEF ProgramsSpec

-----------------------------------------------------------------------------
(***************************************************************************)
(* compMP.c: the thread that finds a mismatch, the mismatches that have    *)
(* been logged, and what the table holds of them.                          *)
(***************************************************************************)
Finder(b) == (b \div blockSize) % nThreads
Comparers == 0 .. nThreads - 1
Logged == {b \in differ : \/ b < curPos[Finder(b)]
                          \/ crew[Finder(b)] = "compare" /\ b < pFile[Finder(b)]}

CompTypes ==
  /\ numThreads = nThreads
  /\ crewMain \in {"create", "resume", "wait", "ended"}
  /\ crew \in [Numbers -> {"none", "suspended", "start", "compare", "ended"}]
  /\ differ \subseteq 0 .. fileSize - 1
  /\ mmLocation \in [1 .. MAX_MISMATCH -> 0 .. Crew!UI64_MAX]
  /\ curPos \in [Numbers -> Nat] /\ pFile \in [Numbers -> Nat]

\* Only the threads that main creates run, and all have run when it has waited.
ComparersRun ==
  /\ \A n \in Numbers : n \notin Comparers => crew[n] = "none"
  /\ crewMain # "create" => \A n \in Comparers : crew[n] # "none"
  /\ crewMain \in {"wait", "ended"} => \A n \in Comparers : crew[n] # "suspended"
  /\ crewMain = "ended" => \A n \in Comparers : crew[n] = "ended"

\* A thread goes through the blocks of its stripe.
InStripe ==
  \A n \in Comparers :
    /\ \E c \in Nat : curPos[n] = blockSize * c /\ c % nThreads = n
    /\ crew[n] = "compare" => curPos[n] <= pFile[n] /\ pFile[n] <= curPos[n] + blockSize

\* The table is sorted, and what is not in it is above it.
TableSorted ==
  \A m, k \in 1 .. MAX_MISMATCH :
    m < k => mmLocation[m] < mmLocation[k] \/ mmLocation[k] = Crew!UI64_MAX
InTable(b) == \E m \in 1 .. MAX_MISMATCH : mmLocation[m] = b
TableOfLogged ==
  /\ \A m \in 1 .. MAX_MISMATCH : mmLocation[m] \in Logged \cup {Crew!UI64_MAX}
  /\ \A b \in Logged : InTable(b) \/ mmLocation[MAX_MISMATCH] < b

\* A thread that has ended has left only mismatches that are above the table.
NoneMissed ==
  \A b \in differ : crew[Finder(b)] = "ended" => b \in Logged \/ mmLocation[MAX_MISMATCH] < b

Comparing == CompTypes /\ ComparersRun /\ InStripe /\ TableSorted /\ TableOfLogged /\ NoneMissed
CompInv == program = "compMP" => Comparing

\* The block of a byte, and the thread whose stripe has it.
LEMMA BlockOfByte ==
  ASSUME Crew!WorkCrewAssumption, NEW b \in Nat
  PROVE  /\ b \div blockSize \in Nat /\ blockSize * (b \div blockSize) <= b
         /\ b < blockSize * (b \div blockSize) + blockSize
         /\ Finder(b) \in Comparers
<1> DEFINE c == b \div blockSize
           rest == b % blockSize
<1>1. blockSize \in Nat \ {0} /\ nThreads \in Nat \ {0}
  BY DEF Crew!WorkCrewAssumption
<1>2. b = blockSize * c + rest /\ c \in Int /\ rest \in 0 .. blockSize - 1
  BY <1>1, Division
<1> HIDE DEF c, rest
<1>3. c >= 0
  <2> SUFFICES ASSUME c <= -1 PROVE FALSE
    BY <1>2
  <2>1. blockSize * c <= blockSize * (-1)
    BY <1>1, <1>2
  <2> QED
    BY <1>1, <1>2, <2>1
<1>4. c % nThreads \in 0 .. nThreads - 1
  BY <1>1, <1>2, <1>3, Division
<1> QED
  BY <1>1, <1>2, <1>3, <1>4 DEF c, Finder, Comparers

LEMMA ByteOfBlock ==
  ASSUME Crew!WorkCrewAssumption, NEW b \in Nat, NEW c \in Nat,
         blockSize * c <= b, b < blockSize * c + blockSize
  PROVE  Finder(b) = c % nThreads
<1> DEFINE d == b \div blockSize
<1>1. blockSize \in Nat \ {0}
  BY DEF Crew!WorkCrewAssumption
<1>2. d \in Nat /\ blockSize * d <= b /\ b < blockSize * d + blockSize
  BY BlockOfByte
<1> HIDE DEF d
<1>3. ~(c < d)
  <2> SUFFICES ASSUME c + 1 <= d PROVE FALSE
    BY <1>2
  <2>1. blockSize * (c + 1) <= blockSize * d /\ blockSize * (c + 1) = blockSize * c + blockSize
    BY <1>1, <1>2
  <2> QED
    BY <1>1, <1>2, <2>1
<1>4. ~(d < c)
  <2> SUFFICES ASSUME d + 1 <= c PROVE FALSE
    BY <1>2
  <2>1. blockSize * (d + 1) <= blockSize * c /\ blockSize * (d + 1) = blockSize * d + blockSize
    BY <1>1, <1>2
  <2> QED
    BY <1>1, <1>2, <2>1
<1>5. d = c
  BY <1>2, <1>3, <1>4
<1> QED
  BY <1>5 DEF d, Finder

\* The next block of a stripe is nThreads blocks on.
LEMMA NextBlock ==
  ASSUME Crew!WorkCrewAssumption, NEW b \in Nat, NEW c \in Nat,
         Finder(b) = c % nThreads, b >= blockSize * c + blockSize
  PROVE  b >= blockSize * c + blockSize * nThreads
<1> DEFINE d == b \div blockSize
<1>1. blockSize \in Nat \ {0} /\ nThreads \in Nat \ {0}
  BY DEF Crew!WorkCrewAssumption
<1>2. d \in Nat /\ blockSize * d <= b /\ b < blockSize * d + blockSize
  BY BlockOfByte
<1>3. c % nThreads = d % nThreads
  BY DEF d, Finder
<1> HIDE DEF d
<1>4. c < d
  <2> SUFFICES ASSUME d <= c PROVE FALSE
    BY <1>2
  <2>1. blockSize * d <= blockSize * c
    BY <1>1, <1>2
  <2> QED
    BY <1>1, <1>2, <2>1
<1>5. d >= c + nThreads
  BY <1>1, <1>2, <1>3, <1>4, RoundApart
<1>6. blockSize * (c + nThreads) <= blockSize * d
  BY <1>1, <1>2, <1>5
<1>7. blockSize * (c + nThreads) = blockSize * c + blockSize * nThreads
  BY <1>1
<1> QED
  BY <1>1, <1>2, <1>6, <1>7

LEMMA SameCardinalityInCrew ==
  ASSUME NEW S
  PROVE  Crew!Cardinality(S) = Cardinality(S)
BY DEF Crew!Cardinality, Cardinality

\* A location that is not in the table goes to its place, and the highest
\* leaves the table.
LEMMA Insertion ==
  ASSUME Crew!WorkCrewAssumption, mmLocation \in [1 .. MAX_MISMATCH -> 0 .. Crew!UI64_MAX],
         TableSorted, NEW x \in 0 .. fileSize - 1, ~InTable(x), Crew!LogMismatchByte(x)
  PROVE  /\ mmLocation' \in [1 .. MAX_MISMATCH -> 0 .. Crew!UI64_MAX]
         /\ TableSorted'
         /\ mmLocation'[MAX_MISMATCH] <= mmLocation[MAX_MISMATCH]
         /\ \A m \in 1 .. MAX_MISMATCH : mmLocation'[m] = x \/ InTable(mmLocation'[m])
         /\ \A b \in 0 .. fileSize - 1 :
              InTable(b) \/ b = x => InTable(b)' \/ mmLocation'[MAX_MISMATCH] < b
<1> DEFINE lower == {m \in 1 .. MAX_MISMATCH : mmLocation[m] < x}
           places == (1 .. MAX_MISMATCH + 1) \ lower
<1>1. /\ MAX_MISMATCH \in Nat \ {0} /\ fileSize \in Nat \ {0}
      /\ Crew!UI64_MAX = fileSize + 1 /\ x < Crew!UI64_MAX /\ x \in Nat
      /\ \A m \in 1 .. MAX_MISMATCH : mmLocation[m] \in Nat /\ mmLocation[m] # x
  BY DEF Crew!WorkCrewAssumption, Crew!UI64_MAX, InTable
<1>2. PICK j \in places : \A m \in places : j <= m
  <2>1. MAX_MISMATCH + 1 \in places /\ places \subseteq Nat
    BY <1>1
  <2> HIDE DEF places
  <2> QED
    BY <2>1, LeastElement
<1>3. j \in 1 .. MAX_MISMATCH + 1 /\ \A m \in 1 .. MAX_MISMATCH : m < j <=> mmLocation[m] < x
  <2>1. j \in 1 .. MAX_MISMATCH + 1 /\ j \notin lower
    BY <1>2
  <2>2. ASSUME NEW m \in 1 .. MAX_MISMATCH, m < j PROVE mmLocation[m] < x
    <3>1. m \notin places
      BY <1>2, <2>1, <2>2
    <3> QED
      BY <1>1, <3>1
  <2>3. ASSUME NEW m \in 1 .. MAX_MISMATCH, mmLocation[m] < x PROVE m < j
    <3> SUFFICES ASSUME j < m PROVE FALSE
      BY <2>1, <2>3, <1>1
    <3>1. j \in 1 .. MAX_MISMATCH
      BY <1>1, <2>1
    <3>2. mmLocation[j] < mmLocation[m]
      BY <1>1, <2>3, <3>1 DEF TableSorted
    <3> QED
      BY <1>1, <2>1, <2>3, <3>1, <3>2
  <2> QED
    BY <2>1, <2>2, <2>3
<1>4. Crew!Cardinality({m \in DOMAIN mmLocation : x > mmLocation[m]}) = j - 1
  <2>1. {m \in DOMAIN mmLocation : x > mmLocation[m]} = 1 .. j - 1
    BY <1>1, <1>3
  <2>2. Cardinality(1 .. j - 1) = j - 1
    BY <1>1, <1>3, FS_Interval
  <2> QED
    BY <2>1, <2>2, SameCardinalityInCrew
<1> HIDE DEF lower, places
<1>5. mmLocation' = [m \in DOMAIN mmLocation |-> CASE m < 1 + (j - 1) -> mmLocation[m]
                                                   [] m = 1 + (j - 1) -> x
                                                   [] OTHER -> mmLocation[m - 1]]
  BY <1>4 DEF Crew!LogMismatchByte
<1>6. \A m \in 1 .. MAX_MISMATCH : /\ m < j => mmLocation'[m] = mmLocation[m] /\ mmLocation[m] < x
                                   /\ m = j => mmLocation'[m] = x
                                   /\ m > j => /\ mmLocation'[m] = mmLocation[m - 1]
                                               /\ m - 1 \in 1 .. MAX_MISMATCH
                                   /\ m >= j => mmLocation[m] > x
  <2> TAKE m \in 1 .. MAX_MISMATCH
  <2>1. j \in Int /\ (m < j <=> mmLocation[m] < x) /\ mmLocation[m] # x
    BY <1>1, <1>3
  <2>2. m < j => mmLocation'[m] = mmLocation[m]
    BY <1>5, <2>1
  <2>3. m = j => mmLocation'[m] = x
    BY <1>5, <2>1
  <2>4. m > j => mmLocation'[m] = mmLocation[m - 1] /\ m - 1 \in 1 .. MAX_MISMATCH
    BY <1>1, <1>3, <1>5, <2>1
  <2> QED
    BY <1>1, <2>1, <2>2, <2>3, <2>4
<1>7. mmLocation' \in [1 .. MAX_MISMATCH -> 0 .. Crew!UI64_MAX]
  <2>1. \A m \in 1 .. MAX_MISMATCH : mmLocation'[m] \in 0 .. Crew!UI64_MAX
    BY <1>1, <1>3, <1>6
  <2> QED
    BY <1>5, <2>1
<1>8. TableSorted'
  <2> SUFFICES ASSUME NEW m \in 1 .. MAX_MISMATCH, NEW k \in 1 .. MAX_MISMATCH, m < k
               PROVE  mmLocation'[m] < mmLocation'[k] \/ mmLocation'[k] = Crew!UI64_MAX
    BY DEF TableSorted, Crew!UI64_MAX
  <2>1. CASE k < j
    BY <1>1, <1>3, <1>6, <2>1 DEF TableSorted
  <2>2. CASE k = j
    BY <1>1, <1>3, <1>6, <2>2
  <2>3. CASE k > j /\ m > j
    BY <1>1, <1>3, <1>6, <2>3 DEF TableSorted
  <2>4. CASE k > j /\ m <= j
    BY <1>1, <1>3, <1>6, <2>4, SMTT(30)
  <2> QED
    BY <1>3, <2>1, <2>2, <2>3, <2>4
<1>9. mmLocation'[MAX_MISMATCH] <= mmLocation[MAX_MISMATCH]
  <2>1. CASE MAX_MISMATCH <= j
    BY <1>1, <1>3, <1>6, <2>1
  <2>2. CASE MAX_MISMATCH > j
    <3>1. \/ mmLocation[MAX_MISMATCH - 1] < mmLocation[MAX_MISMATCH]
          \/ mmLocation[MAX_MISMATCH] = Crew!UI64_MAX
      BY <1>1, <1>3, <1>6, <2>2 DEF TableSorted
    <3> QED
      BY <1>1, <1>3, <1>6, <2>2, <3>1
  <2> QED
    BY <1>1, <1>3, <2>1, <2>2
<1>10. \A m \in 1 .. MAX_MISMATCH : mmLocation'[m] = x \/ InTable(mmLocation'[m])
  BY <1>1, <1>3, <1>6 DEF InTable
<1>11. ASSUME NEW b \in 0 .. fileSize - 1, InTable(b)
       PROVE  InTable(b)' \/ mmLocation'[MAX_MISMATCH] < b
  <2>1. PICK m \in 1 .. MAX_MISMATCH : mmLocation[m] = b
    BY <1>11 DEF InTable
  <2>2. CASE m < j
    BY <1>6, <2>1, <2>2 DEF InTable
  <2>3. CASE m >= j /\ m < MAX_MISMATCH
    <3>1. m + 1 \in 1 .. MAX_MISMATCH /\ m + 1 > j /\ (m + 1) - 1 = m
      BY <1>1, <1>3, <2>3
    <3>2. mmLocation'[m + 1] = b
      BY <1>6, <2>1, <3>1
    <3> QED
      BY <3>1, <3>2 DEF InTable
  <2>4. CASE m >= j /\ m = MAX_MISMATCH
    <3>1. b < Crew!UI64_MAX /\ b \in Nat
      BY <1>1
    <3>2. CASE j = MAX_MISMATCH
      BY <1>1, <1>6, <2>1, <2>4, <3>2
    <3>3. CASE j < MAX_MISMATCH
      BY <1>1, <1>3, <1>6, <2>1, <2>4, <3>1, <3>3 DEF TableSorted
    <3> QED
      BY <1>3, <2>4, <3>2, <3>3
  <2> QED
    BY <1>1, <1>3, <2>2, <2>3, <2>4
<1>12. InTable(x)' \/ mmLocation'[MAX_MISMATCH] < x
  <2>1. CASE j \in 1 .. MAX_MISMATCH
    BY <1>6, <2>1 DEF InTable
  <2>2. CASE j = MAX_MISMATCH + 1
    BY <1>1, <1>6, <2>2
  <2> QED
    BY <1>3, <1>1, <2>1, <2>2
<1>13. \A b \in 0 .. fileSize - 1 :
         InTable(b) \/ b = x => InTable(b)' \/ mmLocation'[MAX_MISMATCH] < b
  BY <1>11, <1>12
<1> QED
  BY <1>7, <1>8, <1>9, <1>10, <1>13

LEMMA CompBegins ==
  ASSUME Crew!WorkCrewAssumption, Crew!CrewInit
  PROVE  CompInv
<1> SUFFICES ASSUME program = "compMP" PROVE Comparing
  BY DEF CompInv
<1>1. /\ blockSize \in Nat \ {0} /\ nThreads \in Nat \ {0} /\ MAX_MISMATCH \in Nat \ {0}
      /\ fileSize \in Nat \ {0} /\ Numbers \subseteq Nat /\ Comparers \subseteq Numbers
  BY DEF Crew!WorkCrewAssumption, Comparers
<1>2. /\ numThreads = nThreads /\ crewMain = "create" /\ crew = [n \in Numbers |-> "none"]
      /\ differ \in SUBSET (0 .. fileSize - 1)
      /\ mmLocation = [m \in 1 .. MAX_MISMATCH |-> Crew!UI64_MAX]
      /\ curPos = [n \in Numbers |-> blockSize * n] /\ pFile = [n \in Numbers |-> 0]
  BY DEF Crew!CrewInit
<1>3. CompTypes
  <2>1. mmLocation \in [1 .. MAX_MISMATCH -> 0 .. Crew!UI64_MAX]
    BY <1>1, <1>2 DEF Crew!UI64_MAX
  <2>2. curPos \in [Numbers -> Nat] /\ pFile \in [Numbers -> Nat]
    BY <1>1, <1>2
  <2>3. crew \in [Numbers -> {"none", "suspended", "start", "compare", "ended"}]
    BY <1>2
  <2> QED
    BY <1>2, <2>1, <2>2, <2>3 DEF CompTypes
<1>4. InStripe
  <2> SUFFICES ASSUME NEW n \in Comparers
               PROVE  /\ \E c \in Nat : curPos[n] = blockSize * c /\ c % nThreads = n
                      /\ crew[n] # "compare"
    BY DEF InStripe
  <2>1. n \in Nat /\ n % nThreads = n /\ curPos[n] = blockSize * n /\ crew[n] = "none"
    BY <1>1, <1>2 DEF Comparers
  <2> QED
    BY <2>1
<1>5. \A b \in differ : Finder(b) \in Comparers /\ b \in Nat
  BY <1>2, BlockOfByte
<1>6. Logged = {}
  <2> SUFFICES ASSUME NEW b \in differ, b < curPos[Finder(b)] PROVE FALSE
    BY <1>1, <1>2, <1>5 DEF Logged
  <2> DEFINE c == b \div blockSize
             n == Finder(b)
  <2>1. /\ c \in Nat /\ blockSize * c <= b /\ n \in Comparers /\ n = c % nThreads /\ n \in Nat
        /\ b < blockSize * n /\ b \in Nat
    BY <1>1, <1>2, <1>5, BlockOfByte DEF Finder
  <2> HIDE DEF c, n
  <2>2. c % nThreads <= c
    <3>1. CASE c < nThreads
      BY <1>1, <2>1, <3>1
    <3>2. CASE c >= nThreads
      BY <1>1, <2>1, <3>2
    <3> QED
      BY <1>1, <2>1, <3>1, <3>2
  <2>3. blockSize * n <= blockSize * c
    BY <1>1, <2>1, <2>2
  <2> QED
    BY <1>1, <2>1, <2>3
<1>7. ComparersRun /\ TableSorted /\ TableOfLogged /\ NoneMissed
  <2>1. ComparersRun
    BY <1>1, <1>2 DEF ComparersRun
  <2>2. TableSorted /\ TableOfLogged
    BY <1>2, <1>6 DEF TableSorted, TableOfLogged
  <2>3. NoneMissed
    BY <1>1, <1>2, <1>5 DEF NoneMissed
  <2> QED
    BY <2>1, <2>2, <2>3
<1> QED
  BY <1>3, <1>4, <1>7 DEF Comparing

\* Where nothing changes of what has been read and logged.
LEMMA SameTable ==
  ASSUME Comparing, UNCHANGED <<differ, mmLocation>>, Logged' = Logged,
         \A b \in differ : crew'[Finder(b)] = "ended" =>
           \/ crew[Finder(b)] = "ended" \/ b \in Logged \/ mmLocation[MAX_MISMATCH] < b
  PROVE  TableSorted' /\ TableOfLogged' /\ NoneMissed'
<1>1. TableSorted /\ TableOfLogged /\ NoneMissed
  BY DEF Comparing
<1>2. TableSorted'
  BY <1>1 DEF TableSorted, Crew!UI64_MAX
<1>3. TableOfLogged'
  BY <1>1 DEF TableOfLogged, InTable, Crew!UI64_MAX
<1>4. NoneMissed'
  BY <1>1 DEF NoneMissed, Finder
<1> QED
  BY <1>2, <1>3, <1>4

\* main creates the threads, resumes them, and waits.
LEMMA ComparersManaged ==
  ASSUME Crew!WorkCrewAssumption, program = "compMP", Comparing,
         Crew!CreateThread \/ Crew!ResumeThread \/ Crew!WaitForThreads
  PROVE  Comparing'
<1>1. CompTypes /\ ComparersRun /\ InStripe
  BY DEF Comparing
<1>2. /\ UNCHANGED <<numThreads, differ, mmLocation, curPos, pFile>>
      /\ nThreads \in Nat \ {0} /\ numThreads = nThreads
  BY <1>1 DEF Crew!CreateThread, Crew!ResumeThread, Crew!WaitForThreads, Crew!compVars, CompTypes,
     Crew!WorkCrewAssumption
<1>3. /\ crew' \in [Numbers -> {"none", "suspended", "start", "compare", "ended"}]
      /\ crewMain' \in {"create", "resume", "wait", "ended"}
      /\ \A n \in Numbers : crew'[n] # crew[n] =>
           /\ n \in Comparers
           /\ \/ crew[n] = "none" /\ crew'[n] = "suspended"
              \/ crew[n] = "suspended" /\ crew'[n] = "start"
      /\ ComparersRun'
  <2>1. CASE Crew!CreateThread
    <3>1. crewMain = "create" /\ Crew!ForEach("none", "suspended", "resume")
      BY <2>1 DEF Crew!CreateThread, Crew!Started
    <3>2. \/ /\ \E n \in 0 .. numThreads - 1 : Crew!CrewGoes(n, "none", "suspended")
             /\ crewMain' = crewMain
          \/ /\ crewMain' = "resume" /\ crew' = crew
             /\ \A n \in 0 .. numThreads - 1 : crew[n] # "none"
      BY <1>2, <3>1, ForEachStep
    <3> QED
      BY <1>1, <1>2, <3>1, <3>2 DEF CompTypes, ComparersRun, Comparers, Crew!CrewGoes
  <2>2. CASE Crew!ResumeThread
    <3>1. crewMain = "resume" /\ Crew!ForEach("suspended", "start", "wait")
      BY <2>2 DEF Crew!ResumeThread
    <3>2. \/ /\ \E n \in 0 .. numThreads - 1 : Crew!CrewGoes(n, "suspended", "start")
             /\ crewMain' = crewMain
          \/ /\ crewMain' = "wait" /\ crew' = crew
             /\ \A n \in 0 .. numThreads - 1 : crew[n] # "suspended"
      BY <1>2, <3>1, ForEachStep
    <3>3. CASE crew' = crew /\ crewMain' = "wait"
      BY <1>1, <1>2, <3>1, <3>2, <3>3 DEF CompTypes, ComparersRun, Comparers, Crew!CrewGoes
    <3>4. ASSUME NEW n \in Comparers, Crew!CrewGoes(n, "suspended", "start"), crewMain' = crewMain
          PROVE  /\ crew' \in [Numbers -> {"none", "suspended", "start", "compare", "ended"}]
                 /\ \A k \in Numbers : crew'[k] # crew[k] =>
                      k \in Comparers /\ crew[k] = "suspended" /\ crew'[k] = "start"
                 /\ ComparersRun' /\ crewMain' = "resume"
      <4>1. /\ crew' \in [Numbers -> {"none", "suspended", "start", "compare", "ended"}]
            /\ \A k \in Numbers : crew'[k] = IF k = n THEN "start" ELSE crew[k]
            /\ n \in Numbers /\ crew[n] = "suspended" /\ Comparers \subseteq Numbers
        BY <1>1, <3>4 DEF CompTypes, Crew!CrewGoes, Crew!WorkCrewAssumption, Comparers
      <4> QED
        BY <1>1, <1>2, <3>1, <3>4, <4>1 DEF CompTypes, ComparersRun, Comparers
    <3> QED
      BY <1>2, <3>2, <3>3, <3>4 DEF Comparers
  <2>3. CASE Crew!WaitForThreads
    <3>1. /\ crewMain = "wait" /\ crewMain' = "ended" /\ crew' = crew
          /\ \A n \in 0 .. numThreads - 1 : crew[n] \in {"none", "ended"}
      BY <2>3 DEF Crew!WaitForThreads, Crew!MainIs, Crew!WaitIsOver
    <3> QED
      BY <1>1, <1>2, <3>1 DEF CompTypes, ComparersRun, Comparers
  <2> QED
    BY <2>1, <2>2, <2>3
<1>4. Comparers \subseteq Numbers /\ \A b \in differ : Finder(b) \in Comparers
  <2>1. \A b \in differ : b \in Nat
    BY <1>1 DEF CompTypes
  <2> QED
    BY <2>1, BlockOfByte DEF Crew!WorkCrewAssumption, Comparers
<1>5. Logged' = Logged
  BY <1>1, <1>2, <1>3, <1>4 DEF Logged, Finder
<1>6. CompTypes'
  BY <1>1, <1>2, <1>3 DEF CompTypes, Crew!UI64_MAX
<1>7. InStripe'
  BY <1>1, <1>2, <1>3, <1>4 DEF InStripe, Comparers
<1>8. TableSorted' /\ TableOfLogged' /\ NoneMissed'
  BY <1>2, <1>3, <1>4, <1>5, SameTable
<1> QED
  BY <1>3, <1>6, <1>7, <1>8 DEF Comparing

\* A thread goes on to the block that it has read, or ends.
LEMMA BlockRead ==
  ASSUME Crew!WorkCrewAssumption, Comparing, NEW n \in Numbers, Crew!ReadCompare(n)
  PROVE  Comparing'
<1>1. CompTypes /\ ComparersRun /\ InStripe
  BY DEF Comparing
<1>2. /\ UNCHANGED <<crewMain, numThreads, differ, mmLocation, curPos>>
      /\ crew[n] = "start" /\ pFile' = [pFile EXCEPT ![n] = curPos[n]]
      /\ crew' = [crew EXCEPT ![n] =
                     IF curPos[n] >= fileSize \/ curPos[n] > mmLocation[MAX_MISMATCH]
                     THEN "ended" ELSE "compare"]
  BY DEF Crew!ReadCompare, Crew!CrewGoes, Crew!CanTerminate
<1>3. /\ n \in Comparers /\ Comparers \subseteq Numbers /\ Numbers \subseteq Nat
      /\ fileSize \in Nat /\ MAX_MISMATCH \in Nat \ {0}
      /\ \A b \in differ : Finder(b) \in Comparers /\ b \in Nat /\ b < fileSize
  <2>1. \A b \in differ : b \in Nat /\ b < fileSize
    BY <1>1 DEF CompTypes, Crew!WorkCrewAssumption
  <2> QED
    BY <1>1, <1>2, <2>1, BlockOfByte DEF ComparersRun, Crew!WorkCrewAssumption, Comparers
<1>4. /\ crew' \in [Numbers -> {"none", "suspended", "start", "compare", "ended"}]
      /\ pFile' \in [Numbers -> Nat] /\ curPos[n] \in Nat /\ pFile'[n] = curPos[n]
      /\ \A k \in Numbers : k # n => crew'[k] = crew[k] /\ pFile'[k] = pFile[k]
      /\ \/ /\ crew'[n] = "ended"
            /\ curPos[n] >= fileSize \/ curPos[n] > mmLocation[MAX_MISMATCH]
         \/ crew'[n] = "compare"
  BY <1>1, <1>2, <1>3 DEF CompTypes
<1>5. Logged' = Logged
  <2> SUFFICES ASSUME NEW b \in differ
               PROVE  (\/ b < curPos[Finder(b)]
                       \/ crew'[Finder(b)] = "compare" /\ b < pFile'[Finder(b)])
                      <=> (\/ b < curPos[Finder(b)]
                           \/ crew[Finder(b)] = "compare" /\ b < pFile[Finder(b)])
    BY <1>2 DEF Logged, Finder
  <2>1. CASE Finder(b) = n
    BY <1>2, <1>4, <2>1
  <2>2. CASE Finder(b) # n
    BY <1>3, <1>4, <2>2
  <2> QED
    BY <2>1, <2>2
<1>6. CompTypes'
  BY <1>1, <1>2, <1>4 DEF CompTypes, Crew!UI64_MAX
<1>7. ComparersRun'
  BY <1>1, <1>2, <1>3, <1>4 DEF ComparersRun, Comparers
<1>8. InStripe'
  <2> SUFFICES ASSUME NEW k \in Comparers
               PROVE  /\ \E c \in Nat : curPos[k] = blockSize * c /\ c % nThreads = k
                      /\ crew'[k] = "compare" =>
                           curPos[k] <= pFile'[k] /\ pFile'[k] <= curPos[k] + blockSize
    BY <1>2 DEF InStripe, Comparers
  <2>1. blockSize \in Nat
    BY DEF Crew!WorkCrewAssumption
  <2> QED
    BY <1>1, <1>3, <1>4, <2>1 DEF InStripe
<1>9. ASSUME NEW b \in differ, crew'[Finder(b)] = "ended"
      PROVE  crew[Finder(b)] = "ended" \/ b \in Logged \/ mmLocation[MAX_MISMATCH] < b
  <2>1. mmLocation[MAX_MISMATCH] \in Nat
    BY <1>1, <1>3 DEF CompTypes
  <2>2. CASE Finder(b) # n
    BY <1>3, <1>4, <1>9, <2>2
  <2>3. CASE Finder(b) = n
    BY <1>3, <1>4, <1>9, <2>1, <2>3 DEF Logged
  <2> QED
    BY <2>2, <2>3
<1>10. TableSorted' /\ TableOfLogged' /\ NoneMissed'
  BY <1>2, <1>5, <1>9, SameTable
<1> QED
  BY <1>6, <1>7, <1>8, <1>10 DEF Comparing

\* The mismatches that are left of a thread's block.
LEMMA LeftOfBlock ==
  ASSUME Crew!WorkCrewAssumption, Comparing, NEW n \in Numbers, crew[n] = "compare"
  PROVE  /\ n \in Comparers /\ blockSize \in Nat \ {0} /\ nThreads \in Nat \ {0}
         /\ curPos[n] \in Nat /\ pFile[n] \in Nat
         /\ curPos[n] <= pFile[n] /\ pFile[n] <= curPos[n] + blockSize
         /\ \A b \in differ : /\ b \in Nat /\ b < fileSize /\ Finder(b) \in Comparers
                              /\ pFile[n] <= b /\ b < curPos[n] + blockSize => Finder(b) = n
                              /\ Finder(b) = n /\ b >= curPos[n] + blockSize
                                   => b >= curPos[n] + blockSize * nThreads
         /\ \E c \in Nat : curPos[n] + blockSize * nThreads = blockSize * c /\ c % nThreads = n
<1>1. CompTypes /\ ComparersRun /\ InStripe
  BY DEF Comparing
<1>2. /\ n \in Comparers /\ blockSize \in Nat \ {0} /\ nThreads \in Nat \ {0}
      /\ curPos[n] \in Nat /\ pFile[n] \in Nat /\ fileSize \in Nat
      /\ curPos[n] <= pFile[n] /\ pFile[n] <= curPos[n] + blockSize
  BY <1>1 DEF CompTypes, ComparersRun, InStripe, Crew!WorkCrewAssumption
<1>3. PICK c \in Nat : curPos[n] = blockSize * c /\ c % nThreads = n
  BY <1>1, <1>2 DEF InStripe
<1>4. ASSUME NEW b \in differ
      PROVE  /\ b \in Nat /\ b < fileSize /\ Finder(b) \in Comparers
             /\ pFile[n] <= b /\ b < curPos[n] + blockSize => Finder(b) = n
             /\ Finder(b) = n /\ b >= curPos[n] + blockSize
                  => b >= curPos[n] + blockSize * nThreads
  <2>1. b \in Nat /\ b < fileSize
    BY <1>1, <1>2 DEF CompTypes
  <2>2. Finder(b) \in Comparers
    BY <2>1, BlockOfByte
  <2>3. ASSUME pFile[n] <= b, b < curPos[n] + blockSize PROVE Finder(b) = n
    <3>1. blockSize * c <= b /\ b < blockSize * c + blockSize
      BY <1>2, <1>3, <2>1, <2>3
    <3> QED
      BY <1>3, <2>1, <3>1, ByteOfBlock
  <2>4. ASSUME Finder(b) = n, b >= curPos[n] + blockSize
        PROVE  b >= curPos[n] + blockSize * nThreads
    BY <1>3, <2>1, <2>4, NextBlock
  <2> QED
    BY <2>1, <2>2, <2>3, <2>4
<1>5. /\ blockSize * c + blockSize * nThreads = blockSize * (c + nThreads)
      /\ c + nThreads \in Nat
  BY <1>2
<1>6. (c + nThreads) % nThreads = n
  BY <1>2, <1>3, NextRound
<1> QED
  BY <1>2, <1>3, <1>4, <1>5, <1>6

\* A thread logs the first mismatch that is left of its block.
LEMMA MismatchLogged ==
  ASSUME Crew!WorkCrewAssumption, Comparing, NEW n \in Numbers, crew[n] = "compare",
         NEW x \in differ, pFile[n] <= x, x < curPos[n] + blockSize,
         \A b \in differ : pFile[n] <= b /\ b < curPos[n] + blockSize => x <= b,
         Crew!LogMismatchByte(x), pFile' = [pFile EXCEPT ![n] = x + 1],
         UNCHANGED <<crew, curPos, crewMain, numThreads, differ>>
  PROVE  Comparing'
<1>1. CompTypes /\ ComparersRun /\ InStripe /\ TableSorted /\ TableOfLogged /\ NoneMissed
  BY DEF Comparing
<1>2. /\ n \in Comparers /\ curPos[n] \in Nat /\ pFile[n] \in Nat /\ blockSize \in Nat
      /\ curPos[n] <= pFile[n]
      /\ \A b \in differ : b \in Nat /\ b < fileSize /\ Finder(b) \in Comparers
      /\ Finder(x) = n
  BY LeftOfBlock
<1>3. /\ pFile' \in [Numbers -> Nat] /\ pFile'[n] = x + 1
      /\ \A k \in Numbers : k # n => pFile'[k] = pFile[k]
      /\ Comparers \subseteq Numbers /\ fileSize \in Nat /\ MAX_MISMATCH \in Nat \ {0}
  BY <1>1, <1>2 DEF CompTypes, Crew!WorkCrewAssumption, Comparers
<1>4. x \notin Logged /\ ~InTable(x)
  <2>1. x \notin Logged
    BY <1>2 DEF Logged
  <2>2. x # Crew!UI64_MAX
    BY <1>2, <1>3 DEF Crew!UI64_MAX
  <2> QED
    BY <1>1, <2>1, <2>2 DEF TableOfLogged, InTable
<1>5. /\ mmLocation' \in [1 .. MAX_MISMATCH -> 0 .. Crew!UI64_MAX]
      /\ TableSorted'
      /\ mmLocation'[MAX_MISMATCH] <= mmLocation[MAX_MISMATCH]
      /\ \A m \in 1 .. MAX_MISMATCH : mmLocation'[m] = x \/ InTable(mmLocation'[m])
      /\ \A b \in 0 .. fileSize - 1 :
           InTable(b) \/ b = x => InTable(b)' \/ mmLocation'[MAX_MISMATCH] < b
  <2>1. x \in 0 .. fileSize - 1 /\ mmLocation \in [1 .. MAX_MISMATCH -> 0 .. Crew!UI64_MAX]
    BY <1>1 DEF CompTypes
  <2> QED
    BY <1>1, <1>4, <2>1, Insertion
<1>6. Logged' = Logged \cup {x}
  <2> SUFFICES ASSUME NEW b \in differ
               PROVE  (\/ b < curPos[Finder(b)]
                       \/ crew[Finder(b)] = "compare" /\ b < pFile'[Finder(b)])
                      <=> (\/ b < curPos[Finder(b)]
                           \/ crew[Finder(b)] = "compare" /\ b < pFile[Finder(b)]
                           \/ b = x)
    BY DEF Logged, Finder
  <2>1. CASE Finder(b) = n
    <3>1. b \in Nat /\ (pFile[n] <= b /\ b < curPos[n] + blockSize => x <= b)
      BY <1>2
    <3> QED
      BY <1>2, <1>3, <2>1, <3>1
  <2>2. CASE Finder(b) # n
    BY <1>2, <1>3, <2>2
  <2> QED
    BY <2>1, <2>2
<1>7. CompTypes' /\ ComparersRun'
  BY <1>1, <1>3, <1>5 DEF CompTypes, ComparersRun, Comparers, Crew!UI64_MAX
<1>8. InStripe'
  <2> SUFFICES ASSUME NEW k \in Comparers
               PROVE  /\ \E c \in Nat : curPos[k] = blockSize * c /\ c % nThreads = k
                      /\ crew[k] = "compare" =>
                           curPos[k] <= pFile'[k] /\ pFile'[k] <= curPos[k] + blockSize
    BY DEF InStripe, Comparers
  <2>1. x + 1 <= curPos[n] + blockSize /\ curPos[n] <= x + 1
    BY <1>2
  <2> QED
    BY <1>1, <1>3, <2>1 DEF InStripe
<1>9. /\ mmLocation[MAX_MISMATCH] \in Nat /\ mmLocation'[MAX_MISMATCH] \in Nat
      /\ \A b \in differ : mmLocation[MAX_MISMATCH] < b => mmLocation'[MAX_MISMATCH] < b
  <2>1. mmLocation[MAX_MISMATCH] \in Nat /\ mmLocation'[MAX_MISMATCH] \in Nat
    BY <1>1, <1>3, <1>5 DEF CompTypes
  <2> QED
    BY <1>2, <1>5, <2>1
<1>10. TableOfLogged'
  <2>1. ASSUME NEW m \in 1 .. MAX_MISMATCH PROVE mmLocation'[m] \in Logged' \cup {Crew!UI64_MAX}
    <3>1. mmLocation'[m] = x \/ \E k \in 1 .. MAX_MISMATCH : mmLocation[k] = mmLocation'[m]
      BY <1>5 DEF InTable
    <3> QED
      BY <1>1, <1>6, <3>1 DEF TableOfLogged
  <2>2. ASSUME NEW b \in Logged' PROVE InTable(b)' \/ mmLocation'[MAX_MISMATCH] < b
    <3>1. b \in differ /\ b \in 0 .. fileSize - 1 /\ (b \in Logged \/ b = x)
      BY <1>1, <1>6 DEF Logged, CompTypes
    <3>2. InTable(b) \/ b = x \/ mmLocation[MAX_MISMATCH] < b
      BY <1>1, <3>1 DEF TableOfLogged
    <3> QED
      BY <1>5, <1>9, <3>1, <3>2
  <2> QED
    BY <2>1, <2>2 DEF TableOfLogged, Crew!UI64_MAX
<1>11. NoneMissed'
  BY <1>1, <1>6, <1>9 DEF NoneMissed, Finder
<1> QED
  BY <1>5, <1>7, <1>8, <1>10, <1>11 DEF Comparing

\* Without one, it goes on to the next block of its stripe.
LEMMA BlockDone ==
  ASSUME Crew!WorkCrewAssumption, Comparing, NEW n \in Numbers, crew[n] = "compare",
         \A b \in differ : ~(pFile[n] <= b /\ b < curPos[n] + blockSize),
         crew' = [crew EXCEPT ![n] = "start"],
         curPos' = [curPos EXCEPT ![n] = @ + blockSize * nThreads],
         UNCHANGED <<mmLocation, pFile, crewMain, numThreads, differ>>
  PROVE  Comparing'
<1>1. CompTypes /\ ComparersRun /\ InStripe
  BY DEF Comparing
<1>2. /\ n \in Comparers /\ blockSize \in Nat \ {0} /\ nThreads \in Nat \ {0}
      /\ curPos[n] \in Nat /\ pFile[n] \in Nat
      /\ curPos[n] <= pFile[n] /\ pFile[n] <= curPos[n] + blockSize
      /\ \A b \in differ : /\ b \in Nat /\ Finder(b) \in Comparers
                           /\ Finder(b) = n /\ b >= curPos[n] + blockSize
                                => b >= curPos[n] + blockSize * nThreads
      /\ \E c \in Nat : curPos[n] + blockSize * nThreads = blockSize * c /\ c % nThreads = n
  BY LeftOfBlock
<1>3. blockSize * nThreads \in Nat /\ blockSize * nThreads >= blockSize
  BY <1>2
<1>4. /\ curPos' \in [Numbers -> Nat] /\ curPos'[n] = curPos[n] + blockSize * nThreads
      /\ crew' \in [Numbers -> {"none", "suspended", "start", "compare", "ended"}]
      /\ crew'[n] = "start"
      /\ \A k \in Numbers : k # n => curPos'[k] = curPos[k] /\ crew'[k] = crew[k]
      /\ Comparers \subseteq Numbers
  <2> DEFINE round == blockSize * nThreads
  <2>1. /\ round \in Nat /\ curPos \in [Numbers -> Nat] /\ curPos[n] \in Nat
        /\ curPos' = [curPos EXCEPT ![n] = curPos[n] + round]
        /\ crew \in [Numbers -> {"none", "suspended", "start", "compare", "ended"}]
    BY <1>1, <1>2, <1>3 DEF CompTypes
  <2>2. Comparers \subseteq Numbers
    BY DEF Crew!WorkCrewAssumption, Comparers
  <2> HIDE DEF round
  <2>3. curPos' \in [Numbers -> Nat] /\ curPos'[n] = curPos[n] + round
    BY <2>1
  <2> QED
    BY <2>1, <2>2, <2>3 DEF round
<1>5. Logged' = Logged
  <2> SUFFICES ASSUME NEW b \in differ
               PROVE  (\/ b < curPos'[Finder(b)]
                       \/ crew'[Finder(b)] = "compare" /\ b < pFile[Finder(b)])
                      <=> (\/ b < curPos[Finder(b)]
                           \/ crew[Finder(b)] = "compare" /\ b < pFile[Finder(b)])
    BY DEF Logged, Finder
  <2>1. CASE Finder(b) = n
    <3> DEFINE round == blockSize * nThreads
    <3>1. /\ b \in Nat /\ ~(pFile[n] <= b /\ b < curPos[n] + blockSize)
          /\ b >= curPos[n] + blockSize => b >= curPos[n] + round
          /\ round \in Nat /\ round >= blockSize /\ curPos'[n] = curPos[n] + round
      BY <1>2, <1>3, <1>4, <2>1
    <3> HIDE DEF round
    <3> QED
      BY <1>2, <1>4, <2>1, <3>1
  <2>2. CASE Finder(b) # n
    BY <1>2, <1>4, <2>2
  <2> QED
    BY <2>1, <2>2
<1>6. CompTypes'
  BY <1>1, <1>4 DEF CompTypes, Crew!UI64_MAX
<1>7. ComparersRun'
  BY <1>1, <1>2, <1>4 DEF ComparersRun, Comparers
<1>8. InStripe'
  <2> SUFFICES ASSUME NEW k \in Comparers
               PROVE  /\ \E c \in Nat : curPos'[k] = blockSize * c /\ c % nThreads = k
                      /\ crew'[k] = "compare" =>
                           curPos'[k] <= pFile[k] /\ pFile[k] <= curPos'[k] + blockSize
    BY DEF InStripe, Comparers
  <2>1. CASE k = n
    BY <1>2, <1>4, <2>1
  <2>2. CASE k # n
    BY <1>1, <1>4, <2>2 DEF InStripe
  <2> QED
    BY <2>1, <2>2
<1>9. \A b \in differ : crew'[Finder(b)] = "ended" => crew[Finder(b)] = "ended"
  BY <1>2, <1>4
<1>10. TableSorted' /\ TableOfLogged' /\ NoneMissed'
  BY <1>5, <1>9, SameTable
<1> QED
  BY <1>6, <1>7, <1>8, <1>10 DEF Comparing

LEMMA BlockCompared ==
  ASSUME Crew!WorkCrewAssumption, Comparing, NEW n \in Numbers, Crew!CompareBlock(n)
  PROVE  Comparing'
<1> DEFINE left == {b \in differ : b >= pFile[n] /\ b < curPos[n] + blockSize}
           x == CHOOSE b \in left : \A c \in left : b <= c
<1>1. /\ crew[n] = "compare" /\ UNCHANGED <<crewMain, numThreads, differ>>
      /\ \/ /\ left # {} /\ Crew!LogMismatchByte(x) /\ pFile' = [pFile EXCEPT ![n] = x + 1]
            /\ UNCHANGED <<crew, curPos>>
         \/ /\ left = {} /\ crew' = [crew EXCEPT ![n] = "start"]
            /\ curPos' = [curPos EXCEPT ![n] = @ + blockSize * nThreads]
            /\ UNCHANGED <<mmLocation, pFile>>
  BY DEF Crew!CompareBlock, Crew!CrewGoes
<1>2. /\ pFile[n] \in Nat /\ curPos[n] \in Nat /\ blockSize \in Nat
      /\ \A b \in differ : b \in Nat
  BY <1>1, LeftOfBlock
<1>3. CASE left # {}
  <2>1. \E b \in left : \A c \in left : b <= c
    <3>1. left \subseteq Nat
      BY <1>2
    <3> HIDE DEF left
    <3> QED
      BY <1>3, <3>1, LeastElement
  <2>2. x \in left /\ \A c \in left : x <= c
    <3> HIDE DEF left
    <3> QED
      BY <2>1
  <2> HIDE DEF x
  <2>3. /\ x \in differ /\ pFile[n] <= x /\ x < curPos[n] + blockSize
        /\ \A b \in differ : pFile[n] <= b /\ b < curPos[n] + blockSize => x <= b
    BY <1>2, <2>2
  <2> QED
    BY <1>1, <1>3, <2>3, MismatchLogged
<1>4. CASE left = {}
  <2>1. \A b \in differ : ~(pFile[n] <= b /\ b < curPos[n] + blockSize)
    BY <1>2, <1>4
  <2> QED
    BY <1>1, <1>4, <2>1, BlockDone
<1> QED
  BY <1>3, <1>4

LEMMA CompInvStep ==
  ASSUME Crew!WorkCrewAssumption, CompInv, [ProgramsNext]_programVars
  PROVE  CompInv'
<1> SUFFICES ASSUME program = "compMP" PROVE Comparing'
  BY CrewAlone DEF CompInv
<1>1. Comparing
  BY DEF CompInv
<1>2. CASE UNCHANGED crewVars
  <2>1. CompTypes' /\ ComparersRun' /\ InStripe'
    BY <1>1, <1>2 DEF crewVars, Comparing, CompTypes, ComparersRun, InStripe, Comparers,
       Crew!UI64_MAX
  <2>2. Logged' = Logged
    BY <1>2 DEF crewVars, Logged, Finder
  <2>3. TableSorted' /\ TableOfLogged' /\ NoneMissed'
    BY <1>1, <1>2, <2>2, SameTable DEF crewVars
  <2> QED
    BY <2>1, <2>3 DEF Comparing
<1>3. CASE CrewStep
  <2>1. \/ \E n \in Numbers : Crew!ReadCompare(n) \/ Crew!CompareBlock(n)
        \/ Crew!CreateThread \/ Crew!ResumeThread \/ Crew!WaitForThreads
    BY <1>3 DEF CrewStep, Crew!CrewGoesOn, Crew!CrewMainStep, Crew!ReportFile
  <2> QED
    BY <1>1, <2>1, ComparersManaged, BlockRead, BlockCompared
<1> QED
  BY <1>2, <1>3, CrewAlone

\* A table of all that is below its highest entry holds the lowest.
LEMMA TableHoldsLowest ==
  ASSUME Crew!WorkCrewAssumption, CompTypes, TableSorted,
         \A m \in 1 .. MAX_MISMATCH : mmLocation[m] \in differ \cup {Crew!UI64_MAX},
         \A b \in differ : InTable(b) \/ mmLocation[MAX_MISMATCH] < b
  PROVE  {mmLocation[m] : m \in DOMAIN mmLocation} \ {Crew!UI64_MAX}
           = Crew!Lowest(differ, MAX_MISMATCH)
<1>1. /\ DOMAIN mmLocation = 1 .. MAX_MISMATCH /\ MAX_MISMATCH \in Nat \ {0} /\ fileSize \in Nat
      /\ Crew!UI64_MAX = fileSize + 1
      /\ \A b \in differ : b \in Nat /\ b < Crew!UI64_MAX
      /\ \A m \in 1 .. MAX_MISMATCH : mmLocation[m] \in Nat
      /\ IsFiniteSet(differ)
  <2>1. fileSize \in Nat /\ MAX_MISMATCH \in Nat \ {0}
    BY DEF Crew!WorkCrewAssumption
  <2>2. IsFiniteSet(0 .. fileSize - 1) /\ differ \subseteq 0 .. fileSize - 1
    <3>1. 0 \in Int /\ fileSize - 1 \in Int
      BY <2>1
    <3>2. IsFiniteSet(0 .. fileSize - 1)
      BY <3>1, FS_Interval
    <3> QED
      BY <3>2 DEF CompTypes
  <2>3. IsFiniteSet(differ)
    BY <2>2, FS_Subset
  <2> QED
    BY <2>1, <2>2, <2>3 DEF CompTypes, Crew!UI64_MAX
<1>2. ASSUME NEW x \in differ
      PROVE  InTable(x) <=> Cardinality({y \in differ : y < x}) < MAX_MISMATCH
  <2> DEFINE below == {y \in differ : y < x}
  <2>1. IsFiniteSet(below) /\ Cardinality(below) \in Nat
    BY <1>1, FS_Subset, FS_CardinalityType
  <2>2. ASSUME NEW m \in 1 .. MAX_MISMATCH, mmLocation[m] = x
        PROVE  Cardinality(below) < MAX_MISMATCH
    <3> DEFINE entries == {mmLocation[k] : k \in 1 .. m - 1}
               entry == [k \in 1 .. m - 1 |-> mmLocation[k]]
    <3>1. below \subseteq entries
      <4> SUFFICES ASSUME NEW y \in differ, y < x PROVE y \in entries
        OBVIOUS
      <4>1. CASE InTable(y)
        <5>1. PICK k \in 1 .. MAX_MISMATCH : mmLocation[k] = y
          BY <4>1 DEF InTable
        <5>2. k < m
          BY <1>1, <2>2, <5>1 DEF TableSorted
        <5> QED
          BY <1>1, <5>1, <5>2
      <4>2. CASE mmLocation[MAX_MISMATCH] < y
        BY <1>1, <2>2, <4>2 DEF TableSorted
      <4> QED
        BY <4>1, <4>2
    <3>2. IsFiniteSet(1 .. m - 1) /\ Cardinality(1 .. m - 1) = m - 1
      <4> DEFINE last == m - 1
      <4>1. last \in Nat
        BY <1>1
      <4> HIDE DEF last
      <4>2. IsFiniteSet(1 .. last) /\ Cardinality(1 .. last) = last
        BY <4>1, FS_Interval
      <4> QED
        BY <4>2 DEF last
    <3>3. entry \in Surjection(1 .. m - 1, entries)
      BY DEF Surjection
    <3> HIDE DEF entries, entry, below
    <3>4. IsFiniteSet(entries) /\ Cardinality(entries) <= m - 1
      BY <3>2, <3>3, FS_Surjection
    <3>5. Cardinality(below) <= Cardinality(entries) /\ Cardinality(entries) \in Nat
      BY <3>1, <3>4, FS_Subset, FS_CardinalityType
    <3> QED
      BY <1>1, <2>1, <3>4, <3>5
  <2>3. ASSUME ~InTable(x), Cardinality(below) < MAX_MISMATCH PROVE FALSE
    <3> DEFINE entry == [k \in 1 .. MAX_MISMATCH |-> mmLocation[k]]
    <3>1. mmLocation[MAX_MISMATCH] < x
      BY <2>3
    <3>2. \A k \in 1 .. MAX_MISMATCH : mmLocation[k] < x
      BY <1>1, <3>1 DEF TableSorted
    <3>3. entry \in [1 .. MAX_MISMATCH -> below]
      BY <1>1, <3>2
    <3>4. IsFiniteSet(1 .. MAX_MISMATCH) /\ Cardinality(1 .. MAX_MISMATCH) = MAX_MISMATCH
      BY <1>1, FS_Interval
    <3>5. \E k, l \in 1 .. MAX_MISMATCH : k # l /\ entry[k] = entry[l]
      <4> DEFINE indices == 1 .. MAX_MISMATCH
      <4>1. /\ IsFiniteSet(indices) /\ IsFiniteSet(below) /\ entry \in [indices -> below]
            /\ Cardinality(below) < Cardinality(indices)
        BY <2>1, <2>3, <3>3, <3>4
      <4> HIDE DEF entry, below, indices
      <4>2. \E k, l \in indices : k # l /\ entry[k] = entry[l]
        BY <4>1, FS_PigeonHole
      <4> QED
        BY <4>2 DEF indices
    <3>6. PICK k \in 1 .. MAX_MISMATCH, l \in 1 .. MAX_MISMATCH :
            k # l /\ mmLocation[k] = mmLocation[l]
      BY <3>5
    <3>7. mmLocation[k] # Crew!UI64_MAX /\ mmLocation[l] # Crew!UI64_MAX
      BY <1>1, <3>2
    <3> QED
      BY <1>1, <3>6, <3>7 DEF TableSorted
  <2> QED
    BY <2>2, <2>3 DEF InTable
<1>3. Crew!Lowest(differ, MAX_MISMATCH) = {x \in differ : InTable(x)}
  BY <1>2, SameCardinalityInCrew DEF Crew!Lowest
<1>4. {mmLocation[m] : m \in DOMAIN mmLocation} \ {Crew!UI64_MAX} = {x \in differ : InTable(x)}
  BY <1>1 DEF InTable
<1> QED
  BY <1>3, <1>4

(***************************************************************************)
(* compMP.c, for any files, any size of a block, any number of threads and *)
(* any size of the table: in the end the table holds the first mismatches, *)
(* in whatever order the threads have found them, and although a thread    *)
(* gives up when the table is full of lower ones.                          *)
(***************************************************************************)
THEOREM FirstMismatchesFound == ProgramsSpec => []LowestMismatches
<1>1. ProgramsInit => CompInv
  BY CompBegins, ProgramsAssumption DEF ProgramsInit
<1>2. CompInv /\ [ProgramsNext]_programVars => CompInv'
  BY CompInvStep, ProgramsAssumption
<1>3. CompInv => LowestMismatches
  <2> SUFFICES ASSUME program = "compMP", Comparing PROVE LowestMismatches
    BY DEF CompInv, LowestMismatches, Crew!LowestMismatches
  <2>1. \A m \in 1 .. MAX_MISMATCH - 1 :
          mmLocation[m] < mmLocation[m + 1] \/ mmLocation[m + 1] = Crew!UI64_MAX
    <3>1. MAX_MISMATCH \in Nat \ {0}
      BY ProgramsAssumption DEF Crew!WorkCrewAssumption
    <3>2. \A m \in 1 .. MAX_MISMATCH - 1 :
            m \in 1 .. MAX_MISMATCH /\ m + 1 \in 1 .. MAX_MISMATCH /\ m < m + 1
      BY <3>1
    <3> QED
      BY <3>2 DEF Comparing, TableSorted
  <2>2. ASSUME crewMain = "ended"
        PROVE  {mmLocation[m] : m \in DOMAIN mmLocation} \ {Crew!UI64_MAX}
                 = Crew!Lowest(differ, MAX_MISMATCH)
    <3>1. CompTypes /\ ComparersRun /\ TableSorted /\ TableOfLogged /\ NoneMissed
      BY DEF Comparing
    <3>2. \A b \in differ : crew[Finder(b)] = "ended"
      <4>1. \A b \in differ : b \in Nat
        BY <3>1, ProgramsAssumption DEF CompTypes, Crew!WorkCrewAssumption
      <4> QED
        BY <2>2, <3>1, <4>1, BlockOfByte, ProgramsAssumption DEF ComparersRun
    <3>3. \A b \in differ : InTable(b) \/ mmLocation[MAX_MISMATCH] < b
      BY <3>1, <3>2 DEF NoneMissed, TableOfLogged
    <3>4. \A m \in 1 .. MAX_MISMATCH : mmLocation[m] \in differ \cup {Crew!UI64_MAX}
      BY <3>1 DEF TableOfLogged, Logged
    <3> QED
      BY <3>1, <3>3, <3>4, TableHoldsLowest, ProgramsAssumption
  <2> QED
    BY <2>1, <2>2 DEF LowestMismatches, Crew!LowestMismatches
<1> QED
  BY <1>1, <1>2, <1>3, PTL DEF ProgramsSpec
=============================================================================
