---------------------------- MODULE Workers_proofs ----------------------------
(***************************************************************************)
(* Proofs about programs of Programs that work on files, or for clients,   *)
(* with several requests at a time, and about the queues of messages of    *)
(* msg_emulation.c.                                                        *)
(***************************************************************************)
EXTENDS Programs, FoldTheorems, TLAPS

-----------------------------------------------------------------------------
(***************************************************************************)
(* The programs that read and write with several requests at a time, for   *)
(* any file, any number of buffers and any order of the completions.       *)
(***************************************************************************)
Stripe(r) == r % MAX_OVRLP
Uses == {"none", "reading", "writing", "ready", "converted"}
Data == {File!NoRecord} \cup (Nat \X Nat)

FileTypes ==
  /\ nRecords \in Nat
  /\ offset \in [File!Buffer -> Nat] /\ overLapOut \in [File!Buffer -> Nat]
  /\ overLap \in [File!Buffer -> Uses]
  /\ completed \subseteq {"read", "write"} \X File!Buffer
  /\ bBuffer \in [File!Buffer -> Data]
  /\ outFile \in [File!Records -> Data]
  /\ nDone \in Nat /\ nReadsInProgress \in Int /\ nWritesInProgress \in Int
  /\ liNextReadOffset \in Nat /\ WorkerId \in Nat

ReadOver(b) == <<"read", b>> \in completed
WriteOver(b) == <<"write", b>> \in completed

\* cciOV.C and cciEX.C: the buffer's record is on its way in or out, or the
\* stripe is through.
Underway(b) ==
  \/ /\ overLap[b] = "reading" /\ ~ReadOver(b) /\ ~WriteOver(b)
     /\ offset[b] < nRecords
  \/ /\ overLap[b] = "none" /\ ReadOver(b) /\ ~WriteOver(b)
     /\ offset[b] < nRecords /\ bBuffer[b] = <<offset[b], 0>>
  \/ /\ overLap[b] = "writing" /\ ~ReadOver(b) /\ ~WriteOver(b)
     /\ offset[b] = overLapOut[b] + MAX_OVRLP /\ overLapOut[b] < nRecords
     /\ bBuffer[b] = <<overLapOut[b], 1>>
  \/ /\ overLap[b] = "none" /\ ~ReadOver(b) /\ WriteOver(b)
     /\ offset[b] = overLapOut[b] + MAX_OVRLP /\ overLapOut[b] < nRecords
  \/ /\ overLap[b] = "none" /\ ~ReadOver(b) /\ ~WriteOver(b)
     /\ offset[b] >= nRecords

InStripes == \A b \in File!Buffer : Stripe(offset[b]) = b /\ Stripe(overLapOut[b]) = b

\* The records that have been taken out of their buffers, and those of which
\* the write has been reported.
TakenOut == {r \in File!Records : r < offset[Stripe(r)]}
Reported == {r \in TakenOut : ~(/\ r = overLapOut[Stripe(r)]
                                /\ overLap[Stripe(r)] = "writing" \/ WriteOver(Stripe(r)))}

\* A record is in its place, converted, when its buffer has gone on.
Written(r) == r < offset[Stripe(r)]
              /\ ~(overLap[Stripe(r)] = "writing" /\ r = overLapOut[Stripe(r)])
ConvertedSoFar ==
  \A r \in File!Records : outFile[r] = IF Written(r) THEN <<r, 1>> ELSE File!NoRecord

Converting ==
  /\ InStripes /\ ConvertedSoFar
  /\ \A b \in File!Buffer : Underway(b)
  /\ nDone = Cardinality(TakenOut) + Cardinality(Reported)

\* FileCopy.cpp: a buffer has a record from the last ReadFile on.
Carries(b) ==
  \/ /\ overLap[b] = "none" /\ ~ReadOver(b) /\ WriteOver(b)
  \/ /\ overLap[b] = "reading" /\ ~ReadOver(b) /\ ~WriteOver(b)
     /\ offset[b] < liNextReadOffset
  \/ /\ overLap[b] = "none" /\ ReadOver(b) /\ ~WriteOver(b)
     /\ offset[b] < liNextReadOffset /\ bBuffer[b] = <<offset[b], 0>>
  \/ /\ overLap[b] = "writing" /\ ~ReadOver(b) /\ ~WriteOver(b)
     /\ offset[b] < liNextReadOffset /\ overLapOut[b] = offset[b]
     /\ bBuffer[b] = <<offset[b], 0>>
  \/ /\ overLap[b] = "none" /\ ~ReadOver(b) /\ ~WriteOver(b)
     /\ liNextReadOffset = nRecords

Reads == {b \in File!Buffer : overLap[b] = "reading" \/ ReadOver(b)}
Writes == {b \in File!Buffer : overLap[b] = "writing" \/ WriteOver(b)}

InHand(r) == \E b \in File!Buffer : offset[b] = r /\ (b \in Reads \/ overLap[b] = "writing")

CopiedSoFar ==
  \A r \in File!Records : \/ outFile[r] = <<r, 0>>
                          \/ /\ outFile[r] = File!NoRecord
                             /\ r >= liNextReadOffset \/ InHand(r)

Copying ==
  /\ liNextReadOffset <= nRecords /\ CopiedSoFar
  /\ \A b \in File!Buffer : Carries(b)
  /\ nReadsInProgress = Cardinality(Reads) /\ nWritesInProgress = Cardinality(Writes)

\* cciMT.c and cciMT_VTP.c: a stripe is written up to its offset.
Striping ==
  /\ \A b \in File!Buffer :
       /\ Stripe(offset[b]) = b
       /\ overLap[b] \in {"none", "ready", "converted"}
       /\ overLap[b] = "converted" => offset[b] < nRecords /\ bBuffer[b] = <<offset[b], 1>>
  /\ completed = {}
  /\ \A r \in File!Records :
       outFile[r] = IF r < offset[Stripe(r)] THEN <<r, 1>> ELSE File!NoRecord

FileInv ==
  /\ FileTypes
  /\ program \in {"cciOV", "cciEX"} => Converting
  /\ program = "FileCopy" => Copying
  /\ program \in File!Striped => Striping

\* The stripes are those of the buffers.
LEMMA Stripes ==
  ASSUME File!FilesAssumption
  PROVE  /\ \A b \in File!Buffer : Stripe(b) = b /\ b \in Nat
         /\ \A r \in Nat : Stripe(r) \in File!Buffer /\ Stripe(r) <= r
         /\ \A r \in Nat : Stripe(r + MAX_OVRLP) = Stripe(r)
         /\ \A r, s \in Nat : Stripe(r) = Stripe(s) /\ r < s => s >= r + MAX_OVRLP
<1>1. \A b \in File!Buffer : Stripe(b) = b /\ b \in Nat
  BY DEF Stripe, File!FilesAssumption, File!Buffer
<1>2. \A r \in Nat : Stripe(r) \in 0 .. MAX_OVRLP - 1
  BY Division DEF Stripe, File!FilesAssumption
<1>3. \A r \in Nat : Stripe(r) <= r
  <2> TAKE r \in Nat
  <2>1. CASE r < MAX_OVRLP
    BY <2>1, <1>1 DEF File!FilesAssumption, File!Buffer
  <2>2. CASE r >= MAX_OVRLP
    BY <2>2, <1>2 DEF File!FilesAssumption
  <2> QED
    BY <2>1, <2>2 DEF File!FilesAssumption
<1>4. \A r \in Nat : Stripe(r + MAX_OVRLP) = Stripe(r)
  BY NextRound DEF Stripe, File!FilesAssumption
<1>5. \A r, s \in Nat : Stripe(r) = Stripe(s) /\ r < s => s >= r + MAX_OVRLP
  BY RoundApart DEF Stripe, File!FilesAssumption
<1> QED
  BY <1>1, <1>2, <1>3, <1>4, <1>5 DEF File!Buffer

\* Steps of these programs are all that changes their variables.
FileStep == \E b \in File!Buffer :
              \/ File!FileThread(b)
              \/ File!ReadDone(b) \/ File!WriteDone(b) \/ File!CopyRead(b) \/ File!CopyWritten(b)

LEMMA FilesAlone ==
  ASSUME [ProgramsNext]_programVars
  PROVE  program' = program /\ (UNCHANGED fileVars \/ (program \in FileProgram /\ FileStep))
<1>1. program' = program
  BY DEF ProgramsNext, programVars
<1> SUFFICES ASSUME program \in FileProgram, ProgramsNext PROVE FileStep
  BY <1>1 DEF ProgramsNext, programVars, Frozen
<1>2. FileProgram \cap (MessageProgram \cup CrewProgram \cup StreamProgram
         \cup {"testTHB", "msg_emulation", "serverNP", "serverSK", "08-Queue", "09-Queue",
               "Handshake", "JobShell", "serverNPCP", "SimpleService"}) = {}
  BY DEF FileProgram, File!Converter, File!OneThread, File!Striped, MessageProgram, CrewProgram,
         StreamProgram
<1> USE <1>2 DEF MessageProgram, InSimple, InEvent, InMulti, FileStep
<1>3. CASE \E n \in Numbers : Thread(n)
  BY <1>3 DEF Thread
<1>4. CASE MainThread
  BY <1>4 DEF MainThread, File!FileMain
<1>5. CASE Environment
  BY <1>5 DEF Environment
<1> QED
  BY <1>3, <1>4, <1>5 DEF ProgramsNext

\* The types stay what they are.
LEMMA FileTypesStep ==
  ASSUME File!FilesAssumption, FileTypes, FileStep
  PROVE  FileTypes'
<1> USE DEF FileTypes, Uses, File!Use, File!countsOfIo, File!Records, File!FilesAssumption
<1>1. \A r \in Nat : <<r, 0>> \in Data /\ File!Convert(<<r, 0>>) \in Data
  BY DEF Data, File!Convert
<1>2. \A d \in Data : File!Convert(d) \in Data
  BY DEF Data, File!Convert, File!NoRecord
<1>3. ASSUME NEW b \in File!Buffer, File!ReadCompletes(b) PROVE FileTypes'
  BY <1>1, <1>3 DEF File!ReadCompletes
<1>4. ASSUME NEW b \in File!Buffer, File!WriteCompletes(b) PROVE FileTypes'
  <2>1. outFile' \in [File!Records -> Data]
    BY <1>4 DEF File!WriteCompletes
  <2> QED
    BY <2>1, <1>4 DEF File!WriteCompletes
<1>5. ASSUME NEW b \in File!Buffer, File!StartCallback(b) PROVE FileTypes'
  BY <1>5 DEF File!StartCallback
<1>6. ASSUME NEW b \in File!Buffer, File!ReadStripe(b) PROVE FileTypes'
  BY <1>1, <1>6 DEF File!ReadStripe
<1>7. ASSUME NEW b \in File!Buffer, File!WriteStripe(b) PROVE FileTypes'
  <2>1. outFile' \in [File!Records -> Data]
    BY <1>7 DEF File!WriteStripe
  <2>2. offset' \in [File!Buffer -> Nat]
    BY <1>7 DEF File!WriteStripe
  <2> QED
    BY <2>1, <2>2, <1>7 DEF File!WriteStripe
<1>8. ASSUME NEW b \in File!Buffer, File!ReadDone(b) PROVE FileTypes'
  BY <1>2, <1>8 DEF File!ReadDone, File!Taken, File!NextCompletion, File!ConvertAndWrite
<1>9. ASSUME NEW b \in File!Buffer, File!WriteDone(b) PROVE FileTypes'
  <2>1. overLap' \in [File!Buffer -> Uses] /\ nDone' \in Nat
    BY <1>9 DEF File!WriteDone, File!ReadNext
  <2>2. \A x \in completed : x \in {"read", "write"} \X File!Buffer
    OBVIOUS
  <2>3. completed' \subseteq {"read", "write"} \X File!Buffer
    BY <2>2, <1>9 DEF File!WriteDone, File!Taken
  <2> QED
    BY <2>1, <2>3, <1>9 DEF File!WriteDone, File!Taken, File!NextCompletion, File!ReadNext
<1>10. ASSUME NEW b \in File!Buffer, File!CopyRead(b) PROVE FileTypes'
  BY <1>10 DEF File!CopyRead, File!Taken, File!NextCompletion
<1>11. ASSUME NEW b \in File!Buffer, File!CopyWritten(b) PROVE FileTypes'
  <2>1. overLap' \in [File!Buffer -> Uses]
    BY <1>11 DEF File!CopyWritten
  <2>2. offset' \in [File!Buffer -> Nat]
    BY <1>11 DEF File!CopyWritten
  <2>3. /\ nReadsInProgress' \in Int /\ nWritesInProgress' \in Int /\ liNextReadOffset' \in Nat
        /\ UNCHANGED <<nRecords, outFile, WorkerId, overLapOut, bBuffer, nDone>>
        /\ completed' \subseteq completed
    BY <1>11 DEF File!CopyWritten, File!Taken, File!NextCompletion
  <2> QED
    BY <2>1, <2>2, <2>3
<1> QED
  BY <1>3, <1>4, <1>5, <1>6, <1>7, <1>8, <1>9, <1>10, <1>11 DEF FileStep, File!FileThread

-----------------------------------------------------------------------------
(* cciOV.C and cciEX.C *)

\* Where a read of cciOV.C or cciEX.C has ended, nothing else has changed.
LEMMA ConvertReadCompletes ==
  ASSUME File!FilesAssumption, FileTypes, Converting, NEW b \in File!Buffer, File!ReadCompletes(b)
  PROVE  Converting'
<1> USE DEF FileTypes, Converting, File!ReadCompletes, File!Use, File!countsOfIo
<1>1. \A c \in File!Buffer : /\ offset'[c] = offset[c] /\ overLapOut'[c] = overLapOut[c]
                             /\ (overLap[c] = "writing") <=> (overLap'[c] = "writing")
                             /\ WriteOver(c)' <=> WriteOver(c)
                             /\ ReadOver(c)' <=> ReadOver(c) \/ c = b
  BY DEF ReadOver, WriteOver
<1>2. \A r \in File!Records : Stripe(r) \in File!Buffer
  BY Stripes DEF File!Records
<1>3. InStripes' /\ File!Records' = File!Records
  BY <1>1 DEF InStripes, File!Records
<1>4. ConvertedSoFar'
  BY <1>1, <1>2, <1>3 DEF ConvertedSoFar, Written
<1>5. TakenOut' = TakenOut
  BY <1>1, <1>2, <1>3 DEF TakenOut
<1>6. Reported' = Reported
  BY <1>1, <1>2, <1>3, <1>5 DEF Reported, TakenOut
<1>7. ASSUME NEW c \in File!Buffer PROVE Underway(c)'
  <2>1. CASE c = b
    BY <1>1, <2>1 DEF Underway
  <2>2. CASE c # b
    <3>1. overLap'[c] = overLap[c] /\ bBuffer'[c] = bBuffer[c]
      BY <2>2
    <3> QED
      BY <1>1, <2>2, <3>1 DEF Underway
  <2> QED
    BY <2>1, <2>2
<1> QED
  BY <1>3, <1>4, <1>5, <1>6, <1>7

\* A write puts the record that it has in its place.
LEMMA ConvertWriteCompletes ==
  ASSUME File!FilesAssumption, FileTypes, Converting, NEW b \in File!Buffer, File!WriteCompletes(b)
  PROVE  Converting'
<1> USE DEF FileTypes, Converting, File!WriteCompletes, File!Use, File!countsOfIo
<1>1. \A c \in File!Buffer : /\ offset'[c] = offset[c] /\ overLapOut'[c] = overLapOut[c]
                             /\ bBuffer'[c] = bBuffer[c]
                             /\ overLap'[c] = IF c = b THEN "none" ELSE overLap[c]
                             /\ WriteOver(c)' <=> WriteOver(c) \/ c = b
                             /\ ReadOver(c)' <=> ReadOver(c)
  BY DEF ReadOver, WriteOver
<1>2. \A r \in File!Records : Stripe(r) \in File!Buffer
  BY Stripes DEF File!Records
<1>3. InStripes' /\ File!Records' = File!Records
  BY <1>1 DEF InStripes, File!Records
<1>4. /\ overLap[b] = "writing" /\ ~ReadOver(b) /\ ~WriteOver(b)
      /\ offset[b] = overLapOut[b] + MAX_OVRLP /\ overLapOut[b] < nRecords
      /\ bBuffer[b] = <<overLapOut[b], 1>> /\ Stripe(overLapOut[b]) = b
      /\ overLapOut[b] \in File!Records /\ overLapOut[b] < offset[b]
  BY DEF Underway, InStripes, File!Records, File!FilesAssumption
<1>5. /\ \A r \in File!Records : Written(r)' <=> Written(r) \/ r = overLapOut[b]
      /\ \A r \in File!Records :
           outFile'[r] = IF r = overLapOut[b] THEN <<r, 1>> ELSE outFile[r]
  BY <1>1, <1>2, <1>4 DEF Written
<1>6. TakenOut' = TakenOut
  BY <1>1, <1>2, <1>3 DEF TakenOut
<1>7. Reported' = Reported
  BY <1>1, <1>2, <1>3, <1>4, <1>6 DEF Reported, TakenOut
<1>8. ASSUME NEW c \in File!Buffer PROVE Underway(c)'
  BY <1>1, <1>4 DEF Underway
<1> QED
  BY <1>3, <1>5, <1>6, <1>7, <1>8 DEF ConvertedSoFar

\* The finite sets that nDone counts, and a member more.
LEMMA FileCounts ==
  ASSUME FileTypes
  PROVE  /\ IsFiniteSet(File!Records) /\ Cardinality(File!Records) = nRecords
         /\ IsFiniteSet(TakenOut) /\ IsFiniteSet(Reported)
         /\ Cardinality(TakenOut) \in Nat /\ Cardinality(Reported) \in Nat
<1>1. IsFiniteSet(0 .. nRecords - 1) /\ Cardinality(0 .. nRecords - 1) = nRecords
  BY FS_Interval DEF FileTypes
<1>2. TakenOut \subseteq File!Records /\ Reported \subseteq File!Records
  BY DEF TakenOut, Reported
<1>3. IsFiniteSet(TakenOut) /\ IsFiniteSet(Reported)
  BY <1>1, <1>2, FS_Subset DEF File!Records
<1> QED
  BY <1>1, <1>3, FS_CardinalityType DEF File!Records

\* The record that was read is converted, and on its way to its place.
LEMMA ConvertReadDone ==
  ASSUME File!FilesAssumption, FileTypes, Converting, NEW b \in File!Buffer, File!ReadDone(b)
  PROVE  Converting'
<1> USE DEF FileTypes, File!ReadDone, File!Taken, File!NextCompletion, File!ConvertAndWrite,
            File!Use
<1> DEFINE r0 == offset[b]
<1>1. /\ overLap[b] = "none" /\ ReadOver(b) /\ ~WriteOver(b)
      /\ r0 < nRecords /\ bBuffer[b] = <<r0, 0>> /\ Stripe(r0) = b /\ r0 \in File!Records
  BY DEF Converting, Underway, InStripes, File!Records, ReadOver
<1>2. \A c \in File!Buffer : /\ offset'[c] = IF c = b THEN r0 + MAX_OVRLP ELSE offset[c]
                             /\ overLapOut'[c] = IF c = b THEN r0 ELSE overLapOut[c]
                             /\ bBuffer'[c] = IF c = b THEN <<r0, 1>> ELSE bBuffer[c]
                             /\ overLap'[c] = IF c = b THEN "writing" ELSE overLap[c]
                             /\ WriteOver(c)' <=> WriteOver(c)
                             /\ ReadOver(c)' <=> ReadOver(c) /\ c # b
  BY <1>1 DEF ReadOver, WriteOver, File!Convert, File!NoRecord
<1>3. \A r \in File!Records : Stripe(r) \in File!Buffer /\ r \in Nat
  BY Stripes DEF File!Records
<1>4. File!Records' = File!Records /\ outFile' = outFile /\ nDone' = nDone + 1
  BY DEF File!Records
<1>5. InStripes'
  BY <1>1, <1>2, Stripes DEF InStripes, Converting
\* Between the two offsets, its stripe has this record only.
<1>6. \A r \in File!Records : r < offset'[Stripe(r)] <=> r < offset[Stripe(r)] \/ r = r0
  <2> TAKE r \in File!Records
  <2>1. CASE Stripe(r) = b
    <3>1. r > r0 => r >= r0 + MAX_OVRLP
      BY <1>1, <1>3, <2>1, Stripes
    <3> QED
      BY <1>1, <1>2, <1>3, <2>1, <3>1 DEF File!FilesAssumption
  <2>2. CASE Stripe(r) # b
    BY <1>1, <1>2, <1>3, <2>2
  <2> QED
    BY <2>1, <2>2
<1>7. \A r \in File!Records : Written(r)' <=> Written(r)
  BY <1>1, <1>2, <1>3, <1>6 DEF Written
<1>8. ConvertedSoFar'
  BY <1>4, <1>7 DEF ConvertedSoFar, Converting
<1>9. r0 \notin TakenOut /\ TakenOut' = TakenOut \cup {r0}
  BY <1>1, <1>4, <1>6 DEF TakenOut
<1>10. Reported' = Reported
  BY <1>1, <1>2, <1>3, <1>4, <1>6 DEF Reported, TakenOut
<1>11. Cardinality(TakenOut') = Cardinality(TakenOut) + 1
  BY <1>9, FileCounts, FS_AddElement
<1>12. ASSUME NEW c \in File!Buffer PROVE Underway(c)'
  <2>1. Underway(c)
    BY DEF Converting
  <2> QED
    BY <1>1, <1>2, <1>4, <2>1 DEF Underway
<1> QED
  BY <1>4, <1>5, <1>8, <1>10, <1>11, <1>12, FileCounts DEF Converting

\* The record is written; the next one of the stripe is read.
LEMMA ConvertWriteDone ==
  ASSUME File!FilesAssumption, FileTypes, Converting, NEW b \in File!Buffer, File!WriteDone(b)
  PROVE  Converting'
<1> USE DEF FileTypes, File!WriteDone, File!Taken, File!NextCompletion, File!ReadNext, File!Use
<1> DEFINE r0 == overLapOut[b]
<1>1. /\ overLap[b] = "none" /\ ~ReadOver(b) /\ WriteOver(b)
      /\ offset[b] = r0 + MAX_OVRLP /\ r0 < nRecords /\ Stripe(r0) = b /\ r0 \in File!Records
  BY DEF Converting, Underway, InStripes, File!Records, WriteOver
<1>2. \A c \in File!Buffer : /\ overLap'[c] = IF c = b /\ offset[b] < nRecords THEN "reading"
                                              ELSE overLap[c]
                             /\ WriteOver(c)' <=> WriteOver(c) /\ c # b
                             /\ ReadOver(c)' <=> ReadOver(c)
  BY <1>1 DEF ReadOver, WriteOver
<1>3. \A r \in File!Records : Stripe(r) \in File!Buffer /\ r \in Nat
  BY Stripes DEF File!Records
<1>4. /\ File!Records' = File!Records
      /\ UNCHANGED <<outFile, offset, overLapOut, bBuffer, nRecords>> /\ nDone' = nDone + 1
  BY DEF File!Records
<1>5. InStripes'
  BY <1>4 DEF InStripes, Converting
<1>6. ConvertedSoFar'
  BY <1>1, <1>2, <1>3, <1>4 DEF ConvertedSoFar, Written, Converting
<1>7. TakenOut' = TakenOut /\ r0 \in TakenOut
  BY <1>1, <1>4 DEF TakenOut, File!FilesAssumption
<1>8. r0 \notin Reported /\ Reported' = Reported \cup {r0}
  BY <1>1, <1>2, <1>3, <1>4, <1>7 DEF Reported, TakenOut
<1>9. Cardinality(Reported') = Cardinality(Reported) + 1
  BY <1>8, FileCounts, FS_AddElement
<1>10. ASSUME NEW c \in File!Buffer PROVE Underway(c)'
  <2>1. Underway(c)
    BY DEF Converting
  <2> QED
    BY <1>1, <1>2, <1>4, <2>1 DEF Underway
<1> QED
  BY <1>4, <1>5, <1>6, <1>7, <1>9, <1>10, FileCounts DEF Converting

-----------------------------------------------------------------------------
(* FileCopy.cpp *)

LEMMA CopyCounts ==
  ASSUME File!FilesAssumption
  PROVE  /\ IsFiniteSet(Reads) /\ IsFiniteSet(Writes)
         /\ Cardinality(Reads) \in Nat /\ Cardinality(Writes) \in Nat
<1>1. IsFiniteSet(File!Buffer)
  BY FS_Interval DEF File!FilesAssumption, File!Buffer
<1>2. Reads \subseteq File!Buffer /\ Writes \subseteq File!Buffer
  BY DEF Reads, Writes
<1> QED
  BY <1>1, <1>2, FS_Subset, FS_CardinalityType

\* A read has ended: its record is in the buffer.
LEMMA CopyReadCompletes ==
  ASSUME File!FilesAssumption, FileTypes, Copying, NEW b \in File!Buffer, File!ReadCompletes(b)
  PROVE  Copying'
<1> USE DEF FileTypes, File!ReadCompletes, File!Use, File!countsOfIo
<1>1. /\ overLap[b] = "reading" /\ ~ReadOver(b) /\ ~WriteOver(b) /\ offset[b] < liNextReadOffset
  BY DEF Copying, Carries
<1>2. \A c \in File!Buffer : /\ bBuffer'[c] = IF c = b THEN <<offset[b], 0>> ELSE bBuffer[c]
                             /\ overLap'[c] = IF c = b THEN "none" ELSE overLap[c]
                             /\ WriteOver(c)' <=> WriteOver(c)
                             /\ ReadOver(c)' <=> ReadOver(c) \/ c = b
  BY DEF ReadOver, WriteOver
<1>3. /\ File!Records' = File!Records
      /\ UNCHANGED <<offset, overLapOut, outFile, liNextReadOffset, nRecords, nReadsInProgress,
                     nWritesInProgress>>
  BY DEF File!Records
<1>4. Reads' = Reads /\ Writes' = Writes
  BY <1>1, <1>2 DEF Reads, Writes
<1>5. \A r \in File!Records : InHand(r) => InHand(r)'
  BY <1>1, <1>2, <1>3, <1>4 DEF InHand
<1>6. CopiedSoFar'
  BY <1>3, <1>5 DEF CopiedSoFar, Copying
<1>7. ASSUME NEW c \in File!Buffer PROVE Carries(c)'
  <2>1. Carries(c)
    BY DEF Copying
  <2> QED
    BY <1>1, <1>2, <1>3, <2>1 DEF Carries
<1> QED
  BY <1>3, <1>4, <1>6, <1>7 DEF Copying

\* What was read goes to the same place of the other file.
LEMMA CopyReadDone ==
  ASSUME File!FilesAssumption, FileTypes, Copying, NEW b \in File!Buffer, File!CopyRead(b)
  PROVE  Copying'
<1> USE DEF FileTypes, File!CopyRead, File!Taken, File!NextCompletion, File!Use
<1>1. /\ overLap[b] = "none" /\ ReadOver(b) /\ ~WriteOver(b)
      /\ offset[b] < liNextReadOffset /\ bBuffer[b] = <<offset[b], 0>>
  BY DEF Copying, Carries, ReadOver
<1>2. \A c \in File!Buffer : /\ overLapOut'[c] = IF c = b THEN offset[b] ELSE overLapOut[c]
                             /\ overLap'[c] = IF c = b THEN "writing" ELSE overLap[c]
                             /\ WriteOver(c)' <=> WriteOver(c)
                             /\ ReadOver(c)' <=> ReadOver(c) /\ c # b
  BY DEF ReadOver, WriteOver
<1>3. /\ File!Records' = File!Records
      /\ UNCHANGED <<offset, bBuffer, outFile, liNextReadOffset, nRecords>>
      /\ nReadsInProgress' = nReadsInProgress - 1 /\ nWritesInProgress' = nWritesInProgress + 1
  BY DEF File!Records
<1>4. b \in Reads /\ Reads' = Reads \ {b} /\ b \notin Writes /\ Writes' = Writes \cup {b}
  BY <1>1, <1>2 DEF Reads, Writes
<1>5. /\ Cardinality(Reads') = Cardinality(Reads) - 1
      /\ Cardinality(Writes') = Cardinality(Writes) + 1
  BY <1>4, CopyCounts, FS_AddElement, FS_RemoveElement
<1>6. \A r \in File!Records : InHand(r) => InHand(r)'
  BY <1>1, <1>2, <1>3, <1>4 DEF InHand
<1>7. CopiedSoFar'
  BY <1>3, <1>6 DEF CopiedSoFar, Copying
<1>8. ASSUME NEW c \in File!Buffer PROVE Carries(c)'
  <2>1. Carries(c)
    BY DEF Copying
  <2> QED
    BY <1>1, <1>2, <1>3, <2>1 DEF Carries
<1> QED
  BY <1>3, <1>5, <1>7, <1>8, CopyCounts DEF Copying

\* The record is in its place.
LEMMA CopyWriteCompletes ==
  ASSUME File!FilesAssumption, FileTypes, Copying, NEW b \in File!Buffer, File!WriteCompletes(b)
  PROVE  Copying'
<1> USE DEF FileTypes, File!WriteCompletes, File!Use, File!countsOfIo
<1>1. /\ overLap[b] = "writing" /\ ~ReadOver(b) /\ ~WriteOver(b)
      /\ offset[b] < liNextReadOffset /\ overLapOut[b] = offset[b]
      /\ bBuffer[b] = <<offset[b], 0>> /\ offset[b] \in File!Records
  BY DEF Copying, Carries, File!Records
<1>2. \A c \in File!Buffer : /\ overLap'[c] = IF c = b THEN "none" ELSE overLap[c]
                             /\ WriteOver(c)' <=> WriteOver(c) \/ c = b
                             /\ ReadOver(c)' <=> ReadOver(c)
  BY DEF ReadOver, WriteOver
<1>3. /\ File!Records' = File!Records
      /\ UNCHANGED <<offset, overLapOut, bBuffer, liNextReadOffset, nRecords, nReadsInProgress,
                     nWritesInProgress>>
  BY DEF File!Records
<1>4. Reads' = Reads /\ Writes' = Writes
  BY <1>1, <1>2 DEF Reads, Writes
<1>5. \A r \in File!Records : InHand(r) => InHand(r)' \/ r = offset[b]
  BY <1>1, <1>2, <1>3, <1>4 DEF InHand
<1>6. outFile'[offset[b]] = <<offset[b], 0>>
      /\ \A r \in File!Records : r # offset[b] => outFile'[r] = outFile[r]
  BY <1>1
<1>7. CopiedSoFar'
  BY <1>3, <1>5, <1>6 DEF CopiedSoFar, Copying
<1>8. ASSUME NEW c \in File!Buffer PROVE Carries(c)'
  <2>1. Carries(c)
    BY DEF Copying
  <2> QED
    BY <1>1, <1>2, <1>3, <2>1 DEF Carries
<1> QED
  BY <1>3, <1>4, <1>7, <1>8 DEF Copying

\* The buffer takes the next record, if there is one.
LEMMA CopyWriteDone ==
  ASSUME File!FilesAssumption, FileTypes, Copying, NEW b \in File!Buffer, File!CopyWritten(b)
  PROVE  Copying'
<1> USE DEF FileTypes, File!CopyWritten, File!Taken, File!NextCompletion, File!Use
<1>1. overLap[b] = "none" /\ ~ReadOver(b) /\ WriteOver(b)
  BY DEF Copying, Carries, WriteOver
<1>2. \A c \in File!Buffer : /\ WriteOver(c)' <=> WriteOver(c) /\ c # b
                             /\ ReadOver(c)' <=> ReadOver(c)
  BY DEF ReadOver, WriteOver
<1>3. /\ File!Records' = File!Records
      /\ UNCHANGED <<overLapOut, bBuffer, outFile, nRecords>>
      /\ nWritesInProgress' = nWritesInProgress - 1
      /\ liNextReadOffset <= nRecords
  BY DEF File!Records, Copying
<1>4. b \in Writes /\ Cardinality(Writes \ {b}) = Cardinality(Writes) - 1
  BY <1>1, CopyCounts, FS_RemoveElement DEF Writes
<1>5. CASE liNextReadOffset < nRecords
  <2>1. /\ nReadsInProgress' = nReadsInProgress + 1 /\ liNextReadOffset' = liNextReadOffset + 1
        /\ \A c \in File!Buffer :
             /\ overLap'[c] = IF c = b THEN "reading" ELSE overLap[c]
             /\ offset'[c] = IF c = b THEN liNextReadOffset ELSE offset[c]
    BY <1>5
  <2>2. b \notin Reads /\ Reads' = Reads \cup {b} /\ Writes' = Writes \ {b}
    BY <1>1, <1>2, <2>1 DEF Reads, Writes
  <2>3. Cardinality(Reads') = Cardinality(Reads) + 1
    BY <2>2, CopyCounts, FS_AddElement
  <2>4. \A r \in File!Records : InHand(r) => InHand(r)'
    BY <1>1, <2>1, <2>2 DEF InHand
  <2>5. \A r \in File!Records : r = liNextReadOffset => InHand(r)'
    BY <2>1, <2>2 DEF InHand
  <2>6. CopiedSoFar'
    BY <1>3, <2>1, <2>4, <2>5, SMTT(30) DEF CopiedSoFar, Copying, File!Records
  <2>7. ASSUME NEW c \in File!Buffer PROVE Carries(c)'
    <3>1. Carries(c)
      BY DEF Copying
    <3> QED
      BY <1>1, <1>2, <1>3, <1>5, <2>1, <3>1 DEF Carries
  <2> QED
    BY <1>3, <1>4, <1>5, <2>1, <2>2, <2>3, <2>6, <2>7, CopyCounts DEF Copying
<1>6. CASE ~(liNextReadOffset < nRecords)
  <2>1. UNCHANGED <<overLap, offset, nReadsInProgress, liNextReadOffset>>
    BY <1>6
  <2>2. Reads' = Reads /\ Writes' = Writes \ {b}
    BY <1>1, <1>2, <2>1 DEF Reads, Writes
  <2>3. \A r \in File!Records : InHand(r) => InHand(r)'
    BY <1>1, <2>1, <2>2 DEF InHand
  <2>4. CopiedSoFar'
    BY <1>3, <2>1, <2>3 DEF CopiedSoFar, Copying
  <2>5. ASSUME NEW c \in File!Buffer PROVE Carries(c)'
    <3>1. Carries(c)
      BY DEF Copying
    <3> QED
      BY <1>1, <1>2, <1>3, <1>6, <2>1, <3>1 DEF Carries
  <2> QED
    BY <1>3, <1>4, <2>1, <2>2, <2>4, <2>5, CopyCounts DEF Copying
<1> QED
  BY <1>5, <1>6

-----------------------------------------------------------------------------
(* cciMT.c and cciMT_VTP.c *)

\* A stripe's record is read and written by its thread alone.
LEMMA StripeStep ==
  ASSUME File!FilesAssumption, FileTypes, Striping, NEW b \in File!Buffer,
         File!StartCallback(b) \/ File!ReadStripe(b) \/ File!WriteStripe(b)
  PROVE  Striping'
<1> USE DEF FileTypes, File!Use, File!countsOfIo
<1>1. \A r \in File!Records : Stripe(r) \in File!Buffer /\ r \in Nat
  BY Stripes DEF File!Records
<1>2. CASE File!StartCallback(b)
  <2>1. \A c \in File!Buffer : overLap'[c] = IF c = b THEN "ready" ELSE overLap[c]
    BY <1>2 DEF File!StartCallback
  <2> QED
    BY <1>2, <2>1 DEF File!StartCallback, Striping, File!Records
<1>3. CASE File!ReadStripe(b)
  <2>1. \A c \in File!Buffer : /\ overLap'[c] = IF c = b THEN "converted" ELSE overLap[c]
                               /\ bBuffer'[c] = IF c = b THEN <<offset[b], 1>> ELSE bBuffer[c]
    BY <1>3 DEF File!ReadStripe, File!Convert, File!NoRecord
  <2> QED
    BY <1>3, <2>1 DEF File!ReadStripe, Striping, File!Records
<1>4. CASE File!WriteStripe(b)
  <2> DEFINE r0 == offset[b]
  <2>1. r0 < nRecords /\ bBuffer[b] = <<r0, 1>> /\ Stripe(r0) = b /\ r0 \in File!Records
    BY <1>4 DEF File!WriteStripe, Striping, File!Records
  <2>2. /\ \A c \in File!Buffer : /\ overLap'[c] = IF c = b THEN "ready" ELSE overLap[c]
                                  /\ offset'[c] = IF c = b THEN r0 + MAX_OVRLP ELSE offset[c]
        /\ \A r \in File!Records : outFile'[r] = IF r = r0 THEN <<r0, 1>> ELSE outFile[r]
        /\ File!Records' = File!Records
        /\ UNCHANGED <<completed, bBuffer, nRecords>>
    BY <1>4, <2>1 DEF File!WriteStripe, File!Records
  <2>3. \A r \in File!Records : r < offset'[Stripe(r)] <=> r < offset[Stripe(r)] \/ r = r0
    <3> TAKE r \in File!Records
    <3>1. CASE Stripe(r) = b
      <4>1. r > r0 => r >= r0 + MAX_OVRLP
        BY <1>1, <2>1, <3>1, Stripes
      <4> QED
        BY <1>1, <2>1, <2>2, <3>1, <4>1 DEF File!FilesAssumption
    <3>2. CASE Stripe(r) # b
      BY <1>1, <2>1, <2>2, <3>2
    <3> QED
      BY <3>1, <3>2
  <2>4. \A c \in File!Buffer : Stripe(offset'[c]) = c
    BY <2>1, <2>2, Stripes DEF Striping
  <2> QED
    BY <1>1, <2>1, <2>2, <2>3, <2>4 DEF Striping
<1> QED
  BY <1>2, <1>3, <1>4

-----------------------------------------------------------------------------
(* All of them *)

\* The records are not yet read when main begins.
LEMMA FilesBegin == File!FilesAssumption /\ File!FilesInit => FileInv
<1> SUFFICES ASSUME File!FilesAssumption, File!FilesInit PROVE FileInv
  OBVIOUS
<1> USE DEF File!FilesInit
<1>1. nRecords \in Nat
  BY DEF File!FilesAssumption
<1>2. /\ \A b \in File!Buffer : Stripe(b) = b /\ b \in Nat
      /\ \A r \in Nat : Stripe(r) \in File!Buffer /\ Stripe(r) <= r
  BY Stripes
<1>3. FileTypes
  <2>1. overLap \in [File!Buffer -> Uses]
    BY DEF Uses
  <2>2. completed \subseteq {"read", "write"} \X File!Buffer
    OBVIOUS
  <2>3. bBuffer \in [File!Buffer -> Data] /\ outFile \in [File!Records -> Data]
    BY DEF Data
  <2>4. offset \in [File!Buffer -> Nat] /\ overLapOut \in [File!Buffer -> Nat]
    BY <1>2
  <2> QED
    BY <1>1, <2>1, <2>2, <2>3, <2>4 DEF FileTypes, File!FilesAssumption
<1>4. \A r \in File!Records : ~(r < offset[Stripe(r)])
  BY <1>1, <1>2 DEF File!Records
<1>5. ASSUME program \in {"cciOV", "cciEX"} PROVE Converting
  <2>1. InStripes
    BY <1>2 DEF InStripes
  <2>2. ConvertedSoFar
    BY <1>4 DEF ConvertedSoFar, Written
  <2>3. \A b \in File!Buffer : Underway(b)
    BY <1>1, <1>2, <1>5 DEF Underway, ReadOver, WriteOver, File!Converter
  <2>4. TakenOut = {} /\ Reported = {}
    BY <1>4 DEF TakenOut, Reported
  <2> QED
    BY <2>1, <2>2, <2>3, <2>4, FS_EmptySet DEF Converting
<1>6. ASSUME program = "FileCopy" PROVE Copying
  <2>1. CopiedSoFar
    BY <1>1 DEF CopiedSoFar, File!Records
  <2>2. \A b \in File!Buffer : Carries(b)
    BY <1>6 DEF Carries, ReadOver, WriteOver
  <2>3. Reads = {} /\ Writes = File!Buffer
    BY <1>6 DEF Reads, Writes, ReadOver, WriteOver
  <2>4. Cardinality(File!Buffer) = MAX_OVRLP
    <3> HIDE DEF File!FilesInit
    <3> QED
      BY FS_Interval DEF File!Buffer, File!FilesAssumption
  <2> QED
    BY <1>1, <1>6, <2>1, <2>2, <2>3, <2>4, FS_EmptySet DEF Copying
<1>7. ASSUME program \in File!Striped PROVE Striping
  BY <1>2, <1>4, <1>7 DEF Striping, File!Striped
<1> QED
  BY <1>3, <1>5, <1>6, <1>7 DEF FileInv

\* Every step is one of the kinds above.
LEMMA FileInvStep ==
  ASSUME File!FilesAssumption, FileInv, [ProgramsNext]_programVars
  PROVE  FileInv'
<1>1. program' = program
  BY FilesAlone
<1>2. CASE UNCHANGED fileVars
  <2>1. FileTypes' <=> FileTypes
    BY <1>2 DEF fileVars, FileTypes, File!Records
  <2>2. Converting' <=> Converting
    BY <1>2 DEF fileVars, Converting, InStripes, ConvertedSoFar, Written, Underway, TakenOut,
                Reported, ReadOver, WriteOver, File!Records
  <2>3. Copying' <=> Copying
    BY <1>2 DEF fileVars, Copying, CopiedSoFar, Carries, Reads, Writes, InHand, ReadOver,
                WriteOver, File!Records
  <2>4. Striping' <=> Striping
    BY <1>2 DEF fileVars, Striping, File!Records
  <2> QED
    BY <1>1, <2>1, <2>2, <2>3, <2>4 DEF FileInv
<1>3. CASE program \in FileProgram /\ FileStep
  <2>1. FileTypes'
    BY <1>3, FileTypesStep DEF FileInv
  <2>2. ASSUME program \in {"cciOV", "cciEX"} PROVE Converting'
    <3>1. FileTypes /\ Converting
      BY <2>2 DEF FileInv
    <3>2. PICK b \in File!Buffer : File!ReadCompletes(b) \/ File!WriteCompletes(b)
                                     \/ File!ReadDone(b) \/ File!WriteDone(b)
      BY <1>3, <2>2, <3>1 DEF FileStep, File!FileThread, File!StartCallback, File!ReadStripe,
           File!WriteStripe, File!CopyRead, File!CopyWritten, Converting, Underway
    <3> QED
      BY <3>1, <3>2, ConvertReadCompletes, ConvertWriteCompletes, ConvertReadDone,
         ConvertWriteDone
  <2>3. ASSUME program = "FileCopy" PROVE Copying'
    <3>1. FileTypes /\ Copying
      BY <2>3 DEF FileInv
    <3>2. PICK b \in File!Buffer : File!ReadCompletes(b) \/ File!WriteCompletes(b)
                                     \/ File!CopyRead(b) \/ File!CopyWritten(b)
      BY <1>3, <2>3, <3>1 DEF FileStep, File!FileThread, File!StartCallback, File!ReadStripe,
           File!WriteStripe, File!ReadDone, File!ConvertAndWrite, File!WriteDone,
           File!ReadNext, Copying, Carries
    <3> QED
      BY <3>1, <3>2, CopyReadCompletes, CopyWriteCompletes, CopyReadDone, CopyWriteDone
  <2>4. ASSUME program \in File!Striped PROVE Striping'
    <3>1. FileTypes /\ Striping
      BY <2>4 DEF FileInv
    <3>2. PICK b \in File!Buffer : File!StartCallback(b) \/ File!ReadStripe(b)
                                     \/ File!WriteStripe(b)
      BY <1>3, <2>4, <3>1 DEF FileStep, File!FileThread, File!ReadCompletes,
           File!WriteCompletes, File!ReadDone, File!WriteDone, File!CopyRead, File!CopyWritten,
           File!Taken, File!NextCompletion, Striping
    <3> QED
      BY <3>1, <3>2, StripeStep
  <2> QED
    BY <1>1, <2>1, <2>2, <2>3, <2>4 DEF FileInv
<1> QED
  BY <1>2, <1>3, FilesAlone

\* What the invariant says of a program that has ended.
LEMMA AllWritten ==
  ASSUME File!FilesAssumption, FileInv
  PROVE  FilesConverted
<1> SUFFICES ASSUME program \in FileProgram, NEW r \in File!Records
             PROVE  \/ outFile[r] = <<r, IF program = "FileCopy" THEN 0 ELSE 1>>
                    \/ outFile[r] = File!NoRecord /\ ~File!FileEnded
  BY DEF FilesConverted, File!FilesConverted
<1> USE DEF File!OneThread, File!Striped
<1>1. FileTypes /\ r \in Nat /\ Stripe(r) \in File!Buffer
  BY Stripes DEF FileInv, File!Records
<1>2. CASE program \in {"cciOV", "cciEX"}
  <2>1. Converting
    BY <1>2 DEF FileInv
  <2>2. ASSUME File!FileEnded PROVE Written(r)
    <3>1. nDone >= 2 * nRecords
      BY <1>2, <2>2 DEF File!FileEnded, File!LoopEnded
    <3>2. Reported \subseteq TakenOut /\ TakenOut \subseteq File!Records
      BY DEF Reported, TakenOut
    <3>3. Cardinality(Reported) <= nRecords /\ Cardinality(TakenOut) <= nRecords
      BY <1>1, <3>2, FileCounts, FS_Subset
    <3>4. Cardinality(Reported) = Cardinality(File!Records)
      BY <1>1, <2>1, <3>1, <3>3, FileCounts DEF Converting, FileTypes
    <3>5. Reported = File!Records
      BY <1>1, <3>2, <3>4, FileCounts, FS_Subset
    <3> QED
      BY <3>5 DEF Reported, TakenOut, Written
  <2> QED
    BY <1>2, <2>1, <2>2 DEF Converting, ConvertedSoFar
<1>3. CASE program = "FileCopy"
  <2>1. Copying
    BY <1>3 DEF FileInv
  <2>2. ASSUME File!FileEnded PROVE outFile[r] = <<r, 0>>
    <3>1. Cardinality(Reads) = 0 /\ Cardinality(Writes) = 0
      BY <1>3, <2>1, <2>2 DEF File!FileEnded, File!LoopEnded, Copying
    <3>2. Reads = {} /\ Writes = {}
      BY <3>1, CopyCounts, FS_EmptySet
    <3>3. liNextReadOffset = nRecords
      BY <1>1, <2>1, <3>2 DEF Copying, Carries, Reads, Writes
    <3>4. ~InHand(r)
      BY <3>2 DEF InHand, Writes
    <3> QED
      BY <1>1, <2>1, <3>3, <3>4 DEF Copying, CopiedSoFar, File!Records, FileTypes
  <2> QED
    BY <1>3, <2>1, <2>2 DEF Copying, CopiedSoFar
<1>4. CASE program \in File!Striped
  <2>1. Striping
    BY <1>4 DEF FileInv
  <2>2. File!FileEnded => r < offset[Stripe(r)]
    BY <1>1, <1>4 DEF File!FileEnded, File!Records, FileTypes
  <2> QED
    BY <1>4, <2>1, <2>2 DEF Striping
<1> QED
  BY <1>2, <1>3, <1>4 DEF FileProgram, File!Converter

(***************************************************************************)
(* For any file and any number of buffers, with the completions in any     *)
(* order: every record is converted once and to its place, or copied, and  *)
(* when the program ends all are.                                          *)
(***************************************************************************)
THEOREM FilesComplete == ProgramsSpec => []FilesConverted
<1>1. ProgramsInit => FileInv
  BY FilesBegin, ProgramsAssumption DEF ProgramsInit
<1>2. FileInv /\ [ProgramsNext]_programVars => FileInv'
  BY FileInvStep, ProgramsAssumption
<1>3. FileInv => FilesConverted
  BY AllWritten, ProgramsAssumption
<1> QED
  BY <1>1, <1>2, <1>3, PTL DEF ProgramsSpec


-----------------------------------------------------------------------------
(***************************************************************************)
(* serverNPCP.C: what a pipe has that will bring a thread to it.           *)
(***************************************************************************)
OnPort(p) == \E k \in 1 .. Len(port) : port[k][1] = p
Held(p) == \E i \in CP!CpThreads : cpKey[i] = p
HasToken(p) == io[p] # {} \/ OnPort(p) \/ Held(p)

PipeTypes ==
  /\ cpShutDown \in BOOLEAN /\ iNp \in 0 .. MAX_CLIENTS_CP
  /\ cpMain \in {"create", "connect", "threads", "join", "ended", "failed"}
  /\ npState \in [CP!Pipes -> {"none", "connected", "requestRead", "computed", "responding",
                              "respondLast"}]
  /\ io \in [CP!Pipes -> SUBSET {"connect", "read", "write"}]
  /\ port \in Seq(CP!Pipes \X {"done", "aborted"})
  /\ cpThread \in [CP!CpThreads -> {"none", "wait", "switch", "ended"}]
  /\ cpKey \in [CP!CpThreads -> 0 .. MAX_CLIENTS_CP]
  /\ cancelled \in 0 .. MAX_CLIENTS_CP
  /\ cpClient \in [CP!Pipes -> {"away", "open", "asked", "gone"}]

\* What main has not yet connected is in its first state.
NotYetConnected ==
  /\ cpMain = "create" => iNp < MAX_CLIENTS_CP
  /\ cpMain = "connect" => iNp > 0 /\ npState[iNp - 1] = "none"
  /\ \A p \in CP!Pipes : p >= iNp => npState[p] = "none"
  /\ cpMain \in {"create", "connect", "threads"} => \A i \in CP!CpThreads : cpThread[i] = "none"

PortOnce == \A k, l \in 1 .. Len(port) : port[k][1] = port[l][1] => k = l
KeysOnce == \A i, j \in CP!CpThreads : cpKey[i] = cpKey[j] /\ cpKey[i] # CP!NoKey => i = j
OneOf(p) ==
  /\ \A a, b \in io[p] : a = b
  /\ io[p] = {} \/ ~OnPort(p)
  /\ io[p] = {} \/ ~Held(p)
  /\ ~OnPort(p) \/ ~Held(p)
  /\ npState[p] = "none" => ~HasToken(p)

TokensApart ==
  /\ PortOnce /\ KeysOnce
  /\ \A i \in CP!CpThreads : cpKey[i] # CP!NoKey => cpThread[i] = "switch"
  /\ \A k \in 1 .. Len(port) : port[k][2] = "aborted" => cpShutDown
  /\ \A p \in CP!Pipes : OneOf(p)

\* A client that leaves takes its pipe, and then a thread.
WithoutToken == {p \in CP!Pipes : npState[p] # "none" /\ ~HasToken(p)}
LostThreads == {i \in CP!CpThreads : cpThread[i] = "ended"}
LossesAgree ==
  ~cpShutDown => /\ \A p \in WithoutToken : cpClient[p] = "gone"
                 /\ Cardinality(WithoutToken) = Cardinality(LostThreads)

PipeInv == PipeTypes /\ NotYetConnected /\ TokensApart /\ LossesAgree

\* Steps of the server are all that changes its variables.
PipeStep == (\E n \in Numbers : CP!CpGoesOn(n)) \/ CP!CpMainStep \/ CP!CpEnvironment

LEMMA PipesAlone ==
  ASSUME [ProgramsNext]_programVars
  PROVE  UNCHANGED cpVars \/ PipeStep
<1> SUFFICES ASSUME program = "serverNPCP", ProgramsNext PROVE PipeStep
  BY DEF ProgramsNext, programVars, Frozen
<1>1. "serverNPCP" \notin (MessageProgram \cup FileProgram \cup StreamProgram \cup CrewProgram)
  BY DEF FileProgram, File!Converter, File!OneThread, File!Striped, MessageProgram, CrewProgram,
         StreamProgram
<1> USE <1>1 DEF MessageProgram, InSimple, InEvent, InMulti, PipeStep
<1>3. CASE \E n \in Numbers : Thread(n)
  BY <1>3 DEF Thread
<1>4. CASE MainThread
  BY <1>4 DEF MainThread
<1>5. CASE Environment
  BY <1>5 DEF Environment
<1> QED
  BY <1>3, <1>4, <1>5 DEF ProgramsNext

\* A packet for a pipe that had none, and the taking of the first packet.
LEMMA PortAppended ==
  ASSUME port \in Seq(CP!Pipes \X {"done", "aborted"}), NEW p \in CP!Pipes,
         NEW r \in {"done", "aborted"}, CP!Posted(p, r)
  PROVE  /\ port' \in Seq(CP!Pipes \X {"done", "aborted"})
         /\ \A x : OnPort(x)' <=> OnPort(x) \/ x = p
         /\ PortOnce /\ ~OnPort(p) => PortOnce'
         /\ \A k \in 1 .. Len(port') :
              port'[k][2] = r \/ \E l \in 1 .. Len(port) : port'[k] = port[l]
<1>1. /\ port' \in Seq(CP!Pipes \X {"done", "aborted"}) /\ Len(port) \in Nat
      /\ Len(port') = Len(port) + 1 /\ port'[Len(port) + 1] = <<p, r>>
      /\ \A k \in 1 .. Len(port) : port'[k] = port[k]
  BY DEF CP!Posted
<1>2. ASSUME NEW x PROVE OnPort(x)' <=> OnPort(x) \/ x = p
  <2>1. \A k \in 1 .. Len(port') : k \in 1 .. Len(port) \/ k = Len(port) + 1
    BY <1>1
  <2>2. 1 .. Len(port) \subseteq 1 .. Len(port') /\ Len(port) + 1 \in 1 .. Len(port')
    BY <1>1
  <2>3. port'[Len(port) + 1][1] = p
    BY <1>1
  <2>4. OnPort(x)' => OnPort(x) \/ x = p
    BY <1>1, <2>1, <2>3 DEF OnPort
  <2>5. OnPort(x) => OnPort(x)'
    BY <1>1, <2>2 DEF OnPort
  <2>6. x = p => OnPort(x)'
    BY <2>2, <2>3 DEF OnPort
  <2> QED
    BY <2>4, <2>5, <2>6
<1>3. PortOnce /\ ~OnPort(p) => PortOnce'
  <2> SUFFICES ASSUME PortOnce, ~OnPort(p),
                      NEW k \in 1 .. Len(port'), NEW l \in 1 .. Len(port'),
                      port'[k][1] = port'[l][1]
               PROVE  k = l
    BY DEF PortOnce
  <2>1. \A m \in 1 .. Len(port) : port'[m][1] # p
    BY <1>1 DEF OnPort
  <2>2. port'[Len(port) + 1][1] = p
    BY <1>1
  <2>3. /\ k \in 1 .. Len(port) \/ k = Len(port) + 1
        /\ l \in 1 .. Len(port) \/ l = Len(port) + 1
    BY <1>1
  <2>4. CASE k \in 1 .. Len(port) /\ l \in 1 .. Len(port)
    BY <1>1, <2>4 DEF PortOnce
  <2> QED
    BY <2>1, <2>2, <2>3, <2>4
<1>4. \A k \in 1 .. Len(port') : port'[k][2] = r \/ \E l \in 1 .. Len(port) : port'[k] = port[l]
  BY <1>1
<1> QED
  BY <1>1, <1>2, <1>3, <1>4

LEMMA PortTaken ==
  ASSUME port \in Seq(CP!Pipes \X {"done", "aborted"}), port # <<>>, port' = Tail(port)
  PROVE  /\ port' \in Seq(CP!Pipes \X {"done", "aborted"}) /\ Head(port)[1] \in CP!Pipes
         /\ OnPort(Head(port)[1])
         /\ PortOnce => \A x : OnPort(x)' <=> OnPort(x) /\ x # Head(port)[1]
         /\ PortOnce => PortOnce'
         /\ \A k \in 1 .. Len(port') : \E l \in 1 .. Len(port) : port'[k] = port[l]
         /\ \E l \in 1 .. Len(port) : Head(port) = port[l]
<1>1. /\ port' \in Seq(CP!Pipes \X {"done", "aborted"}) /\ Len(port) \in Nat /\ Len(port) > 0
      /\ Len(port') = Len(port) - 1 /\ Head(port) = port[1]
      /\ \A k \in 1 .. Len(port) - 1 : port'[k] = port[k + 1]
      /\ Head(port)[1] \in CP!Pipes
  OBVIOUS
<1>2. OnPort(Head(port)[1])
  BY <1>1 DEF OnPort
<1>3. ASSUME PortOnce, NEW x PROVE OnPort(x)' <=> OnPort(x) /\ x # port[1][1]
  <2>1. ASSUME NEW k \in 1 .. Len(port) - 1
        PROVE  k + 1 \in 1 .. Len(port) /\ port[k + 1][1] # port[1][1]
    BY <1>1, <1>3 DEF PortOnce
  <2>2. OnPort(x) <=> x = port[1][1] \/ \E k \in 1 .. Len(port) - 1 : port[k + 1][1] = x
    <3>1. ASSUME NEW k \in 1 .. Len(port), port[k][1] = x, x # port[1][1]
          PROVE  \E l \in 1 .. Len(port) - 1 : port[l + 1][1] = x
      <4>1. k - 1 \in 1 .. Len(port) - 1 /\ (k - 1) + 1 = k
        BY <1>1, <3>1
      <4> QED
        BY <3>1, <4>1
    <3>2. ASSUME NEW k \in 1 .. Len(port) - 1, port[k + 1][1] = x PROVE OnPort(x)
      BY <2>1, <3>2 DEF OnPort
    <3> QED
      BY <1>2, <1>1, <3>1, <3>2 DEF OnPort
  <2>3. OnPort(x)' <=> \E k \in 1 .. Len(port) - 1 : port[k + 1][1] = x
    BY <1>1 DEF OnPort
  <2> QED
    BY <2>1, <2>2, <2>3
<1>4. PortOnce => PortOnce'
  BY <1>1 DEF PortOnce
<1> QED
  BY <1>1, <1>2, <1>3, <1>4

\* A thread takes a pipe that no thread has, or lets go of its own.
LEMMA KeyTaken ==
  ASSUME MAX_CLIENTS_CP \in Nat, cpKey \in [CP!CpThreads -> 0 .. MAX_CLIENTS_CP], KeysOnce,
         NEW i \in CP!CpThreads, cpKey[i] = CP!NoKey, NEW p \in CP!Pipes, ~Held(p),
         cpKey' = [cpKey EXCEPT ![i] = p]
  PROVE  /\ cpKey' \in [CP!CpThreads -> 0 .. MAX_CLIENTS_CP] /\ KeysOnce'
         /\ \A x \in CP!Pipes : Held(x)' <=> Held(x) \/ x = p
<1> USE DEF CP!NoKey, CP!Pipes
<1>1. \A j \in CP!CpThreads : cpKey'[j] = IF j = i THEN p ELSE cpKey[j]
  OBVIOUS
<1>2. KeysOnce'
  BY <1>1 DEF KeysOnce, Held, CP!CpThreads
<1>3. \A x \in CP!Pipes : Held(x)' <=> Held(x) \/ x = p
  BY <1>1 DEF Held, CP!CpThreads
<1> QED
  BY <1>2, <1>3

LEMMA KeyReleased ==
  ASSUME MAX_CLIENTS_CP \in Nat, cpKey \in [CP!CpThreads -> 0 .. MAX_CLIENTS_CP], KeysOnce,
         NEW i \in CP!CpThreads, cpKey[i] # CP!NoKey, cpKey' = [cpKey EXCEPT ![i] = CP!NoKey]
  PROVE  /\ cpKey' \in [CP!CpThreads -> 0 .. MAX_CLIENTS_CP] /\ KeysOnce'
         /\ cpKey[i] \in CP!Pipes /\ Held(cpKey[i])
         /\ \A x \in CP!Pipes : Held(x)' <=> Held(x) /\ x # cpKey[i]
<1> USE DEF CP!NoKey, CP!Pipes
<1>1. \A j \in CP!CpThreads : cpKey'[j] = IF j = i THEN MAX_CLIENTS_CP ELSE cpKey[j]
  OBVIOUS
<1>2. KeysOnce'
  BY <1>1 DEF KeysOnce, CP!CpThreads
<1>3. \A x \in CP!Pipes : Held(x)' <=> Held(x) /\ x # cpKey[i]
  BY <1>1 DEF Held, KeysOnce, CP!CpThreads
<1> QED
  BY <1>2, <1>3 DEF Held

\* Only the pipe of the step has to be looked at.
LEMMA OtherPipes ==
  ASSUME NEW p \in CP!Pipes,
         \A x \in CP!Pipes : x # p => /\ io'[x] = io[x] /\ npState'[x] = npState[x]
                                      /\ OnPort(x)' <=> OnPort(x)
                                      /\ Held(x)' <=> Held(x),
         \A x \in CP!Pipes : OneOf(x), \A x \in CP!Pipes : x = p => OneOf(x)'
  PROVE  /\ \A x \in CP!Pipes : OneOf(x)'
         /\ \A x \in CP!Pipes : x # p => (HasToken(x)' <=> HasToken(x))
<1>1. ASSUME NEW x \in CP!Pipes, x # p PROVE OneOf(x)' /\ (HasToken(x)' <=> HasToken(x))
  <2>1. /\ io'[x] = io[x] /\ npState'[x] = npState[x]
        /\ OnPort(x)' <=> OnPort(x)
        /\ Held(x)' <=> Held(x)
    BY <1>1
  <2>2. HasToken(x)' <=> HasToken(x)
    BY <2>1 DEF HasToken
  <2>3. OneOf(x)
    OBVIOUS
  <2> QED
    BY <2>1, <2>2, <2>3 DEF OneOf
<1> QED
  BY <1>1

\* Without losses, and with the loss of a pipe and a thread.
LEMMA NoLoss ==
  ASSUME LossesAgree, cpShutDown => cpShutDown',
         \A x \in CP!Pipes : cpClient[x] = "gone" => cpClient'[x] = "gone",
         ~cpShutDown' => WithoutToken' = WithoutToken /\ LostThreads' = LostThreads
  PROVE  LossesAgree'
BY DEF LossesAgree, WithoutToken

LEMMA OneLoss ==
  ASSUME CP!ServerCPAssumption, LossesAgree, UNCHANGED <<cpShutDown, cpClient>>,
         NEW p \in CP!Pipes, p \notin WithoutToken, WithoutToken' = WithoutToken \cup {p},
         NEW i \in CP!CpThreads, i \notin LostThreads, LostThreads' = LostThreads \cup {i},
         cpClient[p] = "gone"
  PROVE  LossesAgree'
<1>1. IsFiniteSet(CP!Pipes) /\ IsFiniteSet(CP!CpThreads)
  BY FS_Interval DEF CP!Pipes, CP!CpThreads, CP!ServerCPAssumption
<1>2. WithoutToken \subseteq CP!Pipes /\ LostThreads \subseteq CP!CpThreads
  BY DEF WithoutToken, LostThreads
<1>3. IsFiniteSet(WithoutToken) /\ IsFiniteSet(LostThreads)
  BY <1>1, <1>2, FS_Subset
<1>4. /\ Cardinality(WithoutToken') = Cardinality(WithoutToken) + 1
      /\ Cardinality(LostThreads') = Cardinality(LostThreads) + 1
  BY <1>3, FS_AddElement
<1> QED
  BY <1>4 DEF LossesAgree

\* An operation of a pipe is over, and its packet is in the port.
LEMMA PacketForOperation ==
  ASSUME PipeTypes, TokensApart, NEW p \in CP!Pipes, NEW r \in {"done", "aborted"},
         r = "aborted" => cpShutDown', cpShutDown => cpShutDown',
         io[p] # {}, io' = [io EXCEPT ![p] = {}], CP!Posted(p, r),
         UNCHANGED <<npState, cpKey, cpThread>>
  PROVE  /\ io' \in [CP!Pipes -> SUBSET {"connect", "read", "write"}]
         /\ port' \in Seq(CP!Pipes \X {"done", "aborted"})
         /\ TokensApart'
         /\ \A x \in CP!Pipes : HasToken(x)' <=> HasToken(x)
<1>1. /\ io \in [CP!Pipes -> SUBSET {"connect", "read", "write"}]
      /\ port \in Seq(CP!Pipes \X {"done", "aborted"})
  BY DEF PipeTypes
<1>2. /\ PortOnce /\ KeysOnce /\ \A x \in CP!Pipes : OneOf(x)
      /\ ~OnPort(p) /\ ~Held(p) /\ npState[p] # "none"
  BY DEF TokensApart, OneOf, HasToken
<1>3. /\ port' \in Seq(CP!Pipes \X {"done", "aborted"}) /\ PortOnce'
      /\ \A x : OnPort(x)' <=> OnPort(x) \/ x = p
      /\ \A k \in 1 .. Len(port') : port'[k][2] = r \/ \E l \in 1 .. Len(port) : port'[k] = port[l]
  BY <1>1, <1>2, PortAppended
<1>4. /\ io' \in [CP!Pipes -> SUBSET {"connect", "read", "write"}]
      /\ \A x \in CP!Pipes : io'[x] = IF x = p THEN {} ELSE io[x]
  BY <1>1
<1>5. KeysOnce' /\ \A x : Held(x)' <=> Held(x)
  BY <1>2 DEF KeysOnce, Held
<1>6. \A x \in CP!Pipes : x = p => OneOf(x)' /\ HasToken(x)'
  BY <1>2, <1>3, <1>4, <1>5 DEF OneOf, HasToken
<1>7. /\ \A x \in CP!Pipes : OneOf(x)'
      /\ \A x \in CP!Pipes : x # p => (HasToken(x)' <=> HasToken(x))
  BY <1>2, <1>3, <1>4, <1>5, <1>6, OtherPipes
<1>8. \A k \in 1 .. Len(port') : port'[k][2] = "aborted" => cpShutDown'
  BY <1>3 DEF TokensApart
<1>9. \A i \in CP!CpThreads : cpKey'[i] # CP!NoKey => cpThread'[i] = "switch"
  BY DEF TokensApart
<1>10. HasToken(p)
  BY DEF HasToken
<1> QED
  BY <1>3, <1>4, <1>5, <1>6, <1>7, <1>8, <1>9, <1>10 DEF TokensApart

\* What the losses are counted of does not change.
LEMMA SameLosses ==
  ASSUME \A x \in CP!Pipes : npState'[x] = npState[x] /\ (HasToken(x)' <=> HasToken(x))
  PROVE  WithoutToken' = WithoutToken
BY DEF WithoutToken

\* main, before the threads: the pipe that it connects gets its operation.
LEMMA PipesConnected ==
  ASSUME CP!ServerCPAssumption, PipeInv, CP!ConnectPipe, cpClient[iNp - 1] = "away"
  PROVE  PipeInv'
<1> DEFINE p == iNp - 1
<1> USE DEF CP!ConnectPipe, CP!CpMainGoes, CP!Begin
<1>1. PipeTypes /\ NotYetConnected /\ TokensApart /\ LossesAgree
  BY DEF PipeInv
<1>2. /\ p \in CP!Pipes /\ npState[p] = "none" /\ OneOf(p) /\ ~HasToken(p)
      /\ io[p] = {} /\ ~OnPort(p) /\ ~Held(p)
  BY <1>1 DEF PipeTypes, NotYetConnected, TokensApart, OneOf, HasToken, CP!Pipes,
     CP!ServerCPAssumption
<1>3. /\ io' = [io EXCEPT ![p] = @ \cup {"connect"}]
      /\ npState' = [npState EXCEPT ![p] = "connected"]
      /\ cpMain' = IF iNp = MAX_CLIENTS_CP THEN "threads" ELSE "create"
      /\ UNCHANGED <<cpShutDown, iNp, port, cpThread, cpKey, cancelled, cpClient>>
      /\ cpMain = "connect"
  OBVIOUS
<1> HIDE DEF CP!ConnectPipe
<1>4. /\ io' \in [CP!Pipes -> SUBSET {"connect", "read", "write"}]
      /\ \A x \in CP!Pipes : io'[x] = IF x = p THEN {"connect"} ELSE io[x]
      /\ \A x \in CP!Pipes : npState'[x] = IF x = p THEN "connected" ELSE npState[x]
  BY <1>1, <1>2, <1>3 DEF PipeTypes
<1>5. PipeTypes'
  <2>1. npState' \in [CP!Pipes -> {"none", "connected", "requestRead", "computed", "responding",
                                  "respondLast"}]
    BY <1>1, <1>3 DEF PipeTypes
  <2> QED
    BY <1>1, <1>3, <1>4, <2>1 DEF PipeTypes, CP!Pipes, CP!CpThreads
<1>6. NotYetConnected'
  BY <1>1, <1>2, <1>3, <1>4 DEF PipeTypes, NotYetConnected, CP!Pipes, CP!CpThreads,
     CP!ServerCPAssumption
<1> HIDE DEF p
<1>7. /\ PortOnce' /\ KeysOnce'
      /\ \A x : OnPort(x)' <=> OnPort(x)
      /\ \A x : Held(x)' <=> Held(x)
  BY <1>1, <1>3 DEF TokensApart, PortOnce, KeysOnce, OnPort, Held, CP!CpThreads, CP!NoKey
<1>8. \A x \in CP!Pipes : x = p => OneOf(x)' /\ HasToken(x)'
  BY <1>2, <1>4, <1>7 DEF OneOf, HasToken
<1>9. /\ \A x \in CP!Pipes : OneOf(x)'
      /\ \A x \in CP!Pipes : x # p => (HasToken(x)' <=> HasToken(x))
  BY <1>1, <1>2, <1>4, <1>7, <1>8, OtherPipes DEF TokensApart
<1>10. TokensApart'
  BY <1>1, <1>3, <1>7, <1>9 DEF TokensApart, CP!CpThreads, CP!NoKey
<1>11. WithoutToken' = WithoutToken
  BY <1>2, <1>4, <1>8, <1>9 DEF WithoutToken
<1>12. LossesAgree'
  BY <1>1, <1>3, <1>11, NoLoss DEF LostThreads, CP!CpThreads
<1> QED
  BY <1>5, <1>6, <1>10, <1>12 DEF PipeInv

\* The steps that leave the pipes as they are.
LEMMA PipesLeft ==
  ASSUME CP!ServerCPAssumption, PipeInv,
         \/ CP!CreatePipe \/ CP!StartThreads \/ CP!CpExit \/ CP!CpHandler
         \/ CP!ConnectPipe /\ cpClient[iNp - 1] # "away"
  PROVE  PipeInv'
<1>1. PipeTypes /\ NotYetConnected /\ TokensApart /\ LossesAgree
  BY DEF PipeInv
<1>2. /\ UNCHANGED <<npState, io, port, cpKey, cancelled, cpClient>>
      /\ cpShutDown => cpShutDown'
  BY DEF CP!CreatePipe, CP!StartThreads, CP!CpExit, CP!CpHandler, CP!ConnectPipe, CP!CpMainGoes
<1>3. /\ cpShutDown' \in BOOLEAN
      /\ cpThread' \in [CP!CpThreads -> {"none", "wait", "switch", "ended"}]
      /\ cpShutDown' \/ LostThreads' = LostThreads
      /\ \A i \in CP!CpThreads : cpThread[i] = "switch" => cpThread'[i] = "switch"
  <2>1. CASE CP!StartThreads
    <3>1. \A i \in CP!CpThreads : cpThread[i] = "none"
      BY <1>1, <2>1 DEF NotYetConnected, CP!StartThreads, CP!CpMainGoes
    <3>2. /\ cpThread' = [i \in CP!CpThreads |-> IF cpShutDown THEN "ended" ELSE "wait"]
          /\ cpShutDown' = cpShutDown
      BY <2>1 DEF CP!StartThreads
    <3> QED
      BY <1>1, <3>1, <3>2 DEF PipeTypes, LostThreads
  <2>2. CASE ~CP!StartThreads
    BY <1>1, <2>2 DEF PipeTypes, LostThreads, CP!CreatePipe, CP!CpExit, CP!CpHandler,
       CP!ConnectPipe, CP!CpThreads
  <2> QED
    BY <2>1, <2>2
<1>4. PipeTypes' /\ NotYetConnected'
  <2> USE <1>1 DEF PipeTypes, NotYetConnected, CP!CpMainGoes, CP!Pipes, CP!CpThreads,
                   CP!ServerCPAssumption
  <2>1. CASE CP!CreatePipe
    BY <2>1 DEF CP!CreatePipe
  <2>2. CASE CP!StartThreads
    BY <1>3, <2>2 DEF CP!StartThreads
  <2>3. CASE CP!CpExit
    BY <2>3 DEF CP!CpExit
  <2>4. CASE CP!CpHandler
    BY <2>4 DEF CP!CpHandler
  <2>5. CASE CP!ConnectPipe /\ cpClient[iNp - 1] # "away"
    BY <2>5 DEF CP!ConnectPipe
  <2> QED
    BY <2>1, <2>2, <2>3, <2>4, <2>5
<1>5. /\ PortOnce' /\ KeysOnce'
      /\ \A x : OnPort(x)' <=> OnPort(x)
      /\ \A x : Held(x)' <=> Held(x)
  BY <1>1, <1>2 DEF TokensApart, PortOnce, KeysOnce, OnPort, Held, CP!CpThreads, CP!NoKey
<1>6. \A x \in CP!Pipes : HasToken(x)' <=> HasToken(x)
  BY <1>2, <1>5 DEF HasToken
<1>7. \A x \in CP!Pipes : OneOf(x)'
  BY <1>1, <1>2, <1>5, <1>6 DEF TokensApart, OneOf
<1>8. TokensApart'
  BY <1>1, <1>2, <1>3, <1>5, <1>7 DEF TokensApart, CP!CpThreads, CP!NoKey, CP!Pipes
<1>9. LossesAgree'
  BY <1>1, <1>2, <1>3, <1>6, SameLosses, NoLoss
<1> QED
  BY <1>4, <1>8, <1>9 DEF PipeInv

\* What ends an operation: the pipe's client, or the monitor.
LEMMA OperationsEnd ==
  ASSUME CP!ServerCPAssumption, PipeInv, NEW p \in CP!Pipes, NEW r \in {"done", "aborted"},
         r = "aborted" => cpShutDown,
         \/ io[p] # {} /\ io' = [io EXCEPT ![p] = {}] /\ CP!Posted(p, r)
         \/ UNCHANGED <<io, port>>,
         UNCHANGED <<cpShutDown, cpMain, iNp, npState, cpThread, cpKey>>,
         cancelled' \in 0 .. MAX_CLIENTS_CP,
         cpClient' \in [CP!Pipes -> {"away", "open", "asked", "gone"}],
         \A x \in CP!Pipes : cpClient[x] = "gone" => cpClient'[x] = "gone"
  PROVE  PipeInv'
<1>1. PipeTypes /\ NotYetConnected /\ TokensApart /\ LossesAgree
  BY DEF PipeInv
<1>2. /\ io' \in [CP!Pipes -> SUBSET {"connect", "read", "write"}]
      /\ port' \in Seq(CP!Pipes \X {"done", "aborted"})
      /\ TokensApart'
      /\ \A x \in CP!Pipes : HasToken(x)' <=> HasToken(x)
  <2>1. CASE io[p] # {} /\ io' = [io EXCEPT ![p] = {}] /\ CP!Posted(p, r)
    BY <1>1, <2>1, PacketForOperation
  <2>2. CASE UNCHANGED <<io, port>>
    BY <1>1, <2>2 DEF PipeTypes, TokensApart, PortOnce, KeysOnce, OneOf, HasToken, OnPort, Held,
       CP!Pipes, CP!CpThreads, CP!NoKey
  <2> QED
    BY <2>1, <2>2
<1>3. PipeTypes'
  BY <1>1, <1>2 DEF PipeTypes, CP!Pipes, CP!CpThreads
<1>4. NotYetConnected'
  BY <1>1 DEF NotYetConnected, CP!Pipes, CP!CpThreads
<1>5. LostThreads' = LostThreads
  BY DEF LostThreads
<1>6. LossesAgree'
  BY <1>1, <1>2, <1>5, SameLosses, NoLoss
<1> QED
  BY <1>2, <1>3, <1>4, <1>6 DEF PipeInv

LEMMA ClientsGoOn ==
  ASSUME CP!ServerCPAssumption, PipeInv, NEW p \in CP!Pipes,
         CP!ClientOpen(p) \/ CP!ClientAsk(p) \/ CP!ClientReads(p) \/ CP!ClientClose(p)
  PROVE  PipeInv'
<1>1. PipeTypes /\ TokensApart
  BY DEF PipeInv
<1>2. /\ cpClient[p] # "gone"
      /\ \E c \in {"open", "asked", "gone"} : cpClient' = [cpClient EXCEPT ![p] = c]
      /\ UNCHANGED <<cpShutDown, cpMain, iNp, npState, cpThread, cpKey, cancelled>>
  BY DEF CP!ClientOpen, CP!ClientAsk, CP!ClientReads, CP!ClientClose, CP!ClientGoes
<1>3. /\ cpClient' \in [CP!Pipes -> {"away", "open", "asked", "gone"}]
      /\ \A x \in CP!Pipes : cpClient[x] = "gone" => cpClient'[x] = "gone"
      /\ cancelled' \in 0 .. MAX_CLIENTS_CP
  BY <1>1, <1>2 DEF PipeTypes
<1>4. \/ \E op : CP!Completed(p, op, "done")
      \/ io[p] # {} /\ io' = [io EXCEPT ![p] = {}] /\ CP!Posted(p, "done")
      \/ UNCHANGED <<io, port>>
  BY DEF CP!ClientOpen, CP!ClientAsk, CP!ClientReads, CP!ClientClose
<1>5. ASSUME NEW op, CP!Completed(p, op, "done")
      PROVE  io[p] # {} /\ io' = [io EXCEPT ![p] = {}] /\ CP!Posted(p, "done")
  <2>1. io[p] \ {op} = {}
    BY <1>1, <1>5 DEF CP!Completed, TokensApart, OneOf
  <2> QED
    BY <1>5, <2>1 DEF CP!Completed
<1> QED
  BY <1>2, <1>3, <1>4, <1>5, OperationsEnd

LEMMA MonitorCancels ==
  ASSUME CP!ServerCPAssumption, PipeInv, CP!CancelPipe
  PROVE  PipeInv'
<1>1. /\ cancelled \in CP!Pipes /\ cancelled' \in 0 .. MAX_CLIENTS_CP
      /\ cpClient \in [CP!Pipes -> {"away", "open", "asked", "gone"}]
  BY DEF PipeInv, PipeTypes, CP!CancelPipe, CP!Pipes, CP!ServerCPAssumption
<1>2. /\ cpShutDown /\ UNCHANGED <<cpShutDown, cpMain, iNp, npState, cpThread, cpKey, cpClient>>
      /\ \/ /\ io[cancelled] # {} /\ io' = [io EXCEPT ![cancelled] = {}]
            /\ CP!Posted(cancelled, "aborted")
         \/ UNCHANGED <<io, port>>
  BY DEF CP!CancelPipe
<1> QED
  BY <1>1, <1>2, OperationsEnd

\* A thread takes a packet, and the pipe with it; or it finds it cancelled.
LEMMA ThreadTakes ==
  ASSUME CP!ServerCPAssumption, PipeInv, NEW i \in CP!CpThreads, CP!GetQueuedCompletionStatus(i)
  PROVE  PipeInv'
<1> DEFINE p == Head(port)[1]
<1>1. PipeTypes /\ NotYetConnected /\ TokensApart /\ LossesAgree
  BY DEF PipeInv
<1>2. /\ port # <<>> /\ port' = Tail(port) /\ cpThread[i] = "wait"
      /\ UNCHANGED <<cpShutDown, cpMain, iNp, npState, io, cancelled, cpClient>>
      /\ \/ /\ Head(port)[2] = "aborted" \/ cpShutDown
            /\ cpThread' = [cpThread EXCEPT ![i] = IF cpShutDown THEN "ended" ELSE "wait"]
            /\ cpKey' = cpKey
         \/ /\ Head(port)[2] # "aborted" /\ ~cpShutDown
            /\ cpThread' = [cpThread EXCEPT ![i] = "switch"]
            /\ cpKey' = [cpKey EXCEPT ![i] = p]
  BY DEF CP!GetQueuedCompletionStatus, CP!LoopAgain, CP!CpGoes
<1>3. /\ port' \in Seq(CP!Pipes \X {"done", "aborted"}) /\ p \in CP!Pipes
      /\ OnPort(p) /\ PortOnce'
      /\ \A x : OnPort(x)' <=> OnPort(x) /\ x # p
      /\ \A k \in 1 .. Len(port') : \E l \in 1 .. Len(port) : port'[k] = port[l]
      /\ Head(port)[2] = "aborted" => cpShutDown
  BY <1>1, <1>2, PortTaken DEF PipeTypes, TokensApart
<1> HIDE DEF p
<1>4. OneOf(p) /\ io[p] = {} /\ ~Held(p) /\ npState[p] # "none" /\ cpKey[i] = CP!NoKey
  BY <1>1, <1>2, <1>3 DEF TokensApart, OneOf, HasToken
<1>5. \/ /\ cpShutDown /\ cpKey' = cpKey
         /\ cpThread' = [cpThread EXCEPT ![i] = "ended"]
      \/ /\ ~cpShutDown /\ cpKey' = [cpKey EXCEPT ![i] = p]
         /\ cpThread' = [cpThread EXCEPT ![i] = "switch"]
  BY <1>2, <1>3
<1>6. /\ cpKey' \in [CP!CpThreads -> 0 .. MAX_CLIENTS_CP] /\ KeysOnce'
      /\ \A x \in CP!Pipes : Held(x)' <=> Held(x) \/ (x = p /\ ~cpShutDown)
  <2>1. CASE ~cpShutDown
    BY <1>1, <1>3, <1>4, <1>5, <2>1, KeyTaken DEF PipeTypes, TokensApart, CP!ServerCPAssumption
  <2>2. CASE cpShutDown
    BY <1>1, <1>5, <2>2 DEF PipeTypes, TokensApart, KeysOnce, Held, CP!CpThreads, CP!NoKey
  <2> QED
    BY <2>1, <2>2
<1>7. /\ cpThread' \in [CP!CpThreads -> {"none", "wait", "switch", "ended"}]
      /\ \A j \in CP!CpThreads : j # i => cpThread'[j] = cpThread[j] /\ cpKey'[j] = cpKey[j]
      /\ cpKey'[i] # CP!NoKey => cpThread'[i] = "switch"
      /\ ~cpShutDown => cpThread'[i] = "switch"
  BY <1>1, <1>4, <1>5 DEF PipeTypes
<1>8. PipeTypes'
  BY <1>1, <1>2, <1>3, <1>6, <1>7 DEF PipeTypes, CP!Pipes, CP!CpThreads
<1>9. NotYetConnected'
  BY <1>1, <1>2 DEF NotYetConnected, CP!Pipes, CP!CpThreads
<1>10. \A x \in CP!Pipes : x = p => OneOf(x)' /\ (HasToken(x)' <=> ~cpShutDown)
  BY <1>2, <1>3, <1>4, <1>6 DEF OneOf, HasToken
<1>11. /\ \A x \in CP!Pipes : OneOf(x)'
       /\ \A x \in CP!Pipes : x # p => (HasToken(x)' <=> HasToken(x))
  BY <1>1, <1>2, <1>3, <1>6, <1>10, OtherPipes DEF TokensApart
<1>12. TokensApart'
  <2>1. \A k \in 1 .. Len(port') : port'[k][2] = "aborted" => cpShutDown'
    BY <1>1, <1>2, <1>3 DEF TokensApart
  <2>2. \A j \in CP!CpThreads : cpKey'[j] # CP!NoKey => cpThread'[j] = "switch"
    BY <1>1, <1>7 DEF TokensApart
  <2> QED
    BY <1>3, <1>6, <1>11, <2>1, <2>2 DEF TokensApart, CP!Pipes, CP!CpThreads, CP!NoKey
<1>13. ~cpShutDown => WithoutToken' = WithoutToken /\ LostThreads' = LostThreads
  <2> SUFFICES ASSUME ~cpShutDown PROVE WithoutToken' = WithoutToken /\ LostThreads' = LostThreads
    OBVIOUS
  <2>1. HasToken(p)
    BY <1>3 DEF HasToken
  <2>2. \A x \in CP!Pipes : npState'[x] = npState[x] /\ (HasToken(x)' <=> HasToken(x))
    BY <1>2, <1>10, <1>11, <2>1
  <2>3. WithoutToken' = WithoutToken
    BY <2>2, SameLosses
  <2>4. LostThreads' = LostThreads
    BY <1>2, <1>7 DEF LostThreads
  <2> QED
    BY <2>3, <2>4
<1>14. LossesAgree'
  BY <1>1, <1>2, <1>13, NoLoss
<1> QED
  BY <1>8, <1>9, <1>12, <1>14 DEF PipeInv

\* A thread does what is next for its pipe, and lets go of it; a pipe whose
\* client has gone is lost, and so is the thread.
LEMMA ThreadServes ==
  ASSUME CP!ServerCPAssumption, PipeInv, NEW i \in CP!CpThreads, NEW p, cpKey[i] = p,
         p # CP!NoKey, npState[p] # "none", NEW op \in {"read", "write"},
         NEW s \in {"connected", "requestRead", "computed", "responding", "respondLast"},
         npState' = [npState EXCEPT ![p] = s], cpKey' = [cpKey EXCEPT ![i] = CP!NoKey],
         UNCHANGED <<cpShutDown, cpMain, iNp, cancelled, cpClient>>,
         \/ CP!Starts(i, p, op)
         \/ CP!LoopAgain(i, "switch") /\ CP!Posted(p, "done") /\ UNCHANGED io
  PROVE  PipeInv'
<1>1. PipeTypes /\ NotYetConnected /\ TokensApart /\ LossesAgree
  BY DEF PipeInv
<1>2. /\ cpKey' \in [CP!CpThreads -> 0 .. MAX_CLIENTS_CP] /\ KeysOnce'
      /\ p \in CP!Pipes /\ Held(p)
      /\ \A x \in CP!Pipes : Held(x)' <=> Held(x) /\ x # p
  BY <1>1, KeyReleased DEF PipeTypes, TokensApart, CP!ServerCPAssumption
<1>3. OneOf(p) /\ io[p] = {} /\ ~OnPort(p)
  BY <1>1, <1>2 DEF TokensApart, OneOf
<1> DEFINE Goes(to) == cpThread[i] = "switch" /\ cpThread' = [cpThread EXCEPT ![i] = to]
           again == IF cpShutDown THEN "ended" ELSE "wait"
<1>4. \/ cpClient[p] = "gone" /\ Goes("ended") /\ UNCHANGED <<io, port>>
      \/ Goes(again) /\ io' = [io EXCEPT ![p] = {op}] /\ port' = port
      \/ Goes(again) /\ io' = io /\ CP!Posted(p, "done")
  <2>1. io[p] \cup {op} = {op}
    BY <1>3
  <2>2. CASE CP!Starts(i, p, op)
    BY <2>1, <2>2 DEF CP!Starts, CP!LoopAgain, CP!CpGoes, CP!Begin
  <2>3. CASE CP!LoopAgain(i, "switch") /\ CP!Posted(p, "done") /\ UNCHANGED io
    BY <2>3 DEF CP!LoopAgain, CP!CpGoes
  <2> QED
    BY <2>2, <2>3
<1>5. /\ io' \in [CP!Pipes -> SUBSET {"connect", "read", "write"}]
      /\ port' \in Seq(CP!Pipes \X {"done", "aborted"}) /\ PortOnce'
      /\ \A x \in CP!Pipes : x # p => io'[x] = io[x] /\ (OnPort(x)' <=> OnPort(x))
      /\ \A k \in 1 .. Len(port') :
           port'[k][2] = "done" \/ \E l \in 1 .. Len(port) : port'[k] = port[l]
  <2>1. CASE CP!Posted(p, "done") /\ io' = io
    BY <1>1, <1>2, <1>3, <2>1, PortAppended DEF PipeTypes, TokensApart
  <2>2. CASE port' = port
    <3>1. PortOnce' /\ \A x : OnPort(x)' <=> OnPort(x)
      BY <1>1, <2>2 DEF TokensApart, PortOnce, OnPort
    <3>2. io' = io \/ io' = [io EXCEPT ![p] = {op}]
      BY <1>4
    <3>3. /\ io' \in [CP!Pipes -> SUBSET {"connect", "read", "write"}]
          /\ \A x \in CP!Pipes : x # p => io'[x] = io[x]
      BY <1>1, <3>2 DEF PipeTypes
    <3> QED
      BY <1>1, <2>2, <3>1, <3>3 DEF PipeTypes
  <2> QED
    BY <1>4, <2>1, <2>2
<1>6. /\ io'[p] = {} \/ (io'[p] = {op} /\ \A x : x = p => ~OnPort(x)')
      /\ \/ cpClient[p] = "gone" /\ Goes("ended") /\ io'[p] = {} /\ \A x : x = p => ~OnPort(x)'
         \/ Goes(again) /\ (io'[p] # {} \/ \A x : x = p => OnPort(x)')
  <2>1. CASE cpClient[p] = "gone" /\ Goes("ended") /\ UNCHANGED <<io, port>>
    BY <1>3, <2>1 DEF OnPort
  <2>2. CASE Goes(again) /\ io' = [io EXCEPT ![p] = {op}] /\ port' = port
    BY <1>1, <1>2, <1>3, <2>2 DEF PipeTypes, OnPort
  <2>3. CASE Goes(again) /\ io' = io /\ CP!Posted(p, "done")
    <3>1. \A x : OnPort(x)' <=> OnPort(x) \/ x = p
      BY <1>1, <1>2, <2>3, PortAppended DEF PipeTypes
    <3> QED
      BY <1>3, <2>3, <3>1
  <2> QED
    BY <1>4, <2>1, <2>2, <2>3
<1>7. /\ cpThread[i] = "switch"
      /\ cpThread' \in [CP!CpThreads -> {"none", "wait", "switch", "ended"}]
      /\ \A j \in CP!CpThreads : j # i => cpThread'[j] = cpThread[j] /\ cpKey'[j] = cpKey[j]
      /\ cpKey'[i] = CP!NoKey
  BY <1>1, <1>6 DEF PipeTypes
<1>8. /\ npState' \in [CP!Pipes -> {"none", "connected", "requestRead", "computed", "responding",
                                   "respondLast"}]
      /\ \A x \in CP!Pipes : /\ x # p => npState'[x] = npState[x]
                             /\ npState'[x] = "none" <=> npState[x] = "none"
      /\ npState'[p] # "none"
  BY <1>1, <1>2 DEF PipeTypes
<1>9. PipeTypes'
  BY <1>1, <1>2, <1>5, <1>7, <1>8 DEF PipeTypes, CP!Pipes, CP!CpThreads
<1>10. NotYetConnected'
  <2>1. cpMain = "connect" => iNp - 1 \in CP!Pipes
    BY <1>1 DEF PipeTypes, NotYetConnected, CP!Pipes, CP!ServerCPAssumption
  <2> QED
    BY <1>1, <1>7, <1>8, <2>1 DEF NotYetConnected, CP!Pipes, CP!CpThreads
<1> HIDE DEF Goes, again
<1>11. \A x \in CP!Pipes : x = p => OneOf(x)'
  BY <1>2, <1>6, <1>8 DEF OneOf, HasToken
<1>12. /\ \A x \in CP!Pipes : OneOf(x)'
       /\ \A x \in CP!Pipes : x # p => (HasToken(x)' <=> HasToken(x))
  BY <1>1, <1>2, <1>5, <1>8, <1>11, OtherPipes DEF TokensApart
<1>13. TokensApart'
  <2>1. \A k \in 1 .. Len(port') : port'[k][2] = "aborted" => cpShutDown'
    BY <1>1, <1>5 DEF TokensApart
  <2>2. \A j \in CP!CpThreads : cpKey'[j] # CP!NoKey => cpThread'[j] = "switch"
    BY <1>1, <1>7 DEF TokensApart
  <2> QED
    BY <1>2, <1>5, <1>12, <2>1, <2>2 DEF TokensApart, CP!Pipes, CP!CpThreads, CP!NoKey
<1>14. HasToken(p) /\ p \notin WithoutToken /\ i \notin LostThreads
  BY <1>2, <1>7 DEF HasToken, WithoutToken, LostThreads
<1>15. CASE Goes(again) /\ (io'[p] # {} \/ \A x : x = p => OnPort(x)')
  <2>1. \A x \in CP!Pipes : x = p => HasToken(x)'
    BY <1>15 DEF HasToken
  <2>2. WithoutToken' = WithoutToken
    BY <1>8, <1>12, <1>14, <2>1 DEF WithoutToken
  <2>3. ~cpShutDown => LostThreads' = LostThreads
    BY <1>1, <1>15, <1>7 DEF LostThreads, Goes, again, PipeTypes
  <2>4. LossesAgree'
    BY <1>1, <2>2, <2>3, NoLoss
  <2> QED
    BY <1>9, <1>10, <1>13, <2>4 DEF PipeInv
<1>16. CASE cpClient[p] = "gone" /\ Goes("ended") /\ io'[p] = {} /\ \A x : x = p => ~OnPort(x)'
  <2>1. \A x \in CP!Pipes : x = p => ~HasToken(x)'
    BY <1>2, <1>16 DEF HasToken
  <2>2. WithoutToken' = WithoutToken \cup {p}
    BY <1>2, <1>8, <1>12, <1>14, <2>1 DEF WithoutToken
  <2>3. LostThreads' = LostThreads \cup {i}
    BY <1>1, <1>16, <1>7 DEF LostThreads, Goes, PipeTypes
  <2>4. LossesAgree'
    BY <1>1, <1>2, <1>14, <1>16, <2>2, <2>3, OneLoss
  <2> QED
    BY <1>9, <1>10, <1>13, <2>4 DEF PipeInv
<1> QED
  BY <1>6, <1>15, <1>16

LEMMA ServersGoOn ==
  ASSUME CP!ServerCPAssumption, PipeInv, NEW i \in CP!CpThreads, CP!CpServer(i)
  PROVE  PipeInv'
<1> USE DEF CP!Serving, CP!NextState
<1>1. CASE CP!GetQueuedCompletionStatus(i)
  BY <1>1, ThreadTakes
<1>2. CASE CP!CaseConnected(i)
  BY <1>2, ThreadServes DEF CP!CaseConnected
<1>3. CASE CP!CaseRequestRead(i)
  <2>1. \E s \in {"computed", "respondLast"} : npState' = [npState EXCEPT ![cpKey[i]] = s]
    BY <1>3 DEF CP!CaseRequestRead
  <2> QED
    BY <1>3, <2>1, ThreadServes DEF CP!CaseRequestRead
<1>4. CASE CP!CaseComputedOrResponding(i)
  BY <1>4, ThreadServes DEF CP!CaseComputedOrResponding
<1>5. CASE CP!CaseRespondLast(i)
  BY <1>5, ThreadServes DEF CP!CaseRespondLast
<1> QED
  BY <1>1, <1>2, <1>3, <1>4, <1>5 DEF CP!CpServer

\* The instance's cardinalities are the usual ones.
LEMMA SameCardinality ==
  ASSUME NEW S
  PROVE  CP!Cardinality(S) = Cardinality(S)
BY DEF CP!Cardinality, Cardinality

LEMMA PipesBegin ==
  ASSUME CP!ServerCPAssumption, CP!CPInit
  PROVE  PipeInv
<1> USE DEF CP!CPInit, CP!ServerCPAssumption
<1>1. PipeTypes
  <2>1. io \in [CP!Pipes -> SUBSET {"connect", "read", "write"}]
    OBVIOUS
  <2>2. port \in Seq(CP!Pipes \X {"done", "aborted"})
    OBVIOUS
  <2>3. npState \in [CP!Pipes -> {"none", "connected", "requestRead", "computed", "responding",
                                 "respondLast"}]
    OBVIOUS
  <2>4. /\ cpThread \in [CP!CpThreads -> {"none", "wait", "switch", "ended"}]
        /\ cpKey \in [CP!CpThreads -> 0 .. MAX_CLIENTS_CP]
    BY DEF CP!NoKey
  <2>5. cpClient \in [CP!Pipes -> {"away", "open", "asked", "gone"}]
    OBVIOUS
  <2>6. iNp \in 0 .. MAX_CLIENTS_CP /\ cancelled \in 0 .. MAX_CLIENTS_CP
    OBVIOUS
  <2>7. cpShutDown \in BOOLEAN
    OBVIOUS
  <2>8. cpMain \in {"create", "connect", "threads", "join", "ended", "failed"}
    OBVIOUS
  <2> HIDE DEF CP!CPInit
  <2> QED
    BY <2>1, <2>2, <2>3, <2>4, <2>5, <2>6, <2>7, <2>8 DEF PipeTypes
<1>2. NotYetConnected
  BY DEF NotYetConnected
<1>3. Len(port) = 0
  OBVIOUS
<1>4. \A x \in CP!Pipes : ~HasToken(x)
  BY <1>3 DEF HasToken, OnPort, Held, CP!NoKey, CP!Pipes
<1>5. TokensApart
  BY <1>3, <1>4 DEF TokensApart, PortOnce, KeysOnce, OneOf, HasToken
<1>6. WithoutToken = {} /\ LostThreads = {}
  BY DEF WithoutToken, LostThreads
<1>7. LossesAgree
  BY <1>6 DEF LossesAgree
<1> QED
  BY <1>1, <1>2, <1>5, <1>7 DEF PipeInv

LEMMA PipeInvStep ==
  ASSUME CP!ServerCPAssumption, PipeInv, [ProgramsNext]_programVars
  PROVE  PipeInv'
<1>1. CASE UNCHANGED cpVars
  <2>1. PipeTypes' <=> PipeTypes
    BY <1>1 DEF cpVars, PipeTypes, CP!Pipes, CP!CpThreads
  <2>2. NotYetConnected' <=> NotYetConnected
    BY <1>1 DEF cpVars, NotYetConnected, CP!Pipes, CP!CpThreads
  <2>3. TokensApart' <=> TokensApart
    BY <1>1 DEF cpVars, TokensApart, PortOnce, KeysOnce, OneOf, HasToken, OnPort, Held,
       CP!Pipes, CP!CpThreads, CP!NoKey
  <2>4. LossesAgree' <=> LossesAgree
    BY <1>1 DEF cpVars, LossesAgree, WithoutToken, LostThreads, HasToken, OnPort, Held,
       CP!Pipes, CP!CpThreads
  <2> QED
    BY <2>1, <2>2, <2>3, <2>4 DEF PipeInv
<1>2. CASE PipeStep
  <2>1. \/ \E i \in CP!CpThreads : CP!CpServer(i)
        \/ \E p \in CP!Pipes : CP!ClientOpen(p) \/ CP!ClientAsk(p) \/ CP!ClientReads(p)
                                 \/ CP!ClientClose(p)
        \/ CP!CancelPipe
        \/ CP!ConnectPipe
        \/ CP!CreatePipe \/ CP!StartThreads \/ CP!CpExit \/ CP!CpHandler
    BY <1>2 DEF PipeStep, CP!CpGoesOn, CP!CpMainStep, CP!CpEnvironment
  <2> QED
    BY <2>1, ServersGoOn, ClientsGoOn, MonitorCancels, PipesConnected, PipesLeft
<1> QED
  BY <1>1, <1>2, PipesAlone

\* What a pipe has is counted.
LEMMA TokensCounted ==
  ASSUME CP!ServerCPAssumption, PipeInv, NEW p \in CP!Pipes
  PROVE  CP!Tokens(p) = IF HasToken(p) THEN 1 ELSE 0
<1> DEFINE Ks == {k \in DOMAIN port : port[k][1] = p}
           Is == {i \in CP!CpThreads : cpKey[i] = p}
<1>1. PipeTypes /\ TokensApart /\ OneOf(p)
  BY DEF PipeInv, TokensApart
<1>2. DOMAIN port = 1 .. Len(port)
  BY <1>1 DEF PipeTypes
<1>3. Cardinality(io[p]) = IF io[p] # {} THEN 1 ELSE 0
  <2>1. CASE io[p] = {}
    BY <2>1, FS_EmptySet
  <2>2. ASSUME NEW a \in io[p] PROVE Cardinality(io[p]) = 1
    <3>1. io[p] = {a}
      BY <1>1, <2>2 DEF OneOf
    <3> QED
      BY <3>1, FS_Singleton
  <2> QED
    BY <2>1, <2>2
<1>4. Cardinality(Ks) = IF OnPort(p) THEN 1 ELSE 0
  <2>1. CASE ~OnPort(p)
    <3>1. Ks = {}
      BY <1>2, <2>1 DEF OnPort
    <3> QED
      BY <2>1, <3>1, FS_EmptySet
  <2>2. ASSUME NEW k \in 1 .. Len(port), port[k][1] = p PROVE Cardinality(Ks) = 1
    <3>1. Ks = {k}
      BY <1>1, <1>2, <2>2 DEF TokensApart, PortOnce
    <3> QED
      BY <3>1, FS_Singleton
  <2> QED
    BY <2>1, <2>2 DEF OnPort
<1>5. Cardinality(Is) = IF Held(p) THEN 1 ELSE 0
  <2>1. CASE ~Held(p)
    <3>1. Is = {}
      BY <2>1 DEF Held
    <3> QED
      BY <2>1, <3>1, FS_EmptySet
  <2>2. ASSUME NEW i \in CP!CpThreads, cpKey[i] = p PROVE Cardinality(Is) = 1
    <3>1. p # CP!NoKey
      BY DEF CP!Pipes, CP!NoKey, CP!ServerCPAssumption
    <3>2. Is = {i}
      BY <1>1, <2>2, <3>1 DEF TokensApart, KeysOnce
    <3> QED
      BY <3>2, FS_Singleton
  <2> QED
    BY <2>1, <2>2 DEF Held
<1>6. CP!Tokens(p) = Cardinality(io[p]) + Cardinality(Ks) + Cardinality(Is)
  BY SameCardinality DEF CP!Tokens
<1> HIDE DEF Ks, Is
<1> QED
  BY <1>1, <1>3, <1>4, <1>5, <1>6 DEF OneOf, HasToken

(***************************************************************************)
(* serverNPCP.C, for any numbers of pipes and threads, and any clients: a  *)
(* pipe is in the hands of one thread at most, or has one operation or one *)
(* packet; and until the server stops, every pipe that has none of them    *)
(* lost it with its client, and the server a thread for each.              *)
(***************************************************************************)
THEOREM PipesHaveOneOwner == ProgramsSpec => []OneOperationPerPipe
<1>1. ProgramsInit => PipeInv
  BY PipesBegin, ProgramsAssumption DEF ProgramsInit
<1>2. PipeInv /\ [ProgramsNext]_programVars => PipeInv'
  BY PipeInvStep, ProgramsAssumption
<1>3. PipeInv => OneOperationPerPipe
  <2> SUFFICES ASSUME PipeInv PROVE CP!OneOperationPerPipe
    BY DEF OneOperationPerPipe
  <2>1. \A p \in CP!Pipes : CP!Tokens(p) = IF HasToken(p) THEN 1 ELSE 0
    BY TokensCounted, ProgramsAssumption
  <2>2. CP!Lost = WithoutToken
    BY <2>1 DEF CP!Lost, WithoutToken
  <2>3. \A p \in CP!Pipes : CP!Tokens(p) <= 1
    BY <2>1
  <2> QED
    BY <2>2, <2>3, SameCardinality DEF CP!OneOperationPerPipe, PipeInv, LossesAgree, LostThreads
<1> QED
  BY <1>1, <1>2, <1>3, PTL DEF ProgramsSpec

-----------------------------------------------------------------------------
(* msg_emulation.c: what is counted and what is there. *)

\* A message in a queue, and what is counted of a queue of them.
Message == [mlength : Nat, mtype : Types]

SizesOf(s) == [i \in DOMAIN s |-> s[i].mlength + LONG]
BytesOf(s) == Total(SizesOf(s))
TextsOf(s) == Cardinality({i \in DOMAIN s : s[i].mlength > 0})
TextIn(m) == IF m.mlength > 0 THEN 1 ELSE 0

\* The operators of the library, as they are named in the instance.
LEMMA SameInMsg ==
  /\ \A q1 : Msg!Bytes(q1) = BytesOf(msg_list[q1])
  /\ \A s, i : Msg!RemoveAt(s, i) = SubSeq(s, 1, i - 1) \o SubSeq(s, i + 1, Len(s))
  /\ \A S : Msg!Min(S) = Min(S)
  /\ Msg!FoldSet(LAMBDA q1, n : n + msg_cbytes[q1], 0, Msg!Id) = SumOf(msg_cbytes, Msg!Id)
<1>1. \A q1 : Msg!Bytes(q1) = BytesOf(msg_list[q1])
  BY DEF Msg!Bytes, BytesOf, SizesOf, Total, Msg!FoldLeft, FoldLeft, Msg!MapThenFoldSet,
         MapThenFoldSet, Msg!Max, Max
<1>2. \A s, i : Msg!RemoveAt(s, i) = SubSeq(s, 1, i - 1) \o SubSeq(s, i + 1, Len(s))
  BY DEF Msg!RemoveAt
<1>3. \A S : Msg!Min(S) = Min(S)
  BY DEF Msg!Min, Min
<1>4. Msg!FoldSet(LAMBDA q1, n : n + msg_cbytes[q1], 0, Msg!Id) = SumOf(msg_cbytes, Msg!Id)
  BY DEF SumOf, Msg!FoldSet, FoldSet, Msg!MapThenFoldSet, MapThenFoldSet
<1> QED
  BY <1>1, <1>2, <1>3, <1>4

LEMMA LengthsAreNumbers ==
  ASSUME NEW s \in Seq(Message)
  PROVE  \A i \in 1 .. Len(s) : s[i].mlength \in Nat
<1> SUFFICES ASSUME NEW i \in 1 .. Len(s) PROVE s[i].mlength \in Nat
  OBVIOUS
<1>1. s[i] \in Message
  BY ElementOfSeq
<1> HIDE DEF Message
<1> DEFINE m == s[i]
<1>2. m \in Message
  BY <1>1
<1> HIDE DEF m
<1>3. m.mlength \in Nat
  BY <1>2 DEF Message
<1> QED
  BY <1>3 DEF m

LEMMA CountsAreNumbers ==
  ASSUME LONG \in Nat, NEW s \in Seq(Message)
  PROVE  BytesOf(s) \in Nat /\ TextsOf(s) \in Nat
<1>1. Len(s) \in Nat /\ SizesOf(s) \in [1 .. Len(s) -> Nat]
  <2>1. \A i \in 1 .. Len(s) : s[i].mlength \in Nat
    BY LengthsAreNumbers
  <2> QED
    BY <2>1 DEF SizesOf
<1>2. BytesOf(s) \in Nat
  BY <1>1, TotalIsNat DEF BytesOf
<1>3. IsFiniteSet(1 .. Len(s))
  BY <1>1, FS_Interval
<1>4. {i \in DOMAIN s : s[i].mlength > 0} \in SUBSET (1 .. Len(s))
  OBVIOUS
<1> QED
  BY <1>2, <1>3, <1>4, FS_Subset, FS_CardinalityType DEF TextsOf

\* A message that is put behind the others adds itself to the counts.
LEMMA PutCounts ==
  ASSUME LONG \in Nat, NEW s \in Seq(Message), NEW m \in Message
  PROVE  /\ Append(s, m) \in Seq(Message)
         /\ BytesOf(Append(s, m)) = BytesOf(s) + m.mlength + LONG
         /\ TextsOf(Append(s, m)) = TextsOf(s) + TextIn(m)
<1> DEFINE n == Len(s)
           a == Append(s, m)
<1>1. /\ n \in Nat /\ a \in Seq(Message) /\ Len(a) = n + 1 /\ DOMAIN s = 1 .. n
      /\ DOMAIN a = 1 .. n + 1 /\ \A i \in 1 .. n : a[i] = s[i]
  BY AppendProperties, LenProperties
<1>2. a[n + 1] = m
  BY AppendProperties
<1>3. \A i \in 1 .. n : s[i].mlength \in Nat
  BY LengthsAreNumbers
<1>4. m.mlength \in Nat
  BY DEF Message
<1> HIDE DEF n, a
<1>5. BytesOf(a) = BytesOf(s) + m.mlength + LONG
  <2> DEFINE w == SizesOf(s)
             v == SizesOf(a)
  <2>1. w \in [1 .. n -> Int]
    BY <1>1, <1>3 DEF SizesOf
  <2>2. \A i \in 1 .. n : a[i] = s[i] /\ i \in 1 .. n + 1
    BY <1>1
  <2>3. v \in [1 .. n + 1 -> Int] /\ v[n + 1] = m.mlength + LONG
    <3>1. DOMAIN a = 1 .. n + 1 /\ n + 1 \in 1 .. n + 1
      BY <1>1
    <3>2. \A i \in 1 .. n + 1 : a[i].mlength \in Nat
      BY <1>1, <1>2, <1>3, <1>4
    <3> QED
      BY <1>2, <3>1, <3>2 DEF SizesOf
  <2>4. \A i \in 1 .. n : v[i] = w[i]
    BY <1>1, <2>2 DEF SizesOf
  <2> HIDE DEF w, v
  <2>5. Total(v) = Total(w) + v[n + 1] /\ Total(w) \in Int
    BY <1>1, <2>1, <2>3, <2>4, TotalAppends
  <2> QED
    BY <1>4, <2>3, <2>5 DEF w, v, BytesOf
<1>6. TextsOf(a) = TextsOf(s) + TextIn(m)
  <2> DEFINE S == {i \in 1 .. n : s[i].mlength > 0}
             A == {i \in 1 .. n + 1 : a[i].mlength > 0}
  <2>1. IsFiniteSet(1 .. n)
    BY <1>1, FS_Interval
  <2>2. IsFiniteSet(S) /\ Cardinality(S) \in Nat
    BY <2>1, FS_Subset, FS_CardinalityType
  <2>3. n + 1 \notin S
    BY <1>1
  <2>4. A = IF m.mlength > 0 THEN S \cup {n + 1} ELSE S
    BY <1>1, <1>2
  <2>5. Cardinality(A) = Cardinality(S) + TextIn(m)
    <3> HIDE DEF S, A
    <3>1. Cardinality(S \cup {n + 1}) = Cardinality(S) + 1
      BY <2>2, <2>3, FS_AddElement
    <3> QED
      BY <2>2, <2>4, <3>1 DEF TextIn
  <2> QED
    BY <1>1, <2>5 DEF TextsOf
<1> QED
  BY <1>1, <1>5, <1>6 DEF a

\* A message that is taken away, from any place, leaves the counts.
LEMMA TakeCounts ==
  ASSUME LONG \in Nat, NEW s \in Seq(Message), NEW f \in 1 .. Len(s)
  PROVE  /\ Msg!RemoveAt(s, f) \in Seq(Message)
         /\ BytesOf(Msg!RemoveAt(s, f)) = BytesOf(s) - s[f].mlength - LONG
         /\ TextsOf(Msg!RemoveAt(s, f)) <= TextsOf(s) - TextIn(s[f])
<1> DEFINE n == Len(s)
           x == SubSeq(s, 1, f - 1)
           y == SubSeq(s, f + 1, n)
           r == x \o y
<1>1. n \in Nat /\ f \in 1 .. n /\ DOMAIN s = 1 .. n
  OBVIOUS
<1>2. /\ x \in Seq(Message) /\ Len(x) = f - 1 /\ \A i \in 1 .. f - 1 : x[i] = s[i]
  <2>1. f - 1 \in 0 .. n /\ 1 \in 1 .. n + 1 /\ (f - 1) - 1 + 1 = f - 1
    BY <1>1
  <2>2. \A i \in 1 .. f - 1 : i \in 1 .. n /\ s[i] \in Message /\ 1 + i - 1 = i
    BY <1>1
  <2> QED
    BY <1>1, <2>1, <2>2, SubSeqProperties
<1>3. /\ y \in Seq(Message) /\ Len(y) = n - f /\ \A i \in 1 .. n - f : y[i] = s[i + f]
  <2>1. \A i \in f + 1 .. n : i \in 1 .. n /\ s[i] \in Message
    BY <1>1
  <2> QED
    BY <1>1, <2>1, SubSeqProperties
<1> HIDE DEF x, y, n
<1>4. /\ r \in Seq(Message) /\ Len(r) = n - 1 /\ DOMAIN r = 1 .. n - 1
      /\ \A i \in 1 .. n - 1 : r[i] = IF i < f THEN s[i] ELSE s[i + 1]
  <2>1. /\ r \in Seq(Message) /\ Len(r) = Len(x) + Len(y)
        /\ \A i \in 1 .. Len(x) + Len(y) : r[i] = IF i <= Len(x) THEN x[i] ELSE y[i - Len(x)]
    BY <1>2, <1>3, ConcatProperties
  <2>2. Len(x) + Len(y) = n - 1
    BY <1>1, <1>2, <1>3
  <2> HIDE DEF r
  <2>3. ASSUME NEW i \in 1 .. n - 1 PROVE r[i] = IF i < f THEN s[i] ELSE s[i + 1]
    <3>1. CASE i < f
      <4>1. i \in 1 .. f - 1 /\ i <= Len(x)
        BY <1>1, <1>2, <3>1
      <4> QED
        BY <1>2, <2>1, <2>2, <3>1, <4>1
    <3>2. CASE ~(i < f)
      <4>1. /\ ~(i <= Len(x)) /\ i - Len(x) \in 1 .. n - f /\ (i - Len(x)) + f = i + 1
        BY <1>1, <1>2, <3>2
      <4> QED
        BY <1>3, <2>1, <2>2, <3>2, <4>1
    <3> QED
      BY <3>1, <3>2
  <2>4. DOMAIN r = 1 .. n - 1
    BY <2>1, <2>2, LenProperties
  <2> QED
    BY <2>1, <2>2, <2>3, <2>4
<1>5. Msg!RemoveAt(s, f) = r
  BY SameInMsg DEF x, y, n
<1> HIDE DEF r
<1>6. \A i \in 1 .. n : s[i].mlength \in Nat
  BY LengthsAreNumbers DEF n
<1>7. BytesOf(r) = BytesOf(s) - s[f].mlength - LONG
  <2> DEFINE w == SizesOf(s)
             v == SizesOf(r)
  <2>1. w \in [1 .. n -> Int] /\ w[f] = s[f].mlength + LONG
    BY <1>1, <1>6 DEF SizesOf
  <2>2. ASSUME NEW i \in 1 .. n - 1
        PROVE  /\ i \in 1 .. n /\ i + 1 \in 1 .. n
               /\ r[i] = IF i < f THEN s[i] ELSE s[i + 1]
    BY <1>1, <1>4
  <2>3. \A i \in 1 .. n - 1 : v[i] = IF i < f THEN w[i] ELSE w[i + 1]
    BY <1>1, <1>4, <2>2 DEF SizesOf
  <2>4. v \in [1 .. n - 1 -> Int]
    <3>1. \A i \in 1 .. n - 1 : r[i].mlength \in Nat
      BY <1>4, LengthsAreNumbers
    <3> QED
      BY <1>4, <3>1 DEF SizesOf
  <2> HIDE DEF w, v
  <2>5. Total(v) = Total(w) - w[f] /\ Total(w) \in Int
    BY <1>1, <2>1, <2>3, <2>4, TotalDrops
  <2>6. s[f].mlength \in Nat
    BY <1>1, <1>6
  <2> QED
    BY <2>1, <2>5, <2>6 DEF w, v, BytesOf
<1>8. TextsOf(r) <= TextsOf(s) - TextIn(s[f])
  <2> DEFINE S == {i \in 1 .. n : s[i].mlength > 0}
             R == {i \in 1 .. n - 1 : r[i].mlength > 0}
             Q == S \ {f}
             h == [j \in Q |-> IF j < f THEN j ELSE j - 1]
             H == {h[j] : j \in Q}
  <2>1. IsFiniteSet(1 .. n)
    BY <1>1, FS_Interval
  <2>2. IsFiniteSet(S) /\ Cardinality(S) \in Nat
    BY <2>1, FS_Subset, FS_CardinalityType
  <2>3. IsFiniteSet(Q) /\ Cardinality(Q) = Cardinality(S) - TextIn(s[f])
    <3>1. f \in S <=> s[f].mlength > 0
      BY <1>1
    <3> HIDE DEF S
    <3>2. f \in S => IsFiniteSet(Q) /\ Cardinality(Q) = Cardinality(S) - 1
      BY <2>2, FS_RemoveElement
    <3>3. f \notin S => Q = S
      OBVIOUS
    <3>4. CASE f \in S
      <4>1. TextIn(s[f]) = 1
        BY <3>1, <3>4 DEF TextIn
      <4> QED
        BY <3>2, <3>4, <4>1
    <3>5. CASE f \notin S
      <4>1. TextIn(s[f]) = 0
        BY <3>1, <3>5 DEF TextIn
      <4>2. Q = S
        BY <3>3, <3>5
      <4> HIDE DEF Q
      <4> QED
        BY <2>2, <4>1, <4>2
    <3> QED
      BY <3>4, <3>5
  <2>4. R \subseteq H
    <3> SUFFICES ASSUME NEW i \in R PROVE i \in H
      OBVIOUS
    <3>1. i \in 1 .. n - 1 /\ r[i].mlength > 0 /\ r[i] = IF i < f THEN s[i] ELSE s[i + 1]
      BY <1>4
    <3>2. CASE i < f
      <4>1. i \in Q
        BY <1>1, <3>1, <3>2
      <4>2. h[i] = i
        BY <3>2, <4>1
      <4> QED
        BY <4>1, <4>2
    <3>3. CASE ~(i < f)
      <4>1. i + 1 \in Q /\ ~(i + 1 < f)
        BY <1>1, <3>1, <3>3
      <4>2. h[i + 1] = i
        BY <3>1, <4>1
      <4> QED
        BY <4>1, <4>2
    <3> QED
      BY <3>2, <3>3
  <2>5. IsFiniteSet(H) /\ Cardinality(H) <= Cardinality(Q)
    <3>1. h \in [Q -> H] /\ \A z \in H : \E j \in Q : h[j] = z
      OBVIOUS
    <3> HIDE DEF Q, h, H
    <3>2. h \in Surjection(Q, H)
      BY <3>1 DEF Surjection
    <3> QED
      BY <2>3, <3>2, FS_Surjection
  <2> HIDE DEF S, Q, H, R
  <2>6. Cardinality(R) <= Cardinality(H) /\ Cardinality(R) \in Nat /\ Cardinality(H) \in Nat
    BY <2>4, <2>5, FS_Subset, FS_CardinalityType
  <2>7. Cardinality(R) <= Cardinality(S) - TextIn(s[f])
    <3>1. Cardinality(Q) \in Nat
      BY <2>3, FS_CardinalityType
    <3> QED
      BY <2>3, <2>5, <2>6, <3>1
  <2> QED
    BY <1>1, <1>4, <2>7 DEF TextsOf, S, R
<1> QED
  BY <1>4, <1>5, <1>7, <1>8

\* What a thread keeps while it waits inside msgsnd, msgrcv or msgctl.
SndArg == [msqid : Msg!Id, msg : Message]
RcvArg == [msqid : Msg!Id, msgsz : Nat, msgtyp : MsgTypes]
CtlArg == [msqid : Msg!Id]

\* An empty slot has no message, and no room for one.
TableInv ==
  /\ msg_key \in [Msg!Id -> Int] /\ msg_qbytes \in [Msg!Id -> Int]
  /\ msg_cbytes \in [Msg!Id -> Int] /\ msg_qnum \in [Msg!Id -> Int]
  /\ msg_list \in [Msg!Id -> Seq(Message)]
  /\ q_current \in Int /\ b_current \in Int
  /\ \A s \in Msg!Id :
       /\ msg_key[s] = 0 => msg_list[s] = <<>> /\ msg_qbytes[s] = 0
       /\ msg_cbytes[s] >= BytesOf(msg_list[s])
       /\ msg_qnum[s] >= TextsOf(msg_list[s])
  /\ b_current >= SumOf(msg_cbytes, Msg!Id)
  /\ q_current >= Cardinality({s \in Msg!Id : msg_key[s] # 0})

\* A thread that waits has the arguments of the call that it is in.
CallsInv ==
  /\ call \in [Msg!Caller -> {"out", "msgsnd", "msgrcv", "msgctl"}]
  /\ callArg \in [Msg!Caller -> SndArg \cup RcvArg \cup CtlArg \cup {Msg!NoArg}]
  /\ \A t \in Msg!Caller : /\ call[t] = "msgsnd" => callArg[t] \in SndArg
                           /\ call[t] = "msgrcv" => callArg[t] \in RcvArg
                           /\ call[t] = "msgctl" => callArg[t] \in CtlArg

MsgInv == TableInv /\ CallsInv

\* The table and the sets of slots in it are finite.
LEMMA FiniteTable ==
  ASSUME Msg!MsgAssumption
  PROVE  IsFiniteSet(Msg!Id) /\ \A S \in SUBSET Msg!Id : IsFiniteSet(S) /\ Cardinality(S) \in Nat
<1>1. IsFiniteSet(Msg!Id)
  BY FS_Interval DEF Msg!MsgAssumption, Msg!Id
<1> QED
  BY <1>1, FS_Subset, FS_CardinalityType

LEMMA EmptyCounts == <<>> \in Seq(Message) /\ BytesOf(<<>>) = 0 /\ TextsOf(<<>>) = 0
<1>1. <<>> \in Seq(Message) /\ DOMAIN <<>> = 1 .. 0
  BY EmptySeq
<1> DEFINE w == SizesOf(<<>>)
<1>2. w \in [1 .. 0 -> Int]
  BY <1>1 DEF SizesOf
<1> HIDE DEF w
<1>3. \E p \in [0 .. 0 -> Int] : Partial(p, w, 0) /\ Total(w) = p[0]
  BY <1>2, PartialSums
<1>4. Total(w) = 0
  BY <1>3 DEF Partial
<1>5. {i \in DOMAIN <<>> : <<>>[i].mlength > 0} = {}
  BY <1>1
<1>6. TextsOf(<<>>) = 0
  BY <1>5, FS_EmptySet DEF TextsOf
<1> QED
  BY <1>1, <1>4, <1>6 DEF BytesOf, w

\* In the beginning all slots are empty.
LEMMA MsgBegins == Msg!MsgAssumption /\ Msg!Init => MsgInv
<1> SUFFICES ASSUME Msg!MsgAssumption, Msg!Init PROVE MsgInv
  OBVIOUS
<1>1. SumOf(msg_cbytes, Msg!Id) = 0
  BY FiniteTable, SumOfZeros DEF Msg!Init
<1>2. {s \in Msg!Id : msg_key[s] # 0} = {} /\ Cardinality({}) = 0
  BY FS_EmptySet DEF Msg!Init
<1>3. TableInv
  <2>1. /\ msg_key \in [Msg!Id -> Int] /\ msg_qbytes \in [Msg!Id -> Int]
        /\ msg_cbytes \in [Msg!Id -> Int] /\ msg_qnum \in [Msg!Id -> Int]
        /\ q_current = 0 /\ b_current = 0
    BY DEF Msg!Init
  <2>2. msg_list \in [Msg!Id -> Seq(Message)]
    BY EmptyCounts DEF Msg!Init
  <2>3. ASSUME NEW s \in Msg!Id
        PROVE  /\ msg_key[s] = 0 => msg_list[s] = <<>> /\ msg_qbytes[s] = 0
               /\ msg_cbytes[s] >= BytesOf(msg_list[s])
               /\ msg_qnum[s] >= TextsOf(msg_list[s])
    <3>1. msg_list[s] = <<>> /\ msg_qbytes[s] = 0 /\ msg_cbytes[s] = 0 /\ msg_qnum[s] = 0
      BY DEF Msg!Init
    <3> QED
      BY <3>1, EmptyCounts
  <2>4. b_current >= SumOf(msg_cbytes, Msg!Id)
    BY <1>1, <2>1
  <2>5. q_current >= Cardinality({s \in Msg!Id : msg_key[s] # 0})
    BY <1>2, <2>1
  <2>6. q_current \in Int /\ b_current \in Int
    BY <2>1
  <2> QED
    BY <2>1, <2>2, <2>3, <2>4, <2>5, <2>6, Zenon DEF TableInv
<1>4. CallsInv
  BY DEF CallsInv, Msg!Init
<1> QED
  BY <1>3, <1>4 DEF MsgInv

\* The bytes of all queues change by those of one queue.
LEMMA SumGrows ==
  ASSUME NEW S, IsFiniteSet(S), NEW x \in S, NEW d \in Int, NEW f, NEW h,
         \A y \in S : f[y] \in Int /\ h[y] \in Int, \A y \in S \ {x} : h[y] = f[y],
         h[x] = f[x] + d
  PROVE  SumOf(h, S) = SumOf(f, S) + d /\ SumOf(f, S) \in Int
<1>1. /\ SumOf(h, S) = SumOf(f, S) + (IF x \in S THEN h[x] - f[x] ELSE 0)
      /\ SumOf(f, S) \in Int
  BY SumChanges
<1>2. h[x] - f[x] = d
  OBVIOUS
<1> QED
  BY <1>1, <1>2

\* What every step of msgsnd and msgrcv does to the table: the list of one
\* queue is another, and its counts change by d and e.
LEMMA StatusChange ==
  ASSUME Msg!MsgAssumption, TableInv, NEW s \in Msg!Id, NEW l \in Seq(Message),
         NEW d \in Int, NEW e \in Int,
         msg_list' = [msg_list EXCEPT ![s] = l],
         msg_cbytes' = [msg_cbytes EXCEPT ![s] = msg_cbytes[s] + d],
         b_current' = b_current + d,
         msg_qnum' = [msg_qnum EXCEPT ![s] = msg_qnum[s] + e],
         UNCHANGED <<msg_key, msg_qbytes, q_current>>,
         BytesOf(l) <= BytesOf(msg_list[s]) + d,
         TextsOf(l) <= TextsOf(msg_list[s]) + e,
         msg_key[s] = 0 => l = <<>>
  PROVE  TableInv'
<1>1. LONG \in Nat
  BY DEF Msg!MsgAssumption
<1>2. /\ msg_key' \in [Msg!Id -> Int] /\ msg_qbytes' \in [Msg!Id -> Int]
      /\ msg_cbytes' \in [Msg!Id -> Int] /\ msg_qnum' \in [Msg!Id -> Int]
      /\ q_current' \in Int /\ b_current' \in Int
  BY DEF TableInv
<1>3. msg_list' \in [Msg!Id -> Seq(Message)]
  BY DEF TableInv
<1>4. ASSUME NEW v \in Msg!Id
      PROVE  /\ msg_key'[v] = 0 => msg_list'[v] = <<>> /\ msg_qbytes'[v] = 0
             /\ msg_cbytes'[v] >= BytesOf(msg_list'[v])
             /\ msg_qnum'[v] >= TextsOf(msg_list'[v])
  <2>1. CASE v = s
    <3>1. msg_list'[v] = l /\ msg_cbytes'[v] = msg_cbytes[s] + d /\ msg_qnum'[v] = msg_qnum[s] + e
      BY <2>1 DEF TableInv
    <3>2. /\ BytesOf(l) \in Nat /\ TextsOf(l) \in Nat
          /\ BytesOf(msg_list[s]) \in Nat /\ TextsOf(msg_list[s]) \in Nat
      <4>1. msg_list[s] \in Seq(Message)
        BY DEF TableInv
      <4> QED
        BY <1>1, <4>1, CountsAreNumbers
    <3>3. /\ msg_cbytes[s] \in Int /\ msg_qnum[s] \in Int
          /\ msg_cbytes[s] >= BytesOf(msg_list[s]) /\ msg_qnum[s] >= TextsOf(msg_list[s])
          /\ msg_key[s] = 0 => msg_qbytes[s] = 0
      BY DEF TableInv
    <3> QED
      BY <2>1, <3>1, <3>2, <3>3, SMTT(30)
  <2>2. CASE v # s
    <3>1. msg_list'[v] = msg_list[v] /\ msg_cbytes'[v] = msg_cbytes[v] /\ msg_qnum'[v] = msg_qnum[v]
      BY <2>2 DEF TableInv
    <3> QED
      BY <3>1 DEF TableInv
  <2> QED
    BY <2>1, <2>2
<1>5. b_current' >= SumOf(msg_cbytes', Msg!Id)
  <2>1. /\ msg_cbytes[s] \in Int /\ msg_cbytes'[s] = msg_cbytes[s] + d
        /\ \A v \in Msg!Id : msg_cbytes[v] \in Int /\ msg_cbytes'[v] \in Int
        /\ \A v \in Msg!Id \ {s} : msg_cbytes'[v] = msg_cbytes[v]
    BY <1>2 DEF TableInv
  <2>2. b_current \in Int /\ b_current >= SumOf(msg_cbytes, Msg!Id)
    BY DEF TableInv
  <2>3. /\ SumOf(msg_cbytes', Msg!Id) = SumOf(msg_cbytes, Msg!Id) + d
        /\ SumOf(msg_cbytes, Msg!Id) \in Int
    <3> DEFINE I == Msg!Id
               f == msg_cbytes
               h == msg_cbytes'
    <3>1. IsFiniteSet(I) /\ s \in I
      BY FiniteTable
    <3>2. \A y \in I : f[y] \in Int /\ h[y] \in Int
      BY <2>1
    <3>3. \A y \in I \ {s} : h[y] = f[y]
      BY <2>1
    <3>4. h[s] = f[s] + d
      BY <2>1
    <3> HIDE DEF I, f, h
    <3>5. SumOf(h, I) = SumOf(f, I) + d /\ SumOf(f, I) \in Int
      BY <3>1, <3>2, <3>3, <3>4, SumGrows, Zenon
    <3> QED
      BY <3>5 DEF I, f, h
  <2> QED
    BY <2>2, <2>3
<1>6. q_current' >= Cardinality({v \in Msg!Id : msg_key'[v] # 0})
  BY DEF TableInv
<1> QED
  BY <1>2, <1>3, <1>4, <1>5, <1>6 DEF TableInv

LEMMA StatusSame ==
  ASSUME UNCHANGED Msg!countVars, UNCHANGED Msg!slotVars, UNCHANGED msg_list, TableInv
  PROVE  TableInv'
BY DEF Msg!countVars, Msg!slotVars, TableInv

\* msgq_put: the message is there, and counted.
LEMMA PutStep ==
  ASSUME Msg!MsgAssumption, TableInv, NEW s \in Msg!Id, NEW m \in Message,
         Msg!PlaceMessageInQueue(s, m), UNCHANGED Msg!slotVars, msg_key[s] # 0
  PROVE  TableInv'
<1> DEFINE l == Append(msg_list[s], m)
           d == m.mlength + LONG
           e == TextIn(m)
<1>1. LONG \in Nat /\ m.mlength \in Nat /\ msg_list[s] \in Seq(Message)
  BY DEF Msg!MsgAssumption, Message, TableInv
<1>2. /\ l \in Seq(Message) /\ BytesOf(l) = BytesOf(msg_list[s]) + m.mlength + LONG
      /\ TextsOf(l) = TextsOf(msg_list[s]) + e
  BY <1>1, PutCounts
<1>3. BytesOf(msg_list[s]) \in Nat /\ TextsOf(msg_list[s]) \in Nat
  BY <1>1, CountsAreNumbers
<1>4. d \in Int /\ e \in Int
  BY <1>1 DEF TextIn
<1>5. msg_list' = [msg_list EXCEPT ![s] = l]
  BY DEF Msg!PlaceMessageInQueue
<1>6. /\ msg_cbytes' = [msg_cbytes EXCEPT ![s] = msg_cbytes[s] + d] /\ b_current' = b_current + d
      /\ msg_qnum' = [msg_qnum EXCEPT ![s] = msg_qnum[s] + e]
  <2>1. /\ (IF m.mlength < 0 THEN m.mlength - LONG ELSE m.mlength + LONG) = d
        /\ (IF m.mlength > 0 THEN msg_qnum[s] + 1
            ELSE IF m.mlength < 0 THEN msg_qnum[s] - 1 ELSE msg_qnum[s]) = msg_qnum[s] + e
    <3>1. msg_qnum[s] \in Int
      BY DEF TableInv
    <3>2. CASE m.mlength > 0
      BY <1>1, <3>1, <3>2 DEF TextIn
    <3>3. CASE ~(m.mlength > 0)
      BY <1>1, <3>1, <3>3 DEF TextIn
    <3> QED
      BY <3>2, <3>3
  <2> HIDE DEF d, e
  <2> QED
    BY <2>1 DEF Msg!PlaceMessageInQueue, Msg!update_status
<1>7. UNCHANGED <<msg_key, msg_qbytes, q_current>>
  BY DEF Msg!slotVars
<1> HIDE DEF l, e
<1>8. BytesOf(l) <= BytesOf(msg_list[s]) + d /\ TextsOf(l) <= TextsOf(msg_list[s]) + e
  BY <1>1, <1>2, <1>3, <1>4
<1> HIDE DEF d
<1> QED
  BY <1>2, <1>4, <1>5, <1>6, <1>7, <1>8, StatusChange

LEMMA LeastOfTwo ==
  ASSUME NEW a \in Nat, NEW b \in Nat
  PROVE  Min({a, b}) \in Nat /\ Min({a, b}) <= a
<1>1. \E x \in {a, b} : \A y \in {a, b} : x <= y
  OBVIOUS
<1>2. Min({a, b}) \in {a, b} /\ \A y \in {a, b} : Min({a, b}) <= y
  BY <1>1 DEF Min
<1> QED
  BY <1>2

\* A round of the loop of msgrcv ends without a message.
LEMMA NothingGot ==
  ASSUME Msg!MsgAssumption, TableInv, NEW s \in Msg!Id, NEW l \in Seq(Message),
         msg_list' = [msg_list EXCEPT ![s] = l], UNCHANGED Msg!slotVars,
         Msg!update_status(0, s) \/ UNCHANGED Msg!countVars,
         BytesOf(l) <= BytesOf(msg_list[s]), TextsOf(l) <= TextsOf(msg_list[s]),
         msg_key[s] = 0 => l = <<>>
  PROVE  TableInv'
<1>1. /\ LONG \in Nat /\ BytesOf(l) \in Nat /\ TextsOf(l) \in Nat
      /\ BytesOf(msg_list[s]) \in Nat /\ TextsOf(msg_list[s]) \in Nat
  <2>1. LONG \in Nat /\ msg_list[s] \in Seq(Message)
    BY DEF Msg!MsgAssumption, TableInv
  <2> QED
    BY <2>1, CountsAreNumbers
<1>2. UNCHANGED <<msg_key, msg_qbytes, q_current>>
  BY DEF Msg!slotVars
<1>3. msg_cbytes \in [Msg!Id -> Int] /\ msg_qnum \in [Msg!Id -> Int] /\ b_current \in Int
  BY DEF TableInv
<1>4. \E d \in {0, LONG} :
        /\ msg_cbytes' = [msg_cbytes EXCEPT ![s] = msg_cbytes[s] + d]
        /\ b_current' = b_current + d
        /\ msg_qnum' = [msg_qnum EXCEPT ![s] = msg_qnum[s] + 0]
  <2>1. CASE Msg!update_status(0, s)
    <3>1. /\ msg_cbytes' = [msg_cbytes EXCEPT ![s] = msg_cbytes[s] + (0 + LONG)]
          /\ b_current' = b_current + (0 + LONG)
          /\ msg_qnum' = [msg_qnum EXCEPT ![s] = msg_qnum[s]]
      BY <2>1 DEF Msg!update_status
    <3>2. 0 + LONG = LONG /\ msg_qnum[s] + 0 = msg_qnum[s]
      BY <1>1, <1>3
    <3>3. /\ msg_cbytes' = [msg_cbytes EXCEPT ![s] = msg_cbytes[s] + LONG]
          /\ b_current' = b_current + LONG
          /\ msg_qnum' = [msg_qnum EXCEPT ![s] = msg_qnum[s] + 0]
      BY <3>1, <3>2
    <3> QED
      BY <3>3
  <2>2. CASE UNCHANGED Msg!countVars
    BY <1>3, <2>2 DEF Msg!countVars
  <2> QED
    BY <2>1, <2>2
<1>5. PICK d \in {0, LONG} :
        /\ msg_cbytes' = [msg_cbytes EXCEPT ![s] = msg_cbytes[s] + d]
        /\ b_current' = b_current + d
        /\ msg_qnum' = [msg_qnum EXCEPT ![s] = msg_qnum[s] + 0]
  BY <1>4
<1>6. d \in Int /\ 0 \in Int /\ BytesOf(l) <= BytesOf(msg_list[s]) + d
      /\ TextsOf(l) <= TextsOf(msg_list[s]) + 0
  BY <1>1
<1> QED
  BY <1>2, <1>5, <1>6, StatusChange

\* The loop of msgrcv: it takes a message, or ends without one, or waits.
LEMMA ReceiveLoopStep ==
  ASSUME Msg!MsgAssumption, TableInv, NEW t, NEW a, NEW nowait,
         a.msqid \in Msg!Id, a.msgsz \in Nat, Msg!ReceiveLoop(t, a, nowait), UNCHANGED Msg!slotVars
  PROVE  TableInv'
<1> DEFINE s == a.msqid
           wanted == IF Msg!message_exists(s) /\ Msg!msgq_valid(s) THEN Msg!Wanted(s, a.msgtyp) ELSE {}
           first == Min(wanted)
           xfer == Min({msg_list[s][first].mlength, a.msgsz})
           old == msg_list[s]
           new == Msg!RemoveAt(old, first)
<1>1. /\ LONG \in Nat /\ s \in Msg!Id /\ old \in Seq(Message)
      /\ msg_list \in [Msg!Id -> Seq(Message)]
      /\ BytesOf(old) \in Nat /\ TextsOf(old) \in Nat
  <2>1. LONG \in Nat /\ old \in Seq(Message) /\ msg_list \in [Msg!Id -> Seq(Message)]
    BY DEF Msg!MsgAssumption, TableInv
  <2> QED
    BY <2>1, CountsAreNumbers
<1>2. ASSUME Msg!LoopEnds(t, s, nowait, a)
      PROVE  Msg!update_status(0, s) \/ UNCHANGED Msg!countVars
  BY <1>2 DEF Msg!LoopEnds
<1>3. \/ /\ wanted = {} /\ Msg!LoopEnds(t, s, nowait, a) /\ UNCHANGED msg_list
      \/ /\ wanted # {} /\ msg_list' = [msg_list EXCEPT ![s] = new]
         /\ \/ xfer > 0 /\ Msg!update_status(-xfer, s)
            \/ xfer = 0 /\ Msg!LoopEnds(t, s, nowait, a)
  BY SameInMsg DEF Msg!ReceiveLoop
<1>4. wanted # {} => msg_key[s] # 0 /\ wanted \subseteq 1 .. Len(old)
  BY <1>1 DEF Msg!Wanted, Msg!msgq_valid
<1> HIDE DEF wanted, new
<1>5. CASE wanted = {}
  <2>1. Msg!LoopEnds(t, s, nowait, a) /\ UNCHANGED msg_list
    BY <1>3, <1>5
  <2>2. msg_list' = [msg_list EXCEPT ![s] = old] /\ (msg_key[s] = 0 => old = <<>>)
    BY <1>1, <2>1 DEF TableInv
  <2>3. BytesOf(old) <= BytesOf(old) /\ TextsOf(old) <= TextsOf(old)
    BY <1>1
  <2> HIDE DEF s
  <2> QED
    BY <1>1, <1>2, <2>1, <2>2, <2>3, NothingGot
<1>6. CASE wanted # {}
  <2>1. first \in 1 .. Len(old)
    <3>1. wanted \subseteq Nat /\ wanted \subseteq 1 .. Len(old)
      BY <1>1, <1>4, <1>6
    <3>2. \E x \in wanted : \A y \in wanted : x <= y
      BY <1>6, <3>1, LeastElement
    <3>3. first \in wanted
      BY <3>2 DEF Min
    <3> QED
      BY <3>1, <3>3
  <2> HIDE DEF first
  <2>2. /\ new \in Seq(Message) /\ BytesOf(new) = BytesOf(old) - old[first].mlength - LONG
        /\ TextsOf(new) <= TextsOf(old) - TextIn(old[first])
    BY <1>1, <2>1, TakeCounts DEF new
  <2>3. old[first].mlength \in Nat
    BY <1>1, <2>1, LengthsAreNumbers
  <2>4. xfer \in Nat /\ xfer <= old[first].mlength
    BY <2>3, LeastOfTwo
  <2>5. TextsOf(new) \in Nat
    BY <1>1, <2>2, CountsAreNumbers
  <2> HIDE DEF xfer, old, s
  <2>6. CASE xfer > 0 /\ Msg!update_status(-xfer, s)
    <3> DEFINE d == -xfer - LONG
    <3>1. d \in Int /\ -1 \in Int
      BY <1>1, <2>4
    <3>2. /\ msg_cbytes' = [msg_cbytes EXCEPT ![s] = msg_cbytes[s] + d]
          /\ b_current' = b_current + d
          /\ msg_qnum' = [msg_qnum EXCEPT ![s] = msg_qnum[s] + (-1)]
      <4>1. -xfer < 0 /\ ~(-xfer > 0)
        BY <2>4, <2>6
      <4>2. msg_qnum \in [Msg!Id -> Int]
        BY DEF TableInv
      <4>3. msg_qnum' = [msg_qnum EXCEPT ![s] = msg_qnum[s] - 1]
        BY <2>6, <4>1 DEF Msg!update_status
      <4>4. msg_qnum[s] - 1 = msg_qnum[s] + (-1)
        BY <1>1, <4>2
      <4> QED
        BY <2>6, <4>1, <4>3, <4>4 DEF Msg!update_status
    <3>3. BytesOf(new) <= BytesOf(old) + d
      BY <1>1, <2>2, <2>3, <2>4
    <3>4. TextIn(old[first]) = 1
      BY <2>3, <2>4, <2>6 DEF TextIn
    <3>5. TextsOf(new) <= TextsOf(old) + (-1)
      BY <1>1, <2>2, <2>5, <3>4
    <3>6. UNCHANGED <<msg_key, msg_qbytes, q_current>>
      BY DEF Msg!slotVars
    <3>7. msg_list' = [msg_list EXCEPT ![s] = new] /\ (msg_key[s] = 0 => new = <<>>)
      BY <1>3, <1>4, <1>6
    <3> HIDE DEF d
    <3>8. /\ BytesOf(new) <= BytesOf(msg_list[s]) + d
          /\ TextsOf(new) <= TextsOf(msg_list[s]) + (-1)
      BY <3>3, <3>5 DEF old
    <3> QED
      BY <1>1, <2>2, <3>1, <3>2, <3>6, <3>7, <3>8, StatusChange
  <2>7. CASE xfer = 0 /\ Msg!LoopEnds(t, s, nowait, a)
    <3>1. msg_list' = [msg_list EXCEPT ![s] = new] /\ (msg_key[s] = 0 => new = <<>>)
      BY <1>3, <1>4, <1>6
    <3>2. Msg!update_status(0, s) \/ UNCHANGED Msg!countVars
      BY <1>2, <2>7
    <3>3. BytesOf(new) <= BytesOf(old) /\ TextsOf(new) <= TextsOf(old)
      BY <1>1, <2>2, <2>3, <2>5, SMTT(30) DEF TextIn
    <3>4. BytesOf(new) <= BytesOf(msg_list[s]) /\ TextsOf(new) <= TextsOf(msg_list[s])
      BY <3>3 DEF old
    <3> QED
      BY <1>1, <2>2, <3>1, <3>2, <3>4, NothingGot
  <2> QED
    BY <1>3, <1>6, <2>6, <2>7
<1> QED
  BY <1>5, <1>6

\* The calls: what a thread keeps while it waits.
LEMMA CallsReturn ==
  ASSUME CallsInv, NEW t \in Msg!Caller, NEW s, Msg!Return(t, s)
  PROVE  CallsInv'
BY DEF CallsInv, Msg!Return

LEMMA CallsWait ==
  ASSUME CallsInv, NEW t \in Msg!Caller, NEW l, NEW a, Msg!Waits(t, l, a),
         \/ l = "msgsnd" /\ a \in SndArg
         \/ l = "msgrcv" /\ a \in RcvArg
         \/ l = "msgctl" /\ a \in CtlArg
  PROVE  CallsInv'
<1>1. /\ call' = [call EXCEPT ![t] = l] /\ callArg' = [callArg EXCEPT ![t] = a]
  BY DEF Msg!Waits
<1>2. a \in SndArg \cup RcvArg \cup CtlArg \cup {Msg!NoArg}
  OBVIOUS
<1> HIDE DEF SndArg, RcvArg, CtlArg
<1> QED
  BY <1>1, <1>2 DEF CallsInv

LEMMA CallsSame ==
  ASSUME CallsInv, UNCHANGED <<call, callArg>>
  PROVE  CallsInv'
BY DEF CallsInv

\* msgsnd, which puts its message at once, or waits for room,
LEMMA SndStep ==
  ASSUME Msg!MsgAssumption, MsgInv, NEW t \in Msg!Caller, NEW s \in Msg!Id, NEW m \in Message,
         NEW nowait, Msg!MsgSnd(t, s, m, nowait)
  PROVE  MsgInv'
<1>1. UNCHANGED Msg!slotVars
  BY DEF Msg!MsgSnd
<1>2. CASE Msg!Return(t, s) /\ UNCHANGED <<Msg!countVars, msg_list>>
  BY <1>1, <1>2, StatusSame, CallsReturn DEF MsgInv
<1>3. CASE ~Msg!SendFails(s, m, nowait) /\ Msg!PlaceMessageInQueue(s, m) /\ Msg!Return(t, s)
  <2>1. msg_key[s] # 0
    BY <1>3 DEF Msg!SendFails, Msg!msgq_valid
  <2> QED
    BY <1>1, <1>3, <2>1, PutStep, CallsReturn DEF MsgInv
<1>4. CASE Msg!Waits(t, "msgsnd", [msqid |-> s, msg |-> m]) /\ UNCHANGED <<Msg!countVars, msg_list>>
  <2>1. [msqid |-> s, msg |-> m] \in SndArg
    BY DEF SndArg
  <2>2. TableInv'
    BY <1>1, <1>4, StatusSame DEF MsgInv
  <2>3. CallsInv'
    BY <1>4, <2>1, CallsWait DEF MsgInv
  <2> QED
    BY <2>2, <2>3 DEF MsgInv
<1> QED
  BY <1>2, <1>3, <1>4 DEF Msg!MsgSnd

\* and looks again when it comes out of its wait.
LEMMA SndGoesOnStep ==
  ASSUME Msg!MsgAssumption, MsgInv, NEW t \in Msg!Caller, Msg!MsgSndGoesOn(t)
  PROVE  MsgInv'
<1> DEFINE s == callArg[t].msqid
           m == callArg[t].msg
<1>1. callArg[t] \in SndArg
  BY DEF Msg!MsgSndGoesOn, MsgInv, CallsInv
<1>2. s \in Msg!Id /\ m \in Message
  BY <1>1 DEF SndArg
<1>3. /\ Msg!not_full(m.mlength, s, 0) /\ Msg!PlaceMessageInQueue(s, m)
      /\ Msg!Return(t, s) /\ UNCHANGED Msg!slotVars
  BY DEF Msg!MsgSndGoesOn
<1>4. m.mlength \in Nat
  BY <1>2 DEF Message
<1> HIDE DEF s, m
<1>5. msg_key[s] # 0
  <2> SUFFICES ASSUME msg_key[s] = 0 PROVE FALSE
    OBVIOUS
  <2>1. msg_qbytes[s] = 0 /\ msg_cbytes[s] \in Int /\ msg_cbytes[s] >= BytesOf(msg_list[s])
    BY <1>2 DEF MsgInv, TableInv
  <2>2. BytesOf(msg_list[s]) \in Nat /\ LONG \in Nat
    <3>1. msg_list[s] \in Seq(Message) /\ LONG \in Nat
      BY <1>2 DEF MsgInv, TableInv, Msg!MsgAssumption
    <3> QED
      BY <3>1, CountsAreNumbers
  <2>3. m.mlength + 0 + LONG + msg_cbytes[s] < 0
    <3>1. 0 \div 4 = 0
      OBVIOUS
    <3> QED
      BY <1>3, <2>1, <3>1 DEF Msg!not_full
  <2> QED
    BY <1>4, <2>1, <2>2, <2>3
<1> QED
  BY <1>2, <1>3, <1>5, PutStep, CallsReturn DEF MsgInv

LEMMA ReceiveCalls ==
  ASSUME CallsInv, NEW t \in Msg!Caller, NEW a \in RcvArg, NEW nowait, Msg!ReceiveLoop(t, a, nowait)
  PROVE  CallsInv'
<1>1. Msg!Return(t, a.msqid) \/ Msg!Waits(t, "msgrcv", a)
  BY DEF Msg!ReceiveLoop, Msg!LoopEnds
<1> QED
  BY <1>1, CallsReturn, CallsWait

\* msgrcv, when it is called,
LEMMA RcvStep ==
  ASSUME Msg!MsgAssumption, MsgInv, NEW t \in Msg!Caller, NEW s \in Msg!Id, NEW z \in Nat,
         NEW y \in MsgTypes, NEW nowait, Msg!MsgRcv(t, s, z, y, nowait)
  PROVE  MsgInv'
<1> DEFINE a == [msqid |-> s, msgsz |-> z, msgtyp |-> y]
<1>1. a \in RcvArg /\ a.msqid \in Msg!Id /\ a.msgsz \in Nat
  BY DEF RcvArg
<1>2. UNCHANGED Msg!slotVars
  BY DEF Msg!MsgRcv
<1>3. CASE Msg!Return(t, s) /\ UNCHANGED <<Msg!countVars, msg_list>>
  BY <1>2, <1>3, StatusSame, CallsReturn DEF MsgInv
<1>4. CASE Msg!ReceiveLoop(t, a, nowait)
  <2> HIDE DEF a
  <2>1. TableInv'
    BY <1>1, <1>2, <1>4, ReceiveLoopStep DEF MsgInv
  <2>2. CallsInv'
    BY <1>1, <1>4, ReceiveCalls DEF MsgInv
  <2> QED
    BY <2>1, <2>2 DEF MsgInv
<1> QED
  BY <1>3, <1>4 DEF Msg!MsgRcv

\* and when it comes out of its wait.
LEMMA RcvGoesOnStep ==
  ASSUME Msg!MsgAssumption, MsgInv, NEW t \in Msg!Caller, Msg!MsgRcvGoesOn(t)
  PROVE  MsgInv'
<1> DEFINE a == callArg[t]
<1>1. a \in RcvArg
  BY DEF Msg!MsgRcvGoesOn, MsgInv, CallsInv
<1>2. a.msqid \in Msg!Id /\ a.msgsz \in Nat
  BY <1>1 DEF RcvArg
<1>3. Msg!ReceiveLoop(t, a, FALSE) /\ UNCHANGED Msg!slotVars
  BY DEF Msg!MsgRcvGoesOn
<1> HIDE DEF a
<1>4. TableInv'
  BY <1>2, <1>3, ReceiveLoopStep DEF MsgInv
<1>5. CallsInv'
  BY <1>1, <1>3, ReceiveCalls DEF MsgInv
<1> QED
  BY <1>4, <1>5 DEF MsgInv

-----------------------------------------------------------------------------
\* A slot is taken: it has no messages.
LEMMA AddStep ==
  ASSUME Msg!MsgAssumption, TableInv, NEW s, NEW k \in Keys \ {0}, Msg!msgq_add(s, k)
  PROVE  TableInv'
<1>1. /\ s \in Msg!Id /\ msg_key[s] = 0 /\ k \in Int /\ k # 0
      /\ msg_key' = [msg_key EXCEPT ![s] = k]
      /\ msg_qnum' = [msg_qnum EXCEPT ![s] = 0]
      /\ msg_qbytes' = [msg_qbytes EXCEPT ![s] = MQ_MAX_BYTES_IN_QUEUE]
      /\ q_current' = q_current + 1 /\ UNCHANGED <<msg_list, msg_cbytes, b_current>>
  BY DEF Msg!msgq_add, Msg!MsgAssumption
<1>2. MQ_MAX_BYTES_IN_QUEUE \in Int
  BY DEF Msg!MsgAssumption
<1>3. /\ msg_key' \in [Msg!Id -> Int] /\ msg_qbytes' \in [Msg!Id -> Int]
      /\ msg_cbytes' \in [Msg!Id -> Int] /\ msg_qnum' \in [Msg!Id -> Int]
      /\ q_current' \in Int /\ b_current' \in Int
  BY <1>1, <1>2 DEF TableInv
<1>4. msg_list' \in [Msg!Id -> Seq(Message)]
  BY <1>1 DEF TableInv
<1>5. ASSUME NEW v \in Msg!Id
      PROVE  /\ msg_key'[v] = 0 => msg_list'[v] = <<>> /\ msg_qbytes'[v] = 0
             /\ msg_cbytes'[v] >= BytesOf(msg_list'[v])
             /\ msg_qnum'[v] >= TextsOf(msg_list'[v])
  <2>1. CASE v = s
    <3>1. msg_list'[v] = <<>> /\ msg_key'[v] = k /\ msg_qnum'[v] = 0 /\ msg_cbytes'[v] = msg_cbytes[v]
      BY <1>1, <2>1 DEF TableInv
    <3>2. msg_list[v] = <<>> /\ msg_cbytes[v] >= BytesOf(msg_list[v])
      BY <1>1, <2>1 DEF TableInv
    <3> QED
      BY <1>1, <3>1, <3>2, EmptyCounts
  <2>2. CASE v # s
    <3>1. /\ msg_list'[v] = msg_list[v] /\ msg_key'[v] = msg_key[v] /\ msg_qnum'[v] = msg_qnum[v]
          /\ msg_cbytes'[v] = msg_cbytes[v] /\ msg_qbytes'[v] = msg_qbytes[v]
      BY <1>1, <2>2 DEF TableInv
    <3> QED
      BY <3>1 DEF TableInv
  <2> QED
    BY <2>1, <2>2
<1>6. b_current' >= SumOf(msg_cbytes', Msg!Id)
  BY <1>1 DEF TableInv
<1>7. q_current' >= Cardinality({v \in Msg!Id : msg_key'[v] # 0})
  <2> DEFINE K == {v \in Msg!Id : msg_key[v] # 0}
             L == {v \in Msg!Id : msg_key'[v] # 0}
  <2>1. L = K \cup {s} /\ s \notin K
    BY <1>1 DEF TableInv
  <2>2. IsFiniteSet(K) /\ Cardinality(K) \in Nat
    BY FiniteTable
  <2>3. q_current \in Int /\ q_current >= Cardinality(K)
    BY DEF TableInv
  <2> HIDE DEF K, L
  <2>4. Cardinality(K \cup {s}) = Cardinality(K) + 1
    BY <2>1, <2>2, FS_AddElement
  <2>5. q_current' >= Cardinality(L)
    BY <1>1, <2>1, <2>2, <2>3, <2>4
  <2> QED
    BY <2>5 DEF L
<1> QED
  BY <1>3, <1>4, <1>5, <1>6, <1>7, Zenon DEF TableInv

\* A slot is emptied.
LEMMA RemoveStep ==
  ASSUME Msg!MsgAssumption, TableInv, NEW s \in Msg!Id, Msg!msgq_remove(s)
  PROVE  TableInv'
<1>1. /\ msg_key' = [msg_key EXCEPT ![s] = 0] /\ msg_cbytes' = [msg_cbytes EXCEPT ![s] = 0]
      /\ msg_qnum' = [msg_qnum EXCEPT ![s] = 0] /\ msg_qbytes' = [msg_qbytes EXCEPT ![s] = 0]
      /\ msg_list' = [msg_list EXCEPT ![s] = <<>>]
      /\ UNCHANGED <<q_current, b_current>>
  BY DEF Msg!msgq_remove
<1>2. /\ msg_key' \in [Msg!Id -> Int] /\ msg_qbytes' \in [Msg!Id -> Int]
      /\ msg_cbytes' \in [Msg!Id -> Int] /\ msg_qnum' \in [Msg!Id -> Int]
      /\ q_current' \in Int /\ b_current' \in Int
  BY <1>1 DEF TableInv
<1>3. msg_list' \in [Msg!Id -> Seq(Message)]
  BY <1>1, EmptyCounts DEF TableInv
<1>4. ASSUME NEW v \in Msg!Id
      PROVE  /\ msg_key'[v] = 0 => msg_list'[v] = <<>> /\ msg_qbytes'[v] = 0
             /\ msg_cbytes'[v] >= BytesOf(msg_list'[v])
             /\ msg_qnum'[v] >= TextsOf(msg_list'[v])
  <2>1. CASE v = s
    <3>1. msg_list'[v] = <<>> /\ msg_qbytes'[v] = 0 /\ msg_cbytes'[v] = 0 /\ msg_qnum'[v] = 0
      BY <1>1, <2>1 DEF TableInv
    <3> QED
      BY <3>1, EmptyCounts
  <2>2. CASE v # s
    <3>1. /\ msg_list'[v] = msg_list[v] /\ msg_key'[v] = msg_key[v] /\ msg_qnum'[v] = msg_qnum[v]
          /\ msg_cbytes'[v] = msg_cbytes[v] /\ msg_qbytes'[v] = msg_qbytes[v]
      BY <1>1, <2>2 DEF TableInv
    <3> QED
      BY <3>1 DEF TableInv
  <2> QED
    BY <2>1, <2>2
<1>5. b_current' >= SumOf(msg_cbytes', Msg!Id)
  <2> DEFINE I == Msg!Id
             f == msg_cbytes
             h == msg_cbytes'
             d == -msg_cbytes[s]
  <2>1. IsFiniteSet(I) /\ s \in I
    BY FiniteTable
  <2>2. \A y \in I : f[y] \in Int /\ h[y] \in Int
    BY <1>2 DEF TableInv
  <2>3. \A y \in I \ {s} : h[y] = f[y]
    BY <1>1 DEF TableInv
  <2>4. msg_cbytes[s] \in Int /\ h[s] = 0
    BY <1>1 DEF TableInv
  <2>5. h[s] = f[s] + d /\ d \in Int
    BY <2>4
  <2>6. d <= 0
    <3>1. msg_list[s] \in Seq(Message) /\ LONG \in Nat /\ msg_cbytes[s] >= BytesOf(msg_list[s])
      BY DEF TableInv, Msg!MsgAssumption
    <3>2. BytesOf(msg_list[s]) \in Nat
      BY <3>1, CountsAreNumbers
    <3> QED
      BY <2>4, <3>1, <3>2
  <2>7. b_current \in Int /\ b_current >= SumOf(f, I) /\ b_current' = b_current
    BY <1>1 DEF TableInv
  <2> HIDE DEF I, f, h, d
  <2>8. SumOf(h, I) = SumOf(f, I) + d /\ SumOf(f, I) \in Int
    BY <2>1, <2>2, <2>3, <2>5, SumGrows, Zenon
  <2>9. b_current' >= SumOf(h, I)
    BY <2>5, <2>6, <2>7, <2>8
  <2> QED
    BY <2>9 DEF I, h
<1>6. q_current' >= Cardinality({v \in Msg!Id : msg_key'[v] # 0})
  <2> DEFINE K == {v \in Msg!Id : msg_key[v] # 0}
             L == {v \in Msg!Id : msg_key'[v] # 0}
  <2>1. L \subseteq K
    BY <1>1 DEF TableInv
  <2>2. IsFiniteSet(K) /\ Cardinality(K) \in Nat /\ IsFiniteSet(L) /\ Cardinality(L) \in Nat
    BY FiniteTable
  <2>3. q_current \in Int /\ q_current >= Cardinality(K) /\ q_current' = q_current
    BY <1>1 DEF TableInv
  <2> HIDE DEF K, L
  <2>4. Cardinality(L) <= Cardinality(K)
    BY <2>1, <2>2, FS_Subset
  <2>5. q_current' >= Cardinality(L)
    BY <2>2, <2>3, <2>4
  <2> QED
    BY <2>5 DEF L
<1> QED
  BY <1>2, <1>3, <1>4, <1>5, <1>6, Zenon DEF TableInv

\* msgget, and msgctl that removes a queue at once or waits to do so,
LEMMA RemoversStep ==
  ASSUME Msg!MsgAssumption, MsgInv, NEW t \in Msg!Caller, Msg!Removes(t)
  PROVE  MsgInv'
<1>1. PICK s \in Msg!Id : \/ Msg!MsgCtl_RMID(t, s) \/ Msg!MsgCtl_Invalid(t, s)
                          \/ \E key \in Keys : Msg!MsgGet(t, s, key)
                          \/ Msg!MsgCtl_SET(t, s, MQ_MAX_BYTES_IN_QUEUE - LONG)
  BY DEF Msg!Removes
<1>2. CASE Msg!MsgCtl_RMID(t, s)
  <2>1. CASE Msg!msgq_remove(s) /\ UNCHANGED <<msg_busy, call, callArg>>
    BY <2>1, RemoveStep, CallsSame DEF MsgInv
  <2>2. CASE /\ Msg!Waits(t, "msgctl", [msqid |-> s])
             /\ UNCHANGED <<msg_list, Msg!countVars, Msg!slotVars>>
    <3>1. [msqid |-> s] \in CtlArg
      BY DEF CtlArg
    <3>2. TableInv'
      BY <2>2, StatusSame DEF MsgInv
    <3>3. CallsInv'
      BY <2>2, <3>1, CallsWait DEF MsgInv
    <3> QED
      BY <3>2, <3>3 DEF MsgInv
  <2> QED
    BY <1>2, <2>1, <2>2 DEF Msg!MsgCtl_RMID
<1>3. CASE Msg!MsgCtl_Invalid(t, s)
  <2>1. UNCHANGED <<Msg!tableVars, call, callArg>>
    BY <1>3 DEF Msg!MsgCtl_Invalid
  <2> QED
    BY <2>1, StatusSame, CallsSame DEF Msg!tableVars, MsgInv
<1>4. CASE \E key \in Keys : Msg!MsgGet(t, s, key)
  <2>1. PICK key \in Keys : Msg!MsgGet(t, s, key)
    BY <1>4
  <2>2. Msg!msgq_add(s, key) /\ UNCHANGED <<call, callArg>>
    BY <2>1 DEF Msg!MsgGet
  <2>3. key # 0
    BY <2>1 DEF Msg!MsgGet, Msg!msgq_add, Msg!msgq_lookup, Msg!IPC_PRIVATE
  <2> QED
    BY <2>2, <2>3, AddStep, CallsSame DEF MsgInv
<1>5. CASE Msg!MsgCtl_SET(t, s, MQ_MAX_BYTES_IN_QUEUE - LONG)
  <2> DEFINE b == MQ_MAX_BYTES_IN_QUEUE - LONG
  <2>1. b \in Int
    BY DEF Msg!MsgAssumption
  <2>2. /\ msg_key[s] > 0 /\ msg_qbytes' = [msg_qbytes EXCEPT ![s] = b]
        /\ UNCHANGED <<msg_list, Msg!countVars, msg_key, q_current, call, callArg>>
    BY <1>5 DEF Msg!MsgCtl_SET, Msg!msgq_valid
  <2> HIDE DEF b
  <2>3. UNCHANGED <<msg_list, msg_cbytes, msg_qnum, b_current, msg_key, q_current>>
    BY <2>2 DEF Msg!countVars
  <2>4. \A v \in Msg!Id : msg_key[v] = 0 => msg_qbytes'[v] = msg_qbytes[v]
    BY <2>2 DEF MsgInv, TableInv
  <2>5. msg_qbytes' \in [Msg!Id -> Int]
    BY <2>1, <2>2 DEF MsgInv, TableInv
  <2>6. TableInv'
    BY <2>3, <2>4, <2>5 DEF MsgInv, TableInv
  <2>7. CallsInv'
    BY <2>2, CallsSame DEF MsgInv
  <2> QED
    BY <2>6, <2>7 DEF MsgInv
<1> QED
  BY <1>1, <1>2, <1>3, <1>4, <1>5

\* and msgctl that removes it when it comes out of its wait.
LEMMA CtlGoesOnStep ==
  ASSUME Msg!MsgAssumption, MsgInv, NEW t \in Msg!Caller, Msg!MsgCtlGoesOn(t)
  PROVE  MsgInv'
<1> DEFINE s == callArg[t].msqid
<1>1. callArg[t] \in CtlArg
  BY DEF Msg!MsgCtlGoesOn, MsgInv, CallsInv
<1>2. s \in Msg!Id
  BY <1>1 DEF CtlArg
<1>3. Msg!msgq_remove(s) /\ Msg!Return(t, s)
  BY DEF Msg!MsgCtlGoesOn
<1> HIDE DEF s
<1> QED
  BY <1>2, <1>3, RemoveStep, CallsReturn DEF MsgInv

\* Every call of every thread.
LEMMA MsgStep ==
  ASSUME Msg!MsgAssumption, MsgInv, [Msg!Next]_msgVars
  PROVE  MsgInv'
<1>1. CASE UNCHANGED msgVars
  <2>1. UNCHANGED Msg!countVars /\ UNCHANGED Msg!slotVars /\ UNCHANGED msg_list
        /\ UNCHANGED <<call, callArg>>
    BY <1>1 DEF msgVars, Msg!countVars, Msg!slotVars
  <2> QED
    BY <2>1, StatusSame, CallsSame DEF MsgInv
<1>2. ASSUME NEW t \in Senders, Msg!Sends(t) PROVE MsgInv'
  <2>1. PICK s \in Msg!Id, l \in Sizes, y \in Types, nowait \in BOOLEAN :
          Msg!MsgSnd(t, s, [mlength |-> l, mtype |-> y], nowait)
    BY <1>2 DEF Msg!Sends
  <2> DEFINE m == [mlength |-> l, mtype |-> y]
  <2>2. t \in Msg!Caller /\ m \in Message
    BY DEF Msg!Caller, Message, Msg!MsgAssumption
  <2>3. Msg!MsgSnd(t, s, m, nowait)
    BY <2>1
  <2> HIDE DEF m
  <2> QED
    BY <2>2, <2>3, SndStep
<1>3. ASSUME NEW t \in Receivers, Msg!Receives(t) PROVE MsgInv'
  <2>1. PICK s \in Msg!Id, z \in Buffers, y \in MsgTypes, nowait \in BOOLEAN :
          Msg!MsgRcv(t, s, z, y, nowait)
    BY <1>3 DEF Msg!Receives
  <2>2. t \in Msg!Caller /\ z \in Nat
    BY DEF Msg!Caller, Msg!MsgAssumption
  <2> QED
    BY <2>1, <2>2, RcvStep
<1>4. ASSUME NEW t \in Removers, Msg!Removes(t) PROVE MsgInv'
  <2>1. t \in Msg!Caller
    BY DEF Msg!Caller
  <2> QED
    BY <1>4, <2>1, RemoversStep
<1>5. ASSUME NEW t \in Msg!Caller, Msg!GoesOn(t) PROVE MsgInv'
  BY <1>5, SndGoesOnStep, RcvGoesOnStep, CtlGoesOnStep DEF Msg!GoesOn
<1> QED
  BY <1>1, <1>2, <1>3, <1>4, <1>5 DEF Msg!Next, Msg!Calling

\* What is counted covers what is there.
LEMMA MsgFact == MsgInv => Msg!StatusCoversMessages
<1> SUFFICES ASSUME MsgInv PROVE Msg!StatusCoversMessages
  OBVIOUS
<1>0. \A S : Msg!Cardinality(S) = Cardinality(S)
  BY DEF Msg!Cardinality, Cardinality
<1>1. \A s \in Msg!Id :
        /\ msg_cbytes[s] >= Msg!Bytes(s)
        /\ msg_qnum[s] >= Msg!Cardinality({i \in DOMAIN msg_list[s] : msg_list[s][i].mlength > 0})
  BY <1>0, SameInMsg DEF MsgInv, TableInv, TextsOf
<1>2. b_current >= Msg!FoldSet(LAMBDA q1, n : n + msg_cbytes[q1], 0, Msg!Id)
  BY SameInMsg DEF MsgInv, TableInv
<1>3. q_current >= Msg!Cardinality({s \in Msg!Id : msg_key[s] # 0})
  BY <1>0 DEF MsgInv, TableInv
<1> QED
  BY <1>1, <1>2, <1>3 DEF Msg!StatusCoversMessages

\* A step of Programs is one of the emulation, or leaves its variables alone.
LEMMA EmulationAlone ==
  ASSUME [ProgramsNext]_programVars
  PROVE  [Msg!Next]_msgVars
<1> SUFFICES ASSUME program = "msg_emulation", ProgramsNext PROVE Msg!Next
  BY DEF ProgramsNext, Frozen, programVars
<1>1. /\ program \notin FileProgram \cup CrewProgram \cup StreamProgram \cup MessageProgram
      /\ program \notin {"testTHB", "serverNP", "serverSK", "08-Queue", "09-Queue", "Handshake",
                         "JobShell", "serverNPCP", "SimpleService"}
  BY DEF FileProgram, CrewProgram, StreamProgram, MessageProgram, File!Converter, File!OneThread,
         File!Striped
<1> USE <1>1 DEF MessageProgram, InSimple, InEvent, InMulti, Msg!Next
<1>2. CASE \E n \in Numbers : Thread(n)
  BY <1>2 DEF Thread
<1>3. CASE MainThread
  BY <1>3 DEF MainThread
<1>4. CASE Environment
  BY <1>4 DEF Environment
<1> QED
  BY <1>2, <1>3, <1>4 DEF ProgramsNext

(***************************************************************************)
(* msg_emulation.c: the bytes and the messages that it counts in a queue   *)
(* are never fewer than those that are there, whatever the threads that    *)
(* wait inside msgsnd, msgrcv and msgctl find when they come out again: a  *)
(* queue that has been removed, or another in its slot of the table.       *)
(***************************************************************************)
THEOREM StatusInPrograms == ProgramsSpec => []StatusCoversMessages
<1>1. ProgramsInit => MsgInv
  BY MsgBegins, ProgramsAssumption DEF ProgramsInit
<1>2. MsgInv /\ [ProgramsNext]_programVars => MsgInv'
  BY EmulationAlone, MsgStep, ProgramsAssumption
<1>3. MsgInv => StatusCoversMessages
  BY MsgFact DEF StatusCoversMessages
<1> QED
  BY <1>1, <1>2, <1>3, PTL DEF ProgramsSpec
=============================================================================
