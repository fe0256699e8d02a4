--------------------------- MODULE OverlappedFiles ---------------------------
(***************************************************************************)
(* Programs that read one file and write another with several requests at  *)
(* a time, in any order.  Four convert: CHAPTR14/cciOV.C waits for the     *)
(* events of its overlapped structures, cciEX.C has completion routines,   *)
(* and in cciMT.c and cciMT_VTP.c threads, or callbacks of a thread pool,  *)
(* take every MAX_OVRLP'th record.  10-FileCopy/FileCopy.cpp copies, and   *)
(* gets the completions from a port.                                       *)
(*                                                                         *)
(* A record is its number in the file and how often it was converted.  In  *)
(* cciEX.C the buffer converted to is another; it is used at the same      *)
(* time.  The requests of the system do not fail.                          *)
(***************************************************************************)
EXTENDS Integers

CONSTANTS MAX_OVRLP,    \* buffers, MAX_PENDING_IO_REQS in FileCopy.cpp
          MaxRecords    \* bound of the model

FilesAssumption == MAX_OVRLP \in Nat \ {0} /\ MaxRecords \in Nat

VARIABLES converter,    \* which program this is
          nRecords,     \* the records in the file
          offset,       \* the record in overLapIn[b], or where stripe b is
          overLapOut,   \* the record in overLapOut[b]
          request,      \* what buffer b is used for
          completed,    \* events set, routines or packets queued
          buffer, outFile,
          nDone, nReadsInProgress, nWritesInProgress, liNextReadOffset, WorkerId

countsOfIo == <<nDone, nReadsInProgress, nWritesInProgress, liNextReadOffset, WorkerId>>
fileVars == <<nRecords, offset, overLapOut, request, completed, buffer, outFile, countsOfIo>>

OneThread == {"cciOV", "cciEX", "FileCopy"}
Striped == {"cciMT", "cciMT_VTP"}
Converter == OneThread \cup Striped

Buffer == 0 .. MAX_OVRLP - 1
Records == 0 .. nRecords - 1
NoRecord == <<>>
Convert(record) == IF record = NoRecord THEN NoRecord ELSE <<record[1], record[2] + 1>>

\* The first reads have been issued; FileCopy.cpp posts writes instead.
FilesInit ==
  /\ nRecords \in IF converter \in Converter THEN 0 .. MaxRecords ELSE {0}
  /\ offset = [b \in Buffer |-> b] /\ overLapOut = [b \in Buffer |-> b]
  /\ request = [b \in Buffer |->
       CASE converter \in {"cciOV", "cciEX"} /\ b < nRecords -> "reading"
         [] converter = "cciMT" -> "ready"
         [] OTHER -> "none"]
  /\ completed = IF converter = "FileCopy" THEN {"write"} \X Buffer ELSE {}
  /\ buffer = [b \in Buffer |-> NoRecord]
  /\ outFile = [r \in Records |-> NoRecord]
  /\ nDone = 0 /\ nReadsInProgress = 0 /\ liNextReadOffset = 0 /\ WorkerId = 0
  /\ nWritesInProgress = IF converter = "FileCopy" THEN MAX_OVRLP ELSE 0

Use(b, for) == request' = [request EXCEPT ![b] = for]

-----------------------------------------------------------------------------
(* The system *)

ReadCompletes(b) ==
  /\ request[b] = "reading" /\ Use(b, "none")
  /\ buffer' = [buffer EXCEPT ![b] = <<offset[b], 0>>]
  /\ completed' = completed \cup {<<"read", b>>}
  /\ UNCHANGED <<nRecords, offset, overLapOut, outFile, countsOfIo>>

\* The data are taken from the buffer at any time until here.
WriteCompletes(b) ==
  /\ request[b] = "writing" /\ Use(b, "none")
  /\ outFile' = [outFile EXCEPT ![overLapOut[b]] = buffer[b]]
  /\ completed' = completed \cup {<<"write", b>>}
  /\ UNCHANGED <<nRecords, offset, overLapOut, buffer, countsOfIo>>

-----------------------------------------------------------------------------
(* One thread for all buffers *)

LoopEnded == IF converter = "FileCopy"
             THEN nReadsInProgress = 0 /\ nWritesInProgress = 0
             ELSE nDone >= 2 * nRecords

\* WaitForMultipleObjects reports the first of the events: reads before writes.
FirstEvent(kind, b) ==
  \A o \in completed : \/ o[1] = kind /\ o[2] >= b
                       \/ kind = "read" /\ o[1] = "write"

NextCompletion(kind, b) ==
  /\ ~LoopEnded /\ <<kind, b>> \in completed
  /\ converter = "cciOV" => FirstEvent(kind, b)
  /\ UNCHANGED <<nRecords, outFile, WorkerId>>

Taken(kind, b) == NextCompletion(kind, b) /\ completed' = completed \ {<<kind, b>>}

\* The write goes where the read came from; the next read waits for it.
ConvertAndWrite(b) ==
  /\ converter \in {"cciOV", "cciEX"}
  /\ buffer' = [buffer EXCEPT ![b] = Convert(@)]
  /\ overLapOut' = [overLapOut EXCEPT ![b] = offset[b]]
  /\ Use(b, "writing")
  /\ offset' = [offset EXCEPT ![b] = @ + MAX_OVRLP]
  /\ nDone' = nDone + 1
  /\ UNCHANGED <<nReadsInProgress, nWritesInProgress, liNextReadOffset>>

\* Fault: the event stays set until the next ReadFile.
ReadDone_KeepsEvent(b) == NextCompletion("read", b) /\ ConvertAndWrite(b) /\ UNCHANGED completed

ReadDone(b) == Taken("read", b) /\ ConvertAndWrite(b)

ReadNext(b) ==
  /\ converter \in {"cciOV", "cciEX"}
  /\ IF offset[b] < nRecords THEN Use(b, "reading") ELSE UNCHANGED request
  /\ nDone' = nDone + 1
  /\ UNCHANGED <<offset, overLapOut, buffer, nReadsInProgress, nWritesInProgress,
                 liNextReadOffset>>

WriteDone(b) == Taken("write", b) /\ ReadNext(b)

\* Fault: the write is not counted.
CopyRead_NotCounted(b) ==
  /\ converter = "FileCopy" /\ Taken("read", b)
  /\ nReadsInProgress' = nReadsInProgress - 1
  /\ Use(b, "writing")
  /\ overLapOut' = [overLapOut EXCEPT ![b] = offset[b]]
  /\ UNCHANGED <<offset, buffer, nDone, liNextReadOffset, nWritesInProgress>>

CopyRead(b) ==
  /\ converter = "FileCopy" /\ Taken("read", b)
  /\ nReadsInProgress' = nReadsInProgress - 1
  /\ Use(b, "writing")
  /\ overLapOut' = [overLapOut EXCEPT ![b] = offset[b]]
  /\ nWritesInProgress' = nWritesInProgress + 1
  /\ UNCHANGED <<offset, buffer, nDone, liNextReadOffset>>

CopyWritten(b) ==
  /\ converter = "FileCopy" /\ Taken("write", b)
  /\ nWritesInProgress' = nWritesInProgress - 1
  /\ IF liNextReadOffset < nRecords
     THEN /\ Use(b, "reading")
          /\ offset' = [offset EXCEPT ![b] = liNextReadOffset]
          /\ nReadsInProgress' = nReadsInProgress + 1
          /\ liNextReadOffset' = liNextReadOffset + 1
     ELSE UNCHANGED <<request, offset, nReadsInProgress, liNextReadOffset>>
  /\ UNCHANGED <<overLapOut, buffer, nDone>>

-----------------------------------------------------------------------------
(* A thread or a callback for each stripe *)

\* A callback takes the next number; the pool may run fewer at a time.
StartCallback(b) ==
  /\ converter = "cciMT_VTP" /\ request[b] = "none"
  /\ b = WorkerId /\ WorkerId' = WorkerId + 1
  /\ Use(b, "ready")
  /\ UNCHANGED <<nRecords, offset, overLapOut, completed, buffer, outFile, nDone,
                 nReadsInProgress, nWritesInProgress, liNextReadOffset>>

ReadStripe(b) ==
  /\ request[b] = "ready" /\ offset[b] < nRecords /\ Use(b, "converted")
  /\ buffer' = [buffer EXCEPT ![b] = Convert(<<offset[b], 0>>)]
  /\ UNCHANGED <<nRecords, offset, overLapOut, completed, outFile, countsOfIo>>

WriteStripe(b) ==
  /\ request[b] = "converted" /\ Use(b, "ready")
  /\ outFile' = [outFile EXCEPT ![offset[b]] = buffer[b]]
  /\ offset' = [offset EXCEPT ![b] = @ + MAX_OVRLP]
  /\ UNCHANGED <<nRecords, overLapOut, completed, buffer, countsOfIo>>

-----------------------------------------------------------------------------
FileThread(b) == \/ ReadCompletes(b) \/ WriteCompletes(b)
                 \/ StartCallback(b) \/ ReadStripe(b) \/ WriteStripe(b)

FileMain == \E b \in Buffer : \/ ReadDone(b) \/ WriteDone(b)
                              \/ CopyRead(b) \/ CopyWritten(b)

\* main closes the files.
FileEnded == IF converter \in OneThread THEN LoopEnded
             ELSE \A b \in Buffer : request[b] = "ready" /\ offset[b] >= nRecords

(***************************************************************************)
(* A record of the output is not written, or is the record of that place,  *)
(* converted once (in FileCopy.cpp, not at all); when the program ends all *)
(* are written.                                                            *)
(***************************************************************************)
FilesConverted ==
  \A r \in Records :
    \/ outFile[r] = <<r, IF converter = "FileCopy" THEN 0 ELSE 1>>
    \/ outFile[r] = NoRecord /\ ~FileEnded
=============================================================================
