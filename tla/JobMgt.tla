------------------------------- MODULE JobMgt -------------------------------
(***************************************************************************)
(* CHAPTR06/JobShell.c and JOBMGT.C: shells start background jobs and keep *)
(* their process ids in a file that they share, with file locks; the job's *)
(* number is its record's.  A process id is not used again.                *)
(*                                                                         *)
(* The locks keep others from reading and writing.  GetJobNumber locks the *)
(* file and a record past the end that it had before the lock;             *)
(* FindProcessId locks a record, and reads it; DisplayJobs asks for a lock *)
(* of no bytes, which locks nothing.  Kill's console events are left out.  *)
(***************************************************************************)
EXTENDS Integers, Sequences

CONSTANTS Shells, ProcessIds, MAX_JOBS_ALLOWED,
          NoShell

\* 0 stands for an empty record.
JobAssumption == /\ ProcessIds \subseteq Nat \ {0}
                 /\ MAX_JOBS_ALLOWED \in Nat
                 /\ NoShell \notin Shells

VARIABLES jobFile,      \* the process ids; 0 for an empty record
          fileLock,     \* the shell in GetJobNumber
          fileSizePlus, \* the records that each shell asks to lock
          process,      \* what the system knows of each process
          jobNumber,    \* the number told to the user, or 0
          shell,        \* where each shell is in its command
          current,      \* the process or the record it is at
          wiped         \* processes whose records were emptied by mistake

jobVars == <<jobFile, fileLock, fileSizePlus, process, jobNumber, shell, current, wiped>>

JobInit ==
  /\ jobFile = <<>> /\ fileLock = NoShell
  /\ fileSizePlus = [s \in Shells |-> 0]
  /\ process = [p \in ProcessIds |-> "none"]
  /\ jobNumber = [p \in ProcessIds |-> 0]
  /\ shell = [s \in Shells |-> "prompt"]
  /\ current = [s \in Shells |-> 0]
  /\ wiped = {}

From(s, from, to) == shell[s] = from /\ shell' = [shell EXCEPT ![s] = to]

Gone(p) == p \notin {o \in ProcessIds : process[o] # "ended"}
Locked(n) == fileLock # NoShell /\ n <= fileSizePlus[fileLock]

-----------------------------------------------------------------------------
(* Jobbg *)

CreateSuspended(s) ==
  /\ From(s, "prompt", "number")
  /\ \E p \in ProcessIds :
       /\ process[p] = "none"
       /\ \A o \in ProcessIds : process[o] = "none" => p <= o
       /\ process' = [process EXCEPT ![p] = "suspended"]
       /\ current' = [current EXCEPT ![s] = p]
  /\ UNCHANGED <<jobFile, fileLock, fileSizePlus, jobNumber, wiped>>

\* The file is there from now on.
GetFileSize(s) ==
  /\ From(s, "number", "lock")
  /\ fileSizePlus' = [fileSizePlus EXCEPT ![s] = Len(jobFile) + 1]
  /\ UNCHANGED <<jobFile, fileLock, process, jobNumber, current, wiped>>

\* Fault: the file is not locked.
LockFile_Shared(s) ==
  /\ From(s, "lock", "enter")
  /\ UNCHANGED <<jobFile, fileLock, fileSizePlus, process, jobNumber, current, wiped>>

\* The file may have grown since; but all locks begin at the first byte.
LockFile(s) ==
  /\ From(s, "lock", "enter")
  /\ fileLock = NoShell /\ fileLock' = s
  /\ UNCHANGED <<jobFile, fileSizePlus, process, jobNumber, current, wiped>>

\* The first slot whose process is gone, or a new one.
FreeSlot(n) ==
  /\ n \in 1 .. Len(jobFile) + 1
  /\ \A i \in 1 .. n - 1 : ~Gone(jobFile[i])
  /\ n <= Len(jobFile) => Gone(jobFile[n])

\* The slot is found in this step and written in the next.
FindSlot(s) ==
  /\ shell[s] = "enter"
  /\ \E n \in 1 .. MAX_JOBS_ALLOWED + 1 :
       /\ FreeSlot(n)
       /\ From(s, "enter", IF n > MAX_JOBS_ALLOWED THEN "full" ELSE "write")
       /\ jobNumber' = [jobNumber EXCEPT ![current[s]] = n]
  /\ UNCHANGED <<jobFile, fileLock, fileSizePlus, process, current, wiped>>

WriteRecord(s) ==
  LET p == current[s] n == jobNumber[p] IN
  /\ From(s, "write", "resume")
  /\ jobFile' = IF n > Len(jobFile) THEN Append(jobFile, p) ELSE [jobFile EXCEPT ![n] = p]
  /\ fileLock' = NoShell
  /\ UNCHANGED <<fileSizePlus, process, jobNumber, current, wiped>>

\* The process is resumed, unless it has been killed by now, or, with no room
\* for it, terminated.
ResumeOrTerminate(s) ==
  LET p == current[s] IN
  /\ \/ /\ From(s, "resume", "prompt")
        /\ process' = [process EXCEPT ![p] = IF @ = "suspended" THEN "running" ELSE @]
        /\ UNCHANGED <<fileLock, jobNumber>>
     \/ /\ From(s, "full", "prompt")
        /\ process' = [process EXCEPT ![p] = "ended"]
        /\ jobNumber' = [jobNumber EXCEPT ![p] = 0]
        /\ fileLock' = NoShell
  /\ current' = [current EXCEPT ![s] = 0]
  /\ UNCHANGED <<jobFile, fileSizePlus, wiped>>

-----------------------------------------------------------------------------
(* Jobs: the records are read one by one, not those locked by another      *)

StartDisplay(s) ==
  /\ From(s, "prompt", "read")
  /\ current' = [current EXCEPT ![s] = 1]
  /\ UNCHANGED <<jobFile, fileLock, fileSizePlus, process, jobNumber, wiped>>

\* A record whose process is gone is to be emptied, unless somebody still has
\* a handle to the process.
ReadRecord(s) ==
  LET n == current[s] IN
  /\ shell[s] = "read"
  /\ \/ /\ n > Len(jobFile) \/ Locked(n)
        /\ From(s, "read", "prompt")
        /\ current' = [current EXCEPT ![s] = 0]
     \/ /\ n <= Len(jobFile) /\ ~Locked(n)
        /\ \/ From(s, "read", "read") /\ current' = [current EXCEPT ![s] = n + 1]
           \/ /\ From(s, "read", "empty") /\ UNCHANGED current
              /\ jobFile[n] # 0 /\ Gone(jobFile[n])
  /\ UNCHANGED <<jobFile, fileLock, fileSizePlus, process, jobNumber, wiped>>

\* A write that a lock prevents ends the shell.
EmptyRecord(s) ==
  LET n == current[s] IN
  /\ shell[s] = "empty"
  /\ \/ /\ Locked(n) /\ From(s, "empty", "exited")
        /\ UNCHANGED <<jobFile, current, wiped>>
     \/ /\ ~Locked(n) /\ From(s, "empty", "read")
        /\ jobFile' = [jobFile EXCEPT ![n] = 0]
        /\ wiped' = IF Gone(jobFile[n]) THEN wiped ELSE wiped \cup {jobFile[n]}
        /\ current' = [current EXCEPT ![s] = n + 1]
  /\ UNCHANGED <<fileLock, fileSizePlus, process, jobNumber>>

-----------------------------------------------------------------------------
(* Kill, and the end of a process *)

FileExists == jobFile # <<>> \/ \E s \in Shells : shell[s] \in {"lock", "enter", "write"}

\* FindProcessId waits for its lock.  Of the record at the end nothing is read,
\* and the process id is whatever its variable holds.
FindProcessId(s) ==
  /\ FileExists
  /\ \E n \in 1 .. Len(jobFile) + 1 :
       /\ ~Locked(n)
       /\ From(s, "prompt", "kill")
       /\ \/ n <= Len(jobFile) /\ jobFile[n] # 0 /\ current' = [current EXCEPT ![s] = jobFile[n]]
          \/ n > Len(jobFile) /\ \E p \in ProcessIds : current' = [current EXCEPT ![s] = p]
  /\ UNCHANGED <<jobFile, fileLock, fileSizePlus, process, jobNumber, wiped>>

\* Of a process that is not there any more nothing can be opened.
Terminate(s) ==
  /\ From(s, "kill", "prompt")
  /\ process' = [process EXCEPT ![current[s]] = IF @ = "none" THEN @ ELSE "ended"]
  /\ current' = [current EXCEPT ![s] = 0]
  /\ UNCHANGED <<jobFile, fileLock, fileSizePlus, jobNumber, wiped>>

ProcessEnds(p) ==
  /\ process[p] = "running" /\ process' = [process EXCEPT ![p] = "ended"]
  /\ UNCHANGED <<jobFile, fileLock, fileSizePlus, jobNumber, shell, current, wiped>>

Jobbg(s) == \/ CreateSuspended(s) \/ GetFileSize(s) \/ LockFile(s) \/ FindSlot(s) \/ WriteRecord(s)
            \/ ResumeOrTerminate(s)
Jobs(s) == StartDisplay(s) \/ ReadRecord(s) \/ EmptyRecord(s)
Kill(s) == FindProcessId(s) \/ Terminate(s)

JobNext == \/ \E s \in Shells : Jobbg(s) \/ Jobs(s) \/ Kill(s)
           \/ \E p \in ProcessIds : ProcessEnds(p)
-----------------------------------------------------------------------------
(***************************************************************************)
(* A job that runs is found under the number that the user was told, and   *)
(* so no two jobs have one number, but for the jobs whose records a        *)
(* DisplayJobs has emptied that had read them before they were written.    *)
(***************************************************************************)
JobsFound ==
  \A p \in ProcessIds \ wiped : process[p] = "running" => jobFile[jobNumber[p]] = p
=============================================================================
