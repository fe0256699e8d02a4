----------------------------- MODULE ServerNPCP -----------------------------
(***************************************************************************)
(* CHAPTR14/serverNPCP.C: a few threads serve the pipes of many clients.   *)
(* All take the completed operations of all pipes from one port, do what   *)
(* the pipe's npState says is next, and start the next operation, or post  *)
(* a packet themselves where there is nothing to wait for.                 *)
(*                                                                         *)
(* An operation that fails at once ends the thread, and leaves the pipe    *)
(* without an operation: the lines that would connect it again are after   *)
(* a switch all of whose cases continue, and are never reached.            *)
(*                                                                         *)
(* The system's own failures are left out but for that of the temporary    *)
(* file, and so is what a response says.                                   *)
(***************************************************************************)
EXTENDS Integers, Sequences, FiniteSets

CONSTANTS MAX_CLIENTS_CP, MAX_SERVER_TH,
          MaxLines,   \* bounds of the model: the lines of a response,
          Leavers     \* and the pipes whose clients may leave

\* As the comment in main says of the two numbers.
ServerCPAssumption == MAX_CLIENTS_CP \in Nat /\ MAX_SERVER_TH \in 1 .. MAX_CLIENTS_CP

VARIABLES cpShutDown,
          cpMain, iNp,  \* where main is, and the pipes it has created
          npState, lines,   \* of each CP_KEY
          io,               \* the operations of a pipe that are under way
          port,             \* the packets: a pipe, and "done" or "aborted"
          cpThread, cpKey,  \* where each thread is, and the pipe it serves
          cancelled,        \* the pipes whose operations the monitor has cancelled
          cpClient          \* the client of each pipe

cpVars == <<cpShutDown, cpMain, iNp, npState, lines, io, port, cpThread, cpKey,
            cancelled, cpClient>>

Pipes == 0 .. MAX_CLIENTS_CP - 1
CpThreads == 0 .. MAX_SERVER_TH - 1
NoKey == MAX_CLIENTS_CP

CPInit ==
  /\ cpShutDown = FALSE /\ cpMain = "create" /\ iNp = 0
  /\ npState = [p \in Pipes |-> "none"] /\ lines = [p \in Pipes |-> 0]
  /\ io = [p \in Pipes |-> {}] /\ port = <<>>
  /\ cpThread = [i \in CpThreads |-> "none"] /\ cpKey = [i \in CpThreads |-> NoKey]
  /\ cancelled = 0
  /\ cpClient = [p \in Pipes |-> "away"]

CpGoes(i, from, to) == cpThread[i] = from /\ cpThread' = [cpThread EXCEPT ![i] = to]
CpMainGoes(from, to) == cpMain = from /\ cpMain' = to

Posted(p, result) == port' = Append(port, <<p, result>>)
Begin(p, op) == io' = [io EXCEPT ![p] = @ \cup {op}]
Completed(p, op, result) == /\ op \in io[p] /\ io' = [io EXCEPT ![p] = @ \ {op}]
                            /\ Posted(p, result)

-----------------------------------------------------------------------------
(* main *)

CreatePipe ==
  /\ CpMainGoes("create", "connect")
  /\ iNp' = iNp + 1
  /\ UNCHANGED <<cpShutDown, npState, lines, io, port, cpThread, cpKey, cancelled, cpClient>>

\* A client that came in between makes ConnectNamedPipe fail, with an error
\* that main does not expect, and ends the program.
ConnectPipe ==
  LET p == iNp - 1 IN
  /\ cpMain = "connect"
  /\ IF cpClient[p] = "away"
     THEN /\ CpMainGoes("connect", IF iNp = MAX_CLIENTS_CP THEN "threads" ELSE "create")
          /\ Begin(p, "connect")
          /\ npState' = [npState EXCEPT ![p] = "connected"]
     ELSE CpMainGoes("connect", "failed") /\ UNCHANGED <<npState, io>>
  /\ UNCHANGED <<cpShutDown, iNp, lines, port, cpThread, cpKey, cancelled, cpClient>>

StartThreads ==
  /\ CpMainGoes("threads", "join")
  /\ cpThread' = [i \in CpThreads |-> IF cpShutDown THEN "ended" ELSE "wait"]
  /\ UNCHANGED <<cpShutDown, iNp, npState, lines, io, port, cpKey, cancelled, cpClient>>

\* All threads, then the monitor.
CpExit ==
  /\ \A i \in CpThreads : cpThread[i] = "ended"
  /\ cancelled = MAX_CLIENTS_CP
  /\ CpMainGoes("join", "ended")
  /\ UNCHANGED <<cpShutDown, iNp, npState, lines, io, port, cpThread, cpKey, cancelled,
                 cpClient>>

CpHandler ==
  /\ ~cpShutDown /\ cpShutDown' = TRUE
  /\ UNCHANGED <<cpMain, iNp, npState, lines, io, port, cpThread, cpKey, cancelled, cpClient>>

\* ServerBroadcast, at its end: one pipe after the other, once.
CancelPipe ==
  /\ cpShutDown /\ cancelled < MAX_CLIENTS_CP
  /\ cancelled' = cancelled + 1
  /\ IF io[cancelled] = {} THEN UNCHANGED <<io, port>>
     ELSE /\ io' = [io EXCEPT ![cancelled] = {}]
          /\ Posted(cancelled, "aborted")
  /\ UNCHANGED <<cpShutDown, cpMain, iNp, npState, lines, cpThread, cpKey, cpClient>>

-----------------------------------------------------------------------------
(* A server thread *)

\* Each turn ends with the test of the flag.
LoopAgain(i, from) == CpGoes(i, from, IF cpShutDown THEN "ended" ELSE "wait")

\* A cancelled operation, or the flag, sends the thread to the loop's test.
\* Any other error is reported, and the operation taken for a completed one.
GetQueuedCompletionStatus(i) ==
  /\ port # <<>> /\ port' = Tail(port)
  /\ IF Head(port)[2] = "aborted" \/ cpShutDown
     THEN LoopAgain(i, "wait") /\ UNCHANGED cpKey
     ELSE CpGoes(i, "wait", "switch") /\ cpKey' = [cpKey EXCEPT ![i] = Head(port)[1]]
  /\ UNCHANGED <<cpShutDown, cpMain, iNp, npState, lines, io, cancelled, cpClient>>

NextState(p, s) == npState' = [npState EXCEPT ![p] = s]

\* Fault: a packet is posted besides.
Starts_Posts(i, p, op) ==
  /\ IF cpClient[p] = "gone"
     THEN CpGoes(i, "switch", "ended") /\ UNCHANGED io
     ELSE LoopAgain(i, "switch") /\ Begin(p, op)
  /\ Posted(p, "done")

\* Back to the loop; or, when the client has gone, out of it.
Starts(i, p, op) ==
  /\ IF cpClient[p] = "gone"
     THEN CpGoes(i, "switch", "ended") /\ UNCHANGED io
     ELSE LoopAgain(i, "switch") /\ Begin(p, op)
  /\ UNCHANGED port

Serving(i, s) == /\ cpKey[i] # NoKey /\ npState[cpKey[i]] = s
                 /\ cpKey' = [cpKey EXCEPT ![i] = NoKey]
                 /\ UNCHANGED <<cpShutDown, cpMain, iNp, cancelled, cpClient>>

CaseConnected(i) ==
  LET p == cpKey[i] IN
  /\ Serving(i, "connected")
  /\ NextState(p, "requestRead")
  /\ Starts(i, p, "read")
  /\ UNCHANGED lines

\* The exit code is 1 when the temporary file cannot be opened.
ComputeThread(p, exitCode) ==
  IF exitCode = 0 THEN \E n \in 0 .. MaxLines : lines' = [lines EXCEPT ![p] = n]
                  ELSE UNCHANGED lines

\* The thread waits for the one that executes the request.
CaseRequestRead(i) ==
  LET p == cpKey[i] IN
  /\ Serving(i, "requestRead") /\ LoopAgain(i, "switch")
  /\ \E exitCode \in {0, 1} :
       /\ ComputeThread(p, exitCode)
       /\ NextState(p, IF exitCode = 0 THEN "computed" ELSE "respondLast")
  /\ Posted(p, "done")
  /\ UNCHANGED io

\* The next line, or, by way of a packet, the end.
CaseComputedOrResponding(i) ==
  LET p == cpKey[i] IN
  /\ \E s \in {"computed", "responding"} : Serving(i, s)
  /\ IF lines[p] > 0
     THEN /\ NextState(p, "responding")
          /\ lines' = [lines EXCEPT ![p] = @ - 1]
          /\ Starts(i, p, "write")
     ELSE /\ NextState(p, "respondLast")
          /\ LoopAgain(i, "switch")
          /\ Posted(p, "done")
          /\ UNCHANGED <<lines, io>>

CaseRespondLast(i) ==
  LET p == cpKey[i] IN
  /\ Serving(i, "respondLast")
  /\ NextState(p, "connected")
  /\ Starts(i, p, "write")
  /\ UNCHANGED lines

CpServer(i) ==
  \/ GetQueuedCompletionStatus(i)
  \/ CaseConnected(i) \/ CaseRequestRead(i)
  \/ CaseComputedOrResponding(i) \/ CaseRespondLast(i)

-----------------------------------------------------------------------------
(* A client: it opens the pipe, and asks and reads the response any number *)
(* of times; and some may close the pipe at any time.                      *)

ClientGoes(p, from, to) ==
  /\ cpClient[p] = from /\ cpClient' = [cpClient EXCEPT ![p] = to]
  /\ UNCHANGED <<cpShutDown, cpMain, iNp, npState, lines, cpThread, cpKey, cancelled>>

ClientOpen(p) ==
  /\ p < iNp
  /\ ClientGoes(p, "away", "open")
  /\ IF "connect" \in io[p] THEN Completed(p, "connect", "done") ELSE UNCHANGED <<io, port>>

\* Nothing is buffered: the client writes when the server reads.
ClientAsk(p) == ClientGoes(p, "open", "asked") /\ Completed(p, "read", "done")

\* The end of the response is the write after which the state is connected.
ClientReads(p) ==
  /\ ClientGoes(p, "asked", IF npState[p] = "connected" THEN "open" ELSE "asked")
  /\ Completed(p, "write", "done")

ClientClose(p) ==
  /\ p \in Leavers
  /\ \E c \in {"open", "asked"} : ClientGoes(p, c, "gone")
  /\ IF io[p] = {} THEN UNCHANGED <<io, port>>
     ELSE io' = [io EXCEPT ![p] = {}] /\ Posted(p, "done")

-----------------------------------------------------------------------------
CpRuns == cpMain # "failed"

CpGoesOn(n) == CpRuns /\ (\/ n \in CpThreads /\ CpServer(n)
                          \/ \E p \in Pipes : n = MAX_SERVER_TH + p /\ ClientReads(p))
CpMainStep == CpRuns /\ (CreatePipe \/ ConnectPipe \/ StartThreads \/ CancelPipe \/ CpExit)
CpEnvironment == CpRuns /\ (\/ CpHandler
                            \/ \E p \in Pipes : ClientOpen(p) \/ ClientAsk(p) \/ ClientClose(p))
-----------------------------------------------------------------------------
\* What a pipe has that will bring a thread to it.
Tokens(p) == Cardinality(io[p]) + Cardinality({k \in DOMAIN port : port[k][1] = p})
               + Cardinality({i \in CpThreads : cpKey[i] = p})

Lost == {p \in Pipes : npState[p] # "none" /\ Tokens(p) = 0}

(***************************************************************************)
(* A pipe is never in the hands of two threads, nor has it two operations, *)
(* or packets, or one and a thread: npState says what completed, and is    *)
(* not protected by any lock.  While the server runs, a pipe has one of    *)
(* these; but a client that goes takes the pipe with it, and a thread.     *)
(***************************************************************************)
OneOperationPerPipe ==
  /\ \A p \in Pipes : Tokens(p) <= 1
  /\ ~cpShutDown =>
       /\ \A p \in Lost : cpClient[p] = "gone"
       /\ Cardinality(Lost) = Cardinality({i \in CpThreads : cpThread[i] = "ended"})

\* A client that may not yet ask, or has asked.
AwaitsResponse == cpClient[0] = "asked" \/ (cpClient[0] = "open" /\ "read" \notin io[0])

\* Every client that leaves may take a thread: at last there is none.
Responded == \/ cpClient[0] = "open" /\ "read" \in io[0]
             \/ cpClient[0] = "gone" \/ cpShutDown \/ ~CpRuns
             \/ \A i \in CpThreads : cpThread[i] = "ended"

CpEnded == cpMain \in {"ended", "failed"}
=============================================================================
