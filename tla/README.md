# Verification of the synchronization programs of WSP4_Examples

This directory holds TLA+ specifications of the concurrent core of this
repository: the thread synchronization objects of *Windows System Programming*,
4th edition, and the programs built on them. TLC model-checks the specifications
on small instances; TLAPS proves the properties that matter most for every
number of threads and every size.

Paths below are relative to `src/WindowsProgramming4th/《SOURCE_CODES》/WSP4_Examples/`,
and those that begin with `08-`, `09-` or `10-` to
`src/WindowsViaCPP5th/《sources》/windows_via_cpp-master/`.

## 1. The repository and its parts

The repository collects the code a programmer works through when learning C and
Win32: exercises from *C Primer* (`CPrimer6th`) and *Head First C* (`HFC`), the
samples of *Windows via C/C++* (`WindowsViaCPP5th`), and the complete examples of
*Windows System Programming* (`WSP4_Examples`), with the owner's own copies of
the first chapters. Most of it is short sequential programs around one Win32
call, or Visual Studio project files. The parts whose correctness is hard to see
and hard to test are the ones where threads or processes share something. Most are in
`CHAPTR10`, with forerunners in `CHAPTR08`; then the job management of `CHAPTR06`, the
servers of `CHAPTR11` and `CHAPTR12`, the emulation of UNIX message queues under
`Miscellaneous`, the overlapped I/O and the completion ports of `CHAPTR14`, the
parallel sort and search of `CHAPTR07`, and four samples of *Windows via C/C++*.

| Part | State it keeps | Operations | Who talks to it | What is hard | What makes it correct |
|---|---|---|---|---|---|
| **Queue object**, `QueueObj*.c` (8 versions, 1 header) | a ring of messages, two indices, a guard, two events | `QueueInitialize`, `QueueGet`, `QueuePut`, `QueueDestroy` | producers, consumers, pipeline stages | a thread tests, sleeps, wakes and acts on what may be stale; wake-ups may be lost; time-outs race messages; cancellation | a bounded FIFO; nobody acts on a stale test; no wake-up lost; no call stuck |
| **Three-stage pipeline**, `ThreeStage.c`, `ThreeStageCancel.c` | three kinds of queue, a block in each stage, counters, a flag | producers, transmitter, receiver, consumers, `main` | the queue object | blocks that are not full, full queues ahead, shutdown while messages travel | every message arrives once and in order; consumers finish; the program ends |
| **Threshold barrier**, `ThbObject.c`, `testTHB.c` | a counter, a guard, a manual-reset event | create, wait, close | worker threads and `main` | arrivals in any order, closing under waiting threads | nobody early, everybody through, no use after free |
| **Multiple-wait semaphore**, `MultiSem.c`, `TestMultiSem.c` | a count, two mutexes, an auto-reset event, named objects in shared memory | create, wait for *n*, release *n*, close | processes and threads | one event stands for a count, time-outs between two waits | units conserved, no signal lost, first come first served |
| **Pthreads pipeline**, `ThreeStagePthreads/` | as the pipeline, with a count of retries per thread and a flag `AllProduced` | as the pipeline, with timed waits | its own queue object over Pthreads condition variables | retries that give up, flags set in an order nobody waits for | messages in order, no call stuck, the program ends or waits for room |
| **Message block programs**, `simplePC.c`, `eventPC.c`, `multiPCav.c` | one message block, statistics | produce, consume, stop | two or more threads | an event and a mutex taken one after the other, signals nobody waits for, the stop | no message twice or half filled, the bound on the counts, all threads end |
| **Job management**, `CHAPTR06/JOBMGT.C`, `JobShell.c` | a file of process ids | start, list, kill | several shells on one file | locks of regions computed before the lock, records of processes that have ended | a running job is found under its number |
| **Named pipe server**, `CHAPTR11/serverNP.C`, `clientNP.C` | per instance of the pipe a server thread and a Connect thread; `shutDown` | connect, serve, shut down | clients, a monitor thread, the console's handler | ending threads that block in a connect or a read | clients are answered, all threads end |
| **Socket server**, `CHAPTR12/serverSK.c` | a slot per server thread, each with its own critical section; `shutFlag` | find a slot, accept, serve, drain | clients, the console's handler | two or three threads change a slot's state in several steps | no slot of a running thread is reused, nobody is left behind |
| **Message queue emulation**, `Miscellaneous/msg_emulation/msg_emulation.c` | a table of queues with counts, limits and a busy flag | `msgget`, `msgsnd`, `msgrcv`, `msgctl` | any threads of a process | counts kept beside the list, waits of several kinds, removal | counts cover the contents, receivers get what is there |
| **Queue under an SRW lock**, `08-Queue/Queue.cpp` | an array of elements with stamps, a lock, two condition variables | add, get, stop | two readers, writers | wake-ups without the lock, readers that share it | requests are served, threads end |
| **Queue with a semaphore**, `09-Queue/Queue.cpp` | an array, a semaphore for its length, a mutex | append, remove | clients, servers | counting and storing are two steps | counted elements are there, in order |
| **Handshake**, `09-Handshake/Handshake.cpp` | a buffer, two events | submit, process, end | a dialog and a thread | the word that ends the thread travels in the buffer | an answer belongs to its request |
| **File converters**, `CHAPTR14/cciOV.C`, `cciEX.C`, `cciMT.c`, `cciMT_VTP.c`, `10-FileCopy/FileCopy.cpp` | a buffer, an offset and an overlapped structure per request | read, convert, write | events, completion routines, a port; threads, callbacks | completions in any order, the end of the file, buffers used again | each record converted once, to its place |
| **Completion port server**, `CHAPTR14/serverNPCP.C` | per pipe a state and what is left of a response | connect, read, compute, respond, cancel | clients, a few threads for all pipes, a monitor | any thread may go on with any pipe, and nothing locks its state | one operation per pipe, clients are answered, the threads end |
| **Work crews**, `CHAPTR07/sortMT.c`, `grepMT.c`, `CHAPTR14/compMP.c` | a mapped file; a table of results; slots of threads | create, work, join | threads and `main` | threads read what others wrote, and wait for a few of the others only | the result is that of one thread |
| **Message framing**, `CHAPTR12/SendReceiveSKST.c`, `SendReceiveSKHA.c` | what `recv` brought too much, per thread or per socket | send, receive a message | servers and clients over a stream | pieces of any length, several sockets of one thread | what was sent arrives whole, in order, from its own socket |
| **Service**, `CHAPTR13/SimpleService.C` (`serviceSK.C`) | a status, a flag | start, report, stop | the service control manager | two threads update one status without a lock | after a stop the manager hears that the service has stopped |
| Socket clients | | | the servers | | sequential |
| Statistics programs (`CHAPTR08/09`), `wcMT.c` (`CHAPTR07`) | per-thread data | | | performance only | |
| Files, registry, memory, security (`CHAPTR01`-`05`, `15`), the other samples and books | | one system call each | | | sequential |

`PROJECT.json` lists these with their status, under `hazards` the places in the
code that a test would hardly reach, each with the properties that look at it,
and under `map` the lines of code behind every definition.

How the parts interact: the pipelines call the queue object, `testTHB.c` calls
the barrier and `TestMultiSem.c` the semaphore. The other programs share nothing
with each other. The headers are `INCLUDE/synchobj.h`, `messages.h` and `Synchronize.h`.
Which version of the queue a pipeline gets is decided by the project file that
builds it (`ThreeStage`, `ThreeStage_noSOAW`, `ThreeStage_Sig`,
`ThreeStageSig_noSOAW`, `ThreeStageCS`, `ThreeStageCS_Sig`, `ThreeStageCancel`).

## 2. The modules

```
QueueMonitor ── AutoResetEvents ── QueueObj_Sig, QueueObjCS_Sig, QueueObjCancel
     │
     ├── QueueObj, QueueObjPoll, QueueObjCV, QueueObjPthreads
     └── instance of BoundedFIFO;   QueueVersions: all of them, instance of BoundedFIFO

Pipeline ── ThreeStage ── ThreeStageSig_noSOAW        Pipelines: all of them
     └───── ThreeStageCancel, ThreeStagePthreads

MultiSem ── TestMultiSem ── Semaphores

ThbObject ── TestTHB
MessageBlock ── EventPC                        Programs: EXTENDS EventPC, TestTHB,
     └───────── MultiPCav                        Handshake, MutexSemQueue, ServerSK, JobMgt,
MsgEmulation, ServerNP, ServerSK, JobMgt         with instances of the others
SRWQueue, MutexSemQueue, Handshake
OverlappedFiles, ServerNPCP, WorkCrew
MessageStream, Services

QueueMonitor_proofs ── QueueVersions_proofs
FoldTheorems ── MultiSem_proofs, Pipelines_proofs, Programs_proofs,
                Workers_proofs, WorkCrew_proofs
```

`A ── B` reads "B EXTENDS A". The modules that choose one of several programs in the
initial state (`QueueVersions`, `Pipelines`, `Semaphores`, `Programs`) are what TLC runs, with
the configurations that section 3 names; what only a configuration needs, such as the
symmetry set, is in the module it is for.

### 2.1 The queue object

`QueueMonitor` is what all versions share. `qFirst`, `qLast`, `msgArray` are the
fields of `QUEUE_OBJECT`; `destroyed` stands for `msgArray == NULL`; `qGuard`
names the owner of the guard; `rcvd[c]` is the buffer the consumer passes;
`status[t]` is what the last call returned. `pc[t]` says where in `QueueGet` or
`QueuePut` a thread is:

| `pc` | Place in the code (`QueueObj.c`) |
|---|---|
| `out`, `enter` | outside; blocked on the first wait for the guard (line 16) |
| `in` | owner of the guard, at the test of the `while` (18) |
| `sleep`, `gap`, `wait` | in the body; guard released but not waiting (versions without `SignalObjectAndWait`); waiting for the event (19) |
| `again` | woken, blocked on the guard (20) |
| `act`, `ret` | past the loop (23); past the release of the guard |
| `closing`, `gone` | in and past `QueueDestroy` |
| `crashed` | the process has ended on a NULL `msgArray` |

One step runs from one point where another thread can interfere to the next. The
test of the loop is a step of its own, so that a test gone stale would show. The
move of a message, the announcement and the release of the guard are one step:
the guard is held over all of it.

What the Win32 objects do is modelled from how the code uses them, and marked
external in the map:

* `SignalObjectAndWait` and `SleepConditionVariableSRW` release and begin to wait in
  one step. (The documentation of the former does not promise it. The comments
  of this code rely on it.)
* `PulseEvent` on a manual-reset event releases exactly the threads that wait.
* `SetEvent` on an auto-reset event releases one waiting thread or stays set.
* A wait on a handle that has been closed may fail at once. The code looks at
  no result of a wait for the guard.
* Mutexes and critical sections are recursive, an SRW lock is not. Condition variables
  wake spuriously.
* An APC runs in an alertable wait of its thread only.

| Module | Code | What is its own |
|---|---|---|
| `QueueObj` | `QueueObj.c` | pulse, atomic release and wait |
| `QueueObj_Sig` | `QueueObj_Sig.c` | auto-reset events, atomic release and wait |
| `QueueObjCS_Sig` | `QueueObjCS_Sig.c` | auto-reset events, a gap before the wait, a `MaxWait` |
| `QueueObjCS_Sig`, from `TimedNext` on | `QueueObjSig_noSOAW.c` | the same with waits of `CV_TIMEOUT`; late calls still move a message |
| `QueueObjPoll` | `QueueObjCS.c`, `QueueObj_noSOAW.c` | pulses that can be missed, polling, `TotalWaitTime` |
| `QueueObjCV` | `QueueObjCV.c` | condition variables and an SRW lock |
| `QueueObjCancel` | `QueueObjCancel.c` | alertable waits, APCs, two flags read at three places |
| `QueueObjPthreads` | `ThreeStagePthreads/QueueObj.c` | timed waits that may end at any time, spurious wake-ups, one look at `q_destroyed` before the mutex |

`BoundedFIFO` is what a queue promises: calls take effect one at a time, a call
that returns 0 has moved one message from or to a first-in first-out buffer of
`nMsgs - 1` messages, a call that fails has moved none. Its `TimedSpec` is the
weaker promise of `QueueObjSig_noSOAW`, where a call that reports `WAIT_TIMEOUT`
may have moved a message. The refinement mapping reads the ring from `qFirst` up
to `qLast` (`Contents`).

`QueueVersions` puts the versions side by side: one is chosen in the initial state,
and the properties are stated once for all of them. Arithmetic on the indices
is DWORD arithmetic, `QueueFull` subtracts modulo `DWordMod`.

### 2.2 The pipeline

`Pipeline` has the variables: `p2tq`, `t2rq`, `r2cq` are the queues, taken as the
bounded FIFOs that section 2.1 shows them to be; `produced` and `consumed` are
the `workDone` fields; `tBlock`, `rBlock` are the blocks of the transmitter and
the receiver; `boss` is the place of `main`. Messages are pairs of a destination
and a sequence number: the payload is never looked at.

* `ThreeStage` is `ThreeStage.c` (and `ThreeStageCS.c`, the same text) over a
  queue that waits as long as asked. A producer ends with a message whose
  sequence number is -1, the stages count these, and look at `ShutDown` before
  each block.
* `ThreeStageSig_noSOAW` is the same file linked with `QueueObjSig_noSOAW.c`: any
  call may time out and may have moved its message nevertheless. The module has
  what each caller does with that status.
* `ThreeStageCancel` is `ThreeStageCancel.c`: no final messages, and two APCs that
  end the stages.
* `ThreeStagePthreads` is `ThreeStagePthreads/ThreeStage.c`: no final messages either; every
  `q_get` may time out, which `Retries` counts for each thread, and two flags of `main`.

`Pipelines` chooses one of them in the initial state, with the number of pairs.

### 2.3 The barrier

`ThbObject` has `bCount`, `bEvent` and `bGuard` as in `THRESHOLD_BARRIER`, the open
handles (`open`) and whether the object has been freed (`freed`), so that a thread
that touches it afterwards shows (`faulted`). Each close of a handle is a step of
its own, because threads may still be inside. `TestTHB` adds `main`, whose single
`WaitForMultipleObjects` fails when it is given more than `MAXIMUM_WAIT_OBJECTS`
handles; how many workers it starts is chosen in the initial state.

### 2.4 The semaphore

`MultiSem` has `CurCount`, `hEvent`, `hMutex`, `hMutexa` as in the code. `kept` are the
threads that have returned and still own `hMutexa`. Both rules,
`fFirstComeFirstServed` true and false, are in it (the rule is chosen in the initial
state), so are time-outs of each of the three finite waits, and `LONG` sums that wrap
(`LongAdd`). The history variable `dropped` is true from when a thread that has
consumed the event times out, with nobody else awake, until the event is set again. `TestMultiSem` adds
the producers, the consumers, the counts they keep under a mutex of their own, and
the Control-C handler that ends the program.

`Semaphores` has the other use of the file: the table of names in shared memory, where
`AllocSynchHandle` finds or takes a slot under a mutex, and counts the handle in it. The three steps of
`CloseSynchHandle` (count down, test, empty) are without it, because the static `hSynchDB` that it waits for is hidden by
a local variable where the mutex is created, and remains `NULL`. A process may end anywhere, which abandons its mutex and leaves its
reference. `wipedInUse` is set when a slot is emptied under a handle, after which nothing is claimed. It chooses between this use and
`TestMultiSem` in the initial state.

### 2.5 The message block

`MessageBlock` has the fields of `MSG_BLOCK` that the programs look at. Of the data only
whose they are matters: `mData` is the number of the message that the block holds complete
with its checksum, 0 while `MessageFill` runs. `displayed` records what the consumers found.

* `EventPC` has both programs of two threads. `simplePC.c`: the producer fills the block again and again, the consumer
  looks when the user asks.
  `eventPC.c`: the same producer with an auto-reset event, which the consumer
  waits for before it takes the mutex. The two assignments to the counts are two steps, because the
  comment speaks of all times.
* `MultiPCav` is `multiPCav.c`, a Pthreads program with any number of consumers: two condition
  variables, of which each signal wakes one thread that sleeps or nobody, spurious wake-ups,
  and waits of two seconds. The header says that it awaits its conversion to Windows;
  it is modelled as the Pthreads program it is.

The producer pauses at `MaxMessages` until the stop; the programs produce for ever.

### 2.6 Job management

`JobMgt` has the file (`jobFile`, one process id per record, 0 for an empty one) and several shells
that run `Jobbg`, `Jobs` and `Kill` on it, a step for each access to the file or to a process.
`GetJobNumber` computes the region it locks from the size that the file had before the lock (`fileSizePlus`); as
all its regions begin at the first byte, they exclude each other. `FindProcessId` waits until its
record is not locked, `DisplayJobs` stops at a locked one. `process` is what the system knows;
processes end by themselves and can be killed from any shell.

### 2.7 The servers

`ServerNP` has a state per instance of the pipe (`npipe`), the command that a client has written to it
(`request`), and the places of its server thread and of its Connect thread. `ConnectNamedPipe` and `ReadFile` begin
in one step and end in another; `Begins` records in `late` a wait that began after the monitor's
`CancelIoEx` for the instance, which nothing cancels. `shutDown = shutDown || ...` (line 142) is two steps, `ReadRequest` and
`WriteFlag`, between which other threads and the handler may write: `overwritten` is the history of a shut down that
has been undone so. Every later test of the flag (lines 114, 125, 128, 139, 143) reads it again. The connection that a server thread makes to
wake its own Connect thread opens whichever instance listens (`ForceConnect`).

`ServerSK` has the fields `thState`, `threadCs` and the thread of each slot; `main`'s two loops over
them, one step for each entry into a critical section and each that follows it; the accept thread, the
server threads as far as they look at the flag or change the slot, and the handler.

### 2.8 The emulation of message queues

In `MsgEmulation` every function holds `q_guard` from its start to its return or wait, so that a
step is what a thread does between two releases. In the Windows build of `pthread_cond_wait` a waiting
thread tests again at the latest after `CV_TIMEOUT`, so the pulses have no state.
`update_status`, `not_full` and `message_exists` are translated with the quirks they have, and `Return`
resets the busy flag of the queue whoever else waits on it.

### 2.9 Four samples of *Windows via C/C++*

* `SRWQueue` is `08-Queue`: a reader per parity of request numbers, writers, the slim lock that readers
  share, `StopProcessing`. The stamps put the slots in order, so the queue is a sequence.
* `MutexSemQueue` is `09-Queue`: `Append` counts its element in one step and stores it in the next, while `Remove`
  waits for mutex and semaphore at once. `appended` is the history that the array has to agree with.
* `Handshake` is `09-Handshake`: two auto-reset events and a buffer, with any text typed.
* `10-FileCopy` is one of the programs of `OverlappedFiles`.

### 2.10 Files with several requests

`OverlappedFiles` is five programs around the same idea: `MAX_OVRLP` buffers, each with an offset that
is advanced by `MAX_OVRLP` records (in `FileCopy.cpp` by one offset for all). `converter` says which it is. A record is its number and how often it
was converted; `request` is what the system does with a buffer, and a request may complete at
any time (`ReadCompletes`, `WriteCompletes`). What differs is who hears of it: `cciOV.C` takes the first event that is set, reads before
writes; `cciEX.C` takes queued routines and `FileCopy.cpp` packets, in any order; in `cciMT.c` and `cciMT_VTP.c` requests are synchronous, and
threads or callbacks work on stripes. The programs end by their own counts (`LoopEnded`), so that a miscount shows as a record that is missing in the output or a loop that does not end.

### 2.11 The server with a completion port

`ServerNPCP` has the fields of `CP_KEY` (`npState`, and `lines` for what is left in the temporary file), the operations of each pipe that are under way (`io`), the queue
of the port, and where each thread is, with the pipe it got. Each case of the `switch` is an action. An operation that fails at once ends its thread (`Starts`): the lines
that would connect the pipe again, 242 to 255, come after a `switch` all of whose cases continue. A client opens, asks and reads, as long as it likes, and those in `Leavers` may close the pipe at any time.

### 2.12 Work crews

`WorkCrew` has the three programs that divide a file among threads. `main` creates them suspended and then resumes all (`sortMT.c`, `compMP.c`), or
lets them start at once (`grepMT.c`). In `sortMT.c` a record is its key, and `qsort` gives one of the orders of a part that are sorted (`Orders`, `Sorted`). A thread merges its neighbour's part when that thread has ended, in place by way of `pDest`:
`TakesFirst` is the choice between the two arrays, and `Merged` counts for each record how many of the first array it comes after. A wait for a
handle that has not been stored would fail and be over, which is why the threads are suspended at first (`WaitIsOver`). In `compMP.c` a thread looks at the table under the shared lock, and enters a
mismatch under the exclusive one. In `grepMT.c` a slot is a handle and the names that go with it; the last slot is moved to that of the thread that has ended.

### 2.13 Message framing

`MessageStream` is the two libraries that put messages on a stream. A character is known by its connection and its message; the null that ends a message
is one of them. `send` moves any number of characters from `nRemainSend` to `socket`, `recv` any number from there, as long as it fits what is left of the record
(`nRemainRecv`). What comes behind the null goes to a static buffer: the thread's (`SendReceiveSKST.c`, one thread per socket) or the socket handle's (`SendReceiveSKHA.c`, one thread for all). A peer
may leave at any time, also in the middle of a message. `pending` is the history: what was sent and no caller has had. `LeftAfter` has the arithmetic of each file (section 6);
when it runs out before the null has come, the call is `cut`.

### 2.14 A service

`Services` is `SimpleService.C`: the thread of `ServiceMain`, the main thread, in which the dispatcher runs the handler, and the control manager (`Control`, `manager`). A call of
`UpdateStatus` stores the new state, copies the structure and sends the copy, in three steps, because both threads may be in it. `overtaken` is the history of the one case
in which the manager does not hear the end.

### 2.15 The programs together

`Programs` chooses one of twenty-three programs in the initial state; the variables of the others do not change. The modules
share their threads' numbers: thread 0 is a worker of `testTHB.c`, a consumer of `multiPCav.c`, a
sender of `msg_emulation.c`, a buffer of `cciOV.C`, and so on, so that one fairness condition per number and one leads-to property
stand for all programs. What comes from users and clients, and spurious wake-ups, is `Environment`.

## 3. What is checked

Twelve runs; all but five pass. A run named "violation" shows where the code does
not do what its own text says.

| Run | Model | Bounds | What it shows |
|---|---|---|---|
| `queue_versions` | `QueueVersions.cfg` | 2 producers, 2 consumers, 1 destroyer, 1 message, 3 slots, all waits finite | types, `TimelyDecisionsHold`, `NoSignalLost`, `NoLostWakeup`, `ImplementsFIFO` for seven versions |
| `queue_order` | `QueueVersions_order.cfg` | 2 producers, 1 consumer, 2 messages, 3 slots | `TimelyDecisionsHold`, `ImplementsFIFO` for all eight, where order shows, with cancellation at any time |
| `queue_live` | `QueueVersions_live.cfg` | 2 producers, 2 consumers, 1 message, 3 slots, waits `INFINITE` | `NoCallStuck`: no call of five versions waits for ever while it could go on |
| `queue_lost_signal` | `QueueVersions_lost.cfg` | 2 producers, 2 consumers, 3 slots | **violation** of `NoCallStuck` by `QueueObjCS_Sig.c` |
| `pipeline` | `MCPipelines.cfg` | up to 2 pairs, 3 messages each, blocks of 3, queues of 1 and 2, 2 retries | types, `EndToEndOrder`, `NoDataLeftBehind`, `FinishedConsumerHasRoom`, `ConsumersFinish`, `ShortWaitsTerminate`, `RetriesTerminate` for the four programs |
| `pipeline_end` | `MCPipelines_end.cfg` | 1 pair, 2 messages, blocks of 2 | **violation** of `BossTerminates` by `ThreeStage.c` |
| `pipeline_consumed` | `MCPipelines_consumed.cfg` | 1 pair, 2 messages, blocks of 2, 2 retries | **violation** of `AllConsumedAtShutDown` by `ThreeStagePthreads/ThreeStage.c` |
| `semaphore` | `MultiSem.cfg` | 3 waiters, one with time-outs, 1 releaser, maximum 2, counts 0 to 2, both rules | types and range, `NoLostSignal`, `SatisfiableReleased`, `FirstComeFirstServed` |
| `semaphore_test` | `Semaphores.cfg` | 1 producer, 2 consumers, the handler, time-outs, 3 units, both rules; or 3 processes, 2 names, a table with 2 slots | `UnitsConserved`, `NamesInOneSlot` |
| `semaphore_exit` | `TestMultiSem_exit.cfg` | 1 producer, 1 consumer, the handler, maximum 3 | **violation** of `ConsumersShutDown` by `TestMultiSem.c` |
| `programs` | `Programs.cfg` | see below | for each of twenty-three programs its invariants, `WaitsAreServed` and `StopsEnd` |
| `msg_removed` | `MsgEmulation.cfg` | 1 sender, 1 receiver, 1 remover, 1 queue of 4 bytes | **violation** of `NobodyWaitsOnRemoved` by `msg_emulation.c` |

The invariants of the run `programs`, by program:

| Program | Invariants | `WaitsAreServed` | `StopsEnd` |
|---|---|---|---|
| `testTHB.c` | `BarrierHolds`, `NoLostBroadcast`, `BusyProtectsWaiters`, `NoUseAfterFree` | all workers pass once the threshold is reached | `main` ends, where it can wait for its workers |
| `simplePC.c`, `eventPC.c`, `multiPCav.c` | `MessagesOnce`, `CountsBoundedInEventPC`, `ReadyIsAnnouncedInEventPC` | a consumer that waits gets a message | all threads end, but for `ProducerStuck` |
| `msg_emulation.c` | `StatusCoversMessages` | a receiver gets a text that is there | |
| `serverNP.C` | | a command is answered or fails, until a thread waits late or a shut down is undone | all server threads end, but for late waits, unless the flag is cleared again |
| `serverSK.c` | `SlotsTellThreads` | | the server exits, or waits for a client's request |
| `JobShell.c` | `JobsFound` | | |
| `08-Queue` | | requests are made and taken | all threads end, but for late sleepers |
| `09-Queue` | `CountedElementsStored` | | |
| `09-Handshake` | `ResultOfRequest` | | |
| `serverNPCP.C` | `OneOperationPerPipe` | a client that has asked gets the end of the response, while there are threads | the server ends, or failed at its start |
| `cciOV.C`, `cciEX.C`, `cciMT.c`, `cciMT_VTP.c`, `FileCopy.cpp` | `FilesConverted` | | the program ends by itself |
| `sortMT.c` | `SortedInTheEnd` | | it ends by itself |
| `compMP.c` | `LowestMismatches` | | it ends by itself |
| `grepMT.c` | `ResultsReported` | | it ends by itself, or fails on a missing file |
| `SendReceiveSKST.c`, `SendReceiveSKHA.c` | `MessagesOnce` | | when all peers have left, the receivers hear of it, or their count has run out |
| `SimpleService.C` | | | after a stop the process ends, unless a later report overtakes the last |

Why the bounds are enough:

* **Queues.** Two threads on a side are needed for a wake-up to go to the wrong
  one or a message to be taken by another, a third on the same side repeats it.
  Three slots hold two messages, so that empty, full, neither and both kinds of
  wrap-around occur. Two kinds of message show a change of order, one kind is
  enough for all that is about counting. `DWordMod = 16` is above every
  index and small enough for the subtraction in `QueueFull` to wrap.
  `MaxWait = 6` is above `CV_TIMEOUT = 5`, so that a call polls twice before it
  gives up. Producers, consumers and messages are interchangeable (`SYMMETRY`),
  except in the runs that check liveness. In `queue_live`, as in `queue_lost_signal`, two threads a side and room for two messages
  let two consumers be between their release and their wait while two messages come: the polling versions and those with
  `SignalObjectAndWait` pass what `QueueObjCS_Sig.c` fails.
* **Pipelines.** With two pairs the messages of one wait in a block for the other,
  and the receiver blocks on one consumer while the other starves. Six messages
  fill two blocks evenly, the eight of `ThreeStage` do not fill a third. The queues
  hold one and two messages, so that every stage blocks. With short waits one pair
  is run (`ShortPairs`): each of its calls may end in three ways.
  `MAX_RETRY = 2` lets a thread fail, succeed and fail again before it gives up.
* **Barrier.** One worker more than the threshold finds the barrier open. One more than
  `MAXIMUM_WAIT_OBJECTS` lets `main` close the barrier under workers that are anywhere in the call.
* **Semaphore.** A thread that asks for more than there is, one that asks for less
  and one that overtakes are three. A count of 0 and releases above the maximum are asked
  for, too. `LongMax = 7` leaves room for every legal sum. `TestMultiSem` also asks for one unit more than the maximum, which
  its formula gives when `rand ()` is `RAND_MAX`. `MaxProduced` bounds what the producers release before Control-C.
* **Message block.** A message that is lost, one that comes between the consumer's two waits, and one
  before and after are four. With two consumers one can take the message that the other was woken for.
* **Job management.** Two shells, each of which can start, list and kill, two processes and one slot: the second job finds
  the slot of the first taken, free or just being freed.
* **Servers.** Two instances of the pipe are needed for a connection that wakes the wrong thread, and for a thread that reads a command
  while another is asked for the shut down. Clients connect to either again and again; those of the first send commands, those of the second the word that
  ends the server. After a shut down that has been undone users and clients do no more (`Users`): what they left is served or not. Two slots of the socket server let one be drained while the other is handed out.
* **Message queues.** A queue of 5 bytes (`MQ_MAX_BYTES_IN_QUEUE`) with a type field of one byte (`LONG`)
  has room for one message of two bytes, so that senders wait; two types and two buffer lengths give messages that are not wanted and messages that are cut;
  a length of 0 gives the case that is counted in bytes only. A single slot lets a queue be removed and made again under a call.
  `MaxBytes` bounds what `b_current` counts, which never goes down when a queue is removed.
* **`08-Queue`.** Room for one element, two writers and the two readers: a writer waits for room, and each request is of use to one reader only.
  `FirstWriter` makes one request more than `WriterRequests`, so that both parities occur and its waits are repeated.
* **`09-Queue`, `09-Handshake`.** Two clients, one server, two requests each. Room for two elements, so that a `Remove` has an element to move and the order
  of two can change. Of the texts one is the word that ends the thread. What these
  runs show for these sizes is proved for all.
* **Named semaphores.** Two slots for two names: the table is full, has one free or is empty, and a third process opens what the other two
  are opening or closing.
* **Completion port server.** `MAX_CLIENTS_CP` pipes and `MAX_SERVER_TH` threads are two each, so that each thread serves both pipes and both threads may be at work at once.
  `MaxLines` allows responses of none or one line before the last packet, and `Leavers` lets one of the clients go.
* **File converters.** `MAX_OVRLP = 2` requests and files of 0 to `MaxRecords = 5` records: fewer records than buffers, an even and an odd number, and buffers used three times.
* **Work crews.** `sortMT.c`: 4 records with any two keys and 1, 2 or 4 threads, so that there are up to two rounds of merges. `compMP.c`: 2 threads on
  5 bytes in blocks of 2, the last one short, with any set of different bytes and a table of 2. `grepMT.c`: 3 files, each of which matches, does not, or is missing.
* **Message framing.** Two sockets, two messages of 0 or 3 characters on the same or on both of them, records of 5: a piece can end before, at or behind a null, hold two messages or a part of
  one, and the count can run out with or without what a former call has left. `MaxSends` bounds the messages.
* **Service.** There is no bound: the model is finite, with any number of reports and of controls.

### Fairness

All fairness is about threads that are inside a call; nothing makes a thread start one.

* A thread that can run goes on (weak fairness).
* A thread that waits for a mutex, a critical section or an SRW lock is served although others
  take it again and again (strong fairness). The kernel queues mutex waiters in
  order; the code counts on nobody starving.
* In the pipeline a producer that waits for room is served although other
  producers compete for it (strong fairness), which is the same assumption one level up.
* A finite wait ends (the polling versions, short waits). An `INFINITE` wait does not end by
  itself, and spurious wake-ups are not counted on.
* In `TestMultiSem` and `TestTHB` all threads of the program run; the handler finishes.
* In `Programs` each numbered thread and the main thread of the chosen program go on if they can: `ProgramsFairness`. Weak fairness is enough
  for all but the server threads of `serverSK.c`, which want a critical section that `main` enters again and again while it drains the slots (strong fairness, for the threads of
  these numbers). A request of the system and a client of `serverNPCP.C` that reads a response have a number, too:
  requests complete, responses are read. `recv` returns when there are characters or the peer has left, and `Sleep` of `SimpleService.C` ends. The two-second waits of `multiPCav.c` end, as does the wait of a condition
  variable in `msg_emulation.c`, which is `CV_TIMEOUT` in the Windows build.
* Nothing makes a user type a command, a client connect, write or (in `serverNP.C`) read, a caller call, or a wake-up come spuriously, a peer send or leave, the control manager send a control. Of
  `JobShell`, `09-Queue` and `09-Handshake` only safety is claimed.
* A queued APC runs when its thread is in an alertable wait.

### What the models leave out of the code

`printf` and `ReportError`; what is in a message; allocation that fails; errors of
Win32 calls other than the ones named above. For the versions
with a critical section, polling, short waits or cancellation `QueueDestroy` is left out: nothing in
the repository calls it while a queue is in use, and the use of a deleted critical section is undefined.

## 4. What is proved

The theorems hold for every number of threads and of producer-consumer pairs, every size of queues and blocks,
every threshold, every length of a file and every maximum count. The assumptions are the named
`ASSUME`s of the modules (thread sets are disjoint, a queue has a slot and its size fits
a DWORD, the threads of a barrier are finitely many) and what a theorem's statement names. Where a module is only
instantiated, its assumption is a definition that `Programs` asserts. Eight modules hold the theorems. `QueueVersions_proofs`,
`Pipelines_proofs`, `Programs_proofs`, `Workers_proofs` and `WorkCrew_proofs` are about the very specifications that TLC runs.

**`QueueMonitor_proofs`** has the lemmas that all versions of the queue share. Four carry the arithmetic: the successor of a slot
(`NextSlotIsSlot`), that `QueueFull` with its wrapping subtraction and its special case says just that the successor of
`qLast` is `qFirst` (`FullIsNextSlotTaken`), and that removing makes room and inserting makes a message. `CountBounds` relates `QueueEmpty` and
`QueueFull` to the number of messages, `InsertAppends` and `RemoveTakesHead` say what the two ring operations do to `Contents`.

**`QueueVersions_proofs`** has the properties of the runs `queue_versions` and `queue_order`, for all eight versions at once: `TypesKept`
(`TypeOK`), `DecisionsAreTimely` (`TimelyDecisionsHold`), `NoWakeupIsLost` (`NoLostWakeup`), `NoSignalIsLost` (`NoSignalLost`) and
`Refinement` (`Spec => ImplementsFIFO`). The versions have some sixty actions, and what is promised of them is one discipline, which the proof
makes explicit. A step is a `QuietStep` of one thread, which leaves the ring alone, a `MoveStep`, which moves a message when the ring
allows it, gives up the guard in the same step and wakes somebody on the other side if the version does, or an `EndStep`, in which
the queue is destroyed, the process ends or a cancellation arrives (`MonitorStep`). Each version has one lemma, that its steps are of these kinds and
that it keeps its own variables; what follows argues about the three kinds of steps and not about versions. The inductive
invariant `IInv` is `ObjInv` below with two changes. A decision may be stale for a caller that is out of time, for the polling version and the one with
short waits go on then (`DecisionsKept`). And `OwnVariables` says that what one version uses is untouched in
the others.

`NoSignalLost` needs counting: a consumer may sleep while there is a message, if somebody is awake to take it. The invariant (`Covered`) is that whenever
somebody of a side sleeps there are at least as many awake on that side, or signals set, as there is work. A thread that is awake does not go to sleep without a reason
(`NoSignalWasted`), each change wakes one (`OtherTold`), and the one that leaves has done one piece of work. The theorem assumes that the callers are finitely many.

At the end of the module are the theorems about `QueueObj` alone, whose proof can be read without the rest: `TypeCorrect`,
`DecisionsNeverStale` (`DecisionsHold`) and `WakeupsNeverLost` (`NoLostWakeup`). The inductive invariant `ObjInv` adds three facts:
a thread inside owns the guard while the queue exists (`ObjInsideOwnsGuard`), the
guard's handle is closed after `msgArray` has been freed
(`ClosedAfterDestroyed`), and a call is pending while its caller is inside
(`ObjPending`). `NoLostWakeup` is not inductive: a thread that goes to
sleep must have reason to, which is `DecisionsHold`, and a decision does not go stale because
the guard has one owner. There is one lemma for the common steps, one for each of `QueueGet` and `QueuePut`.
`BroadcastRefinement` is `Broadcast!Spec => FIFO!Spec`: every step maps to one of `BoundedFIFO` or to none.

**`Pipelines_proofs`** has the four safety properties of the run `pipeline`, for the four programs at once: `TypeCorrect` (`TypeOK`), `EndToEnd` (`EndToEndOrder`),
`NothingLeftBehind` (`NoDataLeftBehind`) and `RoomForFinals` (`FinishedConsumerHasRoom`). None of them is inductive. `IInv` speaks of the line of each producer, `InFlight(c)`: its
messages in the three queues and the two blocks, nearest consumer first.

* `Lines`: a line is ordered, has nothing that was not produced, and a final message only of a producer that is finished. Where nothing is lost (`Lossless`) it is exactly the messages
  between `consumed[c]` and `produced[c]`, and the final message behind them (`GoodLine`). What a consumer's queue holds is for that consumer.
* `Counts`: the count of a stage, `numProducers` in its thread, is the number of producers whose final message it has not seen (`Awaited`): not made, or in what has not passed the stage. Where messages may be
  lost the count is at least that, so that it does not fall below zero.
* `Ends`: a consumer of `ThreeStage.c` that has returned has its `Goal`, `ShutDown` means that all have, and a stage returns by the flag or by its count.
  In `ThreeStageCancel.c` no cancellation is under way before all messages are consumed.
* `Places`: where a block is empty or has room, and, of `ThreeStagePthreads`, that who has given up does not call `q_get`.

From `Lines` alone follows the order. That no data are behind a stage takes two arguments: after `ShutDown` every line is at most a final message (`OnlyFinals`); with a count of zero a finished producer has no final message
behind the stage, and as the final one is last (`FinalBehind`) it has no other there either (`NoneAwaited`). For the room, a line of one message that is in the block has none in the queue. The messages
of one destination among all are a flattened sequence, whose laws (`ToJoins`) let the proof treat a step as a change to the lines: a message is made, moves on, is handed out, consumed or lost (`FlowsIn`, `FlowsOn`, `FlowsOut`,
`FlowsToConsumer`, `FlowsLess`). The steps of `ThreeStageSig_noSOAW` that are in time are those of `ThreeStage` (`TheSameCalls`).

**`MultiSem_proofs`.** `CountInRange` (`TypeOK`, with rule 3 of the code),
`TurnsAreKept` (`FirstComeFirstServed`) and `SignalsNeverLost` (`NoLostSignal`). All of them
assume `NoOverflow`: a release added to the maximum fits a `LONG`; in the run that is so, too, and no property covers a sum that wraps. With finite waits the last one
says that a time-out is the only way to lose a signal (`dropped`, section 6).
`MutexOwned` and `TurnOwned` say who owns the two mutexes; `LongAddIsSum` removes the wrap-around.
`NamesKeepTheirSlots` (`NamesInOneSlot`) is about the named objects, for a table of any size and finitely many openers
(`NamedAssumption`), until a slot is emptied in use. The property is not inductive: `FoundUnderLock` says that a handle that is found and not
counted belongs to the owner of the mutex, so that nobody takes its slot, which still counts nothing, for an empty one; `UsersCounted`
that a slot counts at least its handles; `UsedByName` and `OneSlotPerName` that the two that are compared have a slot by their names.
`FirstIsOne` shows that the search of the table finds a slot: the smallest of its set exists.
`UnitsStay` (`UnitsConserved`) is about `TestMultiSem.c`, for finitely many threads of each kind (`TestAssumption`). What the threads have yet to count is a sum over them, and
`Balanced` says of a step that it changes the one term of one thread, by as much as it moves units to or from the semaphore, so that the sums change by as much
(`UncountedChanges`, `BalanceKept`). `CountedFirst` is needed for it: a thread in a call has nothing uncounted, which its return would overwrite, and the handler's requests are
of one unit, which is what it adds to `given`.

**`FoldTheorems`** has the induction that the others need. The library states its principle for a predicate, which the provers cannot instantiate; `Induction` states it for a
set of numbers, and follows from `LeastElement`. With it, `SumsExist` shows that the recursive function within `FoldSet` exists over every finite set, `SumIsSums` that
`FoldSet` is one, and `SumChanges` that a sum changes by as much as its one term. `JoinsExist` shows the same of the function within
`FlattenSeq`, `FlattenAppend` that a sequence at the end is joined at the end, `FlattenConcat` that flattening distributes over concatenation.
`Total` is the sum of a sequence of numbers, which `FoldLeft` makes: `TotalAppends` and `TotalDrops` say that it changes by the one element that comes or goes, at whatever place.
`Division`, `NextRound` and `RoundApart` are about remainders. `Cat` and `One` stand for concatenation and the sequence of one element, with the few laws of them that are needed, because the provers are lost among long concatenations.

**`Programs_proofs`** is about the programs of the run `programs` that need no data but their own. For each program there is the
inductive invariant of its component, and then a theorem about `ProgramsSpec`: while another program is chosen the variables do not
change, and the steps of the chosen one are those of its component (`EventPCAlone`, `BarrierAlone` and so on).

* `eventPC.c`: `CountsStayBounded`, `MessagesAnnounced`, `MessagesDisplayedOnce` about the component, `CountsInPrograms` and `ReadyInPrograms` about the
  composition. Neither of the bounds is inductive: `PendingUncounted` and `PendingUndisplayed` say that a ready message
  that was not displayed leaves room for one, `DataValid` that it is complete and the last one,
  `GuardOwned` that nobody fills the block while it is displayed.
* `ThbObject.c` and `testTHB.c`: `TypeCorrect`, `NobodyPassesEarly` (`BarrierHolds`),
  `BroadcastsNeverLost` (`NoLostBroadcast`), `WaitersNeverStranded`
  (`BusyProtectsWaiters`). The key is `Counted`: `bCount` is the cardinality of the set of
  threads that have arrived, as long as there is a counter. `OpenAtThreshold`,
  `GuardOwned` and `ClosedAtThreshold` say what the event, the guard and the steps of
  `CloseThresholdBarrier` know about it. `FreedAfterUse` (`NoUseAfterFree`) is about the program: `main` of `testTHB.c` frees the
  barrier under no worker, if they are at most `MAXIMUM_WAIT_OBJECTS` (`JoinedFirst`).
  `BarrierInPrograms` concludes the same of the composition.
* `09-Handshake`: `AnswersMatchRequests`, `HandshakeInPrograms` (`ResultOfRequest`), for any texts. `HandInv` says whose turn
  it is: never are both events set, and the buffer belongs to the dialog (`Idle`) or to the server thread (`Answering`).
* `09-Queue`: `CountsAreOfElements`, `QueueInPrograms` (`CountedElementsStored`), for any number of clients and servers and any
  size. `Ownership` says that a thread between the waits and the release owns the mutex, `Contents` what the array, the count and
  the history have to do with each other at each place of its owner: counted and not stored, taken and not shifted.
* `serverSK.c`: `SlotsAreTrue`, `SlotsInPrograms` (`SlotsTellThreads`), for any number of slots. `Sections` says who is in the critical
  section of a slot, `Accepting` what is known of the slot handed to the accept thread, `States` relates a slot's
  state to its thread, and `Drained` what the second loop of `main` has found so far.
* `JobShell.c`: `RunningJobsAreFound`, `JobsInPrograms` (`JobsFound`), for any number of shells, processes and records, and process ids other than 0
  (`JobAssumption`). `OneSearches` says that one shell at a time is between its search and its write, `SlotStaysFree` that what it found free
  remains so although other shells empty records and kill processes, `OwnProcess` that no two shells start one process, and `Recorded` that a
  job is in the file from the write on, before it is resumed. The locks of zero bytes of `DisplayJobs` make the exception `wiped` necessary.

* `simplePC.c`, `multiPCav.c`, `SendReceiveSKST.c`, `SendReceiveSKHA.c`: `MessagesInPrograms` (`MessagesOnce`), for any number of consumers, sockets and messages of any
  length, and any pieces. `SimpleInv` is that of `eventPC.c` without the event. `MultiInv` says that who fills or takes the message owns the guard and has tested the flag in the same
  ownership. For the framing, the sockets are numbered from 1 (`StreamAssumption`), because the one thread of `SendReceiveSKHA.c` has the number 1.
  `InOrder` is the heart of it: what is in transit on a socket (the characters the caller has, those in the static buffer, those under way, and those that the sender
  has not written yet) is the flattened sequence of the texts that nobody has received, as they were sent. Each of those ends in its one null (`WholeTexts`), and a thread in a call for one socket
  has nothing of another (`CallsOwn`). A step moves characters from one of the four places to the next (`FlowSends`, `FlowTakes`, `FlowReceives`, `FlowLeaves`). When a null has come, what is in front of it
  is the first text and nothing of the second (`Divided`, `SplitAtNull`, `FirstText`).

**`Workers_proofs`** is about the programs with several requests at a time, and about the message queues, all of them as `Programs` has them.

* `FilesComplete` (`FilesConverted`), for the five converters, any number of buffers (`MAX_OVRLP`), files of any length and any order
  of completions. `FileInv` says, for the events and routines (`Converting`), the packets with their common offset (`Copying`) and the threads (`Striping`), what is known of a buffer
  at each of its places, that the output has the records which the buffer of their stripe has gone past and no others (`ConvertedSoFar`), and that the counts that end the loop are those of the requests that are
  still to come. The lemma `Stripes` has the arithmetic: records of one stripe are at least `MAX_OVRLP` apart.
* `PipesHaveOneOwner` (`OneOperationPerPipe`), for any number of pipes, threads and clients. The key of a pipe travels from the operation to the packet to the thread
  and to the next operation. `TokensApart` says that it is at one of these places, `NotYetConnected` that `main` gives it out once, and
  `LossesAgree` that each key lost with a client that has gone has cost one thread.
* `StatusInPrograms` (`StatusCoversMessages`), for any size of the table, any number of threads and messages of any length. `TableInv` says that the counts of a slot cover its list, that `b_current` and `q_current` cover
  all of them, and that an empty slot has no message and no room for one: a sender that waited on a queue that has been removed finds its slot empty, and must not put its message there, or the next `msgget`
  would count it as nothing. `CallsInv` says what a thread keeps across its wait. `PutCounts` and `TakeCounts` say what `msgq_put` and `msgq_remove_message` do to the sums, `StatusChange` that
  a change of one slot by as much as is counted keeps the table true.

**`WorkCrew_proofs`** is about the programs whose `main` starts a thread for each file or each part of one, as `Programs` has them.

* `SearchReported` (`ResultsReported`), for any number of files. `SlotsMoveWhole` says that the slots of `grepMT.c` from the first to the last one
  have the threads that were not reported, each once, with the names that go with it; `ReportedSoFar` that exactly the others have been reported.
* `FileSorted` (`SortedInTheEnd`), for any number of records and of threads that the header of `sortMT.c` allows. `Level` says that the merge step of a thread, `twoToI`, divides its number and the number of threads,
  and that a thread which has ended has no merge left. Hence the partner for which a thread waits is there and has ended at the same step (`PartnerEnded`), which needs that of two divisors of a power of 2 one divides the other
  (`Comparable`, by induction; `SameLevel`). `Absorbs` says that all threads whose records a thread has taken over have ended, with no records beyond its own: so nobody else writes them (`RecordsApart`, `OthersSorted`),
  and what is copied back is a rearrangement of what is there. `SortBegun` is why the program creates its threads suspended: a wait for a handle that is not stored is over at once.
  For `MergeArrays` itself, `StepsExist` shows that its recursive function exists, `FromEach` that it takes no more than there is, and `MergedSorted` that the merge of two sorted arrays is sorted and has
  the records of both, each once (`Orders`, which compose: `OrderedTwice`).
* `FirstMismatchesFound` (`LowestMismatches`), for any files, any number of threads, any size of a block and of the table. A thread stops at what it has read of the table,
  which may be stale. `InStripe` says where a thread is, `TableSorted` and `TableOfLogged` that the table is always sorted and has different bytes only, and `NoneMissed`
  that a mismatch which a thread has left when it ended is above the table, for its entries only become lower. `TableHoldsLowest` concludes that the table has the lowest ones.
  That every byte is in one block of one thread (`BlockOfByte`, `ByteOfBlock`, `NextBlock`) rests on the lemma `Division` of `FoldTheorems` about quotient and remainder.

**Only model-checked.** Liveness (`NoCallStuck`, `ConsumersFinish`,
`ShortWaitsTerminate`, `RetriesTerminate`, `SatisfiableReleased`, `WaitsAreServed`, `StopsEnd`): the prover does not
reach liveness under fairness, nor `ENABLED`. Every safety property that a passing run checks is a theorem.

## 5. Five disagreements between the code and its own text

* **`QueueObjCS_Sig.c:32`** (`queue_lost_signal`). The header says that the signal
  model needs no time-out as it "does not have to worry about lost signals" (lines
  11-13). The critical section is left in line 31 and the wait begins in line 32. When two
  consumers are in between and two messages come, the event is set twice and
  wakes one; the other sleeps although there is a message for it. With
  `SignalObjectAndWait` (`QueueObj_Sig.c`) it does not happen: `queue_live` has the same two threads a side and room for two
  messages, and the mutant `GetWait_TwoSteps`, which releases and waits in two steps, fails there.
* **`ThreeStage.c:268`** (`pipeline_end`). The consumers stop at their goal and do not
  wait for their final messages, so `ShutDown` may be set while these
  are still in `p2tq`. The transmitter then ends without sending
  them, and a receiver that is already in `QueueGet` waits for ever, as does `main`,
  which never prints "System has finished" (line 192). All data have
  arrived by then: `EndToEndOrder`, `NoDataLeftBehind` and `ConsumersFinish` hold.
* **`TestMultiSem.c:342`** (`semaphore_exit`). The Control-C handler is to "assure that
  all Consumer threads are not blocked" (lines 339-340) and releases one unit per consumer. A
  consumer that waits for three gets too few: it sets the event for itself again
  (`MultiSem.c:239`), waits, is woken, and so on, and `main` waits for it for ever. Such a
  consumer also keeps a processor busy whenever there are units, but fewer than it wants.

* **`ThreeStagePthreads/ThreeStage.c:231`** (`pipeline_consumed`). Where `main` sets `ShutDown` the comment says "All messages have
  been consumed" (line 169). A consumer leaves its loop after `MAX_RETRY` time-outs (231), and the transmitter leaves its own once `main` has
  joined the producers and set `AllProduced` (157, 259), whatever is still in `p2tq` or in its block. The consumers then end without these messages.
* **`msg_emulation.c:411`** (`msg_removed`). `msgsnd` and `msgrcv` mark their queue "busy (it can't be removed)" (line 385) and reset
  the mark on return (411, 558). It is one flag for all calls: a `msgsnd` resets it while another thread waits in `msgrcv`, `IPC_RMID`
  then does not wait (866) and the receiver waits on a queue that is not there.

## 6. What else the models show

These follow from the transition relations, and the properties are stated up to them: the models have these outcomes (but for those that are said not
to be modelled), and no property excludes them. For most no text of the repository promises the contrary. Where one does, it is quoted here, and not in section 5, because
no run of its own shows it: `simplePC.c:27`, `multiPCav.c:31`, `ThreeStagePthreads/ThreeStage.c:207-208`, `JOBMGT.C:119-120`, `SendReceiveSKHA.c:55`
and `synchobj.h:10`.

* `QueueObj.c:20`: a thread that waits when `QueueDestroy` runs is woken by nobody, or goes on with
  an array that is NULL.
* `QueueObjCV.c:13`, `:31`: a call on a destroyed queue returns with the SRW lock, which blocks the next.
* `QueueObjCancel.c:30`: a call that sees its cancellation while it owns the guard keeps it.
* `QueueObjSig_noSOAW.c:30`: `MaxWait` is ignored, which makes `ThreeStage.c` lose messages;
  `EndToEndOrder` claims order only there.
* `ThreeStageCancel.c:169`: the receiver is cancelled with the flag of `QueuePut` but waits in `QueueGet`;
  if its APC is first, it waits on. `ThreeStageCancel.c:233`: a block that is not full is never sent.
  `ConsumersFinish` is stated for totals that fill the blocks.
* `ThbObject.c:59`: the counter says how many have arrived, not how many are inside: a caller
  that does not join the threads, as `testTHB.c` does, may free the object under them. `testTHB.c:66`: with more than 64 workers the
  wait fails and the program goes on.
* `MultiSem.c:238`: a time-out after the event was consumed loses the signal; `:208`, `:238`: a
  time-out keeps `hMutexa`; `:161`: the sum of two `LONG`s is compared after it may have wrapped.
* `simplePC.c:113`: `nLost` is computed before `nCons` is incremented, and one too large besides, so that
  `nLost + nCons` is `mSequence + 2` after every message; the comment in line 27 bounds it by
  `mSequence`. `eventPC.c:120` has the right order. Neither program prints `nLost`.
* `multiPCav.c:66`: when `fStop` is set, `main` signals `mReady` only. A producer that waits on `mconsumed` is then
  woken by a consumer that passes its loop, or by nobody: if no consumer was created, or all
  have seen the flag in line 174 and left, it sleeps, and `main` waits for it in line 81. The comment in line 31 has
  `mconsumed` hold with `fStop`. `StopsEnd` names this one exception.
* `pcstats.c:33` combines the data with `|=` and compares with a checksum made with `^=` (`multiPCav.c:135`), so that
  almost every message is counted as bad.

* `ThreeStagePthreads/ThreeStage.c:263`: the transmitter counts time-outs and never starts again; after `MAX_RETRY` of them in a row it
  takes no more messages and sends empty blocks until `AllProduced` is set. A producer's `q_put` waits for ever, also when the stages have ended: `main`
  then waits for it (`BlockedForGood`), contrary to the comment in lines 207-208. `RetriesTerminate` is stated up to it.
* `serverNP.C:142`: the flag is read, and the result of the comparison written over it. A thread that has read 0 writes 0 although the handler (322) or another
  thread has set the flag meanwhile (`overwritten`). The shut down is undone: threads that have not left their loops serve on, those that have do not come
  back, and once the monitor has gone nothing cancels the waits of a second shut down. A client whose command was read while the flag was set gets no answer (143), and when the
  flag is cleared before line 139 it is not disconnected either. `StopsEnd` is stated for a flag that stays set.
* `serverNP.C:309`: each instance is cancelled once. A thread that looked at `shutDown` before and calls `ReadFile` or `ConnectNamedPipe` after
  that waits for its client, and `main` for it (`late`). `serverNP.C:210`: the connection made to wake a Connect
  thread may wake that of another instance, as the comment in lines 230-232 admits ("we've ignored that
  here"); `StopsEnd` holds nevertheless, because the monitor cancels the others.
* `08-Queue/Queue.cpp:383`: the flag is set and all are woken without the lock. A thread that has tested the flag and not begun its sleep
  sleeps on (`sleptLate`), and `StopProcessing` waits for it; the others end. `Queue.cpp:296`: a woken writer does not look at the
  queue again, and `AddElement` drops its request when another has filled the queue.
* `serverSK.c:145`: a client accepted when the second loop has been at its slot is served by a thread that nobody
  waits for (`SlotsTellThreads` names it). A server thread ended by an exception leaves its slot as it was.
* `JOBMGT.C:124` asks for a lock of zero bytes, which locks nothing, contrary to its comment (119-120): a record that `DisplayJobs` read
  and found ended may be a new job's when it is emptied (148-158, `wiped`). `FindProcessId` of the record at the end of the file reads
  nothing and returns what its variable holds.
* `MultiSem.c:264`, `:314`: `AllocSynchHandle` keeps the handle of the table's mutex in a local `hSynchDB`, which hides the static one. `CloseSynchHandle` therefore works
  without the lock: a slot whose count has reached zero may be found by its name, and counted, before it is emptied (`wipedInUse`), after which two processes
  that open one name may get two slots. A process that ends without closing keeps its slot taken.
* `serverNPCP.C:242`: the lines that disconnect a pipe and connect it again are not reached. Each client that leaves costs a thread and its pipe, and
  the server is without threads when as many clients have left as there were threads (`Responded`). `serverNPCP.C:84`: a client that connects between `CreateNamedPipe` and `ConnectNamedPipe` gives
  `ERROR_PIPE_CONNECTED`, which ends the server at its start. Not in the model: `response` and `serverOv` are on the stack of a thread that may end while an
  operation uses them, and a `_beginthreadex` that fails (line 164) leaves the pipe without an operation.
* `compMP.c:339`: the path without mapping compares eight bytes at a time and never the last `nExpected % 8` (not in the model).
* `sortMT.c:150`: when the file has no record, thread 0 waits for no other, and `main` may free the arguments of threads that have not begun. The model has files
  with records (`WorkCrewAssumption`).
* `grepMT.c:227`: for a file that cannot be opened the thread leaves its output file open. `main` then cannot delete it (line 120) and ends the program, with the results of the
  other files unread; `ResultsReported` says so.
* `SendReceiveSKST.c:130`: what is left of a record is reduced by the length of the piece once for each character of it, in `SendReceiveSKHA.c:93` and `:100` by twice the length: with
  messages in pieces the count runs out early, and `ReceiveCSMessage` returns `TRUE` without having seen the null (`cut`, which ends a caller in the model). The null itself is not written then. `SendReceiveSKST.c:111` calls `memcpy` for areas that may overlap,
  which the library of the compiler does in order; the model has the copy that is meant.
* `SendReceiveSKHA.c:55` says "TRUE return indicates an error or disconnect", and the callers (`serverSKST.c:190`, `serverSKHA.c:197`, `clientSKST.c:91`) take the result as
  `disconnect`; both files return `!disconnect` (141, 108). Those servers therefore end at their first message. The caller in `MessageStream` follows the comment of `SendReceiveSKST.c:84`.
* `SimpleService.C:148`: the handler sets `shutDown` first and reports `SERVICE_STOP_PENDING` then. When `ServiceMain` sees the flag at once, its `SERVICE_STOPPED` may be overwritten or be
  followed by the handler's report (`overtaken`): the manager's last word is not that the service has stopped, and what it makes of a report behind `SERVICE_STOPPED` is not for this code to say.
  `SimpleService.C:180`: an `UpdateStatus` that fails calls itself, without an end when the cause remains, as it does without a handle (81).
* `msg_emulation.c`: a message without text is counted in bytes but not as a message, and a receiver takes it out of the queue and waits on, or with `IPC_NOWAIT`
  counts its type field a second time. `b_current` and `q_current` do not go down when a queue is removed. `msgctl` for an
  invalid queue returns with the mutex. `msg_emulation.c:1054` takes a slot with the key 0 for an empty one. `msgget` with that
  key finds an empty slot for a queue that exists (line 652), and returns its number, which no other call accepts, so that no queue is made with it; that no slot in use looks empty is what
  `StatusCoversMessages` rests on.

`synchobj.h:10` calls `bEvent` an auto-reset event; `ThbObject.c:22` creates a manual-reset one. The models follow the code.

## 7. Plan

Done: the queue object in its eight versions, the four pipelines, the barrier, the
semaphore with its named objects, their tests, the message block, job management, the three servers, the message queues,
file conversion, parallel sort, comparison and search, message framing, a service, four samples of *Windows via C/C++*; the proofs of section 4. Next, in this order:

1. Larger instances, where the time of a run allows it: clients of `serverNP.C` that send either word to any instance, and go on after a shut down that was undone; three stripes of the converters.

### Not modelled, and why

* **Socket clients, `serverSKST.c`, `serverSKHA.c`**: sequential programs, and `serverSK.c` with other calls to receive and send.
* **`ServiceShell.c`**: a sequential user of the control manager's calls. **`serviceSK.C`** has the wrapper of `SimpleService.C` around a server.
* **`stats*.c`, `wcMT.c`**: threads that share nothing but a counter under a lock, or nothing
  until they are joined. What they are about is speed.
* **`ConventionalFileAccess` of `compMP.c`, the search of `grepMT.c`, the execution of requests in the servers**: sequential, and of one thread.
* **`SynchObj.c` and the `X` files**: an earlier `MultiSem.c`, and programs marked DEFECTIVE as exercises.
* **Failures of the system** (allocation, handles, I/O) end these programs in `ReportError`, and are left out everywhere
  except where a section above names one.
* **Files, registry, memory, security; the other samples and books**: sequential code around single calls, the
  larger part of the repository by far.

## 8. How to run it

```
tlc -workers 2 -config Programs.cfg Programs          # the run programs
tlc -workers 2 -config MCPipelines.cfg Pipelines      # the run pipeline
tlc -workers 2 -config QueueVersions.cfg QueueVersions
tlapm QueueVersions_proofs.tla                    # any proof module
```
