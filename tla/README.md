# cpp100net in TLA+

cpp100net (`src/HelloSocket`) is a C++ network library: a TCP server that accepts clients on one
thread and serves them on several others, the threads, semaphores, task queues and buffers it is
built from, clients, memory pools, a log, and test programs. The library in use is
`depends/include/*.hpp` (the files below are in that directory unless a path is given). The other
directories hold the programs that use it and earlier lessons that it superseded.

This directory models it in TLA+, checks the models with TLC and proves the theorems below with
TLAPS. `PROJECT.json` lists the runs, the source lines each definition stands for, the hazards, and
for each checked property a mutant of the code that breaks it. An operator commented "Mutant of X"
is such a plausible bug; no specification uses it.

## Inventory

| Part | State it keeps | Operations | What is hard | What makes it correct |
|---|---|---|---|---|
| `CellSemaphore` | `_wait`, `_wakeup`, a condition variable | `wait`, `wakeup` | spurious wakeups, callers that overtake a woken thread | a counting semaphore; no wakeup is lost |
| `CellThread` | `_isRun`, `_mutex`, `_sem`, three callbacks | `Start`, `Close`, `Exit`, `isRun`, `OnWork` | Close waits with the lock held; the flag is read and stored without it; restarts | Close returns, and only when the worker is done |
| `CellTaskServer` (`CellTask.hpp`) | `_tasks`, `_tasksBuf` | `addTask`, `Start`, `Close`, `OnRun` | unlocked emptiness test and unlocked final loop | FIFO, exactly once, closed only when drained |
| `EasyTcpServer` | counters, the cell servers, the listening socket | `InitSocket`, `Bind`, `Listen`, `Accpet`, `addClientToCellServer`, `OnNetJoin`, `OnNetLeave`, `Start`, `Close` | counters shared by all threads, balancing over unlocked counts, closing order, opening again | exact counters, the limit, every client has one holder, nothing freed under a thread |
| `CellServer` | `_clients`, `_clientsBuff`, `_clients_change` | `addClient`, `OnRun`, `CheckTime`, `OnClientLeave`, `DoMsg`, `Clearclients`, `Close` | handover through the buffer, three removal paths, virtual calls while destructors run | no lost or doubly held client, no dangling pointer, termination |
| `CellEpollServer`, `CellEpoll`, `EasyEpollServer` | the epoll object, the report | `DoNetEvent`, `rmClient`, `OnClientJoin` | pointers in a report whose clients are deleted meanwhile | reported pointers are live |
| `CellSelectServer`, `CellFDSet`, `EasySelectServer` | cached descriptor sets | `DoNetEvent`, `ReadData`, `WriteData` | the cache against leaving clients and reused descriptors; empty map | the cached set fits the map |
| `CellIOCPServer`, `CellIOCP`, `EasyIOCPServer` | posted requests | post, complete, remove | completions of removed clients, buffers the kernel writes to | one request of a kind, still buffers, one deletion after the last request |
| `CellBuffer`, `CellClient` | byte buffers, socket, timers | `push`, `pop`, `write2socket`, `read4socket`, `hasMsg`, `SendData`, `checkHeart` | partial sends and receives, full buffers | messages arrive whole, in order, once |
| `EasyTcpClient` family | a `CellClient`, `_isConnect` | `Connect`, `OnRun`, `SendData`, `Close` | a connection that breaks inside `OnRun` | an answer comes, a closed client is not used |
| `EasyTcpServer/server.cpp`, `EasyTcpClient/client.cpp` | message numbers, thread counts | login exchange, start and end of the load threads | refused logins and replies, threads that wait for each other | numbers stay consecutive, the program ends |
| `CellStream`, `CellMsgStream`, `CppNet100/main.cpp` | read and write positions | typed reads and writes | arrays, full buffers, 16-bit lengths | what was written is read |
| `MemoryMgr`, `EasyTcpServer/Alloctor.cpp`, `EasyTcpServer/CellObjectPool.hpp` | free lists, reference counts | `allocMem`, `freeMem`, `addRef`, `createObject`, `destroyObject` | empty lists, blocks of `malloc` among those of the pool, a count without a lock | no block lost or given twice |
| `CellLog` | a task server, a FILE | `Info`, ..., `PError`, `setLogPath` | file opened and closed under the writer, messages logged by the worker | never written when closed; complete when closed |
| `CellConfig`, `CellTimestamp`, `CellNetWork`, `Cell` | arguments, a clock | look-up, wrappers | - | - |
| `HelloCpp`, `HelloThread`, `HelloIOCP`, `HelloMemory`, `epoll01`, `bak` | - | earlier lessons | not part of the library | - |

How they interact. `EasyTcpServer::Start` creates N cell servers, each with a `CellThread` that runs
`CellServer::OnRun` and a `CellTaskServer` with a thread of its own, then starts its accept thread.
The accept thread pushes a new `CellClient` into the `_clientsBuff` of one cell server under that
server's `_mutex`; the cell server's thread moves it to `_clients`, and from there on only that
thread touches it. Cell servers call back into `EasyTcpServer` (`INetEvent`), which changes atomic
counters. `Close` stops the accept thread and deletes the cell servers; each destructor closes the
two threads; `CellThread::Close` waits on `CellSemaphore`, which the worker signals as it ends, after
`Clearclients` has freed the clients. Messages are framed by `CellBuffer` at both ends. Every part
logs through `CellLog`, and every `new` goes through `MemoryMgr` in programs that link `Alloctor.cpp`.

## Modules

| Module | Models | Built on |
|---|---|---|
| `Semaphore` | abstract: a counting semaphore | |
| `CellSemaphore` | `CellSemaphore.hpp` | refines `Semaphore` |
| `CellThread` | `CellThread.hpp`, several owners and starts | `CellSemaphore` |
| `TaskQueue` | abstract: a FIFO queue of tasks that is drained when closed | |
| `CellTask` | `CellTask.hpp` | `CellThread`, refines `TaskQueue` |
| `CellLog` | `CellLog.hpp` | `CellTask` |
| `EasyTcpServer` | the accept thread and the cell servers' client maps while the server runs | |
| `CellEpollServer` | polling with epoll | `EasyTcpServer` |
| `CellSelectServer` | polling with select and a cached descriptor set | `EasyTcpServer` |
| `CellServerLife` | `CellServer::Start`, `OnRun` and the destructors run by `delete cs` | `CellThread` |
| `EasyTcpServerLife` | a server opened, started, closed and opened again | `CellServerLife`, a second `CellThread` |
| `CellIOCPServer` | a cell server on a completion port, with its accept loop | |
| `CellBuffer` | operators for the byte buffer and its framing | |
| `MsgChannel` | abstract: a FIFO channel of whole messages | |
| `Connection` | one direction between two `CellClient`s with their buffers | `CellBuffer`, refines `MsgChannel` |
| `CellMsgStream` | operators for `CellStream`, `CellMsgStream` and the exports of `CppNet100` | |
| `StreamConnection` | messages of `CellMsgStream` sent over a connection | `Connection`, `CellMsgStream` |
| `LoginSession` | the load client against the test server | |
| `Allocator` | abstract: memory in use is not given away | |
| `MemoryMgr` | `MemoryMgr.hpp` | |
| `CellObjectPool` | `CellObjectPool.hpp` and the global `new` and `delete` | `MemoryMgr`, refines `Allocator` |
| `MC*` | bounds and symmetry for TLC | |
| `*Proofs` | the theorems about the module of that name; `CellThreadProofs` also those of `CellSemaphore`, `CellLogProofs` those of `CellTask`; `EasyTcpServerProofs` is about `CellEpollServer` and `CellSelectServer` | |

Granularity. A critical section under a lock is one step, because nothing that happens inside it is
seen by another thread, except where the lock is held across a wait (`CellThread::Close`, modelled
with the variable `mutex`), and in the merge loop, whose intermediate states other threads read
without the lock. An access without a lock is a step of its own. A thread's private computation is
part of the step around it.

- **CellSemaphore.** `semWait` and `semWakeup` are `_wait` and `_wakeup`; `asleep` and `notified` are
  the threads inside `_cv.wait`, before and after they were notified. `Wait` is `wait()` up to its
  return or its first sleep, `Resume` and `SleepAgain` the re-evaluation of the predicate,
  `SpuriousWakeup` what C++ allows the condition variable.
- **CellThread.** `ownerPc` follows each caller of `Close`, `workerPc` each detached thread through
  `OnWork`. `Start` on a running thread changes nothing and is not an action. `Exit` is called by a
  failed poll, never by a task loop (`CanExit`). `joins` and `exited` are history variables. `_isRun`
  is a plain `bool` that two threads access without a lock; each loop that reads it calls functions
  that the compiler cannot see through, so it is modelled as read anew in each round and never torn.
- **CellTask.** The loop of `OnRun` statement by statement. `LookAtBuf` is the unlocked test,
  `DrainTask` the unlocked loop over `_tasksBuf` that ends `OnRun`; a task appended before that loop
  reaches the end is executed by it. The histories `added`, `executed` and `due` feed the refinement.
- **CellLog.** The main thread creates the log with its one `setLogPath` and destroys it at the end;
  `logFile` is the pointer `_logFile` with what it points to. A task is a message; the task of
  `PError` adds two. `TestFile` and `WriteFile` are `EchoReal`'s test of the pointer and its use.
- **EasyTcpServer, CellEpollServer, CellSelectServer.** `clients[s]` maps descriptors to clients as
  `_clients` does; `sock` gives each open socket a descriptor that the kernel chose among the free
  ones and may give away again as soon as `DeleteVictim` closed it. `hand`, `scan` and `minServer`
  are the accept thread inside `addClientToCellServer`, which reads the four `sizes` of a comparison
  one after the other, without a lock. (A merging server counts its clients twice then, so "fewest
  clients" is a heuristic; no property relies on it.) `NotifyJoin` is `OnNetJoin`. `victim` is the
  client inside `OnClientLeave`, whose steps are the two decrements of `OnNetLeave` (`Leave`,
  `LeaveJoined`) and the delete. The comments at `EasyTcpServer.hpp:222` and `:226-227` say that
  `OnNetJoin` is called by one thread only and that `OnNetLeave` is safe with one cell server only;
  in the code the thread of every cell server calls both, and since the counters are atomic
  (`std::atomic_int`) they stay exact all the same, which is what `CountersExact` says. `Expire` picks any client: elapsed times are not modelled. `RemoveClient` may hit any
  client of the report, since `recv` and `send` may fail at any time. `DoMsg` changes nothing here;
  it is part of `Connection`. `fdRead` and `fdWrite` are what `select` reported and the two loops
  have not visited yet; the order of the loops over the map is left open. `select` fails only where
  it would: on a closed descriptor, or with the undefined first argument of an empty map; a poll that
  failed ends the thread (`"ended"`).
- **CellServerLife, EasyTcpServerLife.** `class` is the dynamic type of the cell server, which
  decides what the virtual `DoNetEvent` does; `deletePc` goes through the destructors in C++ order;
  `waiting` and `joined` count the clients of buffer and map, `cleared` those that `Clearclients`
  freed. A poll that had begun may time out on a closed epoll object; later ones fail. `serverPc`
  follows the owner through `InitSocket`, `Bind` (which tries `InitSocket` again), `Listen`, `Start`
  and `Close`; the server's own `CellThread` is the instance `Thread`, kept when the server is opened
  again, while `StartServer` makes a new cell server. One cell server stands for all of them: they
  share only the counters, which `CellEpollServer` covers with two.
- **CellIOCPServer.** `posted` are the requests in the kernel, `queue` the completions, `isPostRecv`
  and `isPostSend` the flags of `CellClient`, `recvLast` and `sendLast` the fill of its buffers. A
  completion that arrives for a freed client is a use of freed memory; the thread is then `"wild"`
  and the model says no more. `sending` is a history: the clients that a send was under way for when
  they were freed.
- **Connection, CellBuffer.** A byte is known by its message, the `dataLength` in that message's
  header, and its position, so that a lost, repeated or moved byte is seen; the receiver frames by
  `dataLength`. `SendDataReal` and `RecvData` move any positive number of bytes that fits. `receiver`
  says at which end the receiving loop is. For a full buffer `read4socket` returns 0:
  `CellServer::RecvData` takes that for an error (`RecvFull`), while a client
  (`EasyTcpClient.hpp:88-98`, `EasyEpollClient.hpp:45`) takes it for nothing received, keeps the link
  and polls again, which changes nothing and is no action. `pop` and `write2socket` move the rest of the buffer with an overlapping
  `memcpy`; formally undefined, it is modelled as the move to the front that it is on the platforms
  used. A reset loses what the network held.
- **CellMsgStream, StreamConnection.** A field is a value or an array; its bytes know the value and
  their place in it, so a read at a wrong position yields `Garbage`. A write that finds no room
  writes nothing; `finish` cuts the length to its width (`LengthMod`), and what it put into the first
  bytes is the `dataLength` that goes over the connection (`SendWriteStream`). `ReadMsg` reads the bytes that
  lie in the receive buffer, whichever message they are of.
- **LoginSession.** A message is the number it carries and a connection a queue, which is what
  `Connection` shows. `pc` follows each thread through `WorkThread`; `Exchange`, `Lose` and
  `PollFails` are the outcomes of the clients' `OnRun`; `OnNetMsg` is the server's. `CheckSend`
  leaves open when the time for the next messages has come. A login that the send buffer refuses is
  sent in a later round with the same number.
- **MemoryMgr, CellObjectPool.** A block is known by its pool and number; `freeList` is the chain of
  `_pNext`. `allocMemory` and `freeMemory` hold the pool's lock and are one step; the count of a
  block of `malloc` is read (`FreeMem`) and written (`FreeHeap`) in two. `addRef`, which takes no
  lock, is called by a block's only user.

## Runs

| Run | Shows | Bounds, and why they are enough |
|---|---|---|
| `semaphore` | `NoLostWakeup`, refinement of a semaphore with liveness | four callers: some asleep, one notified, one that overtakes it; tokens that nobody asked for are bounded by `MaxTokens` |
| `thread` | consistency of lock, flag and semaphore, an answer for each Close; Close returns; a once-started thread is joined by every owner | two owners, three starts, Exit allowed: a stale worker, a running one, and a second owner |
| `log` | order of the messages, no write to a closed file, a complete file, refinement of a task queue with liveness | a message, a `PError` with its two lines, and the messages of `setLogPath` and the destructor, logged at every moment |
| `epoll_safety` | counters, limit, single holder, map keys, no dangling pointer | four connections, two at a time, three descriptors, two cell servers: a descriptor is reused while its old entry is erased |
| `epoll_live` | accepted clients join, clients that hung up leave | two connections on two cell servers; liveness is checked without symmetry |
| `select` | the cached set fits the map, the loops visit live clients, clients that hung up leave | three connections, two at a time, two descriptors; one cell server, since servers share only what `epoll_safety` covers with two, and the theorem covers any number |
| `life` | what Close has waited for when it frees (`StoppedBeforeFreed`), places under the limit accounted for, buffered clients served, Close ends | both pollers, failing polls, sockets and accept threads, two clients, two openings |
| `life_epoll_ends` | violation: closing an epoll server hangs | one opening, nothing fails by itself |
| `conn` | only an oversize message makes a server drop the link or a client stop, fields read as written, refinement of a message channel, delivery | three messages of two to seven bytes, header of two, receive buffer of six, five bytes on the wire: short reads, several messages in one read, a message that never fits, an array that is too long for its reader, resets; either end receives |
| `session` | consecutive numbers, one unanswered login, answers, the end of the program | two threads of one client, one of which may break; three settings of the options; rounds of two logins and buffers of one message, so that every buffer refuses and a refused login is sent again |
| `iocp` | one request of a kind, still buffers, what a freed client may leave with the kernel, expired clients freed | two clients, buffers of two bytes, one peer that is answered, oversize messages, failing posts |
| `memory` | no block or object lost, the unlocked count leaks at worst, refinement of an allocator | two threads, two size classes of two blocks, one block of `malloc`, a pool of one object: every list runs empty |

The report size (`MaxEvents`) never limits a report in these instances: it is larger than the number
of clients of a server, as in the program, unless balancing is very uneven.

Deadlock is not checked where the system may stop: when every connection, message, task or start
that the bound allows was used, when a program has ended, and where Exit and Close block each other.

### What the violation shows

`life_epoll_ends`: `~CellEpollServer` destroys the epoll object, and only then does `~CellServer`
close the thread. The poll fails, the worker calls `Exit`, which waits for the lock that the waiting
`Close` holds, so `EasyTcpServer::Close` does not get to the line that logs its end
(`EasyTcpServer.hpp:202`). `~CellSelectServer` calls `Close` first and hangs only if its poll fails
just then.

### What the properties except

The models show further deviations; the properties that hold name them as exceptions.

- `OnWork` stores `_isRun = false` after `_sem.wakeup()` and without the lock (`CellThread.hpp:78`).
  Close returns on the wakeup; a `Start` that follows sets the flag, the old worker clears it, and
  the new worker ends by itself. A worker that ended through `Exit` leaves a token that answers a
  later Close. `CloseJoins` therefore speaks of a thread started once that did not call `Exit`, and
  counts a worker at its last store as ended, although the store touches the object; `BufferServed`,
  and `StoppedBeforeFreed` for the accept thread, except a server opened again over such a worker
  (`stale`).
- `StoppedBeforeFreed` asks nothing of an epoll poller, which is destroyed while its thread runs (the
  violation above), and of a thread whose poll failed only that it is out of the rounds of its loop
  when the memory goes (`FreedAfterLoop`), not that it is past `Clearclients` (`FreedAfterWork`,
  `FreedEmpty`): Close may not wait for it.
- `OnRun` skips a round without clients, but `CheckTime` runs after that test: when it expires the
  last client, `CellSelectServer::DoNetEvent` reads `_clients.begin()->second` of an empty map
  (`CellSelectServer.hpp:28`), which is undefined. `SelectFails` is one outcome; `HungUpIsRemoved`
  excepts a server whose poll failed.
- A failed poll ends the thread of one cell server (`CellServer.hpp:74`), which stays in
  `_cellServers` and goes on getting clients that nobody takes out; `BufferServed` excepts it.
- `Clearclients` fires no `OnNetLeave`: a server that is opened again has lost the places of the
  clients it had. `PlacesKept` counts them as `cleared`: it shows that no other place is lost. Without a socket Close does nothing at all.
- `CheckTime` of `CellIOCPServer` only closes an expired client with a request posted. If a send and
  a receive are posted the first completion frees the client and the second follows a freed pointer:
  `FreedUnposted` allows one request left over by a client with a send under way, and none by any
  other. If the completion with data was
  already queued, or the flag stood for a request that was never posted, the client is never freed
  (`ExpiredFreed`). A failed `postAccept` is not noticed, and a server with an empty map does not
  poll.
- A client that is sent a message longer than its receive buffer keeps the link and is never able to
  read on (`DeliversAll` excepts it).
- The load client's threads call `Close` on clients they have not created yet when they are closed
  early (`ThreadsEnd`); the epoll client does not count the loss of a connection inside `OnRun`.
- `freeMem` counts down a `malloc` block without a lock; a lost decrement leaks the block
  (`HeapKept`). `readArray` and `finish` are right for what fits; a message of 2^16 bytes or more
  wraps its length (`LengthsFit` keeps the model below that).
- The message that `~CellLog` adds comes after the task server's Close and is never executed;
  `TaskQueue` promises nothing for it.

## Fairness

Weak fairness of each thread's own steps: the operating system schedules every thread. No fairness
for what a user, a peer or the network may choose: `Start`, calls of `Close`, `addTask`, `SendData`,
logging, accepted connections, hanging up, expiry, failures and resets. Beyond that:

- `CellEpollServer`: strong fairness for the report of a client that hung up. Epoll is
  level-triggered and rotates its ready list, so a readable client is reported again and again.
- `CellSelectServer`: strong fairness for `select` returning; a signal interrupts it only now and
  then.
- `EasyTcpServerLife`: a poll that waits returns, since it has a timeout of 1 ms; nothing has to fail.
- `CellIOCPServer`: the kernel completes requests of a socket closed at either end; it need not
  complete others.
- `Connection`, `LoginSession`: both ends poll for ever and TCP delivers, so a possible transfer
  happens, in any amount, while the link is up.

## Proofs

All theorems hold for every value of the constants under the named assumptions of the modules:
finitely many threads and tasks (`CallersFinite`, `WorkersFinite`, `TasksFinite`), `NoOneIsNoCaller`,
`CanExitBool`, and those named below.

- `CountersCorrect`: `SemSpec => [](CountersAgree /\ NoLostWakeup)`. The invariant is `SemTypeOK`
  with those two. Neither is inductive alone: that `Resume` keeps `semWakeup` below the notified
  threads needs the type; that `Wakeup` finds somebody asleep to notify needs `CountersAgree`. The
  lemmas `WaitStep`, `ResumeStep`, `DozeStep`, `WakeupStep` state what each operation does to the
  counters and to `Cardinality(Blocked)`; the thread's proofs use them again.
- `ImplementsSemaphore`: `SemSpec => Counting!Safe`, each step mapped to a step of `Semaphore` or a
  stutter under `tokens = semWait + Cardinality(Blocked)`.
- `TypeCorrect`, `ThreadCorrect`, `JoinsEarned`, `AnswerComing`: the inductive invariant `IInv` is
  `ThreadTypeOK`, the semaphore's invariant, `ThreadInv` and `CloseHasAnswer`. `CloseHasAnswer` alone
  is not inductive: when `CloseRunning` clears the flag it needs a worker that has not signalled,
  which is `RunningHasWorker`; when a worker signals it needs `JoinsCounted` to know that the token is
  not taken by anybody else.
- `CloseJoinsCorrect`: `ThreadSafeSpec => CloseJoins`. The strengthening `JoinInv`: until an `onRun`
  calls `Exit`, and while the worker of the only start has not signalled, the flag is set or a Close
  holds `_mutex`, so no other Close can find the flag clear and leave early.
- `TaskServerIsThread`, `TasksInOrder`, `ImplementsTaskQueue`: every step of the task server is one
  of its thread, so the thread's theorems hold for it; `TaskInv` adds to `InOrder` where the two
  loops are (`LoopInRange`), because the unlocked last loop may start only when the private list is
  empty. `StartedOnceNoExit` says how the owners use the server: one start, no `Exit`.
- `LogIsTaskServer`, `LogInOrder`, `LogImplementsTaskQueue`: the log is a task server, so it inherits
  the order, the lines that the worker logs for itself included (`MessagesAreTasks`).
  `WritesOpenCorrect`: the invariant `FileInv` ties the main thread's place to the thread's: past
  `Close` the worker has signalled (from `JoinInv` of the thread), so it is not between `EchoReal`'s
  test and its write; and while it is, the file that it found open stays open.
  `FileCompleteCorrect`: `LogSpec => []FileComplete`. `PhaseInv` says that the worker can reach its
  unlocked last loop only after `~CellLog` has called Close. `RecordInv` follows a message from the
  call to the file: once the file is open, a task that was added since leaves its line, or both lines
  of a `PError`, when it returns; and when the last loop ends, everything that was logged before
  `~CellLog`, and what those tasks logged themselves, has been executed. Without the second part the
  lines that `PError`'s task adds while the buffer is drained could be left in it.
  `MessagesAreTasks` also says that the two lines of a `PError` are not themselves `PError`s
  (`CellLog.hpp:116-124`: it calls `Info` twice), without which a message might never get to its end.
- `OnlyOversizeStopsIt`, `ImplementsChannel`: for buffers, messages and transfers of any size. The
  invariant `ConnInv` says of the bytes on their way (receive buffer, network, send buffer) that they
  are those of the messages accepted and not yet delivered (`Framed`: there are positions at which
  the bytes can be cut into exactly these messages), also when a reset has lost the end of them; and
  that a receiver between two receives holds no whole message. `FramedAppend` and `FramedFront` are
  what `SendData` and `HandleMsg` do to the framing; moving bytes from one buffer to the next
  (`MoveBytes`) does not touch it. That the header tells the length is shown of what `finish` writes
  (`HeaderTellsLength`, from `FinishBytes` and `DecodeFront`). Assumed: `BufferHoldsHeader`, the
  buffer is not smaller than a header, `LengthsCover`, the lengths are those of the messages that are
  written, and `LengthsFit`, none is too long for its length field.
- `RoundTrip`, `FieldsAreRead`: `StreamSpec => []FieldsRead`, for any fields, any sizes of stream,
  length, command and count, and any pieces the bytes arrive in. `RoundTrip` is the part about data:
  `Written` puts the image of each field at its place (`LaidOut`, `WrittenLaidOut`), `finish` changes
  nothing after the length (`FinishBytes`), and a read at the place of a field gives its values and
  moves to the next (`FieldReadBack`); for arrays this needs that part `k` of element `e` is the byte
  `(e - 1) * size + k` (`ElementsBytes`, from `DivideUnique`). The invariant `StreamInv` then says that
  what is read are the bytes of the message delivered: it adds to `ConnInv` what was sent under each
  number (`SentInv`), and `HandleMsgTakesNext` that the bytes at the front of the receive buffer are
  those of one message, from the first on. The recursive functions over the fields are shown to have
  a value (`Recursion`) and reasoned about by `Steps`, both from the least counterexample (`NatMin`,
  by `WFMin` of the library), since the library's induction theorems have predicates as parameters,
  which the provers cannot instantiate. Assumed: `ContentsTyped`, the elements of a field have at
  least one byte and a field that is no array one value; `ReaderSizes`; `StreamHoldsHeader`.
- `ServersCorrect`: `SafeSpec => []` of `CountersExact` (between any two accesses of the threads, the
  two decrements of `OnNetLeave` included), `LimitKept`, `OneHolder`, `KeysFit` and
  `NoDangling` of `CellEpollServer`, for any clients, descriptors and cell servers. The invariant
  `ServerInv`, which knows nothing of how the cell servers poll, says more of each: which variables a
  place of a thread constrains (`PlaceInv`: the entry of a client that leaves is still in the map),
  that exactly the live clients have descriptors, all different (`SockInv`), and the counts as
  cardinalities (`CountInv`). The argument has two halves. What a step may do to the holders is one
  of nine kinds (`OwnStep`: a client arrives, is given, joins, is counted in, is counted out of the
  one counter and off the other, is taken out, dies, or all stay), and each keeps `OwnInv` and `CountInv`; and every action is of one of these kinds and
  keeps the rest. `KeysFit` follows only because a client has one holder: another server's entry is
  never the one whose descriptor was given back. With epoll, `EventsInv` adds that what is left of a
  report lies within the map. Assumed: `ClientsFinite`, `NumServersPos`, `MaxClientNat`.
- `SelectServersCorrect`: `SelectSafeSpec => []` of the first four and of `CopyFits` and `VisitsLive`,
  from the same lemmas: the three loops that remove clients (`CheckTime`, `ReadData`, `WriteData`) go
  through the same steps at places of their own, so `NotifyKeeps`, `DeleteKeeps` and `EraseKeeps`
  have the places as parameters. `CopyFits` alone is not inductive. `delete` records the change one
  step before the entry is erased; that the copy is out of use while the map still shrinks needs the
  second half of `CopyAt` (`clients_change` is set at every place in `Erasing`), and that its
  descriptors are open is `KeyAt`, from which only a freed client's entry is excepted.
- `PoolsCorrect`: `PoolWhole`, `HeapKept` and `ObjectsWhole` of `CellObjectPool`, for any threads,
  classes and counts. The chains of free blocks and objects list exactly what is neither in use nor in
  a thread's hands; `HeapInv` bounds a `malloc` block's count, and every value of it that a thread has
  read and not yet written back, from below by the threads that use it or count it down: a lost
  update leaves it too high, never too low. `ImplementsAllocator`: every step is one of `Allocator`
  or a stutter. Assumed: `ThreadsFinite`, `ClassesPos`, `CountsNat`, `PoolSizePos`.
- `RequestsCorrect`: `SafeSpec => []` of `OneRequest`, `BuffersStill` and `FreedUnposted` of
  `CellIOCPServer`, for any clients, limits, buffer sizes and failures. The invariant `IOCPInv` says
  of each client that of a kind of request at most one is in the kernel or among the completions
  (`Single`), that none is there unless the flag is set, and that a request still fits the buffer it
  was made for (`RequestInv`); that a client that was not yet in the map, or was freed with no send
  under way, has none (`SilentInv`); that any other freed one has at most one left (`LeftInv`: the
  completion or the failed post that frees it stands for the other of the two); and that bytes `DoMsg` has not looked at keep the thread from posting the
  client's next receive (`UnreadInv`). `BuffersStill` needs the last: `DoMsg` shifts the buffer, and
  that no receive is outstanding then is known only because the round goes through `DoMsg` first.
  `AnswersFit` keeps a completion from reporting more than was asked for. Assumed: `ClientsFinite`,
  `SizesPos`, `SwitchesBool`, `AnsweredClients`.
- `NumbersAgree`: `Spec => [](IdsConsecutive /\ OneUnanswered)` of `LoginSession`, for any number of
  threads, clients and messages and any buffer sizes. Both directions of a standing connection are
  `Line`s: the numbers on the wire continue those the receiver counts, the sender's buffer continues
  the wire, and the sender's counter continues the buffer. The lemmas `LineSend`, `LineMove`,
  `LineTake` and `LineForward` say what a send, a write to the socket, a receive and a reply do to
  one. The invariant needs the clients that were never connected (`Fresh`) and the place of the
  connecting loop (`LoopInv`), because a connection starts in step only if nobody has sent on it.
  Assumed: `SessionBounds`, `OptionsOK`.
- `StopsBeforeFrees`: `Spec => [](StoppedBeforeFreed /\ PlacesKept)` of `EasyTcpServerLife`, for any
  number of openings, either class of server and any client limit, whichever polls, sockets and
  accept threads fail; what `StoppedBeforeFreed` leaves out then is said above. `AccInv` is about the server's own `CellThread`, which is started again and
  again, so that its semaphore may hold a token of a predecessor: `CurrentInv` says that as long as
  no start met one (`~stale`), a thread in its accept loop has left no token, and is known to its owner by
  the flag or by the mutex held in Close. `CellInv` is about the cell server's thread, whose
  invariants `IInv` and `JoinInv` and whose lemma `CloseJoinsStep` are those of `CellThreadProofs`:
  `FreeInv` says that the destructors go past Close only when the worker has ended or called Exit,
  `CellPlaceInv` where the loop is then, and `ClearedInv` that after `Clearclients` nobody adds a
  client. The last needs the first half: the accept thread adds clients, and only `AccInv` says that it
  has stopped. `PlacesKept` is inductive with the types of its counts. Assumed: `OneOwner`, which
  also says that Start makes a thread (`Workers # {}`), and `NoOneIsNoCaller`.

Only model-checked: all liveness, including the liveness half of the refinements, since TLAPS proves
none here. Every invariant of the runs, and the safety half of every refinement, is a theorem.

## Assumptions about the environment

The owner of a `CellThread` does not destroy it while calling it; a cell server is started once and
deleted by one thread; `malloc`, `new` and thread creation do not fail; `epoll_ctl` failures are only
logged by the code and are left out. `setLogPath` is called once, by the main thread. A block of
memory is shared only by its one user (`AddRef`).

## Not modelled

- The heartbeat's arithmetic on elapsed times (`checkHeart`, `CheckTime`), and the send timer
  `checkSend` of `CellClient`, which nobody calls: expiry is a free choice, so the safety properties
  cover every timing, and no property says when a client expires.
- `EasyIOCPClient`, which no program uses, and the Windows branches of select. `CellTask` objects
  other than log messages: the cell servers start a task server and add no task.
- What the IOCP thread does after it followed a pointer to a freed client: that is undefined.
- `CellConfig`, `CellTimestamp`, `CellNetWork`, `Cell`: look-ups, clock readings and wrappers without
  state that another part reads back.
- The exports of `CppNet100` that create, poll and delete a client: they pass the call on.
- The earlier lessons (`EasyTcpServer/EasyTcpServer.hpp`, `HelloCpp`, `HelloThread`, `HelloIOCP`,
  `HelloMemory`, `epoll01`, `bak`): the library no longer uses them.
