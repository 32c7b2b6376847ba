# A verification project for MysqlGear

MysqlGear is a daemon that takes SQL statements from clients over TCP,
acknowledges them, and executes them later on a pool of database connections.
Nothing is persisted: between the acknowledgement and the execution a
statement is only in memory. This directory models the daemon's own logic in
TLA+, checks it with TLC and proves parts of it with TLAPS. Paths are given
from the root of the repository (`src/...`); a plain file name with a line is
a file under `src/`.

## 1. The system

### Components and their state

| component | code | state | operations |
|---|---|---|---|
| main | `src/main.cpp` | `config`, `APP_RUNNING` | options, `load_config`, start, wait loop, shutdown, log what is left |
| InputHandler | `src/input/InputHandler.cpp` | the gear server and its thread | `initialize`, `deinitialize` (stop, join) |
| GearServer | `src/input/inputs/GearServer.cpp` | `stop_`, a timer, the client thread pool (a local variable) | accept loop, `stop`, re-`initialize` after errors |
| tcp::Server | `src/utils/tcpclientserver/Server.cpp` | listening socket, `pfds` | `setup`, `shutdown`, `accept` |
| GearStreamClientHandler | `src/input/inputs/GearStreamClientHandler.cpp` | per connection: parse buffer, leftover, flags, payload | receive, parse, queue, answer |
| message queue | `src/utils/lockedqueue/LockedQueue.h` | a deque behind a mutex | `push`, `pop`, `empty`, `size` |
| OutputHandler | `src/output/OutputHandler.cpp` | `stop_`, the message in hand | `thread_main` (queue to thread pool), `task` (execute), `stop` |
| thread_pool | `src/utils/threadpool/thread_pool.hpp` | task queue, `tasks_total`, `paused`, `running`, threads, promises of submitted tasks | `push_task`, `submit`, `parallelize_loop`, `wait_for_tasks`, `reset`, destructor, `worker`, statistics |
| LibzdbHandler | `src/utils/libzdb/LibzdbHandler.cpp` | `conpool`, `dbserverindex`, `last_error` per server | `connect`, `disconnect`, `getConnection`, `returnConnection` |
| libzdb, MySQL | external | connections | |
| timed_waiter | `src/utils/timedwaiter/timed_waiter.h` | `stop_` behind a mutex | `wait_for`, `interrupt` |
| daemonize | `src/utils/daemonize/daemonize.cpp` | pid file, signal handlers | SIGINT ends, SIGHUP reloads |
| PHP client | `example/client/php74/vendor/cztk` | a socket, `isConnected` | `connect` (sends the version), `submitSingleQuery`, `getStatus`, `disconnect` |
| tcp::Client, GearStreamClientHandlerThread | `src/utils/tcpclientserver/Client.cpp`, `src/input/inputs/GearStreamClientHandlerThread.cpp` | | not linked into the daemon (src/CMakeLists.txt:33) |

A query goes this way:

    client --TCP--> GearStreamClientHandler (a thread of the client pool)
           --LockedQueue--> OutputHandler::thread_main
           --database thread_pool--> OutputHandler::task --connection--> MySQL
                                          |
           <--LockedQueue-- (deadlock, no connection: again)

The threads are: main, the gear server, `gear_server_max_connections` client
handlers, the output thread, `mysql_maxconnections + 1` database workers. They
share the message queue (locked), the two pools (locked queue, atomic counter
and flags), and `LibzdbHandler` (not locked). main() stops them in order: the
gear server with all client handlers, then the output thread, which waits for
its tasks and deletes the connection pool; then it logs what is left.

### What is hard, and what makes each component correct

- **thread_pool**: the counter, the queue and the flags are changed by
  different threads in separate steps, and `wait_for_tasks` and the throttle of
  OutputHandler act on the counter. Correct: no task is lost or run twice, the
  counter is exact, waits return when, and only when, they may, futures tell what
  happened, and a loop has run all its indices when the call returns.
- **OutputHandler**: a query passes four places and two hand-overs, may be sent
  back, and the shutdown runs into it at any point. Correct: every acknowledged
  query is in one place until it comes to one end; tasks never see a deleted
  pool; the shutdown ends.
- **LibzdbHandler**: any call may fail in between, and a SIGHUP may empty the
  list of servers at any moment. Correct: connections balance, a failed server is
  left alone for 30 seconds, and only a failed one.
- **GearStreamClientHandler and its clients**: the stream is cut anywhere, a send
  or a read may be cut short on either side, and a client may close with answers
  unread, which resets the connection; a `send()` after that ends the daemon by
  SIGPIPE. Correct: what is queued and answered depends on the bytes and not on
  the cuts; the acknowledgements a client reads are those of its queries.
- **main and daemonize**: the signal handler runs between any two steps of
  main(), and processes are started and killed at any moment. Correct: one daemon
  at a time for each pid file, and no dead one in the way of the next; a daemon that
  is told to stop ends; a reload keeps what the file says.
- **GearServer**: errors of the listening socket, a stop at any moment, handlers
  that keep pointers to a local variable of the server thread. Correct: every
  accepted connection has one handler, and none is left when the thread has been
  joined.

The hazards behind these, each at its line, are listed in `PROJECT.json`.

## 2. The modules

| module | models | composed of |
|---|---|---|
| `ThreadPool` | one operator per atomic step of a pool: `PushCount` and `PushEnqueue` for `push_task`, `WorkerLoop`, `WorkerCheck`, `PopTask`, `TaskReturn`, `TaskCount` for `worker`, the two loads of `get_tasks_running` | |
| `ParallelLoop` | how `parallelize_loop` cuts indices into blocks | |
| `ThreadPoolOwner` | a pool with the one thread that calls it: push, submit, loop, wait, pause, reset, destroy; and a thread that reads its statistics | ThreadPool, ParallelLoop |
| `LockedQueue` | the message queue | |
| `LibzdbHandler` | the connection pool and the choice of its server, a call at a time | |
| `LibzdbFailover` | every use the interface of LibzdbHandler allows, with `connect()` in steps and a SIGHUP between any two of them | LibzdbHandler |
| `OutputHandler` | output thread, tasks, main()'s shutdown, clients as the source of messages | ThreadPool, LockedQueue, LibzdbHandler |
| `Delivery` | abstract: what the daemon owes an acknowledged query | |
| `GearProtocol` | message types, headers, and `Decode`, what a whole stream means | |
| `TcpConnection` | external: one connection with its resets, `SO_ERROR` and SIGPIPE | |
| `GearStreamClientHandler` | the handler of one connection | GearProtocol, LockedQueue, TcpConnection |
| `GearClient` | the PHP client, and foreign clients that send and close as they like | GearStreamClientHandler |
| `TcpServer` | the listening socket and the kernel's backlog | |
| `GearServer` | server thread, client pool, InputHandler, connections | ThreadPool, TcpServer |
| `Daemon` | main() around the service: options, `load_config`, pid file, wait loop, signals, for several processes on one machine | |
| `ThreadPoolProofs`, `ThreadPoolOwnerProofs`, `OutputHandlerProofs`, `LibzdbFailoverProofs`, `GearServerProofs`, `DaemonProofs`, `GearClientProofs` | theorems | |
| `Induction` | induction on numbers, as facts about sets, for `DaemonProofs` and `GearClientProofs` | |
| `MC...` | values of constants for TLC | |

How code becomes actions. A thread has a program counter (`opc` for the output
thread or a pool's owner, `spc` for the gear server, `mpc` for main, `wpc` and
`tpc` for a worker and its task, `pc` for a client handler, a call of `connect()`
and the main() of `Daemon`, `cpc` for the PHP client), and an action runs
to the next point where another thread could see or change something: an
access to an atomic, a lock, a call on the database or a socket. A body that
holds a mutex throughout is one action. Local computation is folded into the
action it follows. Variables keep the names of the code. Names that start an
action tell the thread: `Out...`, `Task...`, `Main...`, `Server...`. Definitions
with a comment "Mutant:" are deliberately wrong versions of the definition that
follows them; no specification uses them, they show that each property can fail.

Abstractions. A query is a model value, in `GearClient` a number in one byte. A
byte that a client sends is 0 to 127 (section 5); the characters of an answer are 0 to 255. A status answer is one of a set
of texts behind a byte with its length. Time is left out except for what the
code asks of it: an error is recent or not (`recent`), a wait has ended or not.
An entry's text, `lasterror`, `received` and `processed` are never read by the
code and left out. The value of a `pid_file` line is a number that names a file, 0
the empty name; no two names lead to one file. `get_tasks_running` subtracts modulo `Wrap` instead of 2^64,
which makes no difference as long as `Wrap` exceeds twice the number of tasks.
The two operands of the subtraction are loaded in either order, because C++
leaves it open. `dbserverindex`, which has no initial value, starts as any
index or as none. The plain `bool stop_` of the two threads is read after a lock
of the loop's timer in each turn, so the store is seen; it is modelled as seen at
the next test.

## 3. What TLC checks

| run | instance | shows |
|---|---|---|
| `pool` | 2 threads at most, 2 tasks, loops over 0..0, 0..2 and 2..2, owner and status reader | `TotalAccounts` (the counter is exact), `ExactlyOnce`, `DestroyedIsQuiet`, `FuturesTell`, `WaitForTasksDrains`, `ResetKeepsTasks`, `LoopBodiesDone`, `RunningNeverUnderstated` (the throttle's number is never below what workers hold, if the counter is loaded first); `CallsReturn` and `PushedIsExecuted` in the end |
| `failover` | 3 servers, 2 connections, 3 tasks, a SIGHUP anywhere | `OnlyFailedAreAvoided`, `FailedServerIsLeft` |
| `output_safety` | 1 connection, so 2 workers; 3 queries, 2 servers, 2 faults | `OnePlace` (no hand-over loses or copies a query), `PopNeverEmpty`, `TaskSeesPool`, `ConnectionsBalanced`, `RetryLimitInert`, `PoolPinsServer`, `ExitSettled`; no deadlock before exit |
| `output_delivery` | the same with 2 queries, 1 fault | OutputHandler implements `Delivery`; `AcceptedIsSettled`, `StopLeadsToExit` |
| `client` | 9 foreign streams, PHP scripts of 2 calls, chunks of 1 to 7 bytes, a timeout, a reset or a close anywhere | `ChunkingIrrelevant` (the handler agrees with `Decode`), `LeftoverBounded`, `AckFollowsQueue`, `OnlyLeftoversKill`, `SuccessLagsByOne`, `SilentClientIsLeft` |
| `server` | 2 threads, 3 connections, backlog 2, 1 fault; the handler of one connection may never end | `OneHandler`, `JoinedIsQuiet`, `StopEnds`, `ServerRecovers`, `OthersAreServed` |
| `daemon` | 3 processes, 2 configuration files with a pid file each | `OneUntilStopped`, `LockFailsBehindADaemon`, `RetryLimitNeverObeyed`, `StopCompletes` |

What some of these say about the code that is not obvious:

- The limit on attempts never takes effect, since what is pushed back was never
  counted as tried (`RetryLimitInert`), and no configuration file switches
  `obey_work_retry_count` on (`RetryLimitNeverObeyed`): `load_config` finds
  `work_retry_count` in that name first.
- Once a pool exists, started or not, nothing makes the daemon reconnect or
  change the server (`PoolPinsServer`).
- A server is avoided only because it failed (`OnlyFailedAreAvoided`): connect()
  hands `dbserverindex`, which has no initial value, to `setConnectionFaulty` only
  if there is a pool, and then it is that pool's server. That function marks the
  first server only (`0 >= index`, LibzdbHandler.cpp:53), so another one that stops
  answering may be chosen again at once; `FailedServerIsLeft` names the exception.
- `connect()` tests the index of the server once and uses it twice, the second
  time after `start()`, which takes as long as the server does. A SIGHUP after the
  test has emptied the list by then, and the use is out of range. The model reaches
  this (`TestIndex`, `SigHup`, `CreatePool` or `LogServer`); no property covers it.
- A client that reads all its answers before it closes and has no more than one
  request outstanding cannot end the daemon (`OnlyLeftoversKill`). The first answer
  after the close provokes the reset. If the reset comes between the test of
  `SO_ERROR` and the send of the second answer, that send raises SIGPIPE;
  otherwise the test reports it, and clears what it reads, so the third does.
- The PHP client never reads the answer to the version byte, so every call is
  told of the one before. Between acknowledgements the error is at most one
  (`SuccessLagsByOne`). The property speaks of runs without a status answer: its
  text holds characters '1', which a later call takes for acknowledgements, and
  it can come without `getStatus()`, because the bytes of a query that was sent
  in part are read as a part of what follows, and can make a status request.
- A daemon that gets SIGINT ends (`StopCompletes`), but not because of the timer
  its handler interrupts, which is daemonize.cpp's own copy: main() sees the flag
  when its own timer's ten seconds are over. The pid file admits one daemon as
  long as none was stopped by SIGINT; the handler gives lock and file back before
  the shutdown has begun, so afterwards two can serve, and the one that ends
  unlinks the file of the other (main.cpp:198). A daemon that was killed leaves
  its file behind, locked by nobody: a start that can open its pid file only fails
  while a daemon with the same pid file serves that nobody has stopped
  (`LockFailsBehindADaemon`). It also fails if it cannot open the file
  (daemonize.cpp:109), as when the file left behind belongs to another user.
- A loop over a pool that is paused waits until it is not: `CallsReturn` leaves it
  out. A reversed range is swapped, so that its loop runs, where the comment
  calls the call equivalent to a for loop that does not (thread_pool.hpp:112);
  `LoopBodiesDone` takes the code's reading.

### Findings

Five runs are expected to fail; each is a statement of the repository that the
code does not keep.

- `output_no_connection`: a task whose `getConnection()` throws because the pool
  is used up drops the query without a word (OutputHandler.cpp:86), while the
  log of the same situation says "rescheduling" (OutputHandler.cpp:59). The pool
  has one thread more than connections, so no fault of the database is needed.
- `client_closed`: if a client closes inside a header, `recv` returns 0, the
  leftover is taken for data and the handler loops for ever
  (GearStreamClientHandler.cpp:61); GearServer.cpp:64 hopes that clients clean
  themselves up. `OthersAreServed` shows what is left of the service then.
- `pool_reported_running`: `get_tasks_running()` can report a number near 2^64.
- `daemon_reload`: SIGHUP clears the list of database servers and reads a file
  of the empty name, because `conf_file_name` is static in a header and the
  handler has its own copy (daemonize.cpp:29, daemonize.h:24).

- `php_submit`: `submitSingleQuery()` reports success for a query that is not
  queued (Client.php:101): one byte is read for every query, but the server has
  sent one more, for the version. The run shows the report before the query is
  queued; whether the last one ever is, nothing tells the client.

Seen while modelling and not the subject of a run: N_CONNECT and N_CONTROL reset
no flag, so bytes behind such a message make the parse loop spin
(GearStreamClientHandler.cpp:131), and `exmaple_client.php`, which sends no
version, gets there with its first query; `getStatus()` as the first call
takes the answer to the version, '1', for the length 49; a worker may pop a task
after `paused` was set, since it tests the flag before it takes the lock
(thread_pool.hpp:376).

### Bounds and why they are enough

- Threads: two of each kind. A race in this code is between a worker and the
  thread that waits for it, or between two workers; a third worker adds no new
  pair.
- `MaxConnections = 1` with two workers is the configuration of the code (one
  thread more than connections) at its tightest: the pool is used up at once.
- Queries: three, so that one is executing, one is queued and one arrives. Tasks
  of `pool`: two, one per worker; a loop over 0..2 with two blocks has one block
  that is longer. The proofs are for all numbers.
- `MaxCalls = 2`: the lag of one answer shows from the second call on.
- `MaxFaults`: how often calls on the database or the kernel fail. Two lets a
  failure follow another one (a pool that does not start, then a deadlock). It
  bounds behaviours the liveness properties need bounded: a database that
  reports a deadlock for ever is retried for ever.
- `Wrap = 16` is above the number of tasks by enough to tell a wrapped
  difference from a real one.
- `BUFSIZE = 8` and `DATABUFSIZE = 17` keep the relation the code relies on
  (buffer = chunk + largest header) at a size where a header of 4 or 10 bytes is
  cut at every place. The two status texts are one with few and one with many '1's.
- Three processes of `Daemon`: one serves, one waits for its files and one
  starts. The two files have the options in either order and name two pid files, so
  that two of the three can share one.
- `Backlog = 2` with three connections: one waits, one is queued behind it, one
  finds the backlog full.

### Fairness

Weak fairness of every thread's own steps: the operating system schedules
threads and the loops poll, so a step that stays possible is taken. Calls on the
database and on sockets return: libzdb's by its timeouts, `recv` by
`SO_RCVTIMEO` (3 seconds unless configured otherwise). Tasks return for the same
reason. Time passes, so errors age. Nobody has to connect, send, close or
signal, and nobody has to start a daemon: `AddMessage`, `ClientConnects`, every step
of `GearClient`'s clients, `MainLeavesLoop`, `MainStops`, `Start`, the signals and the
calls of `ThreadPoolOwner`'s owner have no fairness. No strong fairness is assumed. Handlers end, except those of the clients in
`Stuck`, which stand for what `client_closed` shows; `StopEnds` is about behaviours in
which none of those is started.

## 4. What is proved

The proofs hold for every number of threads, tasks, readers, queries, servers,
connections, clients, processes and faults, every stream and every configuration
file; the constants' assumptions are the named ones in the modules, which TLC
evaluates in the runs. Every invariant below joins facts that need one another.

`ThreadPoolProofs` has the accounting lemmas. `Busy`, the workers that hold a
task, is a set, and its cardinality must follow `job` through every step
(`BusyGrows`, `BusyShrinks`); with it, every step of a worker keeps
`tasks_total - Counted` (`WorkerStepInv`), where `Counted` is what is queued or
held. They are stated for a pool invariant `PoolInv` that any owner can supply;
the three owners use them.

`ThreadPoolOwnerProofs`: `TypeCorrect`, `TotalAccountsHolds`, `WaitDrains`,
`ResetKeeps`, `ExactlyOnceHolds`, `DestructorIsQuiet`, `FuturesHold`, `LoopsAreDone`,
`ReportNeverTooSmall`, and `BlocksPartition` about the arithmetic of loops. `TypeOK` is not inductive alone:
`tasks_total--` stays a natural number only because a worker that counts down
holds a task (`JobPC`) and held tasks are counted (`TotalAccounts`). `WaitDrains`
follows because only `WaitAll` leaves the wait of a pool that is not paused, and a
counter at zero means an empty queue and idle workers (`ZeroIsQuiet`).
`ExactlyOnce` counts places; its inductive form `Separate` says instead that the
places are disjoint, which each step can be shown to keep, and the count is
recovered at the end. `LoopsAreDone` needs `LoopInv`: `blocks_running` is the number of
blocks pushed that have not finished, so at zero all have, and `BlocksPartition`
says that the blocks cover the indices without overlap. `ReportNeverTooSmall` needs
`LoadInv`: a value of the counter that the owner has loaded can only be too large, and
never exceeds the number of tasks, so that the subtraction does not wrap.

`OutputHandlerProofs`: `TypeCorrect`, `PopIsSafe`, `TasksSeeAPool`, `Balance`,
`PoolIsPinned` and `LimitIsInert`. A task that runs is counted, and while there is
no connection pool nothing is counted (`PoolNeeded`), because only the inner loop
pushes tasks and the pool is deleted after `wait_for_tasks()`; so the task sees a
pool, and the count of connections goes with the tasks that have one. `PopSafe`
needs `MainOrder`: main() pops, too, but only when the output thread has ended.
`LimitIsInert` has an invariant of its own, `Untried`: every message, in whatever
place, has `attempts = 0`.

The same module has `OnePlaceHolds`, `ExitLeavesNothing`, and `DeliveryImplemented`, the
refinement: `OutputHandler` implements `Delivery`. The invariant adds to the first
one that the places of a query are disjoint and together are
those of the pending queries (`Separate`), and that the log of main() empties the
queue (`Drained`). The step proof goes through the actions: most are stutters of
`Delivery`, the end of a task is `Resolve` or nothing, and the pops of the log are
`Log`, which is only allowed there when the output side has ended.

`LibzdbFailoverProofs`: `BlameIsRight` (`OnlyFailedAreAvoided`) and `FailuresAvoided`
(`FailedServerIsLeft`). The histories `refused` and `silent` hold the servers whose
pool could not be created or started and those that did not answer, all of them; the
invariant says that while there is a pool the index is that of its server
(`PoolOfIndex`), that a failure that still counts is remembered or about to be
(`FailuresRemembered`), and that nobody holds a connection while the pool is replaced
(`Balanced`).

`GearServerProofs`: `TypeCorrect`, `OneHandlerHolds` and `JoinLeavesNothing`. The
balance of the counter is that of the owner's proofs; `Ended` says that past the
destructor's wait the pool stays drained, since the server thread is the only one
that pushes.

`DaemonProofs`: `OneDaemonUntilStopped`, `FailuresHaveACause`, `LimitIsNeverOn`
(`RetryLimitNeverObeyed`) and `TypeCorrect`. The kernel allows one
lock per file (`OneHolder`), and a file is opened under one name only (`Names`); as
long as nobody was stopped, all with the same pid file have opened the same file
(`SameFile`). That a new file is new needs a count: no more files are open than there
are other processes (`NewFileIsNew`). What `load_config` makes of a file is a
recursion over its lines (`AfterLines`), for files of any length: no line turns the
limit on, and each keeps the types, so by induction the file does.

`GearClientProofs`: `TypeCorrect`, `BufferHolds` (`LeftoverBounded`),
`EveryQueryAcknowledgedOnce` (`AckFollowsQueue`), `SigpipeNeedsLeftovers`
(`OnlyLeftoversKill`) and `SuccessBounded` (`SuccessLagsByOne`). The types need `Bookkeeping`: a
payload never exceeds what its header announces, so the rest to copy is a
number. The buffer holds because the loop only ends with bytes left over when a
header is incomplete. `Resets` counts the answers sent since the client closed by
how far the reset has come: one when it is on its way or reported, two when the
report was taken; the step that raises the signal sends one more. `Lag` is the ledger behind
`SuccessLagsByOne`: the successes and the '1's still to be read are together no more
than the answers "1" that were sent (`TimesRest` and `TimesAppend` count in sequences),
and `AckFollowsQueue` bounds those.

`ChunkingDoesNotMatter` (`ChunkingIrrelevant`) says that the handler, however the stream is
cut into chunks, has queued and answered what `Decode` makes of all the bytes received,
whenever it waits for the next chunk. Its
invariant `Tracks` looks ahead: for every stream that goes on from the bytes parsed so
far, `Decode` gives what was queued and answered, followed by `Rest`, which depends only
on where in a message the handler is (`Place`). Each step of the parser then moves
something from the rest to what was done, and of the bytes received nothing is left
when a chunk is parsed. `NothingIsInvented` (`QueuedWasSent`) is about every moment, the
middle of a message and the time after the handler has left its loop: what was queued
is the start of what the client has sent. Both except a connection on which `recv()`
failed in the middle of a header (`torn`), where the code goes on with a byte less
(GearStreamClientHandler.cpp:61).

`Induction`: a set of numbers that holds 0 and with each number the next holds them
all (`Climb`). The library's induction theorems speak of a predicate as an operator, which
the provers cannot instantiate; a set is a term. `From` and `AfterLines`
are recursive functions, and such a function is a `CHOOSE`: it satisfies its equation
once some function is shown to, which is an induction of its own
(`FromEquation`, `AfterLinesEquation`).

Only model-checked: liveness, which with its fairness and `ENABLED` is out of the
prover's reach. These are `PushedIsExecuted` and `CallsReturn` of the pool and its owner;
`AcceptedIsSettled` and `StopLeadsToExit` of the output side; `SilentClientIsLeft` of a
connection; `StopEnds`, `OthersAreServed` and `ServerRecovers` of the server;
`StopCompletes` of the process. Every invariant and every action property of a run
that passes is the statement of a theorem, and so is the refinement of `Delivery`, which
has no fairness.

## 5. Not modelled

- `tcp::Client` and `GearStreamClientHandlerThread`: not linked into the daemon
  (src/CMakeLists.txt:33) and called by nothing in the repository. The second is an
  earlier version of the loop that `GearStreamClientHandler` models.
- `synced_stream`, `timer` and `sleep_duration` of thread_pool.hpp, and
  `setMaxDatabaseConnections`: no caller, or no effect on state but a delay.
- The options of the configuration whose values are CONSTANTS here, the wording of
  logs, the double fork of `daemonize` and the errors of the calls before it opens
  the pid file, which end the process before it has touched anything; errors of
  `lockf` other than a lock that is taken.
- A signal that arrives inside `syslog` or `malloc`, and a vector that a signal
  handler changes in the middle of an access: below the grain of the models, in
  which the handler runs between two steps.
- Bytes above 127 in what clients send. As a message type such a byte is a negative
  index (GearStreamClientHandler.cpp:109); in a header or a payload, where the code
  reads it as unsigned or copies it, it is a value like any other.
- The PHP client's socket library beyond what its `read`, `send` and `disconnect` do
  to the connection.

## 6. Plan

1. `MysqlGear`: GearServer, several client handlers and OutputHandler in one
   specification, for the order of the shutdown over both pools.
2. The arithmetic of `parallelize_loop` modulo the width of an unsigned loop index.
