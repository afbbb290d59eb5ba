# Verification of scalable-tcp-server

TLA+ models of the server and of the parts around it, TLC configurations that
check them on small instances, and proofs for the TLA+ proof system (TLAPS) of
the properties that hold for every value of the constants. Paths below are relative to the root of
the repository.

    tlc -config MCServer.cfg MCServer            check one run
    tlapm ServerProofs.tla                       check the proofs of one module

## 1. Inventory

### 1.1 Components, their state and their operations

| component | state | operations | modelled |
|---|---|---|---|
| `Server` (src/server) | acceptor, `sessions_` under `session_mutex_`, atomic `active_connections`, `max_sessions` | `start_accept`, `do_accept` and its handler, `add_connection`, `remove_session`, `stop`, `start_workers`; `remove_connection` (no caller) | `Server`; the accept handler step by step in `Connection` |
| `Session` (src/session) | socket, `stopped_`, `on_close_`, idle timer, Reader, Writer | constructor, `start`, `read_packet`, `on_packet`, `write_packet`, `stop`, `check_idle_timer` | `Connection` |
| `Reader` (src/network) | `packet_length_`, `packet_buffer_`, read timer, `weak_ptr` to the Session, reference to its socket | `read_length`, `read_body`, `check_read_deadline` and their handlers | `Connection`; the buffer in `Packet` |
| `Writer` (src/network) | `queue_buffer_`, write timer, `weak_ptr`, reference to the socket | `add_packet`, `write`, `check_write_deadline` and their handlers | `Writer` |
| `Packet` (common) | buffer, fields, `headers_` (spans into the buffer) | constructor, `parseSubHeaders`; `create` (no caller); getters | `Packet`; `PacketCodec` |
| `Application`, `main` | io_context, work guard, signals, Config, Logger, connection pool, Server | constructor, `run`, `stop`, `do_await_stop` (signals, reload) | `Application`; `stop` against open sessions in `Server` |
| `Config` | `root_`, the parsed JSON object | `load`, `reload`, typed getters | `Config`; reload under running workers in `Application` |
| `Logger` | level, stream, date of the open file | constructor, `log`, `openFileIfNeeded` | `Logger`, with its callers in `Application` |
| `Router`, `AuthHandler`, `AuthService`, `AuthRepository`, `AuthValidator`, `Validation` | none of their own; the connection pool and the tables of the database | `route`, `handle`, `login`, `selectUser`, `insertUser`; `updateUser` (never called) | `Login`; unreachable today, see 5 |
| `LanguageProvider` | `error_messages`, the texts by language and code | `load_language_files`, `load_language_file`, `error_code_to_text` | `LanguageProvider`; no caller |
| `ThreadPool`, `BufferPool`, src/services | none (empty) | none | no |

### 1.2 How they interact

All of the server runs in handlers of one `io_context`, on `thread_count`
worker threads (2 in `config.json`). Each socket has a strand: handlers of a
Reader, a Writer and the idle timer of one session never overlap. Three things
do not run on it: the accept handler, which constructs, starts and registers
the session; callers of `write_packet`; and the signal handler, which reloads
the configuration, or closes the acceptor and stops the context.

The constructors of Server, Session, Reader and Writer read `Config::root_`,
and `main()`, the accept handler and the signal handler write to the Logger's
one stream, all without a lock. A login is a coroutine on the strand of its
Session; the logins of all Sessions share the connection pool.

Ownership carries the control flow. A Session is kept alive by `sessions_`, by
the handler of its idle wait, by the accept handler while that runs, and by a
handler inside `stop()`. A Reader is kept by its own pending read and by its
own timer wait, and reaches the Session through a `weak_ptr`, but its socket
through a plain reference. `stop()` closes the socket, cancels the idle timer
and calls back `Server::remove_session`.

### 1.3 Which behaviours are hard

- `start()` on the accept handler's thread against the handlers it sets off.
- The two halves of `expires_after` (cancel, then store), the wait chains that
  start again after `operation_aborted`, and waits that have already expired.
- A session that stops while, or before, it is registered; the order in which
  the owners of a session let go; handlers that outlive it.
- Capacity, a chain of accepts that must never break, shutdown at any moment.
- Posts, write completions and the write deadline in any order.
- Sizes chosen by a peer and 16 and 32 bit arithmetic in the parser.
- A reload between the reads of one constructor, or of a file that is broken;
  a configuration that makes a getter throw, wherever it is read.
- A new day, or a file that cannot be opened, while several threads log.
- More logins than database connections, and each of their awaits failing.
- Exceptions that leave a handler end the worker, and with it the process.

`PROJECT.json` lists each hazard with its line and the properties aimed at it.

### 1.4 What makes each component correct

- Server: never more than `max_sessions` sessions; every running session is in
  `sessions_`, no closed one is; every client is dealt with; shutdown ends.
- Session and Reader: started once, stopped at most once, removed after it;
  a read is never pending without a deadline or without a session; a started
  session stops, a stopped one is released.
- Writer: packets reach the wire whole, once and in order; a queue that is not
  empty is being written; the deadline is that of the write.
- Packet: it reads inside its buffer, its spans tile the header, it accepts
  the documented format only, and it always ends; the getters return what the
  peer sent, and what they return can be sent again.
- Application, Config and Logger: the program works with a configuration that
  was loaded as a whole, and each Session with one (which a reload can break);
  a reload takes effect, whether earlier ones succeeded or not; a stop signal
  ends the program; lines are not lost, and `main()` logs alone.
- Login: connections come back to the pool in every way a login can end, a row
  comes from credentials that the database takes as a user's, logins end and release their Session.
- LanguageProvider: the texts of a language are those of one file.

## 2. The modules

| module | models |
|---|---|
| `SteadyTimer` | `boost::asio::steady_timer` as operators on a record: stored expiry, state of the one outstanding wait, and the due time with which that wait was queued |
| `Connection` | one accepted connection: accept handler, Session, Reader |
| `ConnectionLife` | what a connection promises the server (abstract) |
| `Server` | accept chain, sessions, shutdown, worker threads |
| `Writer` | queue, posts, write and write deadline of one session |
| `FifoChannel` | what the Writer promises (abstract) |
| `Packet` | constructor of `Packet` and `parseSubHeaders` |
| `PacketCodec` | `Packet::create`, the conversions and the getters of a parsed packet |
| `Config` | values of JSON, `load`, the typed getters and when they throw |
| `Logger` | the steps of `log` as callers on several threads interleave them |
| `Application` | `main()`, signal handler, accept handler on one Config and Logger |
| `Login` | a login from the packet to the row in `login_sessions` |
| `LanguageProvider` | the table of error texts |
| `PacketFormat` | the sub header format of `packet.hpp`, against which parser and getters are held |
| `MCConnection`, `MCServer`, `MCApplication`, `MCLogin` | instances for TLC, and the statements that the code does not keep |
| `MCReceiver`, `MCSessions` | instances for TLC of `Connection` with the parser, and of the logins with the `Writer` |
| `ConnectionProofs`, `ServerProofs`, `WriterProofs`, `PacketProofs`, `ApplicationProofs`, `LoginProofs`, `LanguageProofs` | theorems and proofs |

How they compose: `Connection` implements `ConnectionLife`
(`Connection!LifeContract`), and each connection inside `Server` is a
`ConnectionLife` (`Server!ConnectionsLive`), so `Server` may leave sockets,
timers and packets out of its sessions. `Writer` implements `FifoChannel`.
`Connection` and `Writer` share `SteadyTimer`. `Application` is composed of
`Config` and `Logger` by EXTENDS: its actions are made of their operators. It
takes the accept handler as what that does to the configuration and the log,
while `Server` takes it as what it does to sessions, so the two modules meet
only in the control of that handler and in `StopContext`.

Three modules for TLC put components side by side that share no state:
`MCLogin` has `Login` and `LanguageProvider`, `MCSessions` those and `Writer`,
`MCReceiver` has `Connection` and `PacketFormat`. In each a behaviour is one of
either component while the other rests in its initial state or, in the parser,
after one buffer, so nothing of either is left out and no interleaving that
could not matter is added.

### 2.1 Connection

`handler` is the program counter of the accept handler; the steps of `start()`
are separate where another thread can see the difference: cancelling a timer,
storing its expiry, starting the read, `sessions_.insert`. The strand's
handlers are atomic except `stop()`, whose call of `on_close_` takes the
server's mutex and is a step of its own (`RemoveSession`). A handler needs a
free worker thread: `Busy` counts the threads inside a handler, so with
`ThreadCount = 1` the accept handler runs to its end before anything else.

| action | code |
|---|---|
| `ConstructSession`, `ConstructorThrows` | `server.cpp:98-106`, `session.cpp:22-51` |
| `StartCancelIdle`, `StartArmIdle` | `session.cpp:56` |
| `StartCancelRead`, `StartArmRead`, `StartRead` | `reader.cpp:34-38` |
| `InsertSession`, `ReleaseSession` | `server.cpp:108-114` |
| `CheckIdleTimer`, `CheckReadDeadline` | `session.cpp:88-103`, `reader.cpp:128-149` |
| `LengthRead`, `BodyRead`, `ReadFailed` and the two early returns | handlers of `reader.cpp:30-126` |
| `Stop`, `RemoveSession` | `session.cpp:73-86`, `server.cpp:137-142` |

`SessionAlive` is the disjunction of the owners named in 1.2. A use of the
socket after the last of them is gone is undefined: the handler finds a closed
socket, or the process crashes (`fault = "segv"`).

`CtorOutcomes` is there because the constructor of `Session` calls
`shared_from_this()`, which throws under C++17 and later: the server as it is
ends with the first client (run `ctor_throws`). With `"throws"` alone there
would be nothing more to check. `"returns"` is the same code with that one
call working as it was meant to; the passing runs allow both outcomes.

### 2.2 Server

`accept` is the one outstanding `async_accept` or its handler, `phase[c]` how
far that handler has come with connection `c`, `session[c]` the Session.
`add_connection` is one step: its load and its increment are separate in the
code, but its only caller is the accept chain, and `OneChain` in
`ServerProofs` shows that one handler of that chain runs at a time. That there
always is one until the acceptor is closed is `AcceptChainUnbroken`: every path
through the handler must end in the one `do_accept()` (`server.cpp:132`).
`StopServer` and `StopContext` are `Application::stop`; after `StopContext`
no handler begins any more, and those inside one finish.

### 2.3 Writer

`posts` are the functions given to the strand, `queue` is `queue_buffer_`,
`write` the outstanding `async_write`. `submitted` and `wire` are history
variables. A handler that finds the socket closed returns and leaves the queue
as it is; later posts are added to that queue.

### 2.4 Packet

The buffer is kept as its size, the three fields that decide what happens, and
the bytes of its header area. Each round of `parseSubHeaders` is a step.
The sub header size is read in host byte order, as the code does
(`packet.cpp:152`), little endian on the platforms the server runs on.

### 2.5 PacketCodec

`Version`, `PacketType` and `PayloadSize` are the getters of a parsed packet,
`CreateThrows` and `CreateFields` what `create` does with an OutgoingPacket. A
`std::optional` is a set with at most one member. `SubHeaderGetUint8`, `...32`
and `...String` look at the first sub header of their type only
(`packet.cpp:209`).

`PacketFormat` states the documented format on the bytes alone, without an
order of reading them: a header area is of the format if there is a set of
offsets that contains its beginning and, with each offset but the end, the end
of the sub header that starts there (`CutsHeader`). The first sub header of a
type is the first such offset that no cut can do without. `AcceptsTheFormat`
and `GettersFollowTheWire` hold parser and getters against that.

### 2.6 Config and Logger

A JSON value is a record with its kind. An integer that only a `uint64` holds
is a kind of its own, because `as_int64()` throws for it; `ToInt` is the cast
to `int` and wraps. `GetBoolThrows` and `GetBool` follow `config.cpp:105`, where
the branches are the wrong way round.

`call[c]` is where caller `c` is inside `log()`; `BeginLog` compares and
replaces the date, `CloseFile` and `OpenFile` are the rest of
`openFileIfNeeded`, `WriteLine` the output. The stream is its state: the day of
its file (`openDay`) and whether it has failed (`bad`). `refused` remembers
that the system refused the file of the day.

### 2.7 Application

| action | code |
|---|---|
| `ConstructConfig`, `MakeParams`, `AwaitSignals`, `LoadAgain`, `ConstructLogger` | `application.cpp:14-40`, `config.cpp:14-52`, `logger.cpp:15-33,74-113` |
| `ReadSettings`, `Listen` | constructor of Server, `server.cpp:33-52` |
| `MainLogs`, `StartAccept`, `StartWorkers`, `JoinWorkers` | `application.cpp:50-61`, `server.cpp:56-75`, the lines logged meanwhile |
| `BeginSignal`, `Reload`, `AssignRoot` | `application.cpp:72-107`, `config.cpp:20-57` |
| `SignalLogs`, `CloseAcceptor`, `StopContext` | `application.cpp:63-70`, `server.cpp:144-149` |
| `BeginAccept`, `AcceptLogs`, `ReadTimeout`, `StartSession` | the accept handler and the constructors of Session, Reader and Writer |
| `EditFile`, `SignalArrives`, `DayPasses`, `StreamRace` | the surroundings |

`main` is the next step of `main()`; a step may throw, and every exception
thrown there ends in the catch clause (`main = "exited"`), while one out of a
worker ends the process (`fault`). `root` is named by the file it was loaded
from. `sources` collects the files that the three timeouts of one Session come
from. A read of `root_` during its assignment finds the old object, the new
one or none, or crashes; two callers in the stream may crash.

A signal that arrives while an `async_wait` is outstanding completes that wait
(`sig` becomes `got_hup` or `got_term`), and `BeginSignal` calls its handler.
One that arrives later is kept in `pending` until `DoAwaitStop`, which each
handler but the last ends with and which takes the lowest number first.

The constructor of Session returns here: that it throws is `Connection`'s
matter, and with it there would be nothing to see after the first client.

### 2.8 Login

| action | code |
|---|---|
| `OnPacket` | `session.cpp` on_packet, `router.cpp` route, `auth_handler.cpp` handle |
| `Validate` | `auth_service.cpp:34-46`, `validation.cpp` |
| `GetConnection`, `GetConnectionFails` | `auth_service.cpp:50` |
| `SelectUser`, `InsertUser`, `QueryFails` | `auth_service.cpp:53-74`, `auth_repository.cpp:21-59` |
| `StopSession`, `Deactivate` | `Session::stop`; somebody else's statement on `users` |

`login[l]` is the await at which coroutine `l` is. `Return` is every way out:
the frame is destroyed and with it the `pooled_connection`. Preparing a
statement and executing it are one step, as nothing is kept in between.
`Insertable` is what the keys of `schema.sql` demand of a row. The number that
MySQL reads from a `user_id` is a constant function, `NumberOf`. The SELECT
compares `user_id` and `password_hash` under the collation of the database,
utf8mb4_unicode_ci (`schema.sql:1-3`): `Collate` maps a string to the one that
stands for all that are equal to it, without regard to case, accents and
trailing blanks, and `HasCredentialsOf` compares what it returns.
The address in a row is asked of the socket between the two statements, and is
not the peer's only if the Session was stopped by then (`RowsAreAuthenticated`).

### 2.9 LanguageProvider

A JSON object is the sequence of its members, each with the number that
`std::from_chars` finds at the start of its key. `LoadLanguageFile` reads the
file and enters `save_errors`, `SaveMember` is one round of its loop, which
fills the local `map` and may throw, and `SaveErrors` its last statement, which
replaces the table of the language. Files may change between any two of these
steps, and loads may come in any order, since nothing calls the class yet.
`obtained` remembers which contents a load has found.

## 3. The runs

| run | question | result |
|---|---|---|
| `connection_one_thread` | deadlines, end of every session, release of everything, 1 thread | holds |
| `connection_threads` | the contract `ConnectionLife`, no read without a session, 2 threads; bounds, format and end of the parser; getters; `create` | holds |
| `server` | capacity, tracking, the accept chain, contract of every connection, every client served, shutdown, 2 threads | holds |
| `sessions` | FIFO contract, no lost packet, deadline, delivery; pool, rows and end of logins; texts of one file | holds |
| `application` | start, reload and stop of the process, the Logger's callers, any configuration | holds |
| `ctor_throws` | does accepting a client end the server? | it does |
| `stale_read_expiry` | does only a passed deadline stop a session? | no |
| `ghost_session` | do stopped sessions leave `sessions_` with 2 threads? | not always |
| `counter_never_falls` | are clients rejected only when the server is full? | no |
| `mixed_configuration` | does a Session take its timeouts from one file with 2 threads? | not always |
| `reuse_address` | does the server set the `reuse_address` of the file? | no |
| `valid_requests` | do requests with a valid id and valid lengths pass the tests? | no |

The last seven quote a document, a comment or a message of the repository that
TLC finds the code not to keep; `findings` in `PROJECT.json` retells each.
Today's program shows `ctor_throws` and `reuse_address`. The counterexamples of
`stale_read_expiry`, `ghost_session`, `counter_never_falls` and
`mixed_configuration` need a constructor of Session that returns (2.1), and
`valid_requests` a packet type that is read as Auth (5).

`NoGhostSession` and `PendingReadHasDeadline` hold with one worker thread and
are proved for it; with two the run `ghost_session` refutes the first, and
section 5 tells how the second fails.

Bounds and why they are enough:

- Timeouts of 1 to 3 seconds. Only the order of expiry, completion and new
  deadline matters, and countdown timers make the clock finite; the idle
  timeout is longer than the read timeout, as in `config.json`.
- `ThreadCount` 1 and 2: one thread serialises handlers, two already run the
  accept handler beside the one strand of the connection. In `Connection` a
  third thread has nothing to do, as there are only two places to be in.
- Four connections, `MaxSessions` 2: the limit is reached with clients left,
  while one session runs, one closes and one is being accepted. The run
  `server` has two workers also for the shutdown, because with one the worker
  that runs the signal handler is the only one to stop; with two the other may
  be anywhere in the accept handler or in a session's `stop()`.
- Three packets of two kinds: one on the wire, one in the queue, one posted;
  with equal packets a doubled one would go unnoticed, hence two kinds.
- Header areas of up to 7 bytes: two sub headers, of which one has a value,
  with every way to cut them off; byte values cover sizes below, at and above
  what is left, the high byte of a size, known and unknown types, and a value
  of four bytes for the 32 bit getter. The maximal sizes are scaled down; the
  proofs of `PacketProofs` hold for all of them.
- Eight contents of `config.json`, each there to make some getter succeed,
  return its default or throw, with 0, 1, 2 and a negative number of threads;
  `MaxEdits` 1, so that a file is loaded, replaced and loaded again; `MaxDay` 2,
  so that the log changes files once; `IntLimit` 8, so that 8 wraps to -8. The
  proofs of `ApplicationProofs` hold for all of them. The runs
  `mixed_configuration` and `reuse_address` have two files, both like
  `config.json` with its two threads, that differ in `read_timeout_seconds`.
- Seven packets of two Sessions and `PoolSize` 1: up to four logins reach the
  database and wait for its one connection. One has the credentials of a user
  as they are stored, one has them up to a trailing blank and to case, one has
  a wrong password, and one a user_id that is no number and that only its
  trailing blank takes past the tests. One is valid and turned away, and two
  never start a login.
- Six contents of `en.json`: complete, a key given twice, a key that no code
  holds (`MaxCode` 4), a value that is no string, no JSON and no file.

`CHECK_DEADLOCK FALSE` is set where the program may really stop: after an
uncaught exception or a shutdown, or when nothing is left to do.

### 3.1 Fairness

- Handlers that are ready run: `io_context::run()` keeps taking them. Hence
  weak fairness of the handlers of the accept chain, of the strand and of the
  posts. It is weak, because nothing but running a handler disables it.
- Due timers are collected and time passes: weak fairness of `...Fires` and
  `Tick`.
- `SF` of completing an accept in `Server`: accepting may fail for a while,
  for want of descriptors, but not whenever it is tried. After each failure
  the chain accepts again, so the step is enabled again and again and not
  continuously.
- In `Application`, weak fairness of `main()` and of the steps of a handler that
  runs, and strong fairness of `BeginSignal`: the queue of an io_context is
  first in, first out, so the signal handler is run although accept handlers
  compete for the worker. Nothing is assumed of edits, signals or clients.
- In `Login`, weak fairness of each coroutine: the database answers or fails,
  and an idle connection is given to somebody who waits. The pool need not
  report an error to those who wait, so `GetConnectionFails` has none.
- Nothing is assumed of peers, of packets, of clients or of signals: a peer
  may be silent or send for ever, a client need not come, no signal has to.

## 4. The proofs

| theorem | property | assumes |
|---|---|---|
| `ConnectionProofs!TypeCorrect` | `TypeOK` | |
| `ConnectionProofs!ReadsHaveASession` | `NoPendingReadWithoutSession` | |
| `ConnectionProofs!ConnectionImplementsLife` | `LifeContract` | |
| `ConnectionProofs!OneThreadLeavesNoGhost` | `NoGhostSession` | `ThreadCount = 1` |
| `ConnectionProofs!OneThreadKeepsDeadlines` | `PendingReadHasDeadline` | `ThreadCount = 1` |
| `ConnectionProofs!OneThreadWaitsAreFinite` | `IdleWaitEnds` * | `ThreadCount = 1` |
| `ConnectionProofs!OneThreadSessionsRunDown` | `SessionRunsDown` * | `ThreadCount = 1` |
| `ConnectionProofs!OneThreadSessionsAreHeld` | `HeldWhileOpen` * | `ThreadCount = 1` |
| `ServerProofs!TypeCorrect` | `TypeOK` | |
| `ServerProofs!RunningSessionsAreTracked` | `SessionsTracked` | |
| `ServerProofs!CapacityIsRespected` | `CapacityRespected` | |
| `ServerProofs!EveryConnectionLives` | `ConnectionsLive` | |
| `ServerProofs!OneThreadLeavesNoGhost` | `NoGhostSession` * | `ThreadCount = 1` |
| `ServerProofs!ChainNeverBreaks` | `AcceptChainUnbroken` | |
| `ServerProofs!OnlyMaxSessionsEver` | `LifetimeLimit` * | |
| `ServerProofs!WorkersAreEnough` | `WorkersBounded` * | |
| `ServerProofs!ShutdownOnlyDrains` | `StoppedWorkersDrain` * | |
| `WriterProofs!TypeCorrect` | `TypeOK` | |
| `WriterProofs!NoPacketIsLost` | `NothingLost` | |
| `WriterProofs!QueueNeverStalls` | `QueueIsWritten` | |
| `WriterProofs!WriterImplementsChannel` | `FifoContract` | |
| `WriterProofs!DeadlineIsTheWrites` | `DeadlineFollowsWrite` | |
| `WriterProofs!WireFollowsSubmissions` | `WireIsAPrefix` * | |
| `WriterProofs!WritesAreFinite` | `WriteEnds` * | |
| `WriterProofs!DeadlineOnlyNears` | `WriteRunsDown` * | |
| `PacketProofs!TypeCorrect` | `PacketTypeOK` | |
| `PacketProofs!ReadsStayInBuffer` | `AreasInBuffer` | |
| `PacketProofs!SpansStayInHeader` | `SpansTileHeader` | |
| `PacketProofs!PacketsCanBeRepeated` | `CreateRepeatsThePacket` | |
| `PacketProofs!CreatedFieldsAreRead` | what `create` writes, the constructor reads * | |
| `PacketProofs!ParserDecidesTheFormat` | `AcceptsTheFormat` | |
| `PacketProofs!GettersReadTheWire` | `GettersFollowTheWire` | |
| `PacketProofs!ParserMakesProgress` | `RoundsConsume` * | |
| `ApplicationProofs!TypeCorrect` | `TypeOK` | |
| `ApplicationProofs!OnlyLoadedFilesAreServed` | `ServesALoadedFile` | |
| `ApplicationProofs!OneWorkerLosesNoLine` | `LinesReachTheFile` | |
| `ApplicationProofs!MainIsNeverInARace` | `MainLogsAlone` | |
| `ApplicationProofs!SignalsAreAlwaysAwaited` | `SignalsAreServed` * | |
| `ApplicationProofs!ShutdownNeverTurnsBack` | `ShutdownGoesOn` * | |
| `LoginProofs!TypeCorrect` | `LoginTypeOK` | |
| `LoginProofs!ConnectionsComeBack` | `PoolConserved` | |
| `LoginProofs!NoRowWithoutCredentials` | `RowsAreAuthenticated` | |
| `LoginProofs!LoginsOnlyAdvance` | `OnlyForward` * | |
| `LoginProofs!PoolNeverDeadlocks` | `NoPoolDeadlock` * | |
| `LanguageProofs!TextsComeFromOneFile` | `TextsOfOneFile` | |

The properties marked * are defined beside their theorem and no run checks
them. `LinesReachTheFile` speaks of at most one worker thread itself; with
more the race of `log` with itself is there (section 5), so a theorem about
any number of threads would be false.

The constants are only assumed to be what the modules' `ASSUME`s say (natural
timeouts, at least one thread, a finite set of connections, bytes below 256,
a maximal header size that fits a `uint16_t`, an integer where a file has an
`int64`, finitely many logins, natural user ids, any collation, sequences of members in the
language files). TLC evaluates them in the runs.

The inductive invariants and why they are needed:

- `Connection`: `Owned` ties the owners of the Session to the progress of the
  accept handler and of `stop()`: until `stop()` has run, the accept handler,
  `sessions_` or the idle wait owns the Session, and a closed socket has no
  pending read. `Serial` says that with one thread no handler of the strand
  has run before the accept handler is done; without it neither the missing
  ghost nor the deadline is inductive. `Timely` says for one thread that the
  wait of a timer is as long as its expiry from the statement of `start()` on
  that sets it (`Punctual`); without it the time that is left could grow when a
  cancelled wait starts again, as it does with two threads.
- `Server`: `OneChain` says that at most one connection is between acceptance
  and insertion, and that it is the one the running handler holds; `Counted`
  that the counter equals the number of admitted connections, with which the
  capacity follows; `StopsAfterInsert` is `Serial` for each connection.
  `AcceptChainUnbroken` is inductive with the type invariant, because its last
  three conjuncts tie the state of the chain to the one connection it holds.
  `WorkersBounded` counts the handlers with the library's facts about
  cardinality: one inside the chain and those in `Closing`.
- `Writer`: `WritesFront` (an outstanding or finished write has a packet in
  the queue), `PacketInv` (the equation `submitted = wire \o Unsent \o posts`,
  with `QueueIsWritten`), and `DeadlineInv`, which also speaks of waits that
  were cancelled and will be started again with the stored expiry.
  `WaitsForWrite` adds that the pending wait is that of the stored expiry, with
  which the deadline of a write only comes nearer. The equation ends with the
  connection; that the wire is a prefix (`WireIsAPrefix`) outlives it, because
  nothing is written on a closed socket.
- `Packet`: `HeaderArea` keeps the constructor's checks for the loop; together
  with `SpansTileHeader` it makes the 16 bit sum exact. The checks it keeps are
  those of `create`, from which `CreateRepeatsThePacket` follows. For the format
  `FormatInv` adds that every span found so far begins a sub header on the wire
  where the one before ends (`SpansReadTheWire`) and that no cut of the area can
  avoid the ends of the spans (`CutsHoldSpans`): if the parser gets to the end,
  its spans are a cut and the only one, and if it stops, there is none.
- `Application`: `HandlersInv` says that handlers run only while `main()` waits
  in `join` and never more of them than there are workers, `ThreadsInv` that
  there are none before; with `CallersInv`, that whoever is inside `log()` is
  at a step that logs, `MainLogsAlone` follows for any number of workers, and
  `OneCaller` shows that with at most one whoever logs is alone. `StreamSound`
  is the state of the stream between the steps of such a caller. `LoadedInv`
  carries the success of a load over to its assignment. `SignalsInv` follows
  `main()` to the statement that installs the signal handler.
- `Login`: `Progress` says that a login came from a packet for one, and what
  the SELECT has found of it by the time it reaches the INSERT, `OneRow` that the table is empty or has one row, whose login has ended.
  `PoolConserved` is inductive with the type invariant; its proof counts the
  set `Holding` with the library's facts about cardinality, and since the pool
  is not empty, an empty pool has a holder (`NoPoolDeadlock`).
- `LanguageProvider`: `LoopInv` says what the loop of `save_errors` has gathered
  after its first `position` members, `TablesInv` that each table is what the
  loop gathers of a whole file.

`ConnectionImplementsLife` and `WriterImplementsChannel` follow from a
simulation lemma: initial states map to initial states, every step to a step
of the abstract module or to a stutter.

Only model-checked are the liveness properties, because fairness and ENABLED
are out of the prover's reach. What is proved of each is the part that holds
without fairness: that what is left to do only becomes less, and that somebody
is there to do it.

| liveness property | proved for all constants |
|---|---|
| `StartedSessionStops` | `IdleWaitEnds`: the idle wait is there and within its timeout; `SessionRunsDown`: no packet defers it (one thread) |
| `StoppedSessionReleased` | `SessionRunsDown`: after `stop()` no wait and no read begins again; `HeldWhileOpen` (one thread) |
| `BacklogServed` | `AcceptChainUnbroken`: the chain always has its next step |
| `ShutdownCompletes` | `StoppedWorkersDrain`: no worker begins another handler |
| `PacketsDelivered` | `WireIsAPrefix`, `WriteEnds`, `WriteRunsDown`: in order, and no write is held up beyond its deadline |
| `ParserTerminates` | `RoundsConsume` with `SpansTileHeader`: every round consumes bytes of a bounded area |
| `StopSignalEndsProgram` | `SignalsAreServed`, `ShutdownGoesOn`: a signal finds its handler, and what it has begun goes on |
| `LoginsEnd` | `OnlyForward`, `NoPoolDeadlock`: a login has a few steps to go, and one that waits for the pool waits for one that runs |

`ReloadTakesEffect` has no such part beyond `OnlyLoadedFilesAreServed`.

## 5. Deviations

Things the code does that a reader of its documents, names or comments would
not expect, met while modelling. The models follow the code.

Server, Session, Reader and Writer:

- `idle_timeout_seconds` (`config.json:31`): only the first read sets the idle
  timer (`session.cpp:56`; the Reader continues by itself, `reader.cpp:115`),
  so a busy session is stopped too. `StartedSessionStops` relies on it.
- With two threads a read can lose its deadline: `expires_after` cancels the
  wait, the strand's handler starts it again with the old, infinite expiry, and
  the expiry stored then (`reader.cpp:34`) is waited for by nobody.
- The deadline of a write can be hit by a stale expiry like that of a read.
- Handlers of an aborted read or write touch the socket of a Session that may
  be gone (`reader.cpp:98`, `writer.cpp:59`) before they lock the `weak_ptr`:
  the variables `dangling`, and the fault `segv`.
- Nothing cancels the write timer when a session stops: the Writer of a
  connection that closes with nothing to write is never released.
- The signal handler closes the acceptor while the accept handler may ask it
  whether it is open (`server.cpp:83,147`), without a lock.

Packet:

- The Reader checks the length without the 4 bytes it adds
  (`reader.cpp:48,84`), so a buffer may exceed `MAX_PACKET_SIZE` by 4, although
  `packet.cpp:38` says the Reader validates the size.
- `create` counts the length field in `packet_size` (`packet.cpp:110`), the
  Reader does not: it would wait for 4 bytes more than `create` has sent.
- `packet_type_from_byte` reads 1 as Text while `packet_enums.hpp:19` numbers
  Auth 1, and no byte is read as the sub header Action (`packet.cpp:275,349`);
  so no packet is ever a login. `create` takes Auth and Account all the same and
  writes a 0 that no constructor accepts (`CreatedFieldsAreRead`).
- Flags are neither checked nor kept: any are read as None and written as 0
  (`packet.cpp:364-372`), and the test at line 60 is never true.

Application, Config and Logger:

- `get_bool` (`config.cpp:105`) returns its default for a boolean
  (`reuse_address`) and throws for anything else: leaving the key out prevents
  the start.
- `thread_count` 0 ends the program at once; a negative one starts threads until
  the system refuses, and the unjoined ones terminate the process. A number
  that only a `uint64` holds throws: at the start out of `main()`'s `try`, in a
  timeout after a reload out of a worker.
- With two threads a reload races with the constructors of a Session, which may
  mix two files (`mixed_configuration`) or crash, and `log` races with itself: a line may be lost or
  the stream corrupted. A file that could not be opened is not tried again that
  day, since the date is replaced first (`logger.cpp:120`).
- A stop signal that arrives while the handler is at work waits behind every
  SIGHUP that does, as the signals kept are delivered lowest number first:
  `StopSignalEndsProgram` excludes endless SIGHUPs.
- A signal that comes before `signals_.add` ends the process by default.

Login and LanguageProvider:

- The tests of a request are the wrong way round (`auth_service.cpp:34-45`):
  each ends the login when it is true, and `isValidUserId` is true for a valid
  id (`valid_requests`). What remains are ids that do not match the expression.
- A login need not give the stored id and password to the letter: the database
  compares both without regard to case and trailing blanks, the hash included.
- Every login uses the key `"session_id"`, so the second row is refused; the row
  holds the number that MySQL reads from the user_id, not the id of the user.
- `last_insert_id()` is 0 for a table without AUTO_INCREMENT, so `insertUser`
  returns false and `updateUser` is not called; it would not be awaited
  (`auth_service.cpp:62`), and its statement says UPDDATE.
- `save_errors` looks the language up by the name of its file
  (`language_provider.cpp:118`), which is no language, and falls back to English.
- The view that `error_code_to_text` returns dangles after the next load.

## 6. Not modelled, and what could come next

Left out: contents of payloads, wording of log lines, socket options, the texts
of SQL and JSON, empty classes (`ThreadPool`, `BufferPool`, src/services), the
kernel's TCP, what the connection pool does on its own (health checks,
reconnecting), and destructors at the end of `main()`. `updateUser`,
`LoginResponse`, the error codes, `isValidEmail` and `check_language` are used
by nothing that can run. Data races on the acceptor are taken as one of the two
orders. Threads are created in one step, and of several signals of one kind
that are pending one is kept, which a handler cannot tell apart.

`write_packet` is modelled as posts to the Writer, not as a use of the idle
timer off the strand: it has no caller, and how it would be called is not
known. A caller should be modelled together with it.

What could come next: the composition of `Server` with `Connection` as one
theorem instead of two with a common contract, and the reply to a login, once
the code has one.
