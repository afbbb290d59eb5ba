----------------------------- MODULE Application ----------------------------
(***************************************************************************)
(* The process: main() constructs the Application, runs it and returns;    *)
(* meanwhile config.json is edited, signals arrive, and the worker threads *)
(* run the signal handler and the accept handler, which both use the       *)
(* Config and the Logger without a lock.                                   *)
(*                                                                         *)
(* The other handlers of the workers use neither.  The constructors of     *)
(* Session, Reader and Writer return here (see module Connection).         *)
(***************************************************************************)
EXTENDS Config, Logger

CONSTANTS
  Files,        \* what config.json may hold: a function from names to files
  GoodPaths,    \* the values of logging.file that getFileFolders() accepts
  GoodAddresses,\* the values of server.address that make_address() accepts
  MaxEdits      \* bound: how often config.json is edited

ASSUME ApplicationAssumption ==
  /\ MaxEdits \in Nat
  /\ \A d \in DOMAIN Files :
       /\ "kind" \in DOMAIN Files[d]
       /\ LET v == FindKey(Files[d], <<"thread_pool", "thread_count">>)
          IN  v.kind = "int64" => v.int \in Int
  /\ "none" \notin DOMAIN Files
  /\ Callers = {"main", "accept", "signal"}

VARIABLES
  fault,      \* what ended the process, other than main() returning
  main,       \* the next step of main()
  threads,    \* the worker threads that start_workers() has started
  file,       \* config.json, by its name in Files
  edits,      \* how often it was edited
  root,       \* Config::root_, by the name of the file it was loaded from
  acceptor,   \* acceptor.is_open()
  acc,        \* what the accept handler does
  sources,    \* the files that the timeouts of the new Session come from
  sig,        \* what the signal handler does, see SignalSteps
  loaded,     \* the file that reload() is about to assign to root_
  pending,    \* signals that arrived while no async_wait was outstanding, a
              \* set: one that is counted twice may as well arrive twice
  stopped     \* io_context_.stop() was called

configVars == <<file, edits, root>>
serverVars == <<threads, acceptor, acc, sources>>
signalVars == <<sig, loaded, pending, stopped>>
vars == <<fault, main, configVars, serverVars, signalVars, loggerVars>>

Documents == DOMAIN Files \cup {"none"}

\* The steps of main(), in order.  A step of MainLogs is followed by the one
\* that AfterLog names.
AfterLog ==
  [initializing   |-> "settings",
   endpoint       |-> "listen",
   listening      |-> "started",
   started        |-> "running",
   running        |-> "accept",
   server_stopped |-> "exited"]

MainSteps == {"config", "params", "signals", "load", "logger", "settings",
              "listen", "accept", "workers", "join", "exited"} \cup DOMAIN AfterLog

\* none      - signals_ is empty
\* waiting   - async_wait is outstanding
\* got_hup   - it has completed with SIGHUP, and its handler is queued, or
\* got_term  - with one of the signals that stop the program
\* ended     - stop() has returned, and no async_wait follows
\* The other steps are those of a handler that is running.
NoSignalHandler == {"none", "waiting", "got_hup", "got_term", "ended"}
SignalSteps == NoSignalHandler \cup
  {"reload", "assign", "log_shutdown", "log_stop", "close", "stop"}

TypeOK ==
  /\ LoggerTypeOK
  /\ fault \in {"none", "killed", "terminate", "uncaught", "segv"}
  /\ main \in MainSteps
  /\ threads \in 0 .. IntLimit - 1
  /\ file \in DOMAIN Files
  /\ edits \in 0 .. MaxEdits
  /\ root \in Documents
  /\ acceptor \in BOOLEAN
  /\ acc \in {"none", "waiting", "log_session", "log_only", "idle", "read", "write", "start"}
  /\ sources \subseteq Documents
  /\ sig \in SignalSteps
  /\ loaded \in Documents
  /\ pending \subseteq {"hup", "term"}
  /\ stopped \in BOOLEAN

\* What the getters read: root_ is empty before the first load().
Settings(d) == IF d = "none" THEN Object(<<>>) ELSE Files[d]

Str(key) == GetString(Settings(root), key, "")

Ended == fault # "none" \/ main = "exited"

Init ==
  /\ LoggerInit
  /\ fault = "none"
  /\ main = "config"
  /\ threads = 0
  /\ file \in DOMAIN Files
  /\ edits = 0
  /\ root = "none"
  /\ acceptor = FALSE
  /\ acc = "none"
  /\ sources = {}
  /\ sig = "none"
  /\ loaded = "none"
  /\ pending = {}
  /\ stopped = FALSE
-----------------------------------------------------------------------------
(* main().  Every exception of the constructor and of run() ends in its    *)
(* catch clause, and main() returns.                                       *)

MainStep(from, to) ==
  /\ ~Ended
  /\ main = from
  /\ main' = to

\* The constructor of Config ignores whether load() succeeds.
ConstructConfig ==
  /\ MainStep("config", "params")
  /\ root' = IF LoadSucceeds(Files[file]) THEN file ELSE root
  /\ UNCHANGED <<fault, file, edits, serverVars, signalVars, loggerVars>>

MakeParams ==
  /\ MainStep("params", IF GetIntThrows(Settings(root), <<"database", "port">>)
                        THEN "exited" ELSE "signals")
  /\ UNCHANGED <<fault, configVars, serverVars, signalVars, loggerVars>>

\* do_await_stop(): async_wait completes with the lowest number, SIGHUP first,
\* among the signals that have arrived since the last one completed.
DoAwaitStop ==
  \/ /\ pending = {}
     /\ sig' = "waiting"
     /\ UNCHANGED pending
  \/ /\ "hup" \in pending
     /\ sig' = "got_hup"
     /\ pending' = pending \ {"hup"}
  \/ /\ pending = {"term"}
     /\ sig' = "got_term"
     /\ pending' = {}

\* signals_.add for each signal, and do_await_stop()
AwaitSignals ==
  /\ MainStep("signals", "load")
  /\ DoAwaitStop
  /\ UNCHANGED <<fault, configVars, serverVars, loaded, stopped, loggerVars>>

\* config_.load() once more, which must succeed this time
LoadAgain ==
  /\ MainStep("load", IF LoadSucceeds(Files[file]) THEN "logger" ELSE "exited")
  /\ root' = IF LoadSucceeds(Files[file]) THEN file ELSE root
  /\ UNCHANGED <<fault, file, edits, serverVars, signalVars, loggerVars>>

LoggerThrows ==
  \/ GetLevelThrows(Str(<<"logging", "level">>))
  \/ GetIntThrows(Settings(root), <<"logging", "flush_interval_seconds">>)
  \/ Str(<<"logging", "file">>) \notin GoodPaths

\* The constructor of Logger and getFileFolders()
ConstructLogger ==
  /\ MainStep("logger", IF LoggerThrows THEN "exited" ELSE "initializing")
  /\ configLevel' = IF LoggerThrows THEN configLevel ELSE Rank(Str(<<"logging", "level">>))
  /\ UNCHANGED <<fault, configVars, serverVars, signalVars, today, currentDate,
                 openDay, bad, refused, call>>

\* logger_->log(level), called by caller c between two steps of its own
Log(c, level) == (call[c] = "idle" /\ BeginLog(c, level)) \/ ContinueLog(c)

LogReturns(c) == call'[c] = "idle"

MainLogs ==
  /\ ~Ended
  /\ main \in DOMAIN AfterLog
  /\ Log("main", IF main = "started" THEN "Alert" ELSE "Info")
  /\ main' = IF LogReturns("main") THEN AfterLog[main] ELSE main
  /\ UNCHANGED <<fault, configVars, serverVars, signalVars>>

SettingsThrow ==
  \/ \E key \in {<<"server", "port">>, <<"server", "backlog">>,
                 <<"sessions", "max_sessions">>} : GetIntThrows(Settings(root), key)
  \/ GetBoolThrows(Settings(root), <<"server", "reuse_address">>)
  \/ Str(<<"server", "address">>) \notin GoodAddresses

\* The constructor of Server up to its endpoint
ReadSettings ==
  /\ MainStep("settings", IF SettingsThrow THEN "exited" ELSE "endpoint")
  /\ UNCHANGED <<fault, configVars, serverVars, signalVars, loggerVars>>

\* acceptor.open, set_option, bind and listen, each of which throws if the
\* system refuses
Listen ==
  /\ \/ MainStep("listen", "listening") /\ acceptor' = TRUE
     \/ MainStep("listen", "exited") /\ UNCHANGED acceptor
  /\ UNCHANGED <<fault, configVars, threads, acc, sources, signalVars, loggerVars>>

StartAccept ==
  /\ MainStep("accept", "workers")
  /\ acc' = "waiting"
  /\ UNCHANGED <<fault, configVars, threads, acceptor, sources, signalVars, loggerVars>>

ThreadCount == GetInt(Settings(root), <<"thread_pool", "thread_count">>, 0)

\* Seeded fault: the loop compares int with int, and the count is kept.
StartWorkersSigned ==
  /\ MainStep("workers", "join")
  /\ threads' = ThreadCount
  /\ UNCHANGED <<fault, configVars, acceptor, acc, sources, signalVars, loggerVars>>

\* start_workers(): a negative count is a huge size_t, and the threads that
\* are running when the next one cannot be created are never joined.
StartWorkers ==
  /\ ~Ended /\ main = "workers"
  /\ \/ /\ GetIntThrows(Settings(root), <<"thread_pool", "thread_count">>)
        /\ main' = "exited"
        /\ UNCHANGED <<fault, threads>>
     \/ /\ ThreadCount < 0
        /\ fault' = "terminate"
        /\ UNCHANGED <<main, threads>>
     \/ /\ ThreadCount >= 0
        /\ threads' = ThreadCount
        /\ main' = "join"
        /\ UNCHANGED fault
  /\ UNCHANGED <<configVars, acceptor, acc, sources, signalVars, loggerVars>>

Busy == (IF acc \in {"none", "waiting"} THEN 0 ELSE 1)
        + (IF sig \in NoSignalHandler THEN 0 ELSE 1)

\* Seeded fault: the workers are detached.
JoinWorkersForgotten ==
  /\ MainStep("join", "server_stopped")
  /\ UNCHANGED <<fault, configVars, serverVars, signalVars, loggerVars>>

\* Every join() returns when io_context::run() has returned in every thread.
JoinWorkers ==
  /\ MainStep("join", "server_stopped")
  /\ threads = 0 \/ (stopped /\ Busy = 0)
  /\ UNCHANGED <<fault, configVars, serverVars, signalVars, loggerVars>>
-----------------------------------------------------------------------------
(* The signal handler                                                      *)

CanRunHandler == ~Ended /\ main = "join" /\ ~stopped /\ Busy < threads

\* A worker calls the handler with the signal that its async_wait got.
BeginSignal ==
  /\ CanRunHandler
  /\ \/ sig = "got_hup" /\ sig' = "reload"
     \/ sig = "got_term" /\ sig' = "log_shutdown"
  /\ UNCHANGED <<fault, main, configVars, serverVars, loaded, pending, stopped, loggerVars>>

\* Seeded fault: do_await_stop() only after a reload that succeeds.
ReloadWithoutRearm ==
  /\ ~Ended /\ sig = "reload"
  /\ \/ /\ LoadSucceeds(Files[file])
        /\ loaded' = file
        /\ sig' = "assign"
     \/ /\ ~LoadSucceeds(Files[file])
        /\ sig' = "ended"
        /\ UNCHANGED loaded
  /\ UNCHANGED <<fault, main, configVars, serverVars, pending, stopped, loggerVars>>

\* Seeded fault: reload() does not ask whether the file opened and is JSON.
ReloadUnchecked ==
  /\ ~Ended /\ sig = "reload"
  /\ loaded' = file
  /\ sig' = "assign"
  /\ UNCHANGED <<fault, main, configVars, serverVars, pending, stopped, loggerVars>>

\* config_.reload() up to its last statement; if it fails, do_await_stop()
Reload ==
  /\ ~Ended /\ sig = "reload"
  /\ \/ /\ LoadSucceeds(Files[file])
        /\ loaded' = file
        /\ sig' = "assign"
        /\ UNCHANGED pending
     \/ /\ ~LoadSucceeds(Files[file])
        /\ DoAwaitStop
        /\ UNCHANGED loaded
  /\ UNCHANGED <<fault, main, configVars, serverVars, stopped, loggerVars>>

\* Seeded fault: the new object is dropped.
AssignRootForgotten ==
  /\ ~Ended /\ sig = "assign"
  /\ loaded' = "none"
  /\ DoAwaitStop
  /\ UNCHANGED <<fault, main, configVars, serverVars, stopped, loggerVars>>

\* root_ = json.as_object(), and do_await_stop()
AssignRoot ==
  /\ ~Ended /\ sig = "assign"
  /\ root' = loaded
  /\ loaded' = "none"
  /\ DoAwaitStop
  /\ UNCHANGED <<fault, main, file, edits, serverVars, stopped, loggerVars>>

AfterSignalLog == [log_shutdown |-> "log_stop", log_stop |-> "close"]

\* stop() and Server::stop() log first.
SignalLogs ==
  /\ ~Ended /\ sig \in DOMAIN AfterSignalLog
  /\ Log("signal", "Info")
  /\ sig' = IF LogReturns("signal") THEN AfterSignalLog[sig] ELSE sig
  /\ UNCHANGED <<fault, main, configVars, serverVars, loaded, pending, stopped>>

CloseAcceptor ==
  /\ ~Ended /\ sig = "close"
  /\ acceptor' = FALSE
  /\ sig' = "stop"
  /\ UNCHANGED <<fault, main, configVars, threads, acc, sources, loaded, pending,
                 stopped, loggerVars>>

\* work_guard_.reset(), io_context_.stop(), and no do_await_stop()
StopContext ==
  /\ ~Ended /\ sig = "stop"
  /\ stopped' = TRUE
  /\ sig' = "ended"
  /\ UNCHANGED <<fault, main, configVars, serverVars, loaded, pending, loggerVars>>
-----------------------------------------------------------------------------
(* The accept handler                                                      *)

\* The accept completes: after stop() nothing happens, a client is admitted
\* or not, and remote_endpoint() throws if the client has left.
BeginAccept ==
  /\ CanRunHandler
  /\ acc = "waiting"
  /\ \/ ~acceptor /\ acc' = "none" /\ UNCHANGED fault
     \/ /\ acceptor
        /\ acc' \in {"log_session", "log_only"}
        /\ UNCHANGED fault
     \/ /\ acceptor
        /\ fault' = "uncaught"
        /\ UNCHANGED acc
  /\ UNCHANGED <<main, configVars, threads, acceptor, sources, signalVars, loggerVars>>

\* "client connected", "session rejected" or the error of the accept
AcceptLogs ==
  /\ ~Ended /\ acc \in {"log_session", "log_only"}
  /\ \E level \in IF acc = "log_session" THEN {"Info"} ELSE {"Warning", "Error"} :
       Log("accept", level)
  /\ acc' = IF ~LogReturns("accept") THEN acc
            ELSE IF acc = "log_session" THEN "idle" ELSE "waiting"
  /\ UNCHANGED <<fault, main, configVars, threads, acceptor, sources, signalVars>>

TimeoutKey ==
  [idle  |-> <<"timeouts", "idle_timeout_seconds">>,
   read  |-> <<"timeouts", "read_timeout_seconds">>,
   write |-> <<"timeouts", "write_timeout_seconds">>]

AfterTimeout == [idle |-> "read", read |-> "write", write |-> "start"]

\* The constructors of Session, Reader and Writer each read their timeout;
\* get_int() throws out of the worker for a uint64.  While root_ is being
\* assigned, they find the old object, the new one or none, or crash.
ReadTimeout ==
  /\ ~Ended /\ acc \in DOMAIN TimeoutKey
  /\ \/ \E d \in IF sig = "assign" THEN {root, loaded, "none"} ELSE {root} :
          \/ /\ ~GetIntThrows(Settings(d), TimeoutKey[acc])
             /\ sources' = sources \cup {d}
             /\ acc' = AfterTimeout[acc]
             /\ UNCHANGED fault
          \/ /\ GetIntThrows(Settings(d), TimeoutKey[acc])
             /\ fault' = "uncaught"
             /\ UNCHANGED <<acc, sources>>
     \/ /\ sig = "assign"
        /\ fault' = "segv"
        /\ UNCHANGED <<acc, sources>>
  /\ UNCHANGED <<main, configVars, threads, acceptor, signalVars, loggerVars>>

\* session->start(), the insertion into sessions_, and do_accept()
StartSession ==
  /\ ~Ended /\ acc = "start"
  /\ acc' = "waiting"
  /\ sources' = {}
  /\ UNCHANGED <<fault, main, configVars, threads, acceptor, signalVars, loggerVars>>
-----------------------------------------------------------------------------
(* The surroundings                                                        *)

EditFile ==
  /\ ~Ended
  /\ edits < MaxEdits
  /\ edits' = edits + 1
  /\ file' \in DOMAIN Files \ {file}
  /\ UNCHANGED <<fault, main, root, serverVars, signalVars, loggerVars>>

\* A signal that arrives before signals_.add ends the process; later ones
\* complete the async_wait that is outstanding, or are kept for the next one.
SignalArrives ==
  /\ ~Ended
  /\ \/ /\ sig = "none"
        /\ fault' = "killed"
        /\ UNCHANGED <<sig, pending>>
     \/ /\ sig = "waiting"
        /\ sig' \in {"got_hup", "got_term"}
        /\ UNCHANGED <<fault, pending>>
     \/ /\ sig \notin {"none", "waiting"}
        /\ \E s \in {"hup", "term"} \ pending : pending' = pending \cup {s}
        /\ UNCHANGED <<fault, sig>>
  /\ UNCHANGED <<main, configVars, serverVars, loaded, stopped, loggerVars>>

DayPasses ==
  /\ ~Ended
  /\ NewDay
  /\ UNCHANGED <<fault, main, configVars, serverVars, signalVars>>

\* Two calls of log() in the stream at once may end the process.
StreamRace ==
  /\ ~Ended
  /\ StreamShared
  /\ fault' = "segv"
  /\ UNCHANGED <<main, configVars, serverVars, signalVars, loggerVars>>
-----------------------------------------------------------------------------
Main ==
  \/ ConstructConfig
  \/ MakeParams
  \/ AwaitSignals
  \/ LoadAgain
  \/ ConstructLogger
  \/ MainLogs
  \/ ReadSettings
  \/ Listen
  \/ StartAccept
  \/ StartWorkers
  \/ JoinWorkers

SignalHandler ==
  \/ Reload
  \/ AssignRoot
  \/ SignalLogs
  \/ CloseAcceptor
  \/ StopContext

AcceptHandler == AcceptLogs \/ ReadTimeout \/ StartSession

Next ==
  \/ Main
  \/ BeginSignal
  \/ SignalHandler
  \/ BeginAccept
  \/ AcceptHandler
  \/ EditFile
  \/ SignalArrives
  \/ DayPasses
  \/ StreamRace

Spec == Init /\ [][Next]_vars

\* Threads run, and the queue of the io_context is first in, first out, so
\* the signal handler gets a worker although accept handlers compete for it.
FairSpec ==
  /\ Spec
  /\ WF_vars(Main)
  /\ WF_vars(SignalHandler)
  /\ WF_vars(AcceptHandler)
  /\ SF_vars(BeginSignal)
-----------------------------------------------------------------------------
\* With one worker thread every line that is logged gets into the file of
\* its day, unless the system has refused that file.
LinesReachTheFile == threads <= 1 => LineHasItsFile

\* main() never logs while a handler does, with any number of workers: it logs
\* before they are started and after they are joined.
MainLogsAlone ==
  call["main"] # "idle" => call["accept"] = "idle" /\ call["signal"] = "idle"

\* From the second load() on the program works with a file that was read and
\* is an object, whatever config.json holds meanwhile, how often it is edited
\* and however many reloads fail; so does every Session, for any number of
\* workers, but for getters that meet the assignment of root_ and find none.
ServesALoadedFile ==
  /\ main \notin {"config", "params", "signals", "load", "exited"} => root # "none"
  /\ \A d \in (sources \cup {root, loaded}) \ {"none"} : LoadSucceeds(Files[d])

\* A stop signal that has arrived ends the process, unless SIGHUP keeps
\* arriving before it for ever.
StopSignalEndsProgram ==
  []<>("hup" \in pending) \/ ("term" \in pending \/ sig = "got_term" ~> Ended)

\* A SIGHUP that follows the last edit makes the program work with that
\* config.json, if it can be loaded, unless the program ends or is stopping.
ReloadTakesEffect ==
  (/\ "hup" \in pending \/ sig = "got_hup"
   /\ edits = MaxEdits /\ LoadSucceeds(Files[file])) ~>
    (root = file \/ Ended \/ sig \in {"log_shutdown", "log_stop", "close", "stop", "ended"})
=============================================================================
