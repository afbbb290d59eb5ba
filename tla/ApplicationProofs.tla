------------------------- MODULE ApplicationProofs --------------------------
(***************************************************************************)
(* Theorems about Application with its Config and Logger, for any contents *)
(* and any number of edits of config.json, any int and any number of days. *)
(***************************************************************************)
EXTENDS Application, TLAPS

\* The handlers run only while main() waits for the workers, and never more
\* of them than there are workers.
AccBusy == acc \notin {"none", "waiting"}
SigBusy == sig \notin NoSignalHandler

HandlersInv ==
  /\ main # "join" => ~AccBusy /\ ~SigBusy
  /\ threads = 0 => ~AccBusy /\ ~SigBusy
  /\ threads = 1 => ~(AccBusy /\ SigBusy)

\* Before start_workers() there are no workers.
ThreadsInv == main \notin {"join", "server_stopped", "exited"} => threads = 0

\* The object that reload() is about to assign was read from a file.
LoadedInv == sig = "assign" => loaded # "none"

\* Whoever is inside log() is at a step that logs.
CallersInv ==
  /\ call["main"] # "idle" => main \in DOMAIN AfterLog
  /\ call["signal"] # "idle" => sig \in DOMAIN AfterSignalLog
  /\ call["accept"] # "idle" => acc \in {"log_session", "log_only"}

\* The stream between two calls and within the only one: the file of the day
\* is open, or being opened, or was refused.
StreamSound ==
  /\ \A c \in Callers : call[c] # "idle" => currentDate # 0
  /\ \A c \in Callers : call[c] = "open" => openDay = 0
  /\ \/ currentDate = 0
     \/ \E c \in Callers : call[c] \in {"close", "open"}
     \/ refused
     \/ openDay = currentDate /\ ~bad

StreamInv == threads <= 1 => StreamSound

ApplicationInv ==
  /\ TypeOK
  /\ HandlersInv
  /\ ThreadsInv
  /\ LoadedInv
  /\ ServesALoadedFile
  /\ CallersInv
  /\ StreamInv
-----------------------------------------------------------------------------
\* The steps of main() that log and those of the signal handler
LEMMA LogSteps ==
  /\ DOMAIN AfterLog = {"initializing", "endpoint", "listening", "started",
                        "running", "server_stopped"}
  /\ \A m \in DOMAIN AfterLog :
       /\ AfterLog[m] \in {"settings", "listen", "started", "running", "accept", "exited"}
       /\ m = "server_stopped" => AfterLog[m] = "exited"
  /\ DOMAIN AfterSignalLog = {"log_shutdown", "log_stop"}
  /\ \A s \in DOMAIN AfterSignalLog : AfterSignalLog[s] \in {"log_stop", "close"}
BY DEF AfterLog, AfterSignalLog

\* The steps of the signal handler that are between two handlers
LEMMA WaitingSteps ==
  /\ NoSignalHandler = {"none", "waiting", "got_hup", "got_term", "ended"}
  /\ NoSignalHandler \subseteq SignalSteps
  /\ {"reload", "assign", "log_shutdown", "log_stop", "close", "stop"} \subseteq SignalSteps
BY DEF NoSignalHandler, SignalSteps

\* do_await_stop() leaves a wait that is outstanding or has a signal.
LEMMA AwaitStops ==
  ASSUME DoAwaitStop
  PROVE  /\ sig' \in {"waiting", "got_hup", "got_term"}
         /\ pending' \subseteq pending
         /\ sig' = "waiting" => pending' = {}
BY DEF DoAwaitStop

LEMMA IntRange == \A n \in Int : ToInt(n) \in -IntLimit .. IntLimit - 1
<1> TAKE n \in Int
<1>1. IntLimit \in Nat \ {0}
  BY ConfigAssumption
<1>2. (n + IntLimit) % (2 * IntLimit) \in 0 .. 2 * IntLimit - 1
  BY <1>1
<1> QED  BY <1>1, <1>2 DEF ToInt

\* thread_count is an int, and a count that is kept is none below 0.
LEMMA ThreadCountIsInt ==
  ASSUME root \in DOMAIN Files
  PROVE  ThreadCount \in -IntLimit .. IntLimit - 1
<1> DEFINE v == FindKey(Files[root], <<"thread_pool", "thread_count">>)
<1>1. ThreadCount = IF v.kind = "int64" THEN ToInt(v.int) ELSE 0
  BY ApplicationAssumption DEF ThreadCount, GetInt, Settings
<1>2. v.kind = "int64" => v.int \in Int
  BY ApplicationAssumption
<1>3. 0 \in -IntLimit .. IntLimit - 1
  BY ConfigAssumption
<1> QED  BY <1>1, <1>2, <1>3, IntRange

\* Busy counts the handlers that run.
LEMMA BusyCounts ==
  /\ Busy = 0 <=> ~AccBusy /\ ~SigBusy
  /\ Busy < 1 => ~AccBusy /\ ~SigBusy
  /\ Busy < 2 => ~(AccBusy /\ SigBusy)
BY DEF Busy, AccBusy, SigBusy

LEMMA InitApplicationInv == Init => ApplicationInv
<1> SUFFICES ASSUME Init PROVE ApplicationInv
  OBVIOUS
<1> USE ApplicationAssumption, ConfigAssumption, LoggerAssumption DEF Init, LoggerInit
<1>1. TypeOK
  <2>1. LoggerTypeOK
    <3>1. /\ configLevel \in 1 .. 8
          /\ today \in 1 .. MaxDay
          /\ currentDate \in 0 .. MaxDay
          /\ openDay \in 0 .. MaxDay
      OBVIOUS
    <3>2. call \in [Callers -> {"idle", "close", "open", "write"}]
      OBVIOUS
    <3> QED  BY ONLY <3>1, <3>2, Init DEF Init, LoggerInit, LoggerTypeOK
  <2>2. /\ main \in MainSteps
        /\ root \in Documents /\ loaded \in Documents
        /\ threads \in 0 .. IntLimit - 1
        /\ edits \in 0 .. MaxEdits
        /\ sig \in SignalSteps
    BY WaitingSteps DEF MainSteps, Documents
  <2> QED  BY <2>1, <2>2 DEF TypeOK
<1>2. HandlersInv /\ ThreadsInv /\ LoadedInv
  BY WaitingSteps DEF HandlersInv, ThreadsInv, LoadedInv, AccBusy, SigBusy
<1>3. CallersInv /\ StreamInv
  BY DEF CallersInv, StreamInv, StreamSound
<1>4. ServesALoadedFile
  BY DEF ServesALoadedFile
<1> QED  BY <1>1, <1>2, <1>3, <1>4 DEF ApplicationInv
-----------------------------------------------------------------------------
(* The Logger under one step of one caller                                 *)

LEMMA LogKeepsTypes ==
  ASSUME LoggerTypeOK, NEW c \in Callers, NEW level, Log(c, level)
  PROVE  LoggerTypeOK'
<1>1. CASE BeginLog(c, level)
  <2>1. CASE UNCHANGED loggerVars
    BY <2>1 DEF loggerVars, LoggerTypeOK
  <2>2. CASE ~UNCHANGED loggerVars
    <3>1. /\ configLevel' \in 1 .. 8 /\ today' \in 1 .. MaxDay
          /\ currentDate' \in 0 .. MaxDay /\ openDay' \in 0 .. MaxDay
          /\ call' \in [Callers -> {"idle", "close", "open", "write"}]
      BY <1>1, <2>2, LoggerAssumption DEF BeginLog, LoggerTypeOK
    <3>2. refused' \in BOOLEAN /\ bad' \in BOOLEAN
      BY <1>1, <2>2 DEF BeginLog, LoggerTypeOK
    <3> QED  BY <3>1, <3>2 DEF LoggerTypeOK
  <2> QED  BY <2>1, <2>2
<1>2. CASE ContinueLog(c)
  <2>1. /\ configLevel' \in 1 .. 8 /\ today' \in 1 .. MaxDay
        /\ currentDate' \in 0 .. MaxDay /\ openDay' \in 0 .. MaxDay
        /\ call' \in [Callers -> {"idle", "close", "open", "write"}]
    BY <1>2, LoggerAssumption DEF ContinueLog, CloseFile, OpenFile, WriteLine, LoggerTypeOK
  <2>2. refused' \in BOOLEAN /\ bad' \in BOOLEAN
    BY <1>2 DEF ContinueLog, CloseFile, OpenFile, WriteLine, LoggerTypeOK
  <2> QED  BY <2>1, <2>2 DEF LoggerTypeOK
<1> QED  BY <1>1, <1>2 DEF Log

\* A caller moves itself only.
LEMMA LogMovesOne ==
  ASSUME LoggerTypeOK, NEW c \in Callers, NEW level, Log(c, level)
  PROVE  \A d \in Callers : d # c => call'[d] = call[d]
BY DEF Log, BeginLog, ContinueLog, CloseFile, OpenFile, WriteLine, LoggerTypeOK, loggerVars

\* A call of log() that is alone leaves the stream as StreamSound says.
LEMMA LogKeepsStream ==
  ASSUME LoggerTypeOK, StreamSound, NEW c \in Callers, NEW level, Log(c, level),
         \A d \in Callers : d # c => call[d] = "idle"
  PROVE  StreamSound'
<1> USE DEF LoggerTypeOK
<1>1. \A d \in Callers : d # c => call'[d] = "idle"
  BY LogMovesOne
<1>2. CASE call[c] = "idle" /\ BeginLog(c, level)
  <2>1. CASE UNCHANGED loggerVars
    BY <2>1 DEF loggerVars, StreamSound
  <2>2. CASE /\ today = currentDate
             /\ call' = [call EXCEPT ![c] = "write"]
             /\ UNCHANGED <<currentDate, refused, openDay, bad>>
    BY <1>1, <1>2, <2>2 DEF StreamSound
  <2>3. CASE /\ call' = [call EXCEPT ![c] = "close"]
             /\ currentDate' = today
    BY <1>1, <2>3 DEF StreamSound
  <2> QED  BY <1>2, <2>1, <2>2, <2>3 DEF BeginLog
<1>3. CASE CloseFile(c)
  BY <1>1, <1>3 DEF CloseFile, StreamSound
<1>4. CASE OpenFile(c)
  <2>1. /\ openDay = 0 /\ currentDate # 0
        /\ call'[c] = "write" /\ currentDate' = currentDate
    BY <1>4 DEF OpenFile, StreamSound
  <2>2. refused' \/ (openDay' = currentDate' /\ ~bad')
    BY <1>4, <2>1 DEF OpenFile
  <2> QED  BY <1>1, <2>1, <2>2 DEF StreamSound
<1>5. CASE WriteLine(c)
  <2>1. /\ currentDate # 0
        /\ refused \/ (openDay = currentDate /\ ~bad)
    BY <1>5 DEF WriteLine, StreamSound
  <2>2. /\ call'[c] = "idle"
        /\ currentDate' = currentDate /\ openDay' = openDay
    BY <1>5 DEF WriteLine
  <2>3. refused' \/ (openDay' = currentDate' /\ ~bad')
    BY <1>5, <2>1, <2>2 DEF WriteLine
  <2> QED  BY <1>1, <2>2, <2>3 DEF StreamSound
<1> QED  BY <1>2, <1>3, <1>4, <1>5 DEF Log, ContinueLog

\* With at most one worker, whoever logs is alone.
LEMMA OneCaller ==
  ASSUME TypeOK, HandlersInv, CallersInv, threads <= 1
  PROVE  /\ main \in DOMAIN AfterLog => call["accept"] = "idle" /\ call["signal"] = "idle"
         /\ acc \in {"log_session", "log_only"} =>
              call["main"] = "idle" /\ call["signal"] = "idle"
         /\ sig \in DOMAIN AfterSignalLog => call["main"] = "idle" /\ call["accept"] = "idle"
<1>1. threads = 0 \/ threads = 1
  BY DEF TypeOK
<1> QED
  BY <1>1, LogSteps, WaitingSteps DEF HandlersInv, CallersInv, AccBusy, SigBusy
-----------------------------------------------------------------------------
(* Every step keeps the invariant: first the types                         *)

LEMMA LoggerTypesInductive ==
  ASSUME ApplicationInv, [Next]_vars
  PROVE  LoggerTypeOK'
<1>1. LoggerTypeOK
  BY DEF ApplicationInv, TypeOK
<1>2. CASE UNCHANGED loggerVars
  BY <1>1, <1>2 DEF loggerVars, LoggerTypeOK
<1>3. CASE MainLogs \/ SignalLogs \/ AcceptLogs
  BY <1>1, <1>3, LogKeepsTypes, ApplicationAssumption DEF MainLogs, SignalLogs, AcceptLogs
<1>4. CASE ConstructLogger
  <2>1. ~LoggerThrows => Rank(Str(<<"logging", "level">>)) \in 1 .. 8
    BY DEF LoggerThrows, GetLevelThrows, Rank
  <2>2. configLevel' \in 1 .. 8
    BY <1>1, <1>4, <2>1 DEF ConstructLogger, LoggerTypeOK
  <2> QED  BY <1>1, <1>4, <2>2 DEF ConstructLogger, LoggerTypeOK
<1>5. CASE DayPasses
  <2>1. today' \in 1 .. MaxDay
    BY <1>1, <1>5, LoggerAssumption DEF DayPasses, NewDay, LoggerTypeOK
  <2> QED  BY <1>1, <1>5, <2>1 DEF DayPasses, NewDay, LoggerTypeOK
<1>6. ASSUME Next
      PROVE  \/ UNCHANGED loggerVars
             \/ MainLogs \/ SignalLogs \/ AcceptLogs
             \/ ConstructLogger
             \/ DayPasses
  BY <1>6 DEF Next, Main, SignalHandler, AcceptHandler, ConstructConfig, MakeParams,
              AwaitSignals, LoadAgain, ReadSettings, Listen, StartAccept, StartWorkers,
              JoinWorkers, BeginSignal, Reload, AssignRoot, CloseAcceptor, StopContext,
              BeginAccept, ReadTimeout, StartSession, EditFile, SignalArrives, StreamRace
<1> QED  BY <1>2, <1>3, <1>4, <1>5, <1>6 DEF vars

\* The variables of main(), of the configuration and of the workers
LEMMA MainKeepsTypes ==
  ASSUME ApplicationInv, Main
  PROVE  TypeOK'
<1>1. TypeOK
  BY DEF ApplicationInv
<1>2. LoggerTypeOK'
  BY LoggerTypesInductive DEF Next
<1>3. acceptor' \in BOOLEAN /\ stopped' \in BOOLEAN
  BY <1>1 DEF TypeOK, Main, ConstructConfig, MakeParams, AwaitSignals, LoadAgain,
              ConstructLogger, MainLogs, ReadSettings, Listen, StartAccept, StartWorkers,
              JoinWorkers, configVars, serverVars, signalVars
<1>4. main' \in MainSteps
  BY <1>1, LogSteps DEF TypeOK, Main, ConstructConfig, MakeParams, AwaitSignals, LoadAgain,
              ConstructLogger, MainLogs, ReadSettings, Listen, StartAccept, StartWorkers,
              JoinWorkers, MainStep, MainSteps
<1>5. /\ fault' \in {"none", "killed", "terminate", "uncaught", "segv"}
      /\ file' \in DOMAIN Files
      /\ edits' \in 0 .. MaxEdits
      /\ root' \in Documents
  BY <1>1 DEF TypeOK, Main, ConstructConfig, MakeParams, AwaitSignals, LoadAgain,
              ConstructLogger, MainLogs, ReadSettings, Listen, StartAccept, StartWorkers,
              JoinWorkers, Documents, configVars
<1>6. threads' \in 0 .. IntLimit - 1
  <2>1. CASE StartWorkers
    <3>1. root \in DOMAIN Files
      BY <1>1, <2>1 DEF StartWorkers, ApplicationInv, ServesALoadedFile, TypeOK, Documents
    <3>2. ThreadCount >= 0 => ThreadCount \in 0 .. IntLimit - 1
      BY <3>1, ThreadCountIsInt, ConfigAssumption
    <3> QED  BY <1>1, <2>1, <3>2 DEF StartWorkers, TypeOK
  <2> QED
    BY <1>1, <2>1 DEF TypeOK, Main, ConstructConfig, MakeParams, AwaitSignals, LoadAgain,
              ConstructLogger, MainLogs, ReadSettings, Listen, StartAccept, JoinWorkers,
              serverVars
<1>7. /\ acc' \in {"none", "waiting", "log_session", "log_only", "idle", "read", "write",
                   "start"}
      /\ sources' \subseteq Documents
      /\ sig' \in SignalSteps
      /\ loaded' \in Documents
      /\ pending' \subseteq {"hup", "term"}
  BY <1>1, AwaitStops, WaitingSteps DEF TypeOK, Main, ConstructConfig, MakeParams, AwaitSignals, LoadAgain,
              ConstructLogger, MainLogs, ReadSettings, Listen, StartAccept, StartWorkers,
              JoinWorkers, Documents, serverVars, signalVars
<1> QED  BY <1>2, <1>3, <1>4, <1>5, <1>6, <1>7 DEF TypeOK

LEMMA OthersKeepTypes ==
  ASSUME ApplicationInv, [Next]_vars, ~Main
  PROVE  TypeOK'
<1>1. TypeOK
  BY DEF ApplicationInv
<1>2. LoggerTypeOK'
  BY LoggerTypesInductive
<1> USE DEF Next, SignalHandler, AcceptHandler, BeginSignal, Reload, AssignRoot, SignalLogs,
            CloseAcceptor, StopContext, BeginAccept, AcceptLogs, ReadTimeout, StartSession,
            EditFile, SignalArrives, DayPasses, StreamRace, vars, configVars, serverVars,
            signalVars
<1>3. acceptor' \in BOOLEAN /\ stopped' \in BOOLEAN
  BY <1>1 DEF TypeOK
<1>4. /\ fault' \in {"none", "killed", "terminate", "uncaught", "segv"}
      /\ main' \in MainSteps
      /\ threads' \in 0 .. IntLimit - 1
      /\ file' \in DOMAIN Files
  BY <1>1 DEF TypeOK
<1>5. edits' \in 0 .. MaxEdits
  BY <1>1, ApplicationAssumption DEF TypeOK
<1>6. root' \in Documents /\ sources' \subseteq Documents /\ loaded' \in Documents
  BY <1>1 DEF TypeOK, Documents
<1>7. acc' \in {"none", "waiting", "log_session", "log_only", "idle", "read", "write",
                "start"}
  BY <1>1 DEF TypeOK, TimeoutKey, AfterTimeout
<1>8. sig' \in SignalSteps
  BY <1>1, LogSteps, AwaitStops, WaitingSteps DEF TypeOK
<1>9. pending' \subseteq {"hup", "term"}
  BY <1>1, AwaitStops DEF TypeOK
<1> QED  BY <1>2, <1>3, <1>4, <1>5, <1>6, <1>7, <1>8, <1>9 DEF TypeOK
-----------------------------------------------------------------------------
(* The other parts of the invariant                                        *)

LEMMA HandlersInductive ==
  ASSUME ApplicationInv, [Next]_vars
  PROVE  HandlersInv'
<1>1. TypeOK /\ HandlersInv
  BY DEF ApplicationInv
<1>2. CASE UNCHANGED <<main, threads, acc, sig>>
  BY <1>1, <1>2 DEF HandlersInv, AccBusy, SigBusy
<1>3. CASE AwaitSignals \/ StartAccept \/ StartWorkers
  BY <1>1, <1>3, AwaitStops, WaitingSteps DEF AwaitSignals, StartAccept, StartWorkers,
              MainStep, HandlersInv, AccBusy, SigBusy, configVars, serverVars, signalVars
<1>4. CASE JoinWorkers
  <2>1. ~AccBusy /\ ~SigBusy
    BY <1>1, <1>4, BusyCounts DEF JoinWorkers, HandlersInv
  <2> QED
    BY <2>1, <1>4 DEF JoinWorkers, HandlersInv, AccBusy, SigBusy, serverVars, signalVars
<1>5. CASE BeginSignal \/ BeginAccept
  <2>1. main = "join" /\ main' = main /\ threads' = threads /\ Busy < threads
    BY <1>5 DEF BeginSignal, BeginAccept, CanRunHandler, serverVars
  <2>2. threads # 0 /\ (threads = 1 => ~AccBusy /\ ~SigBusy)
    BY <1>1, <2>1, BusyCounts DEF TypeOK, Busy
  <2>3. UNCHANGED acc \/ UNCHANGED sig
    BY <1>5 DEF BeginSignal, BeginAccept, serverVars, signalVars
  <2> QED  BY <2>1, <2>2, <2>3 DEF HandlersInv, AccBusy, SigBusy
<1>6. CASE SignalHandler
  <2>1. SigBusy /\ UNCHANGED <<main, threads, acc>>
    BY <1>6, LogSteps, WaitingSteps DEF SignalHandler, Reload, AssignRoot, SignalLogs, CloseAcceptor,
              StopContext, SigBusy, serverVars
  <2> QED  BY <1>1, <2>1 DEF HandlersInv, AccBusy, SigBusy
<1>7. CASE AcceptHandler
  <2>1. AccBusy /\ UNCHANGED <<main, threads, sig>>
    BY <1>7 DEF AcceptHandler, AcceptLogs, ReadTimeout, StartSession, TimeoutKey, AccBusy,
              signalVars
  <2> QED  BY <1>1, <2>1 DEF HandlersInv, AccBusy, SigBusy
<1>8. CASE ConstructConfig \/ MakeParams \/ LoadAgain \/ ConstructLogger \/ MainLogs
           \/ ReadSettings \/ Listen
  <2>1. main # "join" /\ UNCHANGED <<threads, acc, sig>>
    BY <1>8, LogSteps DEF ConstructConfig, MakeParams, LoadAgain, ConstructLogger, MainLogs,
              ReadSettings, Listen, MainStep, serverVars, signalVars
  <2> QED  BY <1>1, <2>1 DEF HandlersInv, AccBusy, SigBusy
<1>9. CASE EditFile \/ DayPasses \/ StreamRace \/ UNCHANGED vars
  BY <1>2, <1>9 DEF EditFile, DayPasses, StreamRace, vars, serverVars, signalVars
<1>10. CASE SignalArrives
  <2>1. ~SigBusy' <=> ~SigBusy
    BY <1>10, WaitingSteps DEF SignalArrives, SigBusy
  <2> QED  BY <1>1, <1>10, <2>1 DEF SignalArrives, HandlersInv, AccBusy, serverVars
<1> QED
  BY <1>3, <1>4, <1>5, <1>6, <1>7, <1>8, <1>9, <1>10 DEF Next, Main

LEMMA ReloadInductive ==
  ASSUME ApplicationInv, [Next]_vars
  PROVE  LoadedInv'
<1>1. LoadedInv /\ TypeOK
  BY DEF ApplicationInv
<1>2. CASE UNCHANGED <<sig, loaded>> \/ sig' # "assign"
  BY <1>1, <1>2 DEF LoadedInv
<1>3. CASE Reload
  BY <1>1, <1>3, AwaitStops, ApplicationAssumption DEF Reload, LoadedInv, TypeOK
<1>4. CASE AwaitSignals \/ BeginSignal \/ AssignRoot \/ SignalLogs \/ CloseAcceptor
           \/ StopContext \/ SignalArrives
  BY <1>2, <1>4, LogSteps, AwaitStops DEF AwaitSignals, BeginSignal, AssignRoot, SignalLogs,
              CloseAcceptor, StopContext, SignalArrives, signalVars
<1> QED
  BY <1>2, <1>3, <1>4 DEF Next, Main, SignalHandler, AcceptHandler, ConstructConfig,
              MakeParams, LoadAgain, ConstructLogger, MainLogs, ReadSettings, Listen,
              StartAccept, StartWorkers, JoinWorkers, BeginAccept, AcceptLogs, ReadTimeout,
              StartSession, EditFile, SignalArrives, DayPasses, StreamRace, vars, signalVars

\* A caller is inside log() only at a step that logs: it leaves that step
\* when the call returns.
LEMMA CallersInductive ==
  ASSUME ApplicationInv, [Next]_vars
  PROVE  CallersInv'
<1>1. TypeOK /\ LoggerTypeOK /\ CallersInv
  BY DEF ApplicationInv, TypeOK
<1>2. Callers = {"main", "accept", "signal"}
  BY ApplicationAssumption
<1>3. CASE MainLogs
  <2>1. call'["accept"] = call["accept"] /\ call'["signal"] = call["signal"]
    BY <1>1, <1>2, <1>3, LogMovesOne DEF MainLogs
  <2>2. /\ call'["main"] # "idle" => main' \in DOMAIN AfterLog
        /\ UNCHANGED <<sig, acc>>
    BY <1>3 DEF MainLogs, LogReturns, serverVars, signalVars
  <2> QED  BY <1>1, <2>1, <2>2 DEF CallersInv
<1>4. CASE SignalLogs
  <2>1. call'["accept"] = call["accept"] /\ call'["main"] = call["main"]
    BY <1>1, <1>2, <1>4, LogMovesOne DEF SignalLogs
  <2>2. /\ call'["signal"] # "idle" => sig' \in DOMAIN AfterSignalLog
        /\ UNCHANGED <<main, acc>>
    BY <1>4 DEF SignalLogs, LogReturns, serverVars
  <2> QED  BY <1>1, <2>1, <2>2 DEF CallersInv
<1>5. CASE AcceptLogs
  <2>1. call'["signal"] = call["signal"] /\ call'["main"] = call["main"]
    BY <1>1, <1>2, <1>5, LogMovesOne DEF AcceptLogs
  <2>2. /\ call'["accept"] # "idle" => acc' \in {"log_session", "log_only"}
        /\ UNCHANGED <<main, sig>>
    BY <1>5 DEF AcceptLogs, LogReturns, signalVars
  <2> QED  BY <1>1, <2>1, <2>2 DEF CallersInv
<1>6. CASE /\ UNCHANGED call
           /\ main \notin DOMAIN AfterLog \/ main' = main
           /\ sig \notin DOMAIN AfterSignalLog \/ sig' = sig
           /\ acc \notin {"log_session", "log_only"} \/ acc' = acc
  BY <1>1, <1>6 DEF CallersInv
<1>7. CASE Main /\ ~MainLogs
  <2>1. UNCHANGED call \/ ConstructLogger
    BY <1>7 DEF Main, ConstructConfig, MakeParams, AwaitSignals, LoadAgain, ReadSettings,
              Listen, StartAccept, StartWorkers, JoinWorkers, loggerVars
  <2>2. UNCHANGED call
    BY <2>1 DEF ConstructLogger
  <2>3. main \notin DOMAIN AfterLog
    BY <1>7, LogSteps DEF Main, ConstructConfig, MakeParams, AwaitSignals, LoadAgain,
              ConstructLogger, ReadSettings, Listen, StartAccept, StartWorkers, JoinWorkers,
              MainStep
  <2>4. (~AccBusy /\ ~SigBusy) \/ UNCHANGED <<acc, sig>>
    BY <1>7 DEF ApplicationInv, HandlersInv, Main, ConstructConfig, MakeParams, AwaitSignals,
              LoadAgain, ConstructLogger, ReadSettings, Listen, StartAccept, StartWorkers,
              JoinWorkers, MainStep, serverVars, signalVars
  <2> QED  BY <1>6, <2>2, <2>3, <2>4, LogSteps, WaitingSteps DEF AccBusy, SigBusy
<1>8. CASE Next /\ ~Main /\ ~SignalLogs /\ ~AcceptLogs
  <2>1. UNCHANGED <<main, call>>
    BY <1>8 DEF Next, SignalHandler, AcceptHandler, BeginSignal, Reload, AssignRoot,
              CloseAcceptor, StopContext, BeginAccept, ReadTimeout, StartSession, EditFile,
              SignalArrives, DayPasses, NewDay, StreamRace, loggerVars
  <2>2. /\ sig \notin DOMAIN AfterSignalLog \/ sig' = sig
        /\ acc \notin {"log_session", "log_only"} \/ acc' = acc
    BY <1>8, LogSteps DEF Next, SignalHandler, AcceptHandler, BeginSignal, Reload, AssignRoot,
              CloseAcceptor, StopContext, BeginAccept, ReadTimeout, StartSession, EditFile,
              SignalArrives, DayPasses, StreamRace, TimeoutKey, serverVars, signalVars
  <2> QED  BY <1>6, <2>1, <2>2
<1>9. CASE UNCHANGED vars
  BY <1>6, <1>9 DEF vars, loggerVars, serverVars, signalVars
<1> QED  BY <1>3, <1>4, <1>5, <1>7, <1>8, <1>9 DEF Next, Main, SignalHandler, AcceptHandler

LEMMA ThreadsInductive ==
  ASSUME ApplicationInv, [Next]_vars
  PROVE  /\ ThreadsInv'
         /\ threads <= 1 \/ threads' = threads
<1>1. ThreadsInv /\ TypeOK
  BY DEF ApplicationInv
<1>2. CASE UNCHANGED <<main, threads>>
  BY <1>1, <1>2 DEF ThreadsInv
<1>3. CASE MainLogs
  BY <1>1, <1>3, LogSteps DEF MainLogs, ThreadsInv, serverVars
<1>4. CASE StartWorkers
  BY <1>1, <1>4 DEF StartWorkers, ThreadsInv
<1>5. CASE ConstructConfig \/ MakeParams \/ AwaitSignals \/ LoadAgain \/ ConstructLogger
           \/ ReadSettings \/ Listen \/ StartAccept \/ JoinWorkers
  BY <1>1, <1>5 DEF ConstructConfig, MakeParams, AwaitSignals, LoadAgain, ConstructLogger,
              ReadSettings, Listen, StartAccept, JoinWorkers, MainStep, ThreadsInv, serverVars
<1>6. CASE ~Main
  BY <1>2, <1>6 DEF Next, SignalHandler, AcceptHandler, BeginSignal, Reload, AssignRoot,
              SignalLogs, CloseAcceptor, StopContext, BeginAccept, AcceptLogs, ReadTimeout,
              StartSession, EditFile, SignalArrives, DayPasses, StreamRace, vars, serverVars
<1> QED  BY <1>3, <1>4, <1>5, <1>6 DEF Main

LEMMA StreamInductive ==
  ASSUME ApplicationInv, [Next]_vars
  PROVE  StreamInv'
<1>1. TypeOK /\ LoggerTypeOK /\ HandlersInv /\ CallersInv /\ StreamInv
  BY DEF ApplicationInv, TypeOK
<1>2. Callers = {"main", "accept", "signal"}
  BY ApplicationAssumption
<1>3. CASE MainLogs \/ SignalLogs \/ AcceptLogs
  <2>1. SUFFICES ASSUME threads <= 1 PROVE StreamSound'
    BY <1>3 DEF StreamInv, MainLogs, SignalLogs, AcceptLogs, serverVars
  <2>2. StreamSound
    BY <1>1, <2>1 DEF StreamInv
  <2>3. ASSUME NEW c \in Callers, NEW level, Log(c, level),
               \A d \in Callers : d # c => call[d] = "idle"
        PROVE  StreamSound'
    BY <1>1, <2>2, <2>3, LogKeepsStream
  <2>4. CASE MainLogs
    <3>1. \A d \in Callers : d # "main" => call[d] = "idle"
      BY <1>1, <1>2, <2>1, <2>4, OneCaller DEF MainLogs
    <3> QED  BY <1>2, <2>3, <2>4, <3>1 DEF MainLogs
  <2>5. CASE SignalLogs
    <3>1. \A d \in Callers : d # "signal" => call[d] = "idle"
      BY <1>1, <1>2, <2>1, <2>5, OneCaller DEF SignalLogs
    <3> QED  BY <1>2, <2>3, <2>5, <3>1 DEF SignalLogs
  <2>6. CASE AcceptLogs
    <3>1. \A d \in Callers : d # "accept" => call[d] = "idle"
      BY <1>1, <1>2, <2>1, <2>6, OneCaller DEF AcceptLogs
    <3> QED  BY <1>2, <2>3, <2>6, <3>1 DEF AcceptLogs
  <2> QED  BY <1>3, <2>4, <2>5, <2>6
<1>4. CASE UNCHANGED <<currentDate, openDay, bad, refused, call>>
  <2>1. StreamSound => StreamSound'
    BY <1>4 DEF StreamSound
  <2>2. threads' <= 1 => threads <= 1
    BY ThreadsInductive
  <2> QED  BY <1>1, <2>1, <2>2 DEF StreamInv
<1>5. ASSUME ~MainLogs, ~SignalLogs, ~AcceptLogs
      PROVE  UNCHANGED <<currentDate, openDay, bad, refused, call>>
  BY <1>5 DEF Next, Main, SignalHandler, AcceptHandler, ConstructConfig, MakeParams,
              AwaitSignals, LoadAgain, ConstructLogger, ReadSettings, Listen, StartAccept,
              StartWorkers, JoinWorkers, BeginSignal, Reload, AssignRoot, CloseAcceptor,
              StopContext, BeginAccept, ReadTimeout, StartSession, EditFile, SignalArrives,
              DayPasses, NewDay, StreamRace, vars, loggerVars
<1> QED  BY <1>3, <1>4, <1>5

\* Whatever the program reads its settings from was loaded.
LEMMA LoadableInductive ==
  ASSUME ApplicationInv, [Next]_vars
  PROVE  \A d \in (sources' \cup {root', loaded'}) \ {"none"} : LoadSucceeds(Files[d])
<1>1. \A d \in (sources \cup {root, loaded}) \ {"none"} : LoadSucceeds(Files[d])
  BY DEF ApplicationInv, ServesALoadedFile
<1>2. CASE ConstructConfig \/ LoadAgain
  <2>1. /\ root' = root \/ (root' = file /\ LoadSucceeds(Files[file]))
        /\ UNCHANGED <<sources, loaded>>
    BY <1>2 DEF ConstructConfig, LoadAgain, serverVars, signalVars
  <2> QED  BY <1>1, <2>1
<1>3. CASE Reload
  <2>1. /\ loaded' = loaded \/ (loaded' = file /\ LoadSucceeds(Files[file]))
        /\ UNCHANGED <<sources, root>>
    BY <1>3 DEF Reload, serverVars, configVars
  <2> QED  BY <1>1, <2>1
<1>4. CASE AssignRoot
  BY <1>1, <1>4 DEF AssignRoot, serverVars
<1>5. CASE ReadTimeout
  <2>1. /\ sources' \subseteq sources \cup {root, loaded, "none"}
        /\ UNCHANGED <<root, loaded>>
    BY <1>5 DEF ReadTimeout, configVars, signalVars
  <2> QED  BY <1>1, <2>1
<1>6. CASE StartSession
  BY <1>1, <1>6 DEF StartSession, configVars, signalVars
<1>7. CASE UNCHANGED <<sources, root, loaded>>
  BY <1>1, <1>7
<1> QED
  BY <1>2, <1>3, <1>4, <1>5, <1>6, <1>7 DEF Next, Main, SignalHandler, AcceptHandler,
              MakeParams, AwaitSignals, ConstructLogger, MainLogs, ReadSettings, Listen,
              StartAccept, StartWorkers, JoinWorkers, BeginSignal, SignalLogs, CloseAcceptor,
              StopContext, BeginAccept, AcceptLogs, EditFile, SignalArrives, DayPasses,
              StreamRace, vars, configVars, serverVars, signalVars

\* The steps of main() before it has a configuration, and its end
Early == {"config", "params", "signals", "load", "exited"}

LEMMA FileInductive ==
  ASSUME ApplicationInv, [Next]_vars
  PROVE  ServesALoadedFile'
<1> SUFFICES main' \notin Early => root' # "none"
  BY LoadableInductive DEF ServesALoadedFile, Early
<1> USE DEF Early
<1>1. TypeOK /\ HandlersInv /\ LoadedInv /\ (main \notin Early => root # "none")
  BY DEF ApplicationInv, ServesALoadedFile
<1>2. CASE ConstructConfig \/ MakeParams \/ AwaitSignals
  BY <1>2 DEF ConstructConfig, MakeParams, AwaitSignals, MainStep
<1>3. CASE LoadAgain
  BY <1>1, <1>3, ApplicationAssumption DEF LoadAgain, MainStep, TypeOK
<1>4. CASE AssignRoot
  BY <1>1, <1>4 DEF AssignRoot, LoadedInv
<1>5. CASE MainLogs
  BY <1>1, <1>5, LogSteps DEF MainLogs, configVars
<1>6. CASE ConstructLogger \/ ReadSettings \/ Listen \/ StartAccept \/ StartWorkers
           \/ JoinWorkers
  BY <1>1, <1>6 DEF ConstructLogger, ReadSettings, Listen, StartAccept, StartWorkers,
              JoinWorkers, MainStep, configVars
<1>7. CASE UNCHANGED <<main, root>>
  BY <1>1, <1>7
<1> QED
  BY <1>2, <1>3, <1>4, <1>5, <1>6, <1>7 DEF Next, Main, SignalHandler, AcceptHandler,
              BeginSignal, Reload, SignalLogs, CloseAcceptor, StopContext, BeginAccept,
              AcceptLogs, ReadTimeout, StartSession, EditFile, SignalArrives, DayPasses,
              StreamRace, vars, configVars
-----------------------------------------------------------------------------
LEMMA ApplicationInvariant == Spec => []ApplicationInv
<1>1. ApplicationInv /\ [Next]_vars => ApplicationInv'
  BY MainKeepsTypes, OthersKeepTypes, HandlersInductive, ThreadsInductive, ReloadInductive,
     FileInductive, CallersInductive, StreamInductive DEF ApplicationInv
<1> QED  BY <1>1, InitApplicationInv, PTL DEF Spec

\* A line about to be written by the only caller finds the file of its day.
LEMMA StreamSoundSuffices ==
  ASSUME ApplicationInv
  PROVE  LinesReachTheFile
<1> SUFFICES ASSUME threads <= 1, NEW c \in Callers, call[c] = "write", ~refused
             PROVE  openDay = currentDate /\ ~bad
  BY DEF LinesReachTheFile, LineHasItsFile
<1>1. TypeOK /\ HandlersInv /\ CallersInv /\ StreamSound
  BY DEF ApplicationInv, StreamInv
<1>2. Callers = {"main", "accept", "signal"}
  BY ApplicationAssumption
<1>3. \A d \in Callers : d # c => call[d] = "idle"
  BY <1>1, <1>2, OneCaller DEF CallersInv
<1>4. ~\E d \in Callers : call[d] \in {"close", "open"}
  BY <1>3
<1> QED  BY <1>1, <1>4 DEF StreamSound

\* Every variable keeps to its type; in particular no negative number of
\* worker threads is ever kept, whatever int thread_count is.
THEOREM TypeCorrect == Spec => []TypeOK
BY ApplicationInvariant, PTL DEF ApplicationInv

\* From the second Config::load() on the program and its Sessions work with
\* files that could be loaded, through any sequence of edits and of reloads
\* that fail, for any number of worker threads.
THEOREM OnlyLoadedFilesAreServed == Spec => []ServesALoadedFile
BY ApplicationInvariant, PTL DEF ApplicationInv

\* With one worker no line given to Logger::log() is lost but by a file that
\* the system refuses, on any number of days.
THEOREM OneWorkerLosesNoLine == Spec => []LinesReachTheFile
BY ApplicationInvariant, StreamSoundSuffices, PTL
-----------------------------------------------------------------------------
\* main() and the workers never log at the same time, so the Logger is shared
\* by the two handlers only, for any number of workers.
THEOREM MainIsNeverInARace == Spec => []MainLogsAlone
<1>1. ApplicationInv => MainLogsAlone
  BY LogSteps, WaitingSteps
  DEF ApplicationInv, HandlersInv, CallersInv, AccBusy, SigBusy, MainLogsAlone
<1> QED  BY <1>1, ApplicationInvariant, PTL
-----------------------------------------------------------------------------
(***************************************************************************)
(* What StopSignalEndsProgram rests on                                     *)
(***************************************************************************)
\* While main() waits for the workers, a signal finds the wait armed or its
\* handler queued or at work, and an armed wait leaves no signal undelivered,
\* until io_context::stop(), which follows the closing of the acceptor and is
\* followed by nothing but the end of main().
SignalsAreServed ==
  /\ main = "join" => sig # "none"
  /\ sig = "waiting" => pending = {}
  /\ sig = "ended" <=> stopped
  /\ sig \in {"stop", "ended"} => ~acceptor
  /\ stopped => main \in {"join", "server_stopped", "exited"}

\* Added to it: main() installs the signal handler before all that follows,
\* and a signal that comes earlier does not wait for it.
SignalsInv ==
  /\ SignalsAreServed
  /\ sig = "none" => pending = {}
  /\ main \notin {"config", "params", "signals", "exited"} => sig # "none"
  /\ main \in {"config", "params", "signals"} => sig = "none"

LEMMA SignalsInductive ==
  ASSUME ApplicationInv, SignalsInv, [Next]_vars
  PROVE  SignalsInv'
<1> USE DEF SignalsInv, SignalsAreServed
<1>1. HandlersInv /\ TypeOK
  BY DEF ApplicationInv
<1>2. CASE UNCHANGED <<main, sig, pending, acceptor, stopped>>
  BY <1>2
<1>3. CASE ConstructConfig \/ MakeParams \/ LoadAgain \/ ConstructLogger \/ ReadSettings
           \/ StartAccept \/ JoinWorkers
  BY <1>3 DEF ConstructConfig, MakeParams, LoadAgain, ConstructLogger, ReadSettings,
              StartAccept, JoinWorkers, MainStep, serverVars, signalVars
<1>4. CASE AwaitSignals
  BY <1>4, AwaitStops DEF AwaitSignals, MainStep, serverVars
<1>5. CASE MainLogs
  <2>1. /\ UNCHANGED <<sig, pending, acceptor, stopped>>
        /\ main \in DOMAIN AfterLog
        /\ main' = main \/ main' = AfterLog[main]
    BY <1>5 DEF MainLogs, serverVars, signalVars
  <2>2. main \notin {"config", "params", "signals", "exited", "join"} /\ main' # "join"
    BY <2>1, LogSteps
  <2>3. /\ stopped => main' \in {"join", "server_stopped", "exited"}
        /\ main' \notin {"config", "params", "signals"}
    BY <2>1, LogSteps
  <2> QED  BY <2>1, <2>2, <2>3
<1>6. CASE Listen
  <2>1. main = "listen" /\ ~stopped /\ sig \notin {"stop", "ended"}
    BY <1>1, <1>6, WaitingSteps DEF Listen, MainStep, HandlersInv, SigBusy
  <2> QED  BY <1>6, <2>1 DEF Listen, MainStep, signalVars
<1>7. CASE StartWorkers
  BY <1>7 DEF StartWorkers, signalVars
<1>8. CASE BeginSignal
  BY <1>8 DEF BeginSignal, CanRunHandler, serverVars
<1>9. CASE SignalHandler
  <2>1. main = "join" /\ UNCHANGED main
    BY <1>1, <1>9, LogSteps, WaitingSteps DEF HandlersInv, SigBusy, SignalHandler, Reload, AssignRoot,
              SignalLogs, CloseAcceptor, StopContext
  <2>2. CASE Reload \/ AssignRoot \/ CloseAcceptor \/ StopContext
    BY <2>1, <2>2, AwaitStops DEF Reload, AssignRoot, CloseAcceptor, StopContext, serverVars
  <2>3. CASE SignalLogs
    BY <2>1, <2>3, LogSteps DEF SignalLogs, serverVars
  <2> QED  BY <1>9, <2>2, <2>3 DEF SignalHandler
<1>10. CASE SignalArrives
  BY <1>10 DEF SignalArrives, serverVars
<1>11. CASE \/ BeginAccept \/ AcceptHandler \/ EditFile \/ DayPasses \/ StreamRace
            \/ UNCHANGED vars
  BY <1>2, <1>11 DEF BeginAccept, AcceptHandler, AcceptLogs, ReadTimeout, StartSession,
              EditFile, DayPasses, StreamRace, vars, serverVars, signalVars
<1> QED
  BY <1>3, <1>4, <1>5, <1>6, <1>7, <1>8, <1>9, <1>10, <1>11 DEF Next, Main

\* do_await_stop() is called again after every signal that does not stop the
\* program, and takes what has arrived meanwhile, so no signal waits for a
\* handler that no one has installed.
THEOREM SignalsAreAlwaysAwaited == Spec => []SignalsAreServed
<1>1. Init => SignalsInv
  BY DEF Init, SignalsInv, SignalsAreServed
<1>2. SignalsInv => SignalsAreServed
  BY DEF SignalsInv
<1> QED  BY <1>1, <1>2, SignalsInductive, ApplicationInvariant, PTL DEF Spec
-----------------------------------------------------------------------------
Shutdown(step) ==
  CASE step = "got_term"     -> 1
    [] step = "log_shutdown" -> 2
    [] step = "log_stop"     -> 3
    [] step = "close"        -> 4
    [] step = "stop"         -> 5
    [] step = "ended"        -> 6
    [] OTHER                 -> 0

\* A signal that had to wait for async_wait is taken by the next one, SIGHUP
\* before the others; a stop signal that async_wait has taken leads to the end
\* of the shutdown, and once that has closed the acceptor, no client is
\* admitted.
ShutdownGoesOn ==
  [][/\ Shutdown(sig) <= Shutdown(sig')
     /\ \A s \in pending \ pending' :
          /\ sig \in {"reload", "assign"}
          /\ sig' = IF s = "hup" THEN "got_hup" ELSE "got_term"
          /\ s = "term" => "hup" \notin pending
     /\ Shutdown(sig) >= 5 /\ acc = "waiting" => acc' \in {"waiting", "none"}]_vars

\* For every number of workers and any sequence of signals.
THEOREM ShutdownNeverTurnsBack == Spec => ShutdownGoesOn
<1> DEFINE GoesOn ==
      /\ Shutdown(sig) <= Shutdown(sig')
      /\ \A s \in pending \ pending' :
           /\ sig \in {"reload", "assign"}
           /\ sig' = IF s = "hup" THEN "got_hup" ELSE "got_term"
           /\ s = "term" => "hup" \notin pending
      /\ Shutdown(sig) >= 5 /\ acc = "waiting" => acc' \in {"waiting", "none"}
<1>1. ASSUME ApplicationInv, SignalsInv, Next
      PROVE  GoesOn
  <2>1. \A s : Shutdown(s) \in Nat
    BY DEF Shutdown
  <2>2. TypeOK /\ SignalsAreServed
    BY <1>1 DEF ApplicationInv, SignalsInv
  <2>3. CASE BeginSignal
    <3>1. /\ UNCHANGED <<acc, pending>>
          /\ \/ sig = "got_hup" /\ sig' = "reload"
             \/ sig = "got_term" /\ sig' = "log_shutdown"
      BY <2>3 DEF BeginSignal, serverVars
    <3>2. Shutdown(sig) <= Shutdown(sig')
      BY <3>1 DEF Shutdown
    <3> QED  BY <3>1, <3>2
  <2>4. CASE Reload \/ AssignRoot
    <3>1. sig \in {"reload", "assign"} /\ UNCHANGED acc
      BY <2>4 DEF Reload, AssignRoot, serverVars
    <3>2. Shutdown(sig) = 0
      BY <3>1 DEF Shutdown
    <3>3. UNCHANGED pending \/ DoAwaitStop
      BY <2>4 DEF Reload, AssignRoot
    <3>4. \A s \in pending \ pending' :
            /\ sig' = IF s = "hup" THEN "got_hup" ELSE "got_term"
            /\ s = "term" => "hup" \notin pending
      BY <3>3 DEF DoAwaitStop
    <3> QED  BY <2>1, <3>1, <3>2, <3>4
  <2>5. CASE SignalLogs \/ CloseAcceptor \/ StopContext
    <3>1. UNCHANGED <<acc, pending>>
      BY <2>5 DEF SignalLogs, CloseAcceptor, StopContext, serverVars
    <3>2. \/ sig' = sig
          \/ sig = "log_shutdown" /\ sig' = "log_stop"
          \/ sig = "log_stop" /\ sig' = "close"
          \/ sig = "close" /\ sig' = "stop"
          \/ sig = "stop" /\ sig' = "ended"
      BY <2>5 DEF SignalLogs, CloseAcceptor, StopContext, AfterSignalLog
    <3>3. Shutdown(sig) <= Shutdown(sig')
      <4>1. CASE sig' = sig
        BY <2>1, <4>1
      <4> QED  BY <3>2, <4>1 DEF Shutdown
    <3> QED  BY <3>1, <3>3
  <2>6. CASE AwaitSignals
    <3>1. sig = "none" /\ pending = {} /\ UNCHANGED acc
      BY <1>1, <2>6 DEF AwaitSignals, MainStep, SignalsInv, serverVars
    <3>2. Shutdown(sig) = 0
      BY <3>1 DEF Shutdown
    <3> QED  BY <2>1, <3>1, <3>2
  <2>7. CASE BeginAccept
    <3>1. UNCHANGED <<sig, pending>>
      BY <2>7 DEF BeginAccept, signalVars
    <3>2. Shutdown(sig) >= 5 => sig \in {"stop", "ended"}
      BY DEF Shutdown
    <3>3. Shutdown(sig) >= 5 => acc' \in {"waiting", "none"}
      BY <2>2, <2>7, <3>2 DEF BeginAccept, SignalsAreServed
    <3> QED  BY <2>1, <3>1, <3>3
  <2>8. CASE SignalArrives
    <3>1. UNCHANGED acc /\ pending \subseteq pending'
      BY <2>8 DEF SignalArrives, serverVars
    <3>2. sig' = sig \/ sig = "waiting"
      BY <2>8 DEF SignalArrives
    <3>3. sig = "waiting" => Shutdown(sig) = 0
      BY DEF Shutdown
    <3> QED  BY <2>1, <3>1, <3>2, <3>3
  <2>9. CASE UNCHANGED <<sig, pending>> /\ (acc = "waiting" => acc' = acc)
    BY <2>1, <2>9
  <2>10. CASE Main /\ ~AwaitSignals
    BY <2>9, <2>10 DEF Main, ConstructConfig, MakeParams, LoadAgain, ConstructLogger, MainLogs,
              ReadSettings, Listen, StartAccept, StartWorkers, JoinWorkers, serverVars,
              signalVars
  <2>11. CASE AcceptHandler \/ EditFile \/ DayPasses \/ StreamRace
    BY <2>9, <2>11 DEF AcceptHandler, AcceptLogs, ReadTimeout, StartSession, EditFile,
              DayPasses, StreamRace, TimeoutKey, serverVars, signalVars
  <2> QED
    BY <1>1, <2>3, <2>4, <2>5, <2>6, <2>7, <2>8, <2>10, <2>11 DEF Next, SignalHandler
<1>2. Init => SignalsInv
  BY DEF Init, SignalsInv, SignalsAreServed
<1>3. ApplicationInv /\ SignalsInv /\ [Next]_vars => [GoesOn]_vars
  BY <1>1
<1> QED
  BY <1>2, <1>3, SignalsInductive, ApplicationInvariant, PTL DEF Spec, ShutdownGoesOn
=============================================================================
