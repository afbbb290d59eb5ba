------------------------------- MODULE Logger -------------------------------
(***************************************************************************)
(* The Logger: one file a day, opened by the first line of the day, and no *)
(* lock.  A call of log() is taken apart into the accesses to the members  *)
(* that calls of other threads can see in between.                         *)
(***************************************************************************)
EXTENDS Integers, Sequences

CONSTANTS
  Callers,     \* the activities that call log()
  MaxDay       \* bound: the days that pass while the program runs

ASSUME LoggerAssumption == MaxDay \in Nat \ {0}

VARIABLES
  configLevel,   \* the rank of logging.level
  today,         \* what getDate() returns
  currentDate,   \* the day of the last line, 0 before the first one
  openDay,       \* the day of the file that is open, 0 if none is
  bad,           \* the stream is in a failed state and drops what it is given
  refused,       \* the system refused to open or write the file of currentDate
  call           \* where each caller is inside log()

loggerVars == <<configLevel, today, currentDate, openDay, bad, refused, call>>

Levels == <<"Debug", "Info", "Notice", "Warning",
            "Error", "Critical", "Alert", "Emergency">>

GetLevelThrows(name) == name \notin {Levels[i] : i \in 1 .. 8}

Rank(name) == CHOOSE i \in 1 .. 8 : Levels[i] = name

LoggerTypeOK ==
  /\ configLevel \in 1 .. 8
  /\ today \in 1 .. MaxDay
  /\ currentDate \in 0 .. MaxDay
  /\ openDay \in 0 .. MaxDay
  /\ bad \in BOOLEAN
  /\ refused \in BOOLEAN
  /\ call \in [Callers -> {"idle", "close", "open", "write"}]

LoggerInit ==
  /\ configLevel = 1
  /\ today = 1
  /\ currentDate = 0
  /\ openDay = 0
  /\ bad = FALSE
  /\ refused = FALSE
  /\ call = [c \in Callers |-> "idle"]

Suppressed(level) == Rank(level) < configLevel

\* log(): nothing for a level below configLevel; otherwise the date of the
\* last line is compared and replaced.
BeginLog(c, level) ==
  \/ /\ Suppressed(level)
     /\ UNCHANGED loggerVars
  \/ /\ ~Suppressed(level)
     /\ IF today = currentDate
        THEN /\ call' = [call EXCEPT ![c] = "write"]
             /\ UNCHANGED <<currentDate, refused>>
        ELSE /\ call' = [call EXCEPT ![c] = "close"]
             /\ currentDate' = today
             /\ refused' = FALSE
     /\ UNCHANGED <<configLevel, today, openDay, bad>>

\* Seeded fault: the file of the day before stays open.
CloseFileForgotten(c) ==
  /\ call[c] = "close"
  /\ call' = [call EXCEPT ![c] = "open"]
  /\ UNCHANGED <<configLevel, today, currentDate, openDay, bad, refused>>

\* if(file.is_open()) file.close()
CloseFile(c) ==
  /\ call[c] = "close"
  /\ openDay' = 0
  /\ call' = [call EXCEPT ![c] = "open"]
  /\ UNCHANGED <<configLevel, today, currentDate, bad, refused>>

\* file.open(): a stream that is open already fails, and so may the system;
\* success clears an earlier failure.
OpenFile(c) ==
  /\ call[c] = "open"
  /\ call' = [call EXCEPT ![c] = "write"]
  /\ \/ /\ openDay # 0
        /\ bad' = TRUE
        /\ UNCHANGED <<openDay, refused>>
     \/ /\ openDay = 0
        /\ openDay' = currentDate
        /\ bad' = FALSE
        /\ UNCHANGED refused
     \/ /\ openDay = 0
        /\ bad' = TRUE
        /\ refused' = TRUE
        /\ UNCHANGED openDay
  /\ UNCHANGED <<configLevel, today, currentDate>>

\* file << ... << std::endl: nothing is written to a stream that has failed or
\* is not open, and the system may fail to write.
WriteLine(c) ==
  /\ call[c] = "write"
  /\ call' = [call EXCEPT ![c] = "idle"]
  /\ \/ /\ bad' = (bad \/ openDay = 0)
        /\ UNCHANGED refused
     \/ /\ openDay # 0 /\ ~bad
        /\ bad' = TRUE
        /\ refused' = TRUE
  /\ UNCHANGED <<configLevel, today, currentDate, openDay>>

\* The steps of log() after the first one
ContinueLog(c) == CloseFile(c) \/ OpenFile(c) \/ WriteLine(c)

\* Midnight
NewDay ==
  /\ today < MaxDay
  /\ today' = today + 1
  /\ UNCHANGED <<configLevel, currentDate, openDay, bad, refused, call>>

\* Two threads are inside the stream, which is undefined behaviour.
StreamShared ==
  \E c, d \in Callers :
    c # d /\ {call[c], call[d]} \subseteq {"close", "open", "write"}

\* A line that is about to be written gets into the file of its day, unless
\* the system refused that file: a refused file is not tried again before
\* the next day.
LineHasItsFile ==
  \A c \in Callers :
    call[c] = "write" => refused \/ (openDay = currentDate /\ ~bad)
=============================================================================
