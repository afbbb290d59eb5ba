--------------------------- MODULE ConnectionLife ---------------------------
(***************************************************************************)
(* What one accepted connection promises the rest of the server, whatever  *)
(* its sockets, timers and packets do.  The accept handler constructs and  *)
(* starts the session, then enters it in Server::sessions_; the session    *)
(* stops at most once, at any time after it was started, and takes itself  *)
(* out of sessions_ afterwards.  Insertion and removal are not ordered.    *)
(* Any handler may end the process with an uncaught exception.             *)
(*                                                                         *)
(* Connection implements this module for one connection in full detail;    *)
(* every connection of Server behaves like it.                             *)
(***************************************************************************)
VARIABLES phase,        \* the accept handler of this connection
          session,      \* the Session object
          registered,   \* sessions_ holds the Session
          down          \* the process was terminated

lifeVars == <<phase, session, registered, down>>

LifeInit == /\ phase = "accepted"
            /\ session = "none"
            /\ registered = FALSE
            /\ down = FALSE

LifeStart == /\ phase = "accepted"
             /\ phase' = "starting"
             /\ session' = "running"
             /\ UNCHANGED registered

LifeInsert == /\ phase = "starting"
              /\ phase' = "inserted"
              /\ registered' = TRUE
              /\ UNCHANGED session

LifeStop == /\ session = "running"
            /\ session' = "closing"
            /\ UNCHANGED <<phase, registered>>

LifeRemove == /\ session = "closing"
              /\ session' = "closed"
              /\ registered' = FALSE
              /\ UNCHANGED phase

LifeStep == \/ LifeStart
            \/ LifeInsert
            \/ LifeStop
            \/ LifeRemove

LifeThrow == /\ down' = TRUE
             /\ UNCHANGED <<phase, session, registered>>

LifeNext == /\ ~down
            /\ \/ LifeStep /\ UNCHANGED down
               \/ LifeThrow

LifeSpec == LifeInit /\ [][LifeNext]_lifeVars
=============================================================================
