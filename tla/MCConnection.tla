---------------------------- MODULE MCConnection ----------------------------
(***************************************************************************)
(* Instances of Connection for TLC, and the statements of the repository's *)
(* documents and comments that the code does not keep.                     *)
(***************************************************************************)
EXTENDS Connection

\* README.md: the program is a TCP server; accepting a client does not end
\* it.  The constructor of Session throws instead.
AcceptSurvives == fault # "bad_weak_ptr"

\* reader.cpp, check_read_deadline: a handler that does not see
\* operation_aborted runs because the timer expired, so the deadline that
\* is set when it runs has passed.
ExpiredMeansDeadlinePassed ==
  readTimer.wait = "expired" => readTimer.expiry = 0

\* Session::stop calls on_close_, whose handler is Server::remove_session: a
\* stopped session is not in sessions_, also when several worker threads run.
StoppedSessionsLeave == NoGhostSession
=============================================================================
