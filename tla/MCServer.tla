------------------------------ MODULE MCServer ------------------------------
(***************************************************************************)
(* A message of the repository that the code does not keep.                *)
(***************************************************************************)
EXTENDS Server

\* server.cpp: "session rejected, maximum sessions reached" is logged when
\* there are max_sessions sessions.
RejectedOnlyWhenFull ==
  [][\A c \in Conns : RejectConnection(c) => Cardinality(Live) >= MaxSessions]_vars
=============================================================================
