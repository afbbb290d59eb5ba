----------------------------- MODULE MCSessions -----------------------------
(***************************************************************************)
(* Instance for TLC of what runs on the strands of sessions besides their  *)
(* Readers: the logins of MCLogin and a Writer.  Today no login has a      *)
(* reply to write, so the two share nothing, and a behaviour is one of     *)
(* either while the other rests in its initial state.                      *)
(***************************************************************************)
EXTENDS MCLogin, Writer

SessionsInit == MCInit /\ Init

SessionsNext ==
  \/ MCNext /\ Init /\ UNCHANGED vars
  \/ Next /\ LoginRests /\ LanguageRests /\ UNCHANGED <<loginVars, languageVars>>

SessionsSpec ==
  /\ SessionsInit
  /\ [][SessionsNext]_<<loginVars, languageVars, vars>>
  /\ LoginFairness
  /\ WriterFairness
=============================================================================
