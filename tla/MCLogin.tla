------------------------------- MODULE MCLogin ------------------------------
(***************************************************************************)
(* Instances of Login and of LanguageProvider for TLC.  The two share      *)
(* nothing, so a behaviour is one of either while the other rests in its   *)
(* initial state: their interleavings would show nothing more.  At the end *)
(* a message of the repository that the code does not keep.                *)
(***************************************************************************)
EXTENDS Login, LanguageProvider

CONSTANTS s1, s2

Packet(type, action, readable, user_id, password) ==
  [type |-> type, action |-> action, readable |-> readable,
   user_id |-> user_id, password |-> password]

\* Two users.  The id of the first, with a blank before it, is a number to
\* MySQL, and that of the second user; the other id the tests turn away, but
\* not if a blank follows it.
MCUsers ==
  [x \in {" 012", "alice"} |->
     [id |-> IF x = " 012" THEN 11 ELSE 12, password_hash |-> "secret"]]

MCPackets ==
  [first     |-> Packet("Auth", {10}, TRUE, " 012", "secret"),
   loose     |-> Packet("Auth", {10}, TRUE, " 012 ", "SECRET"),
   no_number |-> Packet("Auth", {10}, TRUE, "alice ", "SECRET"),
   wrong     |-> Packet("Auth", {10}, TRUE, " 012", "password"),
   turned    |-> Packet("Auth", {10}, TRUE, "alice", "secret"),
   garbled   |-> Packet("Auth", {10}, FALSE, "", ""),
   register  |-> Packet("Auth", {11}, TRUE, "alice", "secret")]

Strings == {" 012", " 012 ", "alice", "alice ", "secret", "SECRET", "password"}

MCNumberOf == [x \in Strings |-> IF x \in {" 012", " 012 "} THEN 12 ELSE 0]

MCLength ==
  [x \in Strings |-> CASE x = " 012"                         -> 4
                       [] x \in {" 012 ", "alice"}             -> 5
                       [] x \in {"alice ", "secret", "SECRET"} -> 6
                       [] x = "password"                      -> 8]

MCCollate ==
  [x \in Strings |-> CASE x = " 012 "  -> " 012"
                       [] x = "alice " -> "alice"
                       [] x = "SECRET" -> "secret"
                       [] OTHER        -> x]

MCSessionOf == [l \in DOMAIN MCPackets |-> IF l \in {"first", "turned"} THEN s1 ELSE s2]

Member(number, string, text) == [number |-> number, string |-> string, text |-> text]

MCContents ==
  [en       |-> [kind |-> "object", members |-> <<Member(1, TRUE, "Success"),
                                                  Member(3, TRUE, "User not found.")>>],
   twice    |-> [kind |-> "object", members |-> <<Member(1, TRUE, "OK"), Member(-1, FALSE, ""),
                                                  Member(1, TRUE, "Success")>>],
   too_big  |-> [kind |-> "object", members |-> <<Member(2, TRUE, "Invalid"),
                                                  Member(9, FALSE, "")>>],
   nested   |-> [kind |-> "object", members |-> <<Member(1, TRUE, "Oops"), Member(2, FALSE, "")>>],
   not_json |-> [kind |-> "not_json"],
   missing  |-> [kind |-> "missing"]]

MCInit == LoginInit /\ LanguageInit

LoginRests == login = [l \in Logins |-> "packet"] /\ open = Sessions /\ active = DOMAIN Users

LanguageRests == obtained = {} /\ \A f \in FileNames : files[f] = "missing"

MCNext ==
  \/ LoginNext /\ LanguageRests /\ UNCHANGED languageVars
  \/ LanguageNext /\ LoginRests /\ UNCHANGED loginVars

\* en.json, "Invalid user ID.", "User ID length is invalid.", "Password length
\* is invalid.": the tests end a login for no other reason.
ValidRequestsPass ==
  [][\A l \in Logins :
       /\ login[l] = "spawned"
       /\ Request(l).user_id \in WellFormed
       /\ Length[Request(l).user_id] >= 4
       /\ Length[Request(l).password] >= 6
       => login'[l] # "ended"]_loginVars

MCSpec == MCInit /\ [][MCNext]_<<loginVars, languageVars>> /\ LoginFairness
=============================================================================
