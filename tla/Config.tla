------------------------------- MODULE Config -------------------------------
(***************************************************************************)
(* Config: the JSON object that load() keeps of config.json, and the typed *)
(* getters.  A JSON value is a record whose kind decides its other field;  *)
(* a key of the program is <<name>> or <<name, name of the child>>, that   *)
(* is, the key split at its first dot.                                     *)
(***************************************************************************)
EXTENDS Integers, Sequences

CONSTANT IntLimit     \* an int holds -IntLimit .. IntLimit - 1

ASSUME ConfigAssumption == IntLimit \in Nat \ {0}

Null       == [kind |-> "null"]
Bool(b)    == [kind |-> "bool", bool |-> b]
String(s)  == [kind |-> "string", string |-> s]
Int64(n)   == [kind |-> "int64", int |-> n]
UInt64     == [kind |-> "uint64"]      \* an integer that no int64 holds
Object(f)  == [kind |-> "object", members |-> f]

\* A file that load() cannot open, read or parse is of the first kinds.
Missing    == [kind |-> "missing"]
Unreadable == [kind |-> "unreadable"]
NotJson    == [kind |-> "not_json"]

\* load() and reload() keep what they have unless the file is an object.
LoadSucceeds(file) == file.kind = "object"

Member(object, name) ==
  IF object.kind = "object" /\ name \in DOMAIN object.members
  THEN object.members[name]
  ELSE Null

FindKey(root, key) ==
  IF Len(key) = 1
  THEN Member(root, key[1])
  ELSE Member(Member(root, key[1]), key[2])

Has(root, key) == FindKey(root, key).kind # "null"

\* get() throws a std::string for a key that is not there.
GetThrows(root, key) == ~Has(root, key)

GetString(root, key, default) ==
  LET v == FindKey(root, key)
  IN  IF v.kind = "string" THEN v.string ELSE default

\* static_cast<int>
ToInt(n) == ((n + IntLimit) % (2 * IntLimit)) - IntLimit

\* as_int64() throws for a number that is kept as uint64.
GetIntThrows(root, key) == FindKey(root, key).kind = "uint64"

GetInt(root, key, default) ==
  LET v == FindKey(root, key)
  IN  IF v.kind = "int64" THEN ToInt(v.int) ELSE default

\* The branches are the wrong way round: as_bool() is called for everything
\* but a boolean, and throws; for a boolean the default is returned.
GetBoolThrows(root, key) == FindKey(root, key).kind # "bool"

GetBool(root, key, default) == default
=============================================================================
