--------------------------- MODULE MCApplication ----------------------------
(***************************************************************************)
(* Instances of Application for TLC: the files that config.json may be, as *)
(* small as they can be to make each getter of the program succeed, return *)
(* its default or throw; and two statements of the repository that the     *)
(* code does not keep.                                                     *)
(***************************************************************************)
EXTENDS Application, TLC

\* config.json of the repository, with t as thread_count, n as its
\* read_timeout_seconds and l as its logging level
ConfigJson(t, n, l) ==
  [server      |-> Object([address |-> String("0.0.0.0"), port |-> Int64(8080),
                           backlog |-> Int64(1024), reuse_address |-> Bool(TRUE)]),
   thread_pool |-> Object([thread_count |-> t]),
   sessions    |-> Object([max_sessions |-> Int64(10000)]),
   timeouts    |-> Object([read_timeout_seconds |-> n]),
   database    |-> Object([port |-> Int64(3306)]),
   logging     |-> Object([level |-> String(l), file |-> String("logs/server.log")])]

Without(object, name) == [n \in DOMAIN object \ {name} |-> object[n]]

MCFiles ==
  LET one == ConfigJson(Int64(1), Int64(10), "Info")
  IN  [one        |-> Object(one),
       two        |-> Object(ConfigJson(Int64(2), Int64(10), "Info")),
       no_threads |-> Object(ConfigJson(String("two"), Int64(10), "Alert")),
       \* an int that wraps to a negative one, and a timeout that throws
       negative   |-> Object(ConfigJson(Int64(IntLimit), UInt64, "Info")),
       huge_count |-> Object(ConfigJson(UInt64, Int64(10), "Emergency")),
       no_reuse   |-> Object([one EXCEPT !.server = Object(Without(@.members, "reuse_address"))]),
       \* refused by makeParams() or, edited in after it, by the Logger
       no_logging |-> Object(Without([one EXCEPT !.database = Object([port |-> UInt64])],
                                     "logging")),
       garbled    |-> NotJson]

\* The two workers of config.json, and another read timeout
DeployedFiles ==
  [two  |-> Object(ConfigJson(Int64(2), Int64(5), "Alert")),
   slow |-> Object(ConfigJson(Int64(2), Int64(6), "Alert"))]
-----------------------------------------------------------------------------
\* config.hpp, "Reload config from file": one file takes the place of
\* another, so the three timeouts of a Session come from one of them, a getter
\* that meets the assignment of root_ and finds no object left aside.
OneConfigurationPerSession == \A d, e \in sources \ {"none"} : d = e

\* config.hpp, bool get_bool(key, default_value = false): what the server sets
\* for reuse_address is the boolean of the file, or false if it has none.
ReuseAddressIsThatOfTheFile ==
  main = "endpoint" =>
    LET key == <<"server", "reuse_address">>
        v   == FindKey(Settings(root), key)
    IN  GetBool(Settings(root), key, FALSE) = IF v.kind = "bool" THEN v.bool ELSE FALSE
=============================================================================
