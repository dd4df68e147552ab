----------------------------- MODULE DaemonFlags ----------------------------
(***************************************************************************)
(* The command line of a daemon and what Daemon::run makes of it           *)
(* (processing/Program.cpp, connection/Daemon.hpp), for the daemons whose  *)
(* request processing adds no flags of its own.  The values are left out   *)
(* but for their number.                                                   *)
(***************************************************************************)
EXTENDS Flags

(* A connection to the database has all of these or none.                  *)
Connection == {"pghost", "pgport", "dbName", "login", "pwd"}
CacheFlags == {"cacheLoadingTimeWeight", "cacheSize", "cacheLife",
               "cacheScenesSize", "cacheScenesLife"}
OneValued == Connection \cup CacheFlags \cup {"threads", "queueCapacity", "iHTTP",
                                             "oLogFile"}

(* Mutant: HTTP in no longer asks for HTTP out.                            *)
OnlyOutNeedsIn ==
    {d \in Connection \X Connection : d[1] # d[2]} \cup {<<"oHTTP", "iHTTP">>}
DaemonDependencies ==
    {d \in Connection \X Connection : d[1] # d[2]}
      \cup {<<"iHTTP", "oHTTP">>, <<"oHTTP", "iHTTP">>}

(* Program::start, then initProgramFlags.                                  *)
DaemonTable ==
    [requiredFlags |-> {}, optionalFlags |-> OneValued,
     noValuesFlags |-> {"verbose", "cacheDiscardLessValuable", "iConsole",
                        "oConsole", "oHTTP"},
     overridingFlags |-> {"help"},
     flagsDependencies |-> DaemonDependencies,
     incompatibleFlags |-> {<<"iConsole", "iHTTP">>, <<"oHTTP", "oConsole">>},
     flagsLooseDependencies |-> <<>>, minCount |-> 2]

given(f) == f \in Range(foundFlags)

(* start() goes on to run(), and run() to the server.                      *)
Runs ==
    /\ program = "Daemon"
    /\ verdict = "accepted" /\ ~ given("help")
    /\ \A f \in OneValued : given(f) => Len(flagValues[f]) = 1

iMode == IF given("iHTTP") THEN "HTTP" ELSE "CONSOLE"
oMode == IF given("oHTTP") THEN "HTTP" ELSE "CONSOLE"
-----------------------------------------------------------------------------
(* Properties *)

(* A server that starts reads and answers the same way: the socket the     *)
(* output takes from the server exists only with an HTTP input, and the    *)
(* handlers of an HTTP input wait for answers only an HTTP output puts.    *)
(* And its connection is whole or it has none: Server tests the port alone *)
(* and connects with whatever the others are.                              *)
ModesAgree ==
    Runs => /\ iMode = oMode
            /\ \A f, g \in Connection : given(f) => given(g)
=============================================================================
