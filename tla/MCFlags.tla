------------------------------ MODULE MCFlags -------------------------------
(***************************************************************************)
(* Flags objects for TLC: one with a flag and a rule of each kind, given   *)
(* every input of up to four words; the requests of the PatternMatcher     *)
(* daemon, any set of its flags (mma, which is treated as mr is, aside),   *)
(* some with no value, one or two; and the command line of a daemon.       *)
(***************************************************************************)
EXTENDS PatternMatcherFlags, DaemonFlags, SequencesExt

SmallTable ==
    [requiredFlags |-> {"req"}, optionalFlags |-> {"optA", "optB"},
     noValuesFlags |-> {"none1"}, overridingFlags |-> {"over"},
     flagsDependencies |-> {<<"optA", "req">>},
     incompatibleFlags |-> {<<"none1", "optB">>},
     flagsLooseDependencies |-> [f \in {"optB"} |-> {"optA", "over"}],
     minCount |-> 1]

MCWords == {Flag("req"), Flag("optA"), Flag("optB"), Flag("none1"), Flag("over"),
            Flag("other"), Value("1")}
SixWords == {<<Flag(f), Value("1"), Flag(g), Value("1"), Value("2")>> :
               f, g \in {"req", "optA", "optB"}}
SmallInputs == SeqOf(MCWords, 4) \cup SixWords

Absent == -1
Words(f, n) ==
    IF n = Absent THEN <<>> ELSE <<Flag(f)>> \o [k \in 1 .. n |-> Value("1")]

(* The inputs that give each flag, in this order, as many values.          *)
InOrder(order, counts) ==
    {FlattenSeq([k \in DOMAIN order |-> Words(order[k], c[order[k]])])
        : c \in counts}

PMInputs ==
    InOrder(<<"reqID", "add_indexes", "remove_indexes", "update_indexes",
              "matching", "scenario", "mr", "indexes", "status_indexes">>,
        [add_indexes : {Absent, 0}, remove_indexes : {Absent, 0},
         update_indexes : {Absent, 0}, matching : {Absent, 0},
         scenario : {Absent, 1, 2}, mr : {Absent, 1}, reqID : {Absent, 1},
         indexes : {Absent, 0, 2}, status_indexes : {Absent, 1}])

DaemonInputs ==
    InOrder(<<"iConsole", "iHTTP", "oConsole", "oHTTP", "pghost", "pgport",
              "dbName", "login", "pwd", "help">>,
        [iConsole : {Absent, 0}, iHTTP : {Absent, 1, 2}, oConsole : {Absent, 0},
         oHTTP : {Absent, 0}, pghost : {Absent, 1}, pgport : {Absent, 1},
         dbName : {Absent, 1}, login : {Absent, 1}, pwd : {Absent, 1},
         help : {Absent, 0}])

MCPrograms == {"Small", "PatternMatcher", "Daemon"}
MCTable == [Small |-> SmallTable, PatternMatcher |-> PMTable, Daemon |-> DaemonTable]
MCInputs == [Small |-> SmallInputs, PatternMatcher |-> PMInputs,
             Daemon |-> DaemonInputs]

(* After any input, one that uses few flags: what the one before left      *)
(* behind would show in it.                                                *)
MCLater ==
    [Small |-> SeqOf({Flag("req"), Flag("optB"), Value("1")}, 3),
     PatternMatcher |-> {<<Flag("reqID"), Value("1"), Flag("indexes"), Value("1"), Value("1")>>},
     Daemon |-> {<<Flag("oHTTP"), Flag("pghost"), Value("1")>>}]

(* The status request, as the README has it and with a value.              *)
StatusInputs ==
    [PatternMatcher |->
        {<<Flag("status_indexes"), Flag("reqID"), Value("1")>>,
         <<Flag("status_indexes"), Value("1"), Flag("reqID"), Value("1")>>}]
=============================================================================
