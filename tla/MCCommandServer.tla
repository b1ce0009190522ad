--------------------------- MODULE MCCommandServer ---------------------------
EXTENDS CommandServer

CONSTANTS c1, c2, c3

MCFile == << [name |-> <<"led", "a">>, text |-> "red"], [name |-> <<"led", "b">>, text |-> "blue"],
             [name |-> <<"mouse", "colour">>, text |-> "1"] >>
MCFiles == "x52d.conf" :> MCFile

MCOptions == {
    << <<"brightness", "led", "-1">>, <<"clock", "tertiary", "longer/than/name_max">> >>,
    << <<"clock", "", "x">> >>, << <<"led", "a", "blue">> >> }

\* One client with every kind of command, or three that want a slot.
MCConfig == {
    <<>>, <<"">>, <<"config">>, <<"config", "load">>, <<"config", "forget">>, <<"config", "long">>,
    <<"config", "set", "brightness", "mfd", "4294967424">>,
    <<"config", "set", "brightness", "mfd", "12hr">>,
    <<"config", "set", "clock", "dateformat", "yy-mm-dd">>,
    <<"config", "set", "clock", "secondary", "">>,
    <<"config", "set", "led", "t1", "blue">>,
    <<"config", "set", "led", "t9", "red">>,
    <<"config", "get", "clock", "dateformat">>, <<"config", "get", "led", "t9">>,
    <<"config", "reload">>, <<"config", "save", "now">>}
MCFileCommands == {
    <<"config", "set", "clock", "formatprimary", "24">>,
    <<"config", "dump", "saved.conf">>, <<"config", "dump", "">>,
    <<"config", "load", "saved.conf">> }
MCLogging == {
    <<"logging">>, <<"logging", "show">>, <<"logging", "show", "clock">>,
    <<"logging", "show", "brakes">>, <<"logging", "set", "info">>,
    <<"logging", "set", "default">>, <<"logging", "set", "clock", "trace">>,
    <<"logging", "set", "clock", "default">>, <<"logging", "set", "brakes", "info">>,
    <<"logging", "set", "clock", "loud">>, <<"logging", "forget">>,
    <<"hello">> }
MCSome == {<<"config", "get", "mouse", "enabled">>}
MCRepertoires == {c1 :> MCConfig, c1 :> MCFileCommands, c1 :> MCLogging,
                  c1 :> MCSome @@ c2 :> MCSome @@ c3 :> {}}
=============================================================================
