---------------------------- MODULE ConfigValues ----------------------------
(***************************************************************************)
(* The configuration of the daemon as texts and as values: the parser and  *)
(* the dumper of each type, the table of settings, files, defaults and the *)
(* overrides of the command line.  Texts and names are given in lower      *)
(* case: the code compares all of them without regard to it.               *)
(***************************************************************************)
EXTENDS Integers, Sequences, SequencesExt

(* The table: section, key, type, and the text of the default.             *)
S(section, key, type, default) ==
    [name |-> <<section, key>>, type |-> type, default |-> default]

Table == <<
    S("clock", "enabled",         "bool",         "true"),
    S("clock", "primaryislocal",  "bool",         "true"),
    S("clock", "secondary",       "string",       "utc"),
    S("clock", "tertiary",        "string",       "utc"),
    S("clock", "formatprimary",   "clock_format", "12hr"),
    S("clock", "formatsecondary", "clock_format", "12hr"),
    S("clock", "formattertiary",  "clock_format", "12hr"),
    S("clock", "dateformat",      "date_format",  "ddmmyy"),
    S("led", "fire",     "led", "on"),
    S("led", "throttle", "led", "on"),
    S("led", "a",  "led", "green"), S("led", "b",  "led", "green"),
    S("led", "d",  "led", "green"), S("led", "e",  "led", "green"),
    S("led", "t1", "led", "green"), S("led", "t2", "led", "green"),
    S("led", "t3", "led", "green"), S("led", "pov", "led", "green"),
    S("led", "clutch", "led", "green"),
    S("brightness", "mfd", "int", "128"), S("brightness", "led", "int", "128"),
    S("mouse", "enabled", "bool", "true"),
    S("mouse", "speed", "int", "0"),
    S("mouse", "reversescroll", "bool", "false"),
    S("profiles", "directory", "string", "/etc/x52d/profiles.d"),
    S("profiles", "clutchenabled", "bool", "false"),
    S("profiles", "clutchlatched", "bool", "false") >>

Names == {Table[i].name : i \in DOMAIN Table}
TypeOf == [n \in Names |-> (CHOOSE s \in ToSet(Table) : s.name = n).type]

-----------------------------------------------------------------------------
(* Texts to values.                                                        *)

BoolTexts == [yes |-> TRUE, true |-> TRUE, no |-> FALSE, false |-> FALSE]
LedTexts == [off |-> "OFF", on |-> "ON", red |-> "RED", amber |-> "AMBER", green |-> "GREEN"]
ClockTexts ==
    [text \in {"12hr", "12", "24hr", "24"} |-> IF text \in {"12hr", "12"} THEN "12hr" ELSE "24hr"]
DateTexts ==
    [text \in {"ddmmyy", "dd-mm-yy", "mmddyy", "mm-dd-yy", "yymmdd", "yy-mm-dd"} |->
        IF text \in {"ddmmyy", "dd-mm-yy"} THEN "DDMMYY"
        ELSE IF text \in {"mmddyy", "mm-dd-yy"} THEN "MMDDYY" ELSE "YYMMDD"]

\* strtol(3) on the texts that instances use: the low 32 bits of the long it returns,
\* whether characters are left over, and whether errno is set, beyond a long.
Strtol ==
    [text \in {"", "0", "128", "0x80", "-1", "4294967424", "12hr", "99999999999999999999"} |->
        [low |-> IF text \in {"128", "0x80", "4294967424"} THEN 128
                 ELSE IF text \in {"-1", "99999999999999999999"} THEN -1
                 ELSE IF text = "12hr" THEN 12 ELSE 0,
         rest |-> text = "12hr",
         range |-> text = "99999999999999999999"]]

\* A number is written as printf writes an int, which strtol reads.
ASSUME StrtolAssumption ==
    \A t \in DOMAIN Strtol :
        ~Strtol[t].rest /\ ~Strtol[t].range =>
            LET written == ToString(Strtol[t].low) IN
            /\ written \in DOMAIN Strtol
            /\ ~Strtol[written].rest /\ ~Strtol[written].range
            /\ Strtol[written].low = Strtol[t].low

\* A string of NAME_MAX characters or more is cut: the texts that are, and to what.
Cuts == [text \in {"longer/than/name_max"} |-> "longer/than/name_ma"]

Yields(value) == [ok |-> TRUE, value |-> value]
Rejected == [ok |-> FALSE]
LookUp(texts, text) == IF text \in DOMAIN texts THEN Yields(texts[text]) ELSE Rejected

\* The number is read as a long and kept as an int: its high half is dropped.
ParseInt(text) ==
    IF text \in DOMAIN Strtol /\ ~Strtol[text].range /\ ~Strtol[text].rest
    THEN Yields(Strtol[text].low) ELSE Rejected

ParseString(text) == Yields(IF text \in DOMAIN Cuts THEN Cuts[text] ELSE text)

Parse(type, text) ==
    CASE type = "bool"         -> LookUp(BoolTexts, text)
      [] type = "string"       -> ParseString(text)
      [] type = "int"          -> ParseInt(text)
      [] type = "led"          -> LookUp(LedTexts, text)
      [] type = "clock_format" -> LookUp(ClockTexts, text)
      [] type = "date_format"  -> LookUp(DateTexts, text)

-----------------------------------------------------------------------------
(* Values to texts; a clock format is written in words of its own.         *)

\* Faulty: the months are taken for the days.
DateWords_Swapped == [DDMMYY |-> "mm-dd-yy", MMDDYY |-> "dd-mm-yy", YYMMDD |-> "yy-mm-dd"]

ClockWords == [format \in {"12hr", "24hr"} |-> IF format = "12hr" THEN "12 hour" ELSE "24 hour"]
DateWords == [DDMMYY |-> "dd-mm-yy", MMDDYY |-> "mm-dd-yy", YYMMDD |-> "yy-mm-dd"]
LedWords == [OFF |-> "off", ON |-> "on", RED |-> "red", AMBER |-> "amber", GREEN |-> "green"]

DumpText(type, value) ==
    CASE type = "bool"         -> IF value THEN "true" ELSE "false"
      [] type = "string"       -> value
      [] type = "int"          -> ToString(value)
      [] type = "led"          -> LedWords[value]
      [] type = "clock_format" -> ClockWords[value]
      [] type = "date_format"  -> DateWords[value]

-----------------------------------------------------------------------------
(* Configurations, functions from names to values.                         *)

\* The configuration of a process that has none yet is all zeroes.
ZeroOf(type) ==
    CASE type = "bool" -> FALSE [] type = "string" -> "" [] type = "int" -> 0
      [] type = "led" -> "OFF" [] type = "clock_format" -> "12hr" [] type = "date_format" -> "DDMMYY"
Zeroes == [n \in Names |-> ZeroOf(TypeOf[n])]

\* Faulty: the setting is written before its text is known to be good.
ProcessKV_Zeroes(cfg, name, text) ==
    IF name \notin Names THEN [ok |-> TRUE, cfg |-> cfg]
    ELSE LET v == Parse(TypeOf[name], text) IN
         [ok |-> v.ok, cfg |-> [cfg EXCEPT ![name] = IF v.ok THEN v.value ELSE Zeroes[name]]]

\* One key and its text: a name that is not in the table is ignored, without an
\* error, and a text that is rejected leaves the value as it is.
ProcessKV(cfg, name, text) ==
    IF name \notin Names THEN [ok |-> TRUE, cfg |-> cfg]
    ELSE LET v == Parse(TypeOf[name], text) IN
         IF v.ok THEN [ok |-> TRUE, cfg |-> [cfg EXCEPT ![name] = v.value]]
                 ELSE [ok |-> FALSE, cfg |-> cfg]

\* Lines [name, text] one after the other: those of a file whatever errors they
\* have, those of the defaults and the overrides up to the first error.  Of the
\* lines of one setting the last that is accepted counts.
LoadLines(cfg, lines) ==
    [n \in Names |->
        LET good == {i \in DOMAIN lines : lines[i].name = n /\ Parse(TypeOf[n], lines[i].text).ok}
        IN IF good = {} THEN cfg[n] ELSE Parse(TypeOf[n], lines[Max(good)].text).value]

StrictLines(cfg, lines) ==
    LET bad == {i \in DOMAIN lines : lines[i].name \in Names
                                     /\ ~Parse(TypeOf[lines[i].name], lines[i].text).ok}
    IN [ok |-> bad = {},
        cfg |-> LoadLines(cfg, IF bad = {} THEN lines ELSE SubSeq(lines, 1, Min(bad) - 1))]

DefaultLines == [i \in DOMAIN Table |-> [name |-> Table[i].name, text |-> Table[i].default]]

\* x52d_config_load before the file (every setting has a default, so nothing is
\* left of what was there), and with it and the overrides: it ends the daemon if
\* there is no file or an override is rejected.
Defaults == StrictLines(Zeroes, DefaultLines).cfg
LoadFile(file) == LoadLines(Defaults, file)
NoFile == [ok |-> FALSE]
LoadConfig(files, path, overrides) ==
    IF path \notin DOMAIN files THEN NoFile
    ELSE StrictLines(LoadFile(files[path]), overrides)

\* An override of the command line, split at its first "." and "=": none of its
\* three parts may be missing or empty.
SaveOverride(parts) ==
    IF Len(parts) = 3 /\ \A i \in 1..3 : parts[i] # ""
    THEN [ok |-> TRUE, line |-> [name |-> <<parts[1], parts[2]>>, text |-> parts[3]]]
    ELSE Rejected

\* The file that is saved has every setting, in the order of the table.
SaveFile(cfg) ==
    [i \in DOMAIN Table |->
        [name |-> Table[i].name, text |-> DumpText(Table[i].type, cfg[Table[i].name])]]

\* The text of a setting that is in the table.
GetParam(cfg, name) == DumpText(TypeOf[name], cfg[name])
=============================================================================
