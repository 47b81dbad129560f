------------------------------ MODULE CommandLine ------------------------------
(***************************************************************************)
(* The command line of the kernel (kernel/src/cmdline.rs and cmdline/): a  *)
(* tokenizer, the parser the macro cmdline_struct generates, and the       *)
(* defaults taken when a line has an error.  A line is a sequence of       *)
(* units; a unit is a separator or a run of characters the tokenizer never *)
(* looks into.                                                             *)
(***************************************************************************)
EXTENDS Naturals, Sequences, SequencesExt

Blank == " "
Path == "/log"         \* a unit that cannot be part of a name
Separators == {Blank, ","}

None == [value |-> <<>>, rest |-> <<>>]

\* str::trim_start_matches
TrimStart(s, strip) ==
    LET n == SelectInSeq(s, LAMBDA u : u \notin strip)
    IN  IF n = 0 THEN <<>> ELSE SubSeq(s, n, Len(s))

\* Tokenizer::next_token: everything up to the first unit of find, which must be
\* one of starts.  The position in the line is left out.
next_token(s, find, starts, strip) ==
    LET i == SelectInSeq(s, LAMBDA u : u \in find)
    IN  IF i <= 1 \/ s[i] \notin starts THEN None
        ELSE [value |-> SubSeq(s, 1, i - 1), rest |-> TrimStart(SubSeq(s, i + 1, Len(s)), strip)]

next_ident(s) == next_token(s, {Blank, "=", Path}, {"="}, {Blank})

\* Mutant: one separator behind a value is skipped.
next_value_OneSeparator(s) ==
    LET t == next_token(s, Separators \union {"="}, Separators, {})
    IN  IF t = None THEN [value |-> s, rest |-> <<>>] ELSE t

\* No token: the rest of the line is the value.
next_value(s) ==
    LET t == next_token(s, Separators \union {"="}, Separators, Separators)
    IN  IF t = None THEN [value |-> s, rest |-> <<>>] ELSE t

Bool == {<<"true">>, <<"false">>}
Number == {<<"9600">>, <<"115200">>}
LogLevel == {<<"trace">>, <<"debug">>, <<"info">>, <<"warn">>, <<"error">>}
LogAml == {<<"off">>, <<"normal">>, <<"structured">>}

default_cmdline ==
    [uart |-> <<"true">>, uart_baud |-> <<"115200">>, max_log_level |-> <<"info">>,
     log_file |-> <<"/kernel.log">>, allow_hpet |-> <<"true">>, log_aml |-> <<"off">>]
Fields == DOMAIN default_cmdline

\* CmdlineParse::parse_cmdline of the type of a field returns Ok.
Parses(field, value) ==
    CASE field \in {"uart", "allow_hpet"} -> value \in Bool
      [] field = "uart_baud" -> value \in Number
      [] field = "max_log_level" -> value \in LogLevel
      [] field = "log_aml" -> value \in LogAml
      [] OTHER -> TRUE

\* Cmd::parse_cmdline.  The loop ends where there is no identifier any more.
Failed == [ok |-> FALSE]
RECURSIVE parse_cmdline(_, _)
parse_cmdline(s, cmd) ==
    LET id == next_ident(s)
        v == next_value(id.rest)
        field == id.value[1]
    IN  IF id = None THEN [ok |-> TRUE, cmd |-> cmd]
        ELSE IF Len(id.value) # 1 \/ field \notin Fields THEN Failed
        ELSE IF ~Parses(field, v.value) THEN Failed
        ELSE parse_cmdline(v.rest, [cmd EXCEPT ![field] = v.value])

\* init: line is <<>> when the loader gives none.
Cmdline(line) ==
    LET parsed == parse_cmdline(line, default_cmdline)
    IN  IF parsed.ok THEN parsed.cmd ELSE default_cmdline
================================================================================
