---------------------------- MODULE ResponseFile ----------------------------
(***************************************************************************)
(* Words of a command line as text and back: how a command prints its       *)
(* arguments (argument.h), how a text is cut into words, as a Unix or a     *)
(* Windows shell would or as the lines of a configuration file, and how     *)
(* words that name files of words are replaced (CommandLine.cpp).  A text   *)
(* is a sequence of characters; in the files words are given, as            *)
(* [kind, name] where kind is "plain", "file" (@name) or "settings"         *)
(* (@@name).                                                                *)
(***************************************************************************)
EXTENDS Integers, Sequences, SequencesExt

CONSTANTS WordSymbols, MaxWord, MaxWords,
          FileSystems,    (* what the files hold: [name -> words]             *)
          ArgumentLists,  (* words given on a command line                    *)
          RspLimit        (* 20 in the code                                   *)

VARIABLES printed, quoting, tokenizer, (* what is written, how, and for whom  *)
          tokens,                      (* what is read                        *)
          files, argv, argAt, rspFiles, settingsLoaded,
          givenArgv,                   (* ghost: argv at first                *)
          expanding                    (* "off", "on", "done", or "gave up"   *)

responseVars == <<printed, quoting, tokenizer, tokens, files, givenArgv, argv, argAt, rspFiles,
                  settingsLoaded, expanding>>

NotReadYet == <<"not read">>

White(c) == c \in {" ", "\n"}
Quote(c) == c \in {"\"", "'"}

-----------------------------------------------------------------------------
(* Argument::quote and Command::print.                                      *)
EscapedWord(w) ==
  FlattenSeq([i \in DOMAIN w |-> IF w[i] \in {"\\", "\""} THEN <<"\\", w[i]>> ELSE <<w[i]>>])
Simple(w) == IF w # <<>> /\ w[1] = "\"" THEN w ELSE <<"\"">> \o w \o <<"\"">>
Quoted(w, type) ==
  CASE type = "None" -> w
    [] type = "Simple" -> Simple(w)
    [] type = "Escape" -> EscapedWord(w)
    [] type = "SimpleAndEscape" -> Simple(EscapedWord(w))
PrintedCommand(ws, type) ==
  FlattenSeq([i \in DOMAIN ws |-> (IF i > 1 THEN <<" ">> ELSE <<>>) \o Quoted(ws[i], type)])

-----------------------------------------------------------------------------
(* TokenizeGNUCommandLine: in is the quote the text is in, or "".           *)
Push(st, c) == [st EXCEPT !.token = Append(@, c)]
Flush(st) == IF st.token = <<>> THEN st
             ELSE [st EXCEPT !.token = <<>>, !.tokens = Append(@, st.token)]

(* A variant that is wrong: nothing is escaped between quotes.              *)
EscapesOutside(st, c) == c = "\\" /\ st.in = ""

Escapes(st, c) == c = "\\"

GnuTokens(text) ==
  LET step(st, i) ==
        LET c == text[i]
        IN CASE st.escaped -> [Push(st, c) EXCEPT !.escaped = FALSE]
             [] ~st.escaped /\ Escapes(st, c) /\ i < Len(text) -> [st EXCEPT !.escaped = TRUE]
             [] ~st.escaped /\ ~(Escapes(st, c) /\ i < Len(text)) ->
                  IF st.in = c THEN [st EXCEPT !.in = ""]
                  ELSE IF st.in = "" /\ Quote(c) THEN [st EXCEPT !.in = c]
                  ELSE IF st.in = "" /\ White(c) THEN Flush(st)
                  ELSE Push(st, c)
  IN Flush(FoldLeft(step, [token |-> <<>>, tokens |-> <<>>, in |-> "", escaped |-> FALSE],
                    [i \in DOMAIN text |-> i])).tokens

(* TokenizeWindowsCommandLine: backslashes are doubled only before a quote. *)
Backslashes(text, i) ==
  CHOOSE n \in 1..Len(text) - i + 1 :
    /\ \A k \in i..i + n - 1 : text[k] = "\\"
    /\ i + n <= Len(text) => text[i + n] # "\\"

ParseBackslash(st, text, i) ==
  LET n == Backslashes(text, i)
      quote == i + n <= Len(text) /\ text[i + n] = "\""
      odd == n % 2 = 1
  IN [st EXCEPT !.token = @ \o [k \in 1..(IF quote THEN n \div 2 ELSE n) |-> "\\"]
                            \o (IF quote /\ odd THEN <<"\"">> ELSE <<>>),
                !.past = IF quote /\ odd THEN i + n ELSE i + n - 1]

WindowsTokens(text) ==
  LET started(st) == [st EXCEPT !.state = IF @ = "init" THEN "unquoted" ELSE @]
      step(st, i) ==
        LET c == text[i]
        IN IF i <= st.past THEN st
           ELSE IF c = "\"" THEN [st EXCEPT !.state = IF @ = "quoted" THEN "unquoted" ELSE "quoted"]
           ELSE IF c = "\\" THEN ParseBackslash(started(st), text, i)
           ELSE IF ~White(c) \/ st.state = "quoted" THEN Push(started(st), c)
           ELSE IF st.state = "init" THEN st
           ELSE [st EXCEPT !.tokens = Append(@, st.token), !.token = <<>>, !.state = "init"]
  IN Flush(FoldLeft(step, [token |-> <<>>, tokens |-> <<>>, state |-> "init", past |-> 0],
                    [i \in DOMAIN text |-> i])).tokens

(* tokenizeConfigFile: a line whose end is escaped goes on with the next;   *)
(* one that starts with # is left out.                                      *)
ConfigTokens(text) ==
  LET tokenized(st) == [st EXCEPT !.tokens = @ \o GnuTokens(st.line), !.line = <<>>, !.state = "start"]
      step(st, i) ==
        LET c == text[i]
        IN IF st.state = "escaped"
           THEN [st EXCEPT !.state = "line", !.line = IF c = "\n" THEN Front(@) ELSE Append(@, c)]
           ELSE IF st.state = "comment" THEN [st EXCEPT !.state = IF c = "\n" THEN "start" ELSE @]
           ELSE IF st.state = "start" /\ White(c) THEN st
           ELSE IF st.state = "start" /\ c = "#" THEN [st EXCEPT !.state = "comment"]
           ELSE IF c = "\n" THEN tokenized(st)
           ELSE [st EXCEPT !.line = Append(@, c),
                           !.state = IF c = "\\" /\ i < Len(text) THEN "escaped" ELSE "line"]
  IN tokenized(FoldLeft(step, [line |-> <<>>, tokens |-> <<>>, state |-> "start"],
                        [i \in DOMAIN text |-> i])).tokens

-----------------------------------------------------------------------------
SomeWords == UNION {[1..n -> WordSymbols] : n \in 0..MaxWord}

ResponseInit ==
  /\ \/ /\ printed \in UNION {[1..n -> SomeWords] : n \in 0..MaxWords}
        /\ quoting \in {"None", "Simple", "Escape", "SimpleAndEscape"}
        /\ tokenizer \in {"gnu", "windows", "config"}
        /\ argv = <<>> /\ files = CHOOSE f \in FileSystems : TRUE
        /\ expanding = "off"
     \/ /\ printed = <<>> /\ quoting = "None" /\ tokenizer = "gnu"
        /\ files \in FileSystems /\ argv \in ArgumentLists
        /\ expanding = "on"
  /\ tokens = NotReadYet /\ givenArgv = argv
  /\ argAt = 1 /\ rspFiles = 0 /\ settingsLoaded = <<>>

Tokenize ==
  /\ expanding = "off" /\ tokens = NotReadYet
  /\ LET text == PrintedCommand(printed, quoting)
     IN tokens' = CASE tokenizer = "gnu" -> GnuTokens(text)
                    [] tokenizer = "windows" -> WindowsTokens(text)
                    [] tokenizer = "config" -> ConfigTokens(text)
  /\ UNCHANGED <<printed, quoting, tokenizer, files, givenArgv, argv, argAt, rspFiles,
                 settingsLoaded, expanding>>

Expands == expanding = "on" /\ UNCHANGED <<printed, quoting, tokenizer, tokens, files, givenArgv>>
Arg == argv[argAt]
AtArg(kind) == argAt <= Len(argv) /\ Arg.kind = kind

KeepWord ==
  /\ Expands /\ AtArg("plain") /\ argAt' = argAt + 1
  /\ UNCHANGED <<argv, rspFiles, settingsLoaded, expanding>>

LoadSettings ==
  /\ Expands /\ AtArg("settings")
  /\ settingsLoaded' = Append(settingsLoaded, Arg.name)
  /\ argv' = RemoveAt(argv, argAt)
  /\ UNCHANGED <<argAt, rspFiles, expanding>>

(* A file that cannot be read stays as it is; it is counted all the same.   *)
ExpandFile ==
  /\ Expands /\ AtArg("file") /\ rspFiles <= RspLimit
  /\ rspFiles' = rspFiles + 1
  /\ IF Arg.name \in DOMAIN files
     THEN /\ argv' = SubSeq(argv, 1, argAt - 1) \o files[Arg.name] \o SubSeq(argv, argAt + 1, Len(argv))
          /\ UNCHANGED argAt
     ELSE argAt' = argAt + 1 /\ UNCHANGED argv
  /\ UNCHANGED <<settingsLoaded, expanding>>

TooMany ==
  /\ Expands /\ AtArg("file") /\ rspFiles > RspLimit
  /\ expanding' = "gave up"
  /\ UNCHANGED <<argv, argAt, rspFiles, settingsLoaded>>

Expanded ==
  /\ Expands /\ argAt > Len(argv) /\ expanding' = "done"
  /\ UNCHANGED <<argv, argAt, rspFiles, settingsLoaded>>

ResponseNext == Tokenize \/ KeepWord \/ LoadSettings \/ ExpandFile \/ TooMany \/ Expanded

-----------------------------------------------------------------------------
ResponseTypeOK ==
  /\ rspFiles \in 0..RspLimit + 1 /\ argAt \in 1..Len(argv) + 1
  /\ expanding \in {"off", "on", "done", "gave up"}

InWords(c) == \E i \in DOMAIN printed : \E k \in DOMAIN printed[i] : printed[i][k] = c
EndsWord(c) == \E i \in DOMAIN printed : printed[i] # <<>> /\ Last(printed[i]) = c
NotEmpty(ws) == SelectSeq(ws, LAMBDA w : w # <<>>)
WithoutLastEmpty(ws) == IF ws # <<>> /\ Last(ws) = <<>> THEN Front(ws) ELSE ws

(* The words of a printed command are read back: escaped, by a Unix shell   *)
(* and from a line of a configuration file, but for empty ones; not         *)
(* escaped, when there is nothing to escape.  A Windows shell reads         *)
(* backslashes as they are but before a quote, and loses an empty word at   *)
(* the end only (argument.h:115-141, CommandLine.cpp:809-1029).             *)
WordsReadBack ==
  tokens # NotReadYet =>
    LET special == InWords("\\") \/ InWords("\"")
        exactly == \/ quoting = "SimpleAndEscape" /\ (tokenizer # "windows" \/ ~special)
                   \/ /\ quoting = "Simple"
                      /\ IF tokenizer = "windows" THEN ~InWords("\"") /\ ~EndsWord("\\") ELSE ~special
    IN exactly /\ ~(tokenizer = "config" /\ InWords("\n")) =>
         tokens = (IF tokenizer = "windows" THEN WithoutLastEmpty(printed) ELSE NotEmpty(printed))

(* What the words stand for when every file is put in its place, four deep. *)
FilesInlined(ws) ==
  LET once(us) == FlattenSeq([i \in DOMAIN us |->
                    IF us[i].kind = "file" /\ us[i].name \in DOMAIN files
                    THEN files[us[i].name] ELSE <<us[i]>>])
      f[n \in 0..4] == IF n = 0 THEN ws ELSE once(f[n - 1])
  IN f[4]
InCircle ==
  \E i \in DOMAIN FilesInlined(argv) :
    FilesInlined(argv)[i].kind = "file" /\ FilesInlined(argv)[i].name \in DOMAIN files
WithoutSettings(ws) == SelectSeq(ws, LAMBDA w : w.kind # "settings")

(* Files are expanded in their places, so that the words in the end are     *)
(* those meant and in order, and settings are loaded in that order; files   *)
(* that name one another in a circle come to an end                         *)
(* (CommandLine.cpp:1090-1138).                                             *)
ExpandedInPlace ==
  LET meant == FilesInlined(givenArgv)
      settings == SelectSeq(meant, LAMBDA w : w.kind = "settings")
  IN /\ expanding \in {"done", "gave up"} =>
          WithoutSettings(FilesInlined(argv)) = WithoutSettings(meant) \/ InCircle
     /\ expanding = "done" =>
          /\ \A i \in DOMAIN argv : argv[i].kind = "file" => argv[i].name \notin DOMAIN files
          /\ settingsLoaded = [i \in DOMAIN settings |-> settings[i].name]
=============================================================================
