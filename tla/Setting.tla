------------------------------ MODULE Setting ------------------------------
(***************************************************************************)
(* The settings library.                                                   *)
(*                                                                         *)
(* One entry of a Settings map and the setting<T> object that refers to it  *)
(* (settings.h).  A value is what it prints to, with the type it is held    *)
(* in.  A YAML file gives an entry a representation, which is converted     *)
(* when its type is known; a file of the other format replaces the map.     *)
(*                                                                         *)
(* SettingPath of settings.cpp: a path is printed as its parts with dots in *)
(* between, those that are not basic quoted, and parsed by path.ll and      *)
(* path.yy.  A text is a sequence of Symbols; Escaped(c) stands for the     *)
(* letters u00XX that follow a backslash.                                   *)
(*                                                                         *)
(* Settings that are not YAML (settings.yy): lines that name a table, give  *)
(* a key a value, or give it an inline table of keys.  The parser keeps the *)
(* key of the current table from line to line.                             *)
(***************************************************************************)
EXTENDS Sequences, Integers, SequencesExt

CONSTANTS FileTexts,      (* what a file may give                            *)
          NotNumbers,     (* those that are no numbers                       *)
          InitText,       (* the value of init()                             *)
          AssignedText,   (* what the program assigns                        *)
          SettingCalls    (* bound: the calls                                *)

ASSUME SettingAssumption == SettingCalls \in Nat

VARIABLES entry,          (* the Setting                                     *)
          declared,       (* T of setting<T>, or "none"                      *)
          settingMeant,   (* the text of the value that was given last       *)
          settingCall,    (* how the last call ended, and what it gave       *)
          settingMishaps, (* what the calls do not guard against             *)
          settingCallsLeft

settingVars == <<entry, declared, settingMeant, settingCall, settingMishaps, settingCallsLeft>>

Types == {"int", "string"}
Unset == [type |-> "none", text |-> ""]
Missing ==
  [there |-> FALSE, representation |-> "", parser |-> "none", value |-> Unset,
   saveable |-> TRUE, excludedValues |-> {}]

SettingInit ==
  /\ entry = Missing /\ declared = "none" /\ settingMeant = "none"
  /\ settingCall = [did |-> "nothing", ended |-> "well", text |-> ""]
  /\ settingMishaps = {} /\ settingCallsLeft = SettingCalls

SettingEnds(did, how, text) ==
  /\ settingCall' = [did |-> did, ended |-> how, text |-> text]
  /\ settingCallsLeft > 0
  /\ settingCallsLeft' = settingCallsLeft - 1

-----------------------------------------------------------------------------
(* Files                                                                    *)

LoadYaml ==
  \E text \in FileTexts :
    /\ entry' = [entry EXCEPT !.there = TRUE, !.representation = text]
    /\ settingMeant' = text
    /\ SettingEnds("load", "well", "")
    /\ UNCHANGED <<declared, settingMishaps>>

(* The new map has other entries: an object declared before refers to one   *)
(* that is gone, and must not be used.                                      *)
LoadOther ==
  \E text \in FileTexts :
    LET type == IF text \in NotNumbers THEN "string" ELSE "int"
    IN
    /\ entry' = [Missing EXCEPT !.there = TRUE, !.parser = type,
                                !.value = [type |-> type, text |-> text]]
    /\ settingMeant' = text
    /\ declared' = "none"
    /\ SettingEnds("load", "well", "")
    /\ UNCHANGED settingMishaps

(* Reading settings[name] makes an entry without a value or a parser.       *)
Touch ==
  /\ ~entry.there
  /\ entry' = [entry EXCEPT !.there = TRUE]
  /\ settingMishaps' = settingMishaps \union {"touched"}
  /\ SettingEnds("touch", "well", "")
  /\ UNCHANGED <<declared, settingMeant>>

-----------------------------------------------------------------------------
(* Conversion                                                               *)

(* The entry after convert<type>(), and whether that returned.              *)
Converted(e, type) ==
  IF e.representation = "" THEN [entry |-> e, ok |-> TRUE]
  ELSE IF e.representation \in e.excludedValues THEN [entry |-> e, ok |-> FALSE]
  ELSE IF type = "int" /\ e.representation \in NotNumbers
  THEN [entry |-> [e EXCEPT !.parser = type], ok |-> FALSE]
  ELSE [entry |-> [e EXCEPT !.parser = type, !.representation = "",
                            !.value = [type |-> type, text |-> e.representation]],
        ok |-> TRUE]

(* A variant that is wrong: the representation stays when a value is given. *)
GivenValue(e, type, text) ==
  [e EXCEPT !.parser = type, !.value = [type |-> type, text |-> text]]

(* Setting::operator=                                                       *)
Given(e, type, text) ==
  [e EXCEPT !.representation = "", !.parser = type, !.value = [type |-> type, text |-> text]]

(* The same object, setting<T>(settings, name, do_not_save, must_not_be,    *)
(* init): each of its arguments is applied, then what a file gave.          *)
Declare ==
  \E type \in Types, withInit, doNotSave \in BOOLEAN,
     prohibited \in {{}} \union {{text} : text \in FileTexts} :
    LET named == [entry EXCEPT !.there = TRUE, !.parser = type,
                               !.saveable = @ /\ ~doNotSave,
                               !.excludedValues = @ \union prohibited]
        initial == IF withInit
                   THEN [named EXCEPT !.value = [type |-> type, text |-> InitText]] ELSE named
        result == Converted(initial, type)
        default == [type |-> type, text |-> IF type = "int" THEN "0" ELSE ""]
    IN
    /\ declared = "none"
    /\ entry' = IF result.ok /\ result.entry.value = Unset
                THEN [result.entry EXCEPT !.value = default] ELSE result.entry
    /\ declared' = IF result.ok THEN type ELSE "none"
    /\ settingMeant' = IF settingMeant # "none" THEN settingMeant
                       ELSE IF withInit THEN InitText ELSE default.text
    /\ settingMishaps' = settingMishaps
         \union (IF result.entry.value.type \in Types \ {type} THEN {"other type"} ELSE {})
         \union (IF withInit /\ settingMeant # "none" /\ entry.representation = ""
                 THEN {"init last"} ELSE {})
         \union (IF prohibited # {} /\ settingMeant # "none" /\ entry.representation = ""
                 THEN {"unchecked"} ELSE {})
    /\ SettingEnds("declare", IF result.ok THEN "well" ELSE "threw", "")

-----------------------------------------------------------------------------
(* Use, through an object or the map: any type may be assigned to the map.  *)

Assign ==
  \E type \in IF declared = "none" THEN Types ELSE Types \intersect {declared} :
    /\ entry' = [Given(entry, type, AssignedText) EXCEPT !.there = TRUE]
    /\ settingMeant' = AssignedText
    /\ SettingEnds("assign", "well", "")
    /\ UNCHANGED <<declared, settingMishaps>>

Get ==
  /\ declared # "none"
  /\ LET result == Converted(entry, declared)
         ok == result.ok /\ result.entry.value.type = declared
     IN
     /\ entry' = result.entry
     /\ SettingEnds("get", IF ok THEN "well" ELSE "threw", IF ok THEN result.entry.value.text ELSE "")
  /\ UNCHANGED <<declared, settingMeant, settingMishaps>>

(* The object goes out of scope; another may be declared.                   *)
Undeclare ==
  /\ declared # "none"
  /\ declared' = "none"
  /\ SettingEnds("undeclare", "well", "")
  /\ UNCHANGED <<entry, settingMeant, settingMishaps>>

(* toString(): the parser prints the value, which must be of its type.      *)
SaveSettings ==
  /\ entry.there /\ entry.saveable
  /\ IF entry.representation # "" THEN SettingEnds("save", "well", entry.representation)
     ELSE IF entry.parser = "none" THEN SettingEnds("save", "undefined", "")
     ELSE IF entry.parser # entry.value.type THEN SettingEnds("save", "threw", "")
     ELSE SettingEnds("save", "well", entry.value.text)
  /\ UNCHANGED <<entry, declared, settingMeant, settingMishaps>>

SettingNext ==
  \/ LoadYaml \/ LoadOther \/ Touch
  \/ Declare \/ Undeclare
  \/ Assign \/ Get \/ SaveSettings

-----------------------------------------------------------------------------
SettingTypeOK ==
  /\ entry.parser \in Types \union {"none"} /\ entry.value.type \in Types \union {"none"}
  /\ declared \in Types \union {"none"}
  /\ settingCall.ended \in {"well", "threw", "undefined"}

(* What is read or saved is what was given last: what a file or the program *)
(* gave rather than init(), init() rather than T().  The exception: init()  *)
(* is applied over what the other format or the program gave before         *)
(* (settings.h:373-385, 431-441, 486-502).                                  *)
GivenIsHeld ==
  settingCall.did \in {"get", "save"} /\ settingCall.ended = "well" =>
    settingCall.text = settingMeant \/ "init last" \in settingMishaps

(* An entry can be saved: it has a parser, of the type of its value.  Not   *)
(* one that was only looked at, nor one whose value a file or the program   *)
(* gave as another type than it is declared with (settings.cpp:222-227).    *)
EntryCanBeSaved ==
  settingCall.did = "save" =>
    /\ settingCall.ended = "undefined" => "touched" \in settingMishaps
    /\ settingCall.ended = "threw" => "other type" \in settingMishaps

(* A prohibited value is not read, unless it was converted, or came as a    *)
(* value, before it was prohibited (settings.h:431-441).                    *)
ProhibitedIsNotRead ==
  settingCall.did = "get" /\ settingCall.ended = "well" /\ settingCall.text \in FileTexts =>
    settingCall.text \notin entry.excludedValues \/ "unchecked" \in settingMishaps

-----------------------------------------------------------------------------
(* Paths.                                                                   *)
CONSTANTS PartSymbols,    (* what parts are made of                          *)
          MaxPart,        (* bound: the symbols of a part                    *)
          MaxParts        (* bound: the parts of a path                      *)

VARIABLES path,           (* the parts                                       *)
          pathText,       (* path.toString(), or NotPrinted                  *)
          pathRead        (* SettingPath(pathText).parts, NotRead, Refused   *)

pathVars == <<path, pathText, pathRead>>

NotPrinted == <<"not printed">>
NotRead == <<<<"not read">>>>
Refused == <<<<"refused">>>>

(* Letters, a digit among them in real texts; "n" is also an escape.        *)
BareInPath == {"x", "n"}
Controls == {"newline", "nul"}
Escaped(c) == IF c = "newline" THEN "u000A" ELSE "u0000"

PathInit ==
  /\ path \in SeqOf(SeqOf(PartSymbols, MaxPart), MaxParts)
  /\ pathText = NotPrinted /\ pathRead = NotRead

-----------------------------------------------------------------------------
(* toString: neither quotes nor backslashes are escaped, and a part without *)
(* symbols is basic.                                                        *)

isBasic(part) == \A i \in DOMAIN part : part[i] \in BareInPath

(* A variant that is wrong: control characters are written as they are.     *)
AsItIs(c) == <<c>>

escapeSettingPart(c) == IF c \in Controls THEN <<"\\", Escaped(c)>> ELSE <<c>>

PartText(part) ==
  IF isBasic(part) THEN part
  ELSE <<"\"">> \o FlattenSeq([i \in DOMAIN part |-> escapeSettingPart(part[i])]) \o <<"\"">>

toString ==
  /\ pathText = NotPrinted
  /\ pathText' = FlattenSeq([i \in DOMAIN path |->
                    IF i < Len(path) THEN PartText(path[i]) \o <<".">> ELSE PartText(path[i])])
  /\ UNCHANGED <<path, pathRead>>

-----------------------------------------------------------------------------
(* parse: the scanner's tokens, then the grammar.                           *)

(* The symbol a backslash and c stand for; "error" for none.  The escape of *)
(* a zero is converted through a C string, to nothing.                      *)
Unescape(c) ==
  CASE c = "n" -> <<"newline">>
    [] c \in {"\"", "\\"} -> <<c>>
    [] c = "u000A" -> <<"newline">>
    [] c = "u0000" -> <<>>
    [] OTHER -> <<"error">>

(* Scanned(text)[i]: the tokens from i on, outside strings; a token is a    *)
(* point, a part or an error.  Inside[i] reads a string from i on.          *)
Scanned(text) ==
  LET end == Len(text) + 1
      inside[i \in 1..end] ==
        IF i = end THEN [str |-> <<"error">>, next |-> end]
        ELSE IF text[i] = "\"" THEN [str |-> <<>>, next |-> i + 1]
        ELSE LET escape == text[i] = "\\" /\ i < end - 1
                 rest == IF escape THEN inside[i + 2] ELSE inside[i + 1]
                 symbol == IF escape THEN Unescape(text[i + 1])
                           ELSE IF text[i] \in Controls THEN <<"error">>
                           ELSE <<text[i]>>
             IN [rest EXCEPT !.str = symbol \o @]
      bareEnd[i \in 1..end] ==
        IF i < end /\ text[i] \in BareInPath THEN bareEnd[i + 1] ELSE i
      token(kind, str) == <<[is |-> kind, str |-> str]>>
      tokens[i \in 1..end] ==
        CASE i = end -> <<>>
          [] i < end /\ text[i] = "." -> token("point", <<>>) \o tokens[i + 1]
          [] i < end /\ text[i] \in BareInPath ->
               token("part", SubSeq(text, i, bareEnd[i] - 1)) \o tokens[bareEnd[i]]
          [] i < end /\ text[i] = "\"" ->
               token("part", inside[i + 1].str) \o tokens[inside[i + 1].next]
          [] OTHER -> token("error", <<>>)
  IN tokens[1]

(* parts: part | parts POINT part                                           *)
Path(tokens) ==
  LET odd(i) == i % 2 = 1
      good == /\ tokens = <<>> \/ odd(Len(tokens))
              /\ \A i \in DOMAIN tokens :
                   /\ tokens[i].is = (IF odd(i) THEN "part" ELSE "point")
                   /\ "error" \notin ToSet(tokens[i].str)
  IN IF good THEN [i \in 1..(Len(tokens) + 1) \div 2 |-> tokens[2 * i - 1].str] ELSE Refused

parse ==
  /\ pathText # NotPrinted /\ pathRead = NotRead
  /\ pathRead' = Path(Scanned(pathText))
  /\ UNCHANGED <<path, pathText>>

PathNext == toString \/ parse

-----------------------------------------------------------------------------
PathTypeOK ==
  /\ path \in Seq(Seq(PartSymbols))
  /\ \/ pathRead \in {NotRead, Refused}
     \/ pathRead \in Seq(Seq(PartSymbols \union {Escaped(c) : c \in Controls}))

(* A path that is printed and parsed is the same path, whatever its parts   *)
(* are made of, dots and control characters too.  Not kept: parts that are  *)
(* empty, and those with quotes, backslashes or zeros, of which nothing is  *)
(* escaped or read back (settings.cpp:29-72, 116-155; path.ll:32-66).       *)
PathsReadBack ==
  pathRead # NotRead =>
    \/ pathRead = path
    \/ \E i \in DOMAIN path :
         path[i] = <<>> \/ ToSet(path[i]) \intersect {"\"", "\\", "nul"} # {}

-----------------------------------------------------------------------------
(* The lines of a text.                                                    *)
CONSTANTS TextKeys,       (* keys of one part                                *)
          MaxLines        (* bound: the lines of a text                      *)

VARIABLES lines,          (* the text; the n-th line gives the value n       *)
          lineAt,         (* the line that is parsed next                    *)
          tableKey,       (* driver.table_key                                *)
          parsed          (* driver.sm: pairs of a path and a value          *)

textVars == <<lines, lineAt, tableKey, parsed>>

TextLines ==
  [is : {"table", "value", "inline"}, key : {<<k>> : k \in TextKeys}]

TextInit ==
  /\ lines \in SeqOf(TextLines, MaxLines)
  /\ lineAt = 1 /\ tableKey = <<>> /\ parsed = {}

-----------------------------------------------------------------------------
(* A variant that is wrong: the line given last counts.                     *)
InsertedOver(map, pairs) == {m \in map : \A p \in pairs : p[1] # m[1]} \union pairs

(* std::map::insert: the line given first counts.                           *)
Inserted(map, pairs) == map \union {p \in pairs : \A m \in map : m[1] # p[1]}

ParseLine(kind) ==
  /\ lineAt <= Len(lines) /\ lines[lineAt].is = kind
  /\ lineAt' = lineAt + 1
  /\ UNCHANGED lines

ParseTable ==
  /\ ParseLine("table")
  /\ tableKey' = lines[lineAt].key
  /\ UNCHANGED parsed

ParseValue ==
  /\ ParseLine("value")
  /\ parsed' = Inserted(parsed, {<<tableKey \o lines[lineAt].key, lineAt>>})
  /\ UNCHANGED tableKey

(* key = { k = value }: a setting in an inline table is one of the current  *)
(* table already when the inline table is put into it.                      *)
ParseInline ==
  /\ ParseLine("inline")
  /\ \E k \in TextKeys :
       parsed' = Inserted(parsed,
                          {<<tableKey \o lines[lineAt].key \o (tableKey \o <<k>>), lineAt>>})
  /\ UNCHANGED tableKey

TextNext == ParseTable \/ ParseValue \/ ParseInline

-----------------------------------------------------------------------------
SettingsTextTypeOK ==
  /\ lineAt \in 1..Len(lines) + 1
  /\ tableKey \in Seq(TextKeys)

(* A value line and an inline table mean a setting of the table whose line  *)
(* is the last one above; of those with the same path the first is taken,   *)
(* and there are no others.  An inline table below a table line is          *)
(* different: its settings get the table's key twice (settings.yy:85-136).  *)
TableOf(n) ==
  LET above == {m \in 1..n - 1 : lines[m].is = "table"}
  IN IF above = {} THEN <<>> ELSE lines[CHOOSE m \in above : \A o \in above : o <= m].key
PathsOf(n) ==
  CASE lines[n].is = "value" -> {TableOf(n) \o lines[n].key}
    [] lines[n].is = "inline" ->
         {TableOf(n) \o lines[n].key \o <<k>> : k \in TextKeys}
    [] OTHER -> {}
SettingsMean ==
  LET twice(n) == lines[n].is = "inline" /\ TableOf(n) # <<>>
      done == 1..lineAt - 1
  IN /\ \A s \in parsed : twice(s[2]) \/ s[1] \in PathsOf(s[2])
     /\ \A s, t \in parsed : s[1] = t[1] => s = t
     /\ \A n \in done : lines[n].is = "value" =>
          \E s \in parsed : /\ s[1] \in PathsOf(n) /\ s[2] <= n
                            /\ \A m \in done : PathsOf(m) = PathsOf(n) => s[2] <= m
=============================================================================
