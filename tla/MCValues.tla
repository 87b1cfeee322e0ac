----------------------------- MODULE MCValues -----------------------------
(***************************************************************************)
(* The parts of the library whose values are written and read back. One     *)
(* thread uses versions, ranges, patches, emitters, streams, files of       *)
(* records, lines, encodings, descriptions of sources, the paths, entries   *)
(* and texts of settings, and command lines; several use the files of       *)
(* settings, the SQLite cache and the tables of a database. A behaviour is  *)
(* one of one part, chosen at the start; the state of the others stays at   *)
(* one of their initial values.                                             *)
(***************************************************************************)
EXTENDS VersionSyntax, VersionRange, OldVersionRange, Patch, TextEmitter, BinaryStream, MmapFile, Csv, Base,
        Setting, SettingsStorage, SourceDescription,
        SqliteCache, TableUpdates, CommandLine, OptionRegistry, ResponseFile

CONSTANTS Parts,                (* the parts checked                         *)
          this, that, other,    (* objects, threads or programs              *)
          x, y, blank           (* lines of a text, and the empty line      *)

VARIABLE part

numbers == <<versionVars, syntaxVars, rangeVars, oldRangeVars>>
texts == <<patchVars, csvVars, baseVars, emitterVars>>
records == <<streamVars, mmapFileVars, descriptionVars>>
configured == <<pathVars, settingVars, textVars, settingsStorageVars>>
databases == <<cacheVars, updateVars>>
wordsGiven == <<commandLineVars, registryVars, responseVars>>

(* Written versions: of one to three numbers, any of them x, any extra.     *)
Texted(n) ==
  [numbers : UNION {[1..k -> 0..MaxNumber \union {AnyNumber}] : k \in 1..n},
   extra : Extras \union {None}]
Zero == [numbers |-> <<0>>, extra |-> None]
Query(rules, v, w, open, openRight) ==
  [rule : rules, v : v, w : w, open : open, openRight : openRight]

(* Pairs whose ends have one or two numbers, and one extra part or none; the *)
(* second end is also max().                                                *)
MCPairs ==
  LET ends == {v \in Versions : Len(v.numbers) \in 1..2 /\ v.extra \in {None, 1}}
  IN  {pair \in [first : ends, strong1 : BOOLEAN,
                 second : ends \union {VersionMax}, strong2 : BOOLEAN] :
         PairValid(pair)}

MCQueries ==
  UNION {Query(CompareRules \union {"version", "caret", "tilde"},
               Texted(3), {Zero}, {FALSE}, {FALSE}),
         Query({"hyphen"}, Texted(2), Texted(2), {FALSE}, {FALSE}),
         Query({"interval"}, Texted(2), Texted(2), BOOLEAN, BOOLEAN),
         Query({"interval_from"}, Texted(3), {Zero}, BOOLEAN, {FALSE}),
         Query({"interval_to"}, {Zero}, Texted(3), {FALSE}, BOOLEAN),
         [rule : {"printed"}, form : PairForms, pair : MCPairs]}

(* The same for the older grammar, which takes x at the end only.           *)
OldTexted(n) ==
  UNION {{s \in [1..k -> 0..OldMaxNumber \union {Wildcard}] :
            \A i \in 2..k : s[i - 1] = Wildcard => s[i] = Wildcard} : k \in 1..n}
MCOldQueries ==
  UNION {Query(Comparisons \union {"version", "caret", "tilde"},
               OldTexted(3), {<<0>>}, {FALSE}, {FALSE}),
         Query({"hyphen"}, OldTexted(3), OldTexted(3), {FALSE}, {FALSE}),
         Query({"interval"}, OldTexted(3), OldTexted(2), BOOLEAN, BOOLEAN),
         Query({"interval_from"}, OldTexted(3), {<<0>>}, BOOLEAN, {FALSE}),
         Query({"interval_to"}, {<<0>>}, OldTexted(3), {FALSE}, BOOLEAN)}
MCOldCalls == [o \in OldNames |-> IF o = this THEN 3 ELSE 1]
MCOldEnds == {<<0, 0, 1>>, <<0, 1, 0>>, <<0, 2, 2>>, <<1, 0, 0>>, <<2, 2, 2>>}

MCMaxCalls == [o \in RangeNames |-> IF o = this THEN 3 ELSE 2]

MCCallMarks == <<"a", "b", "c", "d">>

MCPartSymbols == {"x", "n", "newline", "nul", ".", "\"", "\\"}

MCFileKeys == [system |-> {"k"}, user |-> {"k", "l"}, local |-> {"l"}]
(* Sources of every kind, urls to be formatted where there is nothing else, *)
(* and three kinds of others, which are formatted already.                  *)
MCOriginals ==
  {s \in UNION {Descriptions(k) : k \in Kinds} :
     s.kind \in {"remote", "files", "empty"} \/ s.has["url"] = "1"}
MCResaved ==
  {s \in UNION {Descriptions(k) : k \in {"git", "hg", "files"}} :
     \A f \in FieldNames : s.has[f] \in {"", "1"} /\ (s.kind # "files" => s.has["url"] = "1")}
MCGetterCalls == [o \in {this, that} |-> IF o = this THEN 2 ELSE 1]
MCCacheCalls == [o \in {this, that} |-> IF o = this THEN 2 ELSE 1]

(* Three releases after the first, and a program of each.                   *)
Update(does, table, column) == [does |-> does, table |-> table, column |-> column]
MCHistories ==
  LET table == Update("new_tables", "more", "first")
      field == Update("new_fields", "base", "second")
      later == Update("new_fields", "more", "second")
      less == Update("delete_fields", "base", "first")
  IN {<<field, table, later>>, <<field, table, less>>, <<table, field, later>>}
MCReleaseOf ==
  [o \in {this, that, other} |-> CASE o = this -> 1 [] o = that -> 2 [] o = other -> 3]
MCUpdateCalls == [o \in {this, that, other} |-> IF o = other THEN 2 ELSE 1]

(* Options, and programs with some of each kind.                            *)
Option(name, many, value, form) ==
  [name |-> name, many |-> many, value |-> value, form |-> form, misc |-> {}, extra |-> 0,
   subs |-> {TopLevel}, alias |-> Nobody, refuses |-> {}]
Dash(w) == <<"-">> \o w
WordsOf(ws, n) == UNION {[1..k -> ws \union {<<"x">>}] : k \in 0..n}
GivenTo(option, order, ws, n) ==
  [option |-> option, order |-> order, lines |-> WordsOf(ws, n), quiet |-> TRUE]

MCPrograms ==
  LET file == Option(<<>>, "required", "required", "positional")
      one == Option(<<>>, "optional", "required", "positional")
      more == Option(<<>>, "zero", "required", "positional")
      all == Option(<<>>, "more", "required", "positional")
      rest == Option(<<>>, "after", "required", "normal")
      out == Option(<<"o">>, "optional", "required", "normal")
      flag(n) == Option(<<n>>, "zero", "optional", "grouping")
      mods == [Option(<<"m">>, "zero", "required", "normal") EXCEPT !.misc = {"space"}]
      pair == [Option(<<"p">>, "optional", "required", "normal") EXCEPT !.extra = 2]
  IN [compiler |-> [GivenTo(
        [file |-> file, out |-> out, a |-> flag("a"), b |-> flag("b"),
         dir |-> Option(<<"I">>, "zero", "required", "prefix")],
        <<"file", "out", "a", "b", "dir">>,
        {Dash(w) : w \in {<<>>, <<"-">>, <<"o">>, <<"o", "=", "x">>, <<"a", "b">>, <<"a", "x">>,
                          <<"I", "x">>}}, 3) EXCEPT !.quiet = FALSE],
      subcommands |-> GivenTo(
        [mods |-> mods,
         short |-> [mods EXCEPT !.name = <<"n">>, !.many = "optional", !.misc = {}, !.alias = "mods"],
         must |-> [Option(<<"r">>, "required", "disallowed", "normal") EXCEPT !.subs = {<<"s">>}]],
        <<"mods", "short", "must">>,
        {<<"s">>} \union {Dash(w) : w \in {<<"m">>, <<"n">>, <<"r">>, <<"m", "=", "x">>}}, 4),
      several |-> GivenTo(
        [pair |-> pair, short |-> [pair EXCEPT !.name = <<"q">>, !.alias = "pair", !.extra = 0],
         some |-> [Option(<<"c">>, "zero", "required", "normal") EXCEPT !.misc = {"comma"}],
         any |-> [Option(<<>>, "zero", "required", "normal") EXCEPT !.misc = {"sink"}]],
        <<"pair", "some", "short", "any">>,
        {<<"x", ",", "y">>}
          \union {Dash(w) : w \in {<<"p">>, <<"c">>, <<"q">>, <<"p", "=", "x">>, <<"z">>}}, 3),
      shared |-> GivenTo([one |-> one, all |-> all, file |-> file], <<"one", "all", "file">>,
                         {Dash(<<"-">>), <<"y">>}, 4),
      never |-> GivenTo([file |-> file, more |-> more, all |-> all], <<"file", "more", "all">>,
                        {Dash(<<"-">>), <<"y">>}, 4),
      after |-> GivenTo(
        [file |-> file, number |-> [file EXCEPT !.refuses = {<<"x">>}], rest |-> rest, out |-> out],
        <<"file", "number", "rest", "out">>, {Dash(<<"o">>), Dash(<<"-">>), <<"y">>}, 4),
      runs |-> GivenTo([file |-> file, rest |-> rest, out |-> out], <<"file", "rest", "out">>,
                       {Dash(<<"o">>), Dash(<<"-">>), <<"y">>}, 4),
      eats |-> GivenTo(
        [eats |-> [more EXCEPT !.name = <<"e">>, !.misc = {"eats"}],
         named |-> [one EXCEPT !.name = <<"f">>, !.refuses = {<<"y">>}], out |-> out],
        <<"eats", "named", "out">>,
        {<<"y">>} \union {Dash(w) : w \in {<<"-">>, <<"o">>, <<"e">>, <<"f">>, <<"e", "=", "x">>}}, 3)]

(* Options with the same name in two subcommands, and two that are in all.  *)
MCDeclared ==
  LET declare(n, subs, at) == [name |-> n, subs |-> subs, positional |-> at]
  IN [one |-> declare("n", {}, FALSE), two |-> declare("n", {"s"}, FALSE),
      every |-> declare("v", {All}, TRUE), word |-> declare(Unnamed, {All}, TRUE)]

(* Words and files that name one another, not at all, and in a circle.      *)
MCWordSymbols == {"x", " ", "\"", "'", "\\", "\n"}
Plain(w) == [kind |-> "plain", name |-> w]
File(w) == [kind |-> "file", name |-> w]
Settings(w) == [kind |-> "settings", name |-> w]
MCFileSystems ==
  {[a |-> <<Plain("x")>>, b |-> <<File("a"), Settings("s"), File("a")>>],
   [a |-> <<Plain("x"), File("b")>>, b |-> <<Settings("s"), File("none"), Plain("y")>>],
   [a |-> <<Plain("x"), File("b")>>, b |-> <<File("a"), Plain("y")>>]}
MCArgumentLists ==
  UNION {[1..n -> {Plain("z"), File("a"), File("b"), File("none"), Settings("t")}] : n \in 0..3}

(* The other parts rest in one of their initial states.                     *)
VersionAtRest == version = VersionMin /\ outcome = "new"
SyntaxAtRest ==
  /\ query = [rule |-> "version", v |-> Zero, w |-> Zero, open |-> FALSE, openRight |-> FALSE]
  /\ answer = Nothing
OldRangeAtRest ==
  /\ oldQuery = [rule |-> "=", v |-> <<0>>, w |-> <<0>>, open |-> FALSE, openRight |-> FALSE]
  /\ oldAnswer = [outcome |-> "none", pairs |-> <<>>]
  /\ oldRanges = [o \in OldNames |-> <<>>] /\ oldMeant = [o \in OldNames |-> {}]
  /\ oldCallsLeft = OldCalls
PatchAtRest ==
  /\ edit = [script |-> <<>>, cut |-> {}, damage |-> "nothing"]
  /\ text = <<Blank>> /\ diff = <<>>
  /\ line = 1 /\ oldIndex = 0 /\ newIndex = 0 /\ oldLeft = 0 /\ newLeft = 0
  /\ patched = <<>> /\ patchState = "file"
CsvAtRest ==
  /\ csvText = <<>> /\ escapeIs = "quote" /\ p = 1 /\ sym = "Eol"
  /\ buf = <<>> /\ cols = <<>> /\ parsing = "field"
StreamAtRest ==
  /\ buffer = <<>> /\ live = {"whole"} /\ streamCall = "none" /\ mishaps = {}
  /\ stream = [o \in Streams |-> Positioned(0, 0, 0)]
PathAtRest == path = <<>> /\ pathText = NotPrinted /\ pathRead = NotRead
TextAtRest == lines = <<>> /\ lineAt = 1 /\ tableKey = <<>> /\ parsed = {}
DescriptionAtRest ==
  /\ described = Described("empty", NoFields, {})
  /\ documents = [f \in Formats |-> [k \in Kinds |-> NoEntry]]
  /\ loaded = NotLoaded /\ savedIn = [f \in Formats |-> <<>>] /\ callsLeft = 0
CommandLineAtRest ==
  /\ program = "runs" /\ commandLine = <<<<"program">>>> /\ quiet = TRUE
  /\ sub = TopLevel /\ firstArg = 2 /\ wordAt = 0
  /\ active = Nobody /\ dashDash = FALSE /\ kept = <<>>
  /\ occurred = [times |-> [o \in Options |-> 0], given |-> [o \in Options |-> <<>>]]
  /\ errorParsing = FALSE /\ parsing_ = "starting"
ResponseAtRest ==
  /\ printed = <<>> /\ quoting = "None" /\ tokenizer = "gnu" /\ tokens = NotReadYet
  /\ files = CHOOSE f \in FileSystems : TRUE
  /\ argv = <<>> /\ givenArgv = <<>> /\ argAt = 1 /\ rspFiles = 0 /\ settingsLoaded = <<>>
  /\ expanding = "off"
ConfigsAtRest == configs = [l \in Levels |-> "absent"] /\ yaml = TRUE /\ ofSw = FALSE

Init ==
  /\ part \in Parts
  /\ IF part = "version" THEN VersionInit ELSE VersionAtRest
  /\ IF part = "syntax" THEN SyntaxInit ELSE SyntaxAtRest
  /\ RangeInit
  /\ IF part = "old_syntax" THEN OldRangeInit ELSE OldRangeAtRest
  /\ IF part = "patch" THEN PatchInit ELSE PatchAtRest
  /\ IF part = "stream" THEN BinaryStreamInit ELSE StreamAtRest
  /\ MmapFileInit
  /\ IF part = "csv" THEN CsvInit ELSE CsvAtRest
  /\ IF part = "base" THEN BaseInit ELSE nBits = 6 /\ BaseInit
  /\ IF part = "path" THEN PathInit ELSE PathAtRest
  /\ IF part = "emitter" THEN EmitterInit ELSE innerIs = "none" /\ EmitterInit
  /\ SettingInit
  /\ IF part = "text" THEN TextInit ELSE TextAtRest
  /\ IF part = "settings" THEN SettingsStorageInit ELSE ConfigsAtRest /\ SettingsStorageInit
  /\ IF part = "description" THEN DescriptionInit ELSE DescriptionAtRest
  /\ IF part = "cache" THEN CacheInit ELSE journal = "wal" /\ CacheInit
  /\ IF part = "arguments" THEN CommandLineInit ELSE CommandLineAtRest
  /\ RegistryInit
  /\ IF part = "response" THEN ResponseInit ELSE ResponseAtRest
  /\ IF part = "tables" THEN UpdatesInit ELSE history = (CHOOSE h \in Histories : TRUE) /\ UpdatesInit

OfNumbers == UNCHANGED <<part, texts, records, configured, databases, wordsGiven>>
OfWords == UNCHANGED <<part, numbers, texts, records, configured, databases>>
OfTexts == UNCHANGED <<part, numbers, records, configured, databases, wordsGiven>>
OfRecords == UNCHANGED <<part, numbers, texts, configured, databases, wordsGiven>>
OfSettings == UNCHANGED <<part, numbers, texts, records, databases, wordsGiven>>
OfDatabases == UNCHANGED <<part, numbers, texts, records, configured, wordsGiven>>

Next ==
  \/ part = "version" /\ VersionNext
     /\ UNCHANGED <<syntaxVars, rangeVars, oldRangeVars>> /\ OfNumbers
  \/ part = "syntax" /\ SyntaxNext
     /\ UNCHANGED <<versionVars, rangeVars, oldRangeVars>> /\ OfNumbers
  \/ part = "range" /\ RangeNext
     /\ UNCHANGED <<versionVars, syntaxVars, oldRangeVars>> /\ OfNumbers
  \/ part = "old_syntax" /\ OldSyntaxNext
     /\ UNCHANGED <<versionVars, syntaxVars, rangeVars>> /\ OfNumbers
  \/ part = "old_range" /\ OldRangeNext
     /\ UNCHANGED <<versionVars, syntaxVars, rangeVars>> /\ OfNumbers
  \/ part = "patch" /\ PatchNext /\ UNCHANGED <<csvVars, baseVars, emitterVars>> /\ OfTexts
  \/ part = "csv" /\ CsvNext /\ UNCHANGED <<patchVars, baseVars, emitterVars>> /\ OfTexts
  \/ part = "base" /\ BaseNext /\ UNCHANGED <<patchVars, csvVars, emitterVars>> /\ OfTexts
  \/ part = "emitter" /\ EmitterNext /\ UNCHANGED <<patchVars, csvVars, baseVars>> /\ OfTexts
  \/ part = "stream" /\ BinaryStreamNext /\ UNCHANGED <<mmapFileVars, descriptionVars>> /\ OfRecords
  \/ part = "mmap" /\ MmapFileNext /\ UNCHANGED <<streamVars, descriptionVars>> /\ OfRecords
  \/ part = "description" /\ DescriptionNext
     /\ UNCHANGED <<streamVars, mmapFileVars>> /\ OfRecords
  \/ part = "path" /\ PathNext
     /\ UNCHANGED <<settingVars, textVars, settingsStorageVars>> /\ OfSettings
  \/ part = "entry" /\ SettingNext
     /\ UNCHANGED <<pathVars, textVars, settingsStorageVars>> /\ OfSettings
  \/ part = "text" /\ TextNext
     /\ UNCHANGED <<pathVars, settingVars, settingsStorageVars>> /\ OfSettings
  \/ part = "settings" /\ SettingsStorageNext
     /\ UNCHANGED <<pathVars, settingVars, textVars>> /\ OfSettings
  \/ part = "cache" /\ CacheNext /\ UNCHANGED updateVars /\ OfDatabases
  \/ part = "arguments" /\ CommandLineNext /\ UNCHANGED <<registryVars, responseVars>> /\ OfWords
  \/ part = "registry" /\ RegistryNext /\ UNCHANGED <<commandLineVars, responseVars>> /\ OfWords
  \/ part = "response" /\ ResponseNext /\ UNCHANGED <<commandLineVars, registryVars>> /\ OfWords
  \/ part = "tables" /\ UpdatesNext /\ UNCHANGED cacheVars /\ OfDatabases

Spec == Init /\ [][Next]_<<part, numbers, texts, records, configured, databases, wordsGiven>>

-----------------------------------------------------------------------------
(* What is checked of each part: its types and its properties, which its    *)
(* module states.                                                           *)

(* Versions are ordered as numbers are, and printing and spelling them      *)
(* loses nothing (version.cpp); a range holds the releases its text is      *)
(* meant for (range.yy); ranges are the unions and intersections of sets of *)
(* versions, and are compared as such (version_range.cpp); the same of the  *)
(* older copy (version1), whose intervals are also read back as printed.    *)
VersionsRight ==
  /\ part = "version" => VersionTypeOK /\ VersionsOrdered /\ VersionsPrintedAndSpelled
  /\ part = "syntax" => SyntaxTypeOK /\ RangesMean /\ PairsReadBack
  /\ part = "range" => RangeTypeOK /\ RangesHoldUnions /\ MergedRangesCompare
  /\ part = "old_syntax" => OldRangeTypeOK /\ OldRangesMean /\ OldPrintedReadsBack
  /\ part = "old_range" => OldRangeTypeOK /\ OldRangesHoldUnions

(* A good diff is applied and another refused (patch.cpp); a text is made   *)
(* of what is added, in its order and its blocks (emitter.h).               *)
TextsRight ==
  /\ part = "patch" => PatchTypeOK /\ GoodDiffsApply
  /\ part = "emitter" => EmitterTypeOK /\ EmittedInOrder /\ BlocksIndented

(* What was written is what is read: records (mmap2.h), the columns of a    *)
(* line (csv.h), bytes that were encoded (base64.h), the paths, entries and *)
(* texts of settings (settings.cpp, settings.h, settings.yy), and the       *)
(* descriptions of sources (source.cpp); and streams over one vector stay   *)
(* inside it (emitter.h).                                                   *)
WrittenIsRead ==
  /\ part = "stream" => BinaryStreamTypeOK /\ StreamsStayInside
  /\ part = "mmap" => MmapFileTypeOK /\ RecordsReadBack
  /\ part = "csv" => CsvTypeOK /\ ColumnsReadBack
  /\ part = "base" => BaseTypeOK /\ BytesReadBack
  /\ part = "path" => PathTypeOK /\ PathsReadBack
  /\ part = "entry" => /\ SettingTypeOK
                       /\ GivenIsHeld /\ EntryCanBeSaved /\ ProhibitedIsNotRead
  /\ part = "text" => SettingsTextTypeOK /\ SettingsMean
  /\ part = "description" => DescriptionTypeOK /\ SourceReadBack /\ PrintedApart

(* What the words of a command line mean: no word is lost, and each option  *)
(* gets those it should, options are found under their names, and words     *)
(* that were printed are read back and files of words are put in their      *)
(* places (CommandLine.cpp, argument.h).                                    *)
ArgumentsRight ==
  /\ part = "arguments" => CommandLineTypeOK /\ NothingLost /\ PositionalsShare /\ RequiredOccur
  /\ part = "registry" => RegistryTypeOK /\ NamesFound
  /\ part = "response" => ResponseTypeOK /\ WordsReadBack /\ ExpandedInPlace

(* What several threads or programs read is what they wrote, in order:      *)
(* the settings of all files (settings.cpp), the rows of the cache          *)
(* (sqlite.h), the tables of a release (postgres.h).                        *)
SharedIsKept ==
  /\ part = "settings" => SettingsStorageTypeOK /\ SettingsLayered
  /\ part = "cache" => CacheTypeOK /\ CountsKept /\ NothingLeftOpen /\ FoundWasSet
  /\ part = "tables" => UpdatesTypeOK /\ TablesMatchVersion /\ ReleaseReached
=============================================================================
