---------------------------- MODULE CommandLine ----------------------------
(***************************************************************************)
(* Parsing a command line (CommandLine.cpp): its words are looked at one    *)
(* by one.  Words for options are handled at once, the others are kept for  *)
(* the positional options and given to them at the end; the name of a       *)
(* subcommand starts the parsing again.  A word is a sequence of            *)
(* characters.  Response files are expanded before (ResponseFile).          *)
(***************************************************************************)
EXTENDS Integers, Sequences, FiniteSets, Functions, SequencesExt

CONSTANT Programs         (* by name, what programs declare and are given:    *)
                          (* [option, order, lines, quiet]: option maps each  *)
                          (* option to a record, order is that of             *)
                          (* declaration, quiet that the caller takes errors  *)

Nobody == "none"
NoValue == <<"no value">>
NoName == <<>>
TopLevel == <<"no subcommand">>

(* What a program may declare: a positional option, one that consumes what  *)
(* is after them, and one in a group have no words to go on with; there is  *)
(* a positional option where one consumes what is after; names are unique.  *)
ASSUME CommandLineAssumption ==
  \A g \in DOMAIN Programs :
    LET opt == Programs[g].option
    IN /\ \A o \in DOMAIN opt :
            /\ opt[o].form \in {"positional", "grouping"} \/ opt[o].many = "after" =>
                 opt[o].extra = 0 /\ "space" \notin opt[o].misc /\ opt[o].alias = Nobody
            /\ opt[o].form = "positional" => opt[o].many # "after" /\ opt[o].value # "disallowed"
            /\ opt[o].form = "grouping" => opt[o].value # "required"
            /\ opt[o].many = "after" =>
                 \A s \in opt[o].subs : \E q \in DOMAIN opt : opt[q].form = "positional" /\ s \in opt[q].subs
       /\ \A o, q \in DOMAIN opt :
            o # q /\ opt[o].name = opt[q].name /\ opt[o].name # <<>> => opt[o].subs \cap opt[q].subs = {}

VARIABLES program,        (* what is declared and given                       *)
          commandLine,    (* the words, the program's name first              *)
          quiet,          (* the caller takes the errors, or had a word       *)
                          (* name a subcommand                                *)
          sub,            (* the subcommand                                   *)
          firstArg, wordAt,
          active,         (* the positional option that was named             *)
          dashDash,       (* -- has been seen                                 *)
          kept,           (* positions of words for positional options        *)
          occurred,       (* [times, given]: occurrences of options           *)
          errorParsing,
          parsing_        (* "words", "accepted", "refused" or "exited"       *)

commandLineVars == <<program, commandLine, quiet, sub, firstArg, wordAt, active, dashDash,
                     kept, occurred, errorParsing, parsing_>>

-----------------------------------------------------------------------------
(* What is declared.                                                        *)
Options == DOMAIN Programs[program].option
Opt(o) == Programs[program].option[o]
In(s) == SelectSeq(Programs[program].order, LAMBDA o : s \in Opt(o).subs)
IsPositionalOpt(o) == Opt(o).form = "positional"
IsSink(o) == ~IsPositionalOpt(o) /\ "sink" \in Opt(o).misc
PositionalOpts(s) == SelectSeq(In(s), IsPositionalOpt)
SinkOpts(s) == SelectSeq(In(s), IsSink)
ConsumeAfterOpts(s) ==
  SelectSeq(In(s), LAMBDA o : ~IsPositionalOpt(o) /\ ~IsSink(o) /\ Opt(o).many = "after")
SubCommands == UNION {Opt(o).subs : o \in Options} \ {TopLevel}

RequiresValue(o) == Opt(o).many \in {"required", "more"}
Unbounded(o) == Opt(o).many \in {"zero", "more"}
Target(o) == IF Opt(o).alias = Nobody THEN o ELSE Opt(o).alias
ValueFlag(o) == Opt(Target(o)).value
Misc(o) == Opt(Target(o)).misc

(* Options by name; a name is cut off behind its dashes and before its      *)
(* first equal sign, when that names an option.                             *)
Lookup(s, name) ==
  IF \E o \in Options : s \in Opt(o).subs /\ Opt(o).name = name /\ name # NoName
  THEN CHOOSE o \in Options : s \in Opt(o).subs /\ Opt(o).name = name
  ELSE Nobody

Undashed(w) ==
  LET n == CHOOSE k \in 0..Len(w) : (\A i \in 1..k : w[i] = "-") /\ (k < Len(w) => w[k + 1] # "-")
  IN SubSeq(w, n + 1, Len(w))

At(w, c) == SelectInSeq(w, LAMBDA d : d = c)

LookupOption(s, name) ==
  LET e == At(name, "=")
  IN IF e = 0 THEN [handler |-> Lookup(s, name), value |-> NoValue]
     ELSE [handler |-> Lookup(s, SubSeq(name, 1, e - 1)), value |-> SubSeq(name, e + 1, Len(name))]

(* The option whose name is the longest start of this name, if it is of     *)
(* such a form, and the length.                                             *)
Starting(s, name, forms) ==
  LET names == {n \in 0..Len(name) : n = 0 \/ Lookup(s, SubSeq(name, 1, n)) # Nobody}
      start == SubSeq(name, 1, CHOOSE k \in names : \A m \in names : m <= k)
      o == Lookup(s, start)
  IN IF o # Nobody /\ Opt(o).form \in forms THEN [handler |-> o, length |-> Len(start)]
     ELSE [handler |-> Nobody, length |-> 0]

-----------------------------------------------------------------------------
(* Occurrences: [times, given, error, at], where error is what the last     *)
(* call returned.  An alias passes them on.                                 *)
AddOccurrence(os, o, pos, value, multi) ==
  LET t == Target(o)
      text == IF value = NoValue THEN <<>> ELSE value
      n == os.times[t] + IF multi THEN 0 ELSE 1
      bad == \/ n > 1 /\ Opt(t).many \in {"optional", "required"}
             \/ text \in Opt(t).refuses
  IN [os EXCEPT !.times[t] = n, !.error = bad,
        !.given[t] = IF bad THEN @ ELSE Append(@, [pos |-> pos, text |-> text])]

Split(value) ==
  LET commas == SelectSeq([i \in DOMAIN value |-> i], LAMBDA i : value[i] = ",")
      from(k) == IF k = 1 THEN 1 ELSE commas[k - 1] + 1
      to(k) == IF k > Len(commas) THEN Len(value) ELSE commas[k] - 1
  IN [k \in 1..Len(commas) + 1 |-> SubSeq(value, from(k), to(k))]

AddParts(os, o, value, multi) ==
  LET parts == IF "comma" \in Misc(o) /\ value # NoValue THEN Split(value) ELSE <<value>>
  IN FoldLeft(LAMBDA a, v : IF a.error THEN a ELSE AddOccurrence(a, o, a.at, v, multi), os, parts)

(* This word and those after it up to the next that starts with a dash.     *)
AddWords(os, o, words) ==
  LET last == CHOOSE k \in os.at..Len(words) :
                /\ \A i \in os.at + 1..k : words[i] = <<>> \/ words[i][1] # "-"
                /\ k < Len(words) => words[k + 1] # <<>> /\ words[k + 1][1] = "-"
      add(a, i) == LET b == AddOccurrence(a, o, i, words[i], FALSE)
                   IN [b EXCEPT !.error = @ \/ a.error]
  IN [FoldLeft(add, os, [k \in 1..last - os.at + 1 |-> os.at + k - 1]) EXCEPT !.at = last]

AddSeveral(os, o, value, words) ==
  LET first == value # NoValue
      start == IF first THEN AddParts(os, o, value, FALSE) ELSE os
      add(a, k) ==
        IF a.error THEN a
        ELSE IF a.at + 1 > Len(words) THEN [a EXCEPT !.error = TRUE]
        ELSE AddParts([a EXCEPT !.at = @ + 1], o, words[a.at + 1], first \/ k > 1)
  IN FoldLeft(add, start, [k \in 1..Opt(o).extra - (IF first THEN 1 ELSE 0) |-> k])

(* A variant that is wrong: the word taken for a value is looked at again.  *)
ProvideAgain(os, o, value, words) ==
  IF value = NoValue /\ ValueFlag(o) = "required" /\ os.at < Len(words)
  THEN AddParts(os, o, words[os.at + 1], FALSE)
  ELSE AddParts(os, o, value, FALSE)

ProvideOption(os, o, value, words) ==
  LET next == value = NoValue /\ ValueFlag(o) = "required"
      extra == Opt(o).extra
      here == IF next THEN [os EXCEPT !.at = @ + 1] ELSE os
      v == IF next THEN words[os.at + 1] ELSE value
  IN IF \/ next /\ os.at = Len(words)
        \/ ValueFlag(o) = "disallowed" /\ (extra > 0 \/ value # NoValue)
     THEN [os EXCEPT !.error = TRUE]
     ELSE IF extra > 0 THEN AddSeveral(here, o, v, words)
     ELSE IF "space" \in Misc(o) THEN AddWords(here, o, words)
     ELSE AddParts(here, o, v, FALSE)

(* Those of a positional option have no words behind them.                  *)
ProvidePositional(os, o, p) ==
  ProvideOption([os EXCEPT !.at = p, !.error = FALSE], o, commandLine[p], <<>>)

-----------------------------------------------------------------------------
CommandLineInit ==
  /\ program \in DOMAIN Programs
  /\ \E l \in Programs[program].lines : commandLine = <<<<"program">>>> \o l
  /\ quiet = Programs[program].quiet
  /\ sub = TopLevel /\ firstArg = 2 /\ wordAt = 0
  /\ active = Nobody /\ dashDash = FALSE /\ kept = <<>>
  /\ occurred = [times |-> [o \in Options |-> 0],
                 given |-> [o \in Options |-> <<>>]]
  /\ errorParsing = FALSE /\ parsing_ = "starting"

NumRequired(s) == Len(SelectSeq(PositionalOpts(s), RequiresValue))

(* A positional option behind one that takes all, or that takes nothing     *)
(* because of one that consumes what is after.                              *)
NeverMatches(s) ==
  LET opts == PositionalOpts(s)
  IN \E i \in DOMAIN opts :
       /\ ~RequiresValue(opts[i])
       /\ IF ConsumeAfterOpts(s) # <<>> THEN Len(opts) > 1
          ELSE Opt(opts[i]).name = NoName /\ \E j \in 1..i - 1 : Unbounded(opts[j])

(* The first word may name the subcommand.                                  *)
Start ==
  /\ parsing_ = "starting" /\ parsing_' = "words"
  /\ LET named == firstArg <= Len(commandLine) /\ commandLine[firstArg] \in SubCommands
     IN /\ sub' = IF named THEN commandLine[firstArg] ELSE TopLevel
        /\ firstArg' = IF named THEN firstArg + 1 ELSE firstArg
  /\ wordAt' = firstArg'
  /\ errorParsing' = NeverMatches(sub')
  /\ UNCHANGED <<program, commandLine, quiet, active, dashDash, kept, occurred>>

Now == [times |-> occurred.times, given |-> occurred.given, error |-> FALSE, at |-> wordAt]
Counted(os) == [times |-> os.times, given |-> os.given]
Word == commandLine[wordAt]
AtWord == parsing_ = "words" /\ wordAt <= Len(commandLine)
IsPositional(w) == w = <<>> \/ w[1] # "-" \/ w = <<"-">> \/ dashDash
SameLine == UNCHANGED <<program, commandLine, quiet, sub, firstArg, parsing_>>

NamesPositional(w) ==
  LET h == LookupOption(sub, Undashed(w)).handler IN h # Nobody /\ Opt(h).form = "positional"

(* What is given to the active positional option may be refused silently.   *)
ToActive ==
  /\ AtWord /\ active # Nobody
  /\ \/ IsPositional(Word)
     \/ Word # <<"-", "-">> /\ "eats" \in Misc(active) /\ ~NamesPositional(Word)
  /\ occurred' = Counted(ProvidePositional(Now, active, wordAt))
  /\ wordAt' = wordAt + 1
  /\ UNCHANGED <<active, dashDash, kept, errorParsing>> /\ SameLine

Keep ==
  /\ AtWord /\ active = Nobody /\ IsPositional(Word) /\ PositionalOpts(sub) # <<>>
  /\ LET rest == ConsumeAfterOpts(sub) # <<>> /\ Len(kept) + 1 >= NumRequired(sub)
         last == IF rest THEN Len(commandLine) ELSE wordAt
     IN /\ kept' = kept \o [i \in 1..last - wordAt + 1 |-> wordAt + i - 1]
        /\ wordAt' = last + 1
  /\ UNCHANGED <<active, dashDash, occurred, errorParsing>> /\ SameLine

(* The errors so far are forgotten, and the errors to come are as if the    *)
(* caller had asked for them.                                               *)
EnterSubCommand ==
  /\ AtWord /\ active = Nobody /\ IsPositional(Word) /\ PositionalOpts(sub) = <<>>
  /\ Word \in SubCommands
  /\ firstArg' = wordAt /\ quiet' = TRUE /\ dashDash' = FALSE /\ parsing_' = "starting"
  /\ UNCHANGED <<program, commandLine, sub, wordAt, active, kept, occurred, errorParsing>>

DashDash ==
  /\ AtWord /\ ~IsPositional(Word) /\ Word = <<"-", "-">>
  /\ dashDash' = TRUE /\ wordAt' = wordAt + 1
  /\ UNCHANGED <<active, kept, occurred, errorParsing>> /\ SameLine

(* Options in a group are provided one by one, all but the last at once.    *)
Group(s, name) ==
  LET goOn(g, rest, os) ==
        Starting(s, rest, {"grouping"}) @@ [name |-> rest, os |-> [os EXCEPT !.error = @ \/ g.os.error]]
      step(g, i) ==
        IF g.handler = Nobody \/ (i > 1 /\ g.length = Len(g.name)) THEN g
        ELSE goOn(g, SubSeq(g.name, g.length + 1, Len(g.name)),
                  ProvideOption([g.os EXCEPT !.at = 1, !.error = FALSE], g.handler, NoValue, <<>>))
  IN FoldLeft(step, Starting(s, name, {"grouping"}) @@ [name |-> name, os |-> Now],
              [i \in DOMAIN name |-> i])

(* Who handles a word, with which value, and what occurred already.         *)
HandledName(s, name, looked, starting) ==
  IF looked.handler # Nobody \/ Len(name) < 2 \/ starting.handler = Nobody
  THEN looked @@ [os |-> Now]
  ELSE IF Opt(starting.handler).form = "prefix"
  THEN [handler |-> starting.handler, os |-> Now,
        value |-> SubSeq(name, starting.length + 1, Len(name))]
  ELSE Group(s, name) @@ [value |-> NoValue]

Handled(s, w) ==
  HandledName(s, Undashed(w), LookupOption(s, Undashed(w)),
              Starting(s, Undashed(w), {"prefix", "grouping"}))

IsOption ==
  /\ AtWord /\ ~IsPositional(Word) /\ Word # <<"-", "-">>
  /\ active # Nobody /\ "eats" \in Misc(active) => NamesPositional(Word)

NamePositional ==
  /\ IsOption
  /\ \E h \in {Handled(sub, Word)} :
       /\ h.handler # Nobody /\ Opt(h.handler).form = "positional"
       /\ active' = h.handler
       /\ errorParsing' =
            (errorParsing \/ ("eats" \in Misc(h.handler) /\ h.value \notin {NoValue, <<>>}))
       /\ occurred' = Counted(h.os)
  /\ wordAt' = wordAt + 1
  /\ UNCHANGED <<dashDash, kept>> /\ SameLine

TakeOption ==
  /\ IsOption
  /\ \E h \in {Handled(sub, Word)} :
       /\ h.handler # Nobody /\ Opt(h.handler).form # "positional"
       /\ \E os \in {ProvideOption([h.os EXCEPT !.at = wordAt, !.error = FALSE],
                                   h.handler, h.value, commandLine)} :
            /\ occurred' = Counted(os)
            /\ errorParsing' = (errorParsing \/ h.os.error \/ os.error)
            /\ wordAt' = os.at + 1
  /\ UNCHANGED <<active, dashDash, kept>> /\ SameLine

(* A word nobody knows is given to the options that take those.             *)
Unhandled(os) ==
  /\ occurred' = Counted(FoldLeft(LAMBDA a, o : AddOccurrence(a, o, wordAt, Word, FALSE),
                                  os, SinkOpts(sub)))
  /\ errorParsing' = (errorParsing \/ os.error \/ SinkOpts(sub) = <<>>)

Unknown ==
  /\ \/ /\ AtWord /\ active = Nobody /\ IsPositional(Word)
        /\ PositionalOpts(sub) = <<>> /\ Word \notin SubCommands
        /\ Unhandled(Now)
     \/ /\ IsOption
        /\ \E h \in {Handled(sub, Word)} : h.handler = Nobody /\ Unhandled(h.os)
  /\ wordAt' = wordAt + 1
  /\ UNCHANGED <<active, dashDash, kept>> /\ SameLine

-----------------------------------------------------------------------------
(* A variant that is wrong: those before it need a word as well.            *)
NeededByAll(opts, i) == Len(SelectSeq(opts, RequiresValue))

Needed(opts, i) == Len(SelectSeq(SubSeq(opts, i + 1, Len(opts)), RequiresValue))

(* The words kept, given to the positional options in order: what each must *)
(* have, and what it may have of those no other must.  An error here is not *)
(* heard of.                                                                *)
GivenOut ==
  LET opts == PositionalOpts(sub)
      provide(a, o, n) ==
        LET give(b, k) == ProvidePositional(b, o, kept[a.next + k - 1])
        IN [next |-> a.next + n, os |-> FoldLeft(give, a.os, [k \in 1..n |-> k])]
      number(a, i) ==
        LET must == IF RequiresValue(opts[i]) THEN 1 ELSE 0
            spare == Len(kept) - (a.next - 1) - must - Needed(opts, i)
        IN must + CASE Opt(opts[i]).many = "required" -> 0
                    [] Opt(opts[i]).many = "optional" -> IF spare > 0 THEN 1 ELSE 0
                    [] OTHER -> spare
      share(a, i) == provide(a, opts[i], number(a, i))
  IN FoldLeft(share, [next |-> 1, os |-> Now], [i \in DOMAIN opts |-> i]).os

(* The first positional option is left out, but when it is the only one.    *)
GivenAfter ==
  LET opts == PositionalOpts(sub)
      needy == SelectSeq(Tail(opts), RequiresValue)
      to == (IF Len(opts) = 1 /\ kept # <<>> THEN opts ELSE needy)
      after == ConsumeAfterOpts(sub)[1]
      give(a, k) ==
        LET os == ProvidePositional(a, IF k <= Len(to) THEN to[k] ELSE after, kept[k])
        IN [os EXCEPT !.error = @ \/ a.error]
  IN FoldLeft(give, Now, [k \in DOMAIN kept |-> k])

WrongNumber ==
  LET unlimited == \/ ConsumeAfterOpts(sub) # <<>>
                   \/ \E i \in DOMAIN PositionalOpts(sub) : Unbounded(PositionalOpts(sub)[i])
  IN \/ Len(kept) < NumRequired(sub)
     \/ ~unlimited /\ Len(kept) > Len(PositionalOpts(sub))

FinishParsing ==
  /\ parsing_ = "words" /\ wordAt > Len(commandLine)
  /\ \E os \in {IF WrongNumber THEN Now
               ELSE IF ConsumeAfterOpts(sub) = <<>> THEN GivenOut ELSE GivenAfter} :
       LET missing == \E o \in Options :
                        sub \in Opt(o).subs /\ Opt(o).name # NoName /\ RequiresValue(o) /\ os.times[o] = 0
       IN /\ occurred' = Counted(os)
          /\ errorParsing' = (\/ errorParsing \/ WrongNumber \/ missing
                              \/ ConsumeAfterOpts(sub) # <<>> /\ os.error)
  /\ parsing_' = IF ~errorParsing' THEN "accepted" ELSE IF quiet THEN "refused" ELSE "exited"
  /\ UNCHANGED <<program, commandLine, quiet, sub, firstArg, wordAt, active, dashDash, kept>>

CommandLineNext ==
  \/ Start \/ ToActive \/ Keep \/ EnterSubCommand \/ DashDash
  \/ NamePositional \/ TakeOption \/ Unknown \/ FinishParsing

-----------------------------------------------------------------------------
CommandLineTypeOK ==
  /\ sub \in SubCommands \union {TopLevel} /\ firstArg \in 2..Len(commandLine) + 1
  /\ wordAt \in 0..Len(commandLine) + 1 /\ active \in Options \union {Nobody}
  /\ \A i \in DOMAIN kept :
       kept[i] \in firstArg..Len(commandLine) /\ (i > 1 => kept[i - 1] < kept[i])
  /\ parsing_ \in {"starting", "words", "accepted", "refused", "exited"}

GivenAt(p) ==
  {g \in Options \X (1..8) :
     g[2] <= Len(occurred.given[g[1]]) /\ occurred.given[g[1]][g[2]].pos = p}
TextOf(g) == occurred.given[g[1]][g[2]].text

(* A value a positional option refuses, or the second of one that was       *)
(* named, is dropped without an error.                                      *)
Dropped(p) ==
  \E o \in Options :
    /\ Opt(o).form = "positional" /\ sub \in Opt(o).subs
    /\ \/ commandLine[p] \in Opt(o).refuses
       \/ Opt(o).name # NoName /\ Opt(o).many \in {"optional", "required"}

(* These take words as they are.                                            *)
TakesWords(o) ==
  \/ Opt(o).form = "positional" \/ Opt(o).many = "after" \/ Opt(o).extra > 0
  \/ Misc(o) \cap {"sink", "space"} # {}

(* A line that is accepted has no word that nobody was given, but for --,   *)
(* the names of positional options, and options whose value is the next     *)
(* word; and none that two were given, but for those who take any unknown   *)
(* word.  What was given is what was written: the word, a part of it        *)
(* between commas, or the value in it.  Of the words before a subcommand    *)
(* nothing is known (CommandLine.cpp:602-707, 1290-1470).                   *)
NothingLost ==
  parsing_ = "accepted" =>
    \A p \in firstArg..Len(commandLine) : \A h \in {Handled(sub, commandLine[p])} :
      LET w == commandLine[p]
          dash == Len(w) > 1 /\ w[1] = "-"
          parts(v) == {v} \union ToSet(Split(v))
          named == dash /\ h.handler # Nobody /\ Opt(h.handler).form = "positional"
          valueOfLast == p > firstArg /\ GivenAt(p - 1) = {}
      IN /\ GivenAt(p) # {} \/ Dropped(p) \/ w = <<"-", "-">> \/ named \/ (dash /\ GivenAt(p + 1) # {})
         /\ \A f, g \in GivenAt(p) : f[1] = g[1] \/ f[1] \in ToSet(SinkOpts(sub))
         /\ \A g \in GivenAt(p) :
              \/ TextOf(g) \in parts(w) /\ (~dash \/ TakesWords(g[1]) \/ valueOfLast)
              \/ h.value = NoValue /\ TextOf(g) = <<>>
              \/ h.value # NoValue /\ TextOf(g) \in parts(h.value)

(* Positional options share the words kept for them in order: each gets     *)
(* what it must have, and of the rest the first that may take it takes all  *)
(* it may, as a comparison with all ways to share them shows                *)
(* (CommandLine.cpp:1408-1450).                                             *)
PositionalsShare ==
  LET opts == PositionalOpts(sub)
      ways == {c \in [DOMAIN opts -> 0..Len(kept)] :
                 /\ FoldFunction(+, 0, c) = Len(kept)
                 /\ \A i \in DOMAIN opts :
                      /\ RequiresValue(opts[i]) => c[i] > 0
                      /\ Opt(opts[i]).many \in {"required", "optional"} => c[i] <= 1}
      before(c, d) == \E i \in DOMAIN opts : c[i] > d[i] /\ \A j \in 1..i - 1 : c[j] = d[j]
      best == CHOOSE c \in ways : \A d \in ways \ {c} : before(c, d)
      given == FlattenSeq([i \in DOMAIN opts |-> occurred.given[opts[i]]])
  IN /\ parsing_ = "accepted" /\ ConsumeAfterOpts(sub) = <<>> /\ opts # <<>>
     /\ \A i \in DOMAIN opts : Opt(opts[i]).name = NoName /\ Opt(opts[i]).refuses = {}
     => /\ \A i \in DOMAIN opts : Len(occurred.given[opts[i]]) = best[i]
        /\ given = [i \in DOMAIN kept |-> [pos |-> kept[i], text |-> commandLine[kept[i]]]]

(* Every option that must occur did in a line that is accepted, and what is *)
(* behind the positional options goes to the one that consumes it: but for  *)
(* the first of several positional ones, which gets nothing then            *)
(* (CommandLine.cpp:1452-1500).                                             *)
RequiredOccur ==
  parsing_ = "accepted" =>
    /\ \A o \in Options :
         sub \in Opt(o).subs /\ RequiresValue(o) =>
           \/ occurred.times[o] > 0
           \/ /\ ConsumeAfterOpts(sub) # <<>> /\ Len(PositionalOpts(sub)) > 1
              /\ o = PositionalOpts(sub)[1]
    /\ ConsumeAfterOpts(sub) # <<>> /\ kept # <<>> /\ NumRequired(sub) > 0 =>
         LET after == occurred.given[ConsumeAfterOpts(sub)[1]]
             first == Len(kept) - Len(after)
         IN /\ Last(kept) = Len(commandLine)
            /\ first = (IF Len(PositionalOpts(sub)) = 1 THEN 1 ELSE NumRequired(sub) - 1)
            /\ \A i \in DOMAIN after : after[i].pos = kept[first + i]
=============================================================================
