--------------------------- MODULE OptionRegistry ---------------------------
(***************************************************************************)
(* Options and subcommands come and go (CommandLine.cpp): static objects    *)
(* that register themselves with one global parser, which keeps for each    *)
(* subcommand a map of names and a list of positional options.  An option   *)
(* may be in all subcommands, those still to be registered included.  Once  *)
(* a line was parsed, a name that is taken is no error any more.            *)
(***************************************************************************)
EXTENDS Integers, Sequences, FiniteSets, SequencesExt

CONSTANTS Declared,       (* options: [name, subs, positional]                *)
          NewNames,       (* names an option may be given later               *)
          OwnSubs,        (* subcommands besides the two below                *)
          RegistryCalls   (* bound of calls                                   *)

Top == "top"
All == "all"
Unnamed == "unnamed"
NoOption == "no option"
Objects == DOMAIN Declared
Subs == OwnSubs \union {Top, All}
OptionNames == ({Declared[o].name : o \in Objects} \union NewNames) \ {Unnamed}

ASSUME RegistryAssumption ==
  \A o \in Objects : Declared[o].subs \subseteq Subs /\ (All \in Declared[o].subs => Declared[o].subs = {All})

VARIABLES optionsMap,     (* by subcommand and name                           *)
          positionalOpts, (* by subcommand                                    *)
          registeredSubs,
          ownSubs,        (* subcommands that were constructed                *)
          constructed, argStr,
          ignoreDuplicates, inconsistent,
          registryCalls,
          loosened        (* ghost: options whose names were lost, or kept    *)

registryVars == <<optionsMap, positionalOpts, registeredSubs, ownSubs, constructed, argStr,
                  ignoreDuplicates, inconsistent, registryCalls, loosened>>

RegistryInit ==
  /\ optionsMap = [s \in Subs |-> [n \in OptionNames |-> NoOption]]
  /\ positionalOpts = [s \in Subs |-> <<>>]
  /\ registeredSubs = {Top, All} /\ ownSubs = {}
  /\ constructed = {} /\ argStr = [o \in Objects |-> Declared[o].name]
  /\ ignoreDuplicates = FALSE /\ inconsistent = FALSE
  /\ registryCalls = 0 /\ loosened = {}

SubsOf(o) == IF Declared[o].subs = {} THEN {Top} ELSE Declared[o].subs

(* Those an option is put in: every registered one, if it is in all.        *)
ReachedBy(o) == IF All \in SubsOf(o) THEN {All} \union registeredSubs ELSE SubsOf(o)

RegistryCall ==
  /\ registryCalls < RegistryCalls /\ registryCalls' = registryCalls + 1
  /\ ~inconsistent

(* A name that is taken is fatal, or leaves the option without it.          *)
Taken(o, n, subs) == n # Unnamed /\ \E s \in subs : optionsMap[s][n] # NoOption

ArgumentInserted(map, o, n, subs) ==
  [s \in Subs |-> IF s \in subs /\ n # Unnamed /\ map[s][n] = NoOption
                  THEN [map[s] EXCEPT ![n] = o] ELSE map[s]]

Construct(o) ==
  /\ RegistryCall /\ o \notin constructed /\ SubsOf(o) \subseteq {Top, All} \union ownSubs
  /\ IF Taken(o, argStr[o], ReachedBy(o)) /\ ~ignoreDuplicates
     THEN inconsistent' = TRUE /\ UNCHANGED <<optionsMap, positionalOpts, constructed, loosened>>
     ELSE /\ optionsMap' = ArgumentInserted(optionsMap, o, argStr[o], ReachedBy(o))
          /\ positionalOpts' =
               [s \in Subs |-> IF s \in ReachedBy(o) /\ Declared[o].positional
                               THEN Append(positionalOpts[s], o) ELSE positionalOpts[s]]
          /\ constructed' = constructed \union {o}
          /\ loosened' = IF Taken(o, argStr[o], ReachedBy(o)) THEN loosened \union {o} ELSE loosened
          /\ UNCHANGED inconsistent
  /\ UNCHANGED <<ownSubs, registeredSubs, argStr, ignoreDuplicates>>

(* A variant that is wrong: an option in all stays in the others.           *)
RemovedFromNamed(o) == SubsOf(o)

RemovedFrom(o) == IF All \in SubsOf(o) THEN registeredSubs ELSE SubsOf(o)

(* The name is erased, whoever has it.                                      *)
RemoveArgument(o) ==
  /\ RegistryCall /\ o \in constructed
  /\ LET from == RemovedFrom(o)
         n == argStr[o]
         others == {optionsMap[s][n] : s \in IF n = Unnamed THEN {} ELSE from} \ {o, NoOption}
     IN /\ optionsMap' = [s \in Subs |-> IF s \in from /\ n # Unnamed
                                         THEN [optionsMap[s] EXCEPT ![n] = NoOption] ELSE optionsMap[s]]
        /\ positionalOpts' = [s \in Subs |-> IF s \in from THEN Remove(positionalOpts[s], o)
                                             ELSE positionalOpts[s]]
        /\ loosened' = (loosened \union others)
  /\ constructed' = constructed \ {o}
  /\ UNCHANGED <<ownSubs, registeredSubs, argStr, ignoreDuplicates, inconsistent>>

(* The new name is put in first, then the old one erased, also when they    *)
(* are the same; and only in the subcommands the option names: one that is  *)
(* in all keeps its old name in the others.                                 *)
SetArgStr(o, n) ==
  /\ RegistryCall /\ o \in constructed
  /\ LET old == argStr[o]
         others == {optionsMap[s][old] : s \in IF old = Unnamed THEN {} ELSE SubsOf(o)} \ {o, NoOption}
     IN IF Taken(o, n, SubsOf(o)) /\ ~ignoreDuplicates
        THEN inconsistent' = TRUE /\ UNCHANGED <<optionsMap, argStr, loosened>>
        ELSE /\ optionsMap' =
                  [s \in Subs |-> IF s \in SubsOf(o) /\ old # Unnamed
                                  THEN [ArgumentInserted(optionsMap, o, n, SubsOf(o))[s] EXCEPT ![old] = NoOption]
                                  ELSE ArgumentInserted(optionsMap, o, n, SubsOf(o))[s]]
             /\ argStr' = [argStr EXCEPT ![o] = n]
             /\ loosened' = (loosened \union others
                             \union (IF Taken(o, n, SubsOf(o)) \/ All \in SubsOf(o) THEN {o} ELSE {}))
             /\ UNCHANGED inconsistent
  /\ UNCHANGED <<ownSubs, positionalOpts, registeredSubs, constructed, ignoreDuplicates>>

(* The options in all that have a name are put in the new one.              *)
ConstructSubCommand(s) ==
  /\ RegistryCall /\ s \notin ownSubs
  /\ ownSubs' = ownSubs \union {s}
  /\ registeredSubs' = registeredSubs \union {s}
  /\ LET inAll == {n \in OptionNames : optionsMap[All][n] # NoOption}
         clash == \E n \in inAll : optionsMap[s][n] # NoOption
         named == {o \in Objects : Declared[o].positional /\ \E n \in inAll : optionsMap[All][n] = o}
     IN IF clash /\ ~ignoreDuplicates
        THEN inconsistent' = TRUE /\ UNCHANGED <<optionsMap, positionalOpts, loosened>>
        ELSE /\ optionsMap' = [optionsMap EXCEPT ![s] =
                  [n \in OptionNames |-> IF @[n] = NoOption THEN optionsMap[All][n] ELSE @[n]]]
             /\ \E order \in SetToAllKPermutations(named) :
                  /\ Len(order) = Cardinality(named)
                  /\ positionalOpts' = [positionalOpts EXCEPT ![s] = @ \o order]
             /\ loosened' = IF clash THEN loosened \union {optionsMap[All][n] : n \in inAll} ELSE loosened
             /\ UNCHANGED inconsistent
  /\ UNCHANGED <<constructed, argStr, ignoreDuplicates>>

FirstParse ==
  /\ RegistryCall /\ ~ignoreDuplicates /\ ignoreDuplicates' = TRUE
  /\ UNCHANGED <<ownSubs, optionsMap, positionalOpts, registeredSubs, constructed, argStr, inconsistent, loosened>>

(* The options stay, but nothing knows them.                                *)
ResetCommandLineParser ==
  /\ RegistryCall
  /\ registeredSubs' = {Top, All}
  /\ optionsMap' = [s \in Subs |-> IF s \in {Top, All} THEN [n \in OptionNames |-> NoOption]
                                   ELSE optionsMap[s]]
  /\ positionalOpts' = [s \in Subs |-> IF s \in {Top, All} THEN <<>> ELSE positionalOpts[s]]
  /\ loosened' = Objects
  /\ UNCHANGED <<ownSubs, constructed, argStr, ignoreDuplicates, inconsistent>>

RegistryNext ==
  \/ \E o \in Objects : Construct(o) \/ RemoveArgument(o) \/ \E n \in NewNames : SetArgStr(o, n)
  \/ \E s \in OwnSubs : ConstructSubCommand(s)
  \/ FirstParse \/ ResetCommandLineParser

-----------------------------------------------------------------------------
RegistryTypeOK ==
  /\ optionsMap \in [Subs -> [OptionNames -> Objects \union {NoOption}]]
  /\ constructed \subseteq Objects /\ registeredSubs \subseteq Subs
  /\ argStr \in [Objects -> OptionNames \union {Unnamed}]

(* An option is found under its name, and no other, in each subcommand it   *)
(* is in, those that were constructed after it included, and stands once    *)
(* among the positional ones: unless its name was taken when taken names    *)
(* were no error any more, another option with that name was removed or     *)
(* renamed, it is in all and was renamed, or the parser was reset; one      *)
(* without a name is not put in later subcommands                           *)
(* (CommandLine.cpp:210-273, 275-345, 362-385).                             *)
NamesFound ==
  ~inconsistent =>
    /\ \A o \in constructed \ loosened : \A s \in ReachedBy(o) :
         /\ argStr[o] # Unnamed => optionsMap[s][argStr[o]] = o
         /\ Declared[o].positional =>
              IF ToSet(positionalOpts[s]) \cap {o} = {} THEN s \in OwnSubs /\ argStr[o] = Unnamed
              ELSE Cardinality({i \in DOMAIN positionalOpts[s] : positionalOpts[s][i] = o}) = 1
    /\ \A s \in Subs, n \in OptionNames :
         LET o == optionsMap[s][n]
         IN o \notin loosened \union {NoOption} =>
              o \in constructed /\ argStr[o] = n /\ s \in ReachedBy(o)
=============================================================================
