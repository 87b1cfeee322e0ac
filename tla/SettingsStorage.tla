-------------------------- MODULE SettingsStorage --------------------------
(***************************************************************************)
(* SettingStorage<T>::get (settings.cpp): system, user and local settings,  *)
(* each loaded over a copy of those below it by the first call that asks    *)
(* for them.  RUN_ONCE (templates.h) is a flag that is raised before the    *)
(* body runs.  A storage is a program's own, or that of sw/settings.cpp,    *)
(* which is built by one thread at a time and loads local settings then.    *)
(***************************************************************************)
EXTENDS Integers

CONSTANTS Getters,        (* threads                                         *)
          FileKeys,       (* FileKeys[level]: the keys in the file of level  *)
          GetterCalls     (* GetterCalls[t], bound: calls of t               *)

Levels == {"system", "user", "local"}

ASSUME SettingsStorageAssumption ==
  /\ DOMAIN FileKeys = Levels
  /\ {"no", "yes"} \intersect Getters = {}
  /\ GetterCalls \in [Getters -> Nat]

VARIABLES configs,        (* configs[level]: the state of its file           *)
          yaml,           (* whether the files are YAML                      *)
          ofSw,           (* whether it is the storage of sw/settings.cpp    *)
          built,          (* of that: "no", "yes", or the thread that builds *)
          raised,         (* the levels whose flag is raised                 *)
          settings,       (* settings[level][key]: the file of the value     *)
          wants,          (* wants[t]: the level t has asked for             *)
          getAt,          (* getAt[t]: what t does, for which level          *)
          merging,        (* merging[t]: the keys that are still to be read  *)
          gotten,         (* gotten[t]: how its last call ended              *)
          getsLeft,
          getMishaps      (* what the calls do not guard against             *)

settingsStorageVars ==
  <<configs, yaml, ofSw, built, raised, settings, wants, getAt, merging, gotten, getsLeft,
    getMishaps>>
givenConfigs == <<configs, yaml, ofSw>>

Keys == UNION {FileKeys[l] : l \in Levels}
Out == <<"out", "nothing">>
NoSettings == [k \in Keys |-> "none"]
Below(level) == IF level = "local" THEN "user" ELSE "system"

SettingsStorageInit ==
  /\ configs \in [Levels -> {"no name", "absent", "good", "bad"}]
  /\ configs.system # "no name" /\ configs.local # "no name"
  /\ yaml \in BOOLEAN
  /\ ofSw \in BOOLEAN /\ (~ofSw => configs.local = "absent")
  /\ built = "no"
  /\ raised = {}
  /\ settings = [l \in Levels |-> NoSettings]
  /\ wants = [t \in Getters |-> "system"]
  /\ getAt = [t \in Getters |-> Out]
  /\ merging = [t \in Getters |-> {}]
  /\ gotten = [t \in Getters |-> "never"]
  /\ getsLeft = GetterCalls
  /\ getMishaps = {}

-----------------------------------------------------------------------------
Turns(t, does, level) == getAt' = [getAt EXCEPT ![t] = <<does, level>>]
Leaves(t, how) ==
  /\ getAt' = [getAt EXCEPT ![t] = Out]
  /\ gotten' = [gotten EXCEPT ![t] = how]

(* get(level) returns to whoever called it: the level above, the thread     *)
(* that builds the storage, or the program.                                 *)
Back(t, level) ==
  \/ /\ built = t /\ level = "local"
     /\ Turns(t, "load", "local") /\ UNCHANGED gotten
  \/ /\ built # t /\ level = wants[t]
     /\ Leaves(t, "returned")
  \/ /\ level # (IF built = t THEN "local" ELSE wants[t])
     /\ Turns(t, "copy", IF level = "user" THEN "local" ELSE "user") /\ UNCHANGED gotten

(* An exception leaves the flags raised, and a storage that is being built  *)
(* is built by the next call.                                               *)
GetThrows(t) ==
  /\ Leaves(t, "threw")
  /\ built' = IF built = t THEN "no" ELSE built
  /\ merging' = [merging EXCEPT ![t] = {}]
  /\ getMishaps' = getMishaps \union {"failed"}
  /\ UNCHANGED <<raised, settings, wants, getsLeft>> /\ UNCHANGED givenConfigs

GoesOn == UNCHANGED <<wants, getsLeft, getMishaps>> /\ UNCHANGED givenConfigs

(* Threads that come together are a mishap, but where the building of the   *)
(* storage loads all levels.                                                *)
CallGet(t) ==
  /\ getAt[t] = Out /\ getsLeft[t] > 0
  /\ \E level \in Levels :
       /\ wants' = [wants EXCEPT ![t] = level]
       /\ Turns(t, IF ofSw /\ built # "yes" THEN "build" ELSE "ask", level)
  /\ gotten' = [gotten EXCEPT ![t] = "never"]
  /\ getsLeft' = [getsLeft EXCEPT ![t] = @ - 1]
  /\ getMishaps' = getMishaps
       \union {"together" : o \in {o \in Getters \ {t} :
                 getAt[o] # Out /\ ~(ofSw /\ configs.local # "absent")}}
  /\ UNCHANGED <<built, raised, settings, merging>> /\ UNCHANGED givenConfigs

Build(t) ==
  /\ getAt[t][1] = "build"
  /\ \/ /\ built = "yes"
        /\ Turns(t, "ask", wants[t]) /\ UNCHANGED built
     \/ /\ built = "no" /\ configs.local = "absent"
        /\ Turns(t, "ask", wants[t]) /\ built' = "yes"
     \/ /\ built = "no" /\ configs.local # "absent"
        /\ Turns(t, "ask", "local") /\ built' = t
  /\ UNCHANGED <<raised, settings, merging, gotten>> /\ GoesOn

(* A variant that is wrong: nothing is raised, every call runs the body.    *)
RunsAlways(level) == TRUE

RunsOnce(level) == level \notin raised

AskFlag(t, level) ==
  /\ getAt[t] = <<"ask", level>>
  /\ IF RunsOnce(level)
     THEN /\ raised' = raised \union {level}
          /\ IF level = "system" THEN Turns(t, "load", level) ELSE Turns(t, "ask", Below(level))
          /\ UNCHANGED gotten
     ELSE Back(t, level) /\ UNCHANGED raised
  /\ UNCHANGED <<built, settings, merging>> /\ GoesOn

CopyUp(t, level) ==
  /\ getAt[t] = <<"copy", level>>
  /\ settings' = [settings EXCEPT ![level] = settings[Below(level)]]
  /\ IF level = "user" /\ configs.user \in {"good", "bad"}
     THEN Turns(t, "load", "user") /\ UNCHANGED gotten
     ELSE IF level = "user" /\ configs.user = "absent" /\ settings.system # NoSettings
     THEN Turns(t, "save", "user") /\ UNCHANGED gotten
     ELSE Back(t, level)
  /\ UNCHANGED <<built, raised, merging>> /\ GoesOn

(* There is no file of the user: one is made of the system's settings.      *)
SaveUser(t) ==
  /\ getAt[t] = <<"save", "user">>
  /\ \/ /\ yaml
        /\ Back(t, "user")
        /\ UNCHANGED <<built, raised, settings, merging>> /\ GoesOn
     \/ GetThrows(t)

-----------------------------------------------------------------------------
(* load(): a YAML file is merged key by key, another replaces what there is.*)

Loaded(t, level) ==
  IF level = "local"
  THEN built' = "yes" /\ Turns(t, "ask", wants[t]) /\ UNCHANGED gotten
  ELSE Back(t, level) /\ UNCHANGED built

NothingToLoad(t, level) ==
  /\ getAt[t] = <<"load", level>> /\ configs[level] = "absent"
  /\ Loaded(t, level)
  /\ UNCHANGED <<raised, settings, merging>> /\ GoesOn

LoadWhole(t, level) ==
  /\ getAt[t] = <<"load", level>> /\ configs[level] = "good" /\ ~yaml
  /\ settings' = [settings EXCEPT ![level] =
                    [k \in Keys |-> IF k \in FileKeys[level] THEN level ELSE "none"]]
  /\ Loaded(t, level)
  /\ UNCHANGED <<raised, merging>> /\ GoesOn

StartMerge(t, level) ==
  /\ getAt[t] = <<"load", level>> /\ configs[level] \in {"good", "bad"} /\ yaml
  /\ merging' = [merging EXCEPT ![t] = FileKeys[level]]
  /\ Turns(t, "merge", level)
  /\ UNCHANGED <<built, raised, settings, gotten>> /\ GoesOn

Merge(t, level) ==
  /\ getAt[t] = <<"merge", level>>
  /\ \E k \in merging[t] :
       /\ settings' = [settings EXCEPT ![level][k] = level]
       /\ merging' = [merging EXCEPT ![t] = @ \ {k}]
       /\ IF merging[t] = {k} /\ configs[level] = "good" THEN Loaded(t, level)
          ELSE UNCHANGED <<built, getAt, gotten>>
  /\ UNCHANGED raised /\ GoesOn

(* A sequence in a YAML file is found when its turn comes.                  *)
LoadThrows(t, level) ==
  /\ configs[level] = "bad"
  /\ getAt[t] = <<"merge", level>> \/ getAt[t] = <<"load", level>>
  /\ GetThrows(t)

SettingsStorageNext ==
  \E t \in Getters :
    \/ CallGet(t) \/ Build(t) \/ SaveUser(t)
    \/ \E level \in Levels :
         \/ AskFlag(t, level) \/ CopyUp(t, level)
         \/ NothingToLoad(t, level) \/ LoadWhole(t, level)
         \/ StartMerge(t, level) \/ Merge(t, level) \/ LoadThrows(t, level)

-----------------------------------------------------------------------------
SettingsStorageTypeOK ==
  /\ built \in {"no", "yes"} \union Getters
  /\ raised \subseteq Levels
  /\ settings \in [Levels -> [Keys -> Levels \union {"none"}]]
  /\ gotten \in [Getters -> {"never", "returned", "threw"}]
  /\ \A t \in Getters : merging[t] \subseteq Keys

(* The settings a call returns are those of its level's file over those of  *)
(* the levels below, whichever levels were asked for before and by whom;    *)
(* a file that is not YAML hides the levels below.  The exceptions: another *)
(* thread was in its call, other than to build the storage, or a file could *)
(* not be loaded, which only the first call says (settings.cpp:337-395,     *)
(* templates.h:28-31, sw/settings.cpp:80-96).                               *)
Layer(below, level) ==
  IF configs[level] # "good" THEN below
  ELSE [k \in Keys |-> IF k \in FileKeys[level] THEN level
                       ELSE IF yaml THEN below[k] ELSE "none"]
OfLevel(level) ==
  LET system == Layer(NoSettings, "system")
      user == Layer(system, "user")
  IN CASE level = "system" -> system
       [] level = "user" -> user
       [] level = "local" -> IF ofSw THEN Layer(user, "local") ELSE user
SettingsLayered ==
  \A t \in Getters : gotten[t] = "returned" =>
    settings[wants[t]] = OfLevel(wants[t]) \/ getMishaps # {}
=============================================================================
