------------------------------ MODULE ConfigManager ------------------------------
(***************************************************************************)
(* The configuration manager (include/hetkvcache/config.h): settings from  *)
(* files, from the environment and from code, and saved to a file.         *)
(*                                                                         *)
(* A file's texts go to a table that is never emptied; then every text of  *)
(* the table is applied, in a fixed order, and a number that is malformed  *)
(* throws in the middle.  The table still holds it for the next load.      *)
(*                                                                         *)
(* One setting stands for each way of treating one: a whole number, which  *)
(* the environment gives too, a fraction, which is saved with six digits,  *)
(* a flag, a path, and the one that files do not have.  Left out: loading  *)
(* a file that is not there; numbers that are out of range.                *)
(***************************************************************************)
EXTENDS Integers, Sequences

CONSTANTS
  Files,          \* what files give: setting -> text
  Environments,   \* what the environment may be: setting -> text
  Configs,        \* what setConfig is given
  MaxConfigCalls  \* bound: calls that change something

VARIABLES
  settings,       \* config_
  config_values_, \* setting -> text
  environment,
  saved,          \* the texts of the file saved last, none at first
  savedFrom,      \* history: what it was saved from
  configCalls

configVars == <<settings, config_values_, environment, saved, savedFrom, configCalls>>

Fractions == {"alpha"}
Numbers == {"vram_budget_mb"} \cup Fractions
Flags == {"enable_prefetch"}
Paths == {"ssd_swap_path"}
Unsaved == {"use_lockfree_monitor"}
Settings == Numbers \cup Flags \cup Paths \cup Unsaved

\* Texts of settings: numbers, flags and paths; Bad is no number, Blank a path that
\* begins with a blank, Third a fraction of more than six digits and SixDigits what
\* six digits make of it.
Bad == "bad"
Blank == " path"
Third == "0.333333343"
SixDigits == "0.333333"
Fraction(name) == IF name \in Fractions THEN {Third, SixDigits} ELSE {}

Texts(name) ==
  CASE name \in Numbers -> {"1", "2", Bad} \cup Fraction(name)
    [] name \in Flags \cup Unsaved -> {"true", "false", "1"}
    [] name \in Paths -> {"path", Blank}

Values(name) ==
  CASE name \in Numbers -> {"default", "1", "2"} \cup Fraction(name)
    [] name \in Flags \cup Unsaved -> {"true", "false"}
    [] name \in Paths -> {"default", "path", Blank}

ASSUME ConfigAssumption ==
  /\ \A texts \in Files \cup Environments :
       /\ DOMAIN texts \subseteq Settings \ Unsaved
       /\ \A name \in DOMAIN texts : texts[name] \in Texts(name)
  /\ \A config \in Configs :
       DOMAIN config = Settings /\ \A name \in Settings : config[name] \in Values(name)
  /\ MaxConfigCalls \in Nat

ConfigTypeOK ==
  /\ DOMAIN settings = Settings /\ \A name \in Settings : settings[name] \in Values(name)
  /\ DOMAIN config_values_ \subseteq Settings \ Unsaved
  /\ configCalls \in 0..MaxConfigCalls

getDefaultConfig ==
  [name \in Settings |-> IF name \in Flags \cup Unsaved THEN "true" ELSE "default"]

ConfigInit ==
  /\ settings = getDefaultConfig /\ config_values_ = <<>>
  /\ environment \in Environments
  /\ saved = <<>> /\ savedFrom = getDefaultConfig
  /\ configCalls = 0

Called ==
  /\ configCalls < MaxConfigCalls
  /\ configCalls' = configCalls + 1

-----------------------------------------------------------------------------
(* Applying texts *)

\* The order in which texts of files, and of the environment, are applied.
FileOrder == <<"vram_budget_mb", "ssd_swap_path", "alpha", "enable_prefetch">>
EnvOrder == <<"vram_budget_mb", "ssd_swap_path", "enable_prefetch">>

Malformed(texts, name) == name \in Numbers \cap DOMAIN texts /\ texts[name] = Bad

\* The settings of order that come before the first malformed one.
Reached(texts, order) ==
  {order[i] : i \in {j \in DOMAIN order : \A k \in 1..j : ~Malformed(texts, order[k])}}

\* A flag of a file is set by "true" only, one of the environment also by "1".
FileValue(name, text) == IF name \in Flags /\ text # "true" THEN "false" ELSE text
EnvValue(name, text) ==
  IF name \in Flags THEN IF text \in {"1", "true"} THEN "true" ELSE "false" ELSE text

\* applyToConfig.
AppliedToConfig(config, texts) ==
  [name \in Settings |->
     IF name \in DOMAIN texts \cap Reached(texts, FileOrder)
     THEN FileValue(name, texts[name]) ELSE config[name]]

\* Lines lose the blanks around their texts.
Stripped(text) == IF text = Blank THEN "path" ELSE text

\* The table after a file with these texts was read.
Remembered(texts) ==
  [name \in DOMAIN config_values_ \cup DOMAIN texts |->
     IF name \in DOMAIN texts THEN Stripped(texts[name]) ELSE config_values_[name]]

loadFromFile(texts) ==
  /\ Called
  /\ config_values_' = Remembered(texts)
  /\ settings' = AppliedToConfig(settings, Remembered(texts))
  /\ UNCHANGED <<environment, saved, savedFrom>>

\* The table does not learn of these values.
loadFromEnv ==
  /\ Called
  /\ settings' = [name \in Settings |->
       IF name \in DOMAIN environment \cap Reached(environment, EnvOrder)
       THEN EnvValue(name, environment[name]) ELSE settings[name]]
  /\ UNCHANGED <<config_values_, environment, saved, savedFrom>>

setConfig(config) ==
  /\ Called
  /\ settings' = config
  /\ UNCHANGED <<config_values_, environment, saved, savedFrom>>

-----------------------------------------------------------------------------
(* Saving *)

\* Fault: a setting is forgotten.
AlphaForgotten == {"vram_budget_mb", "ssd_swap_path", "enable_prefetch"}

SavedNames == Settings \ Unsaved

\* Fractions are written with six digits, everything else in full.
Printed(value) == IF value = Third THEN SixDigits ELSE value

saveToFile ==
  /\ Called
  /\ saved' = [name \in SavedNames |-> Printed(settings[name])]
  /\ savedFrom' = settings
  /\ UNCHANGED <<settings, config_values_, environment>>

-----------------------------------------------------------------------------
ConfigNext ==
  \/ \E texts \in Files \cup {saved} : loadFromFile(texts)
  \/ loadFromEnv
  \/ \E config \in Configs : setConfig(config)
  \/ saveToFile

ConfigSpec == ConfigInit /\ [][ConfigNext]_configVars

-----------------------------------------------------------------------------
(* Properties *)

\* What comes of a value that is saved and loaded.
Reloaded(value) == Stripped(Printed(value))

\* A file that was saved brings its settings back into any manager that loads it,
\* whatever that has loaded, been set to or failed to load before, a malformed
\* text in its table included.  What is lost is the blanks around a path and the
\* digits of a fraction beyond the sixth, and they are lost once: what was loaded
\* can be saved and loaded again without losing more.
SavedConfigLoads ==
  saved # <<>> =>
    LET after == AppliedToConfig(settings, Remembered(saved))
    IN \A name \in Settings \ Unsaved :
         /\ after[name] = Reloaded(savedFrom[name])
         /\ Reloaded(after[name]) = after[name]

=============================================================================
