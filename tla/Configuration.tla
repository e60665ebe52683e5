---------------------------- MODULE Configuration ----------------------------
(***************************************************************************)
(* Loading a configuration file (config/config.go).  A document is what    *)
(* the file holds: whether it is YAML, its providers and its settings.  A  *)
(* field of a provider is a text, or refers to a variable of the           *)
(* environment and says what to take when that is empty.                   *)
(***************************************************************************)
EXTENDS Sequences

CONSTANTS
  Env,        \* the environment: a text for every variable
  NoVar,      \* in place of a variable, for a field that is a text
  Urls,       \* the texts that start with http:// or https://
  Default,    \* of every setting
  NoConfig    \* in place of a configuration, when loading fails

Zero == ""    \* a setting that the document does not set
Required == {"name", "apiKey", "endpoint", "model"}

expandEnvVars(field) ==
  IF field.var = NoVar \/ Env[field.var] = "" THEN field.text ELSE Env[field.var]

ApplyDefaults(settings) ==
  [s \in DOMAIN Default |-> IF settings[s] = Zero THEN Default[s] ELSE settings[s]]

Validate(cfg) ==
  /\ cfg.providers # <<>>
  /\ cfg.settings.addr # ""
  /\ \A i \in DOMAIN cfg.providers :
       /\ \A f \in Required : cfg.providers[i][f] # ""
       /\ cfg.providers[i].endpoint \in Urls

LoadConfig(doc) ==
  LET cfg == [providers |-> [i \in DOMAIN doc.providers |->
                               [f \in Required |-> expandEnvVars(doc.providers[i][f])]],
              settings |-> ApplyDefaults(doc.settings)]
  IN  IF doc.yaml /\ Validate(cfg) THEN cfg ELSE NoConfig

=============================================================================
